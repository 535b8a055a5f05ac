-------------------------- MODULE TranscribePipeline ---------------------------
(***************************************************************************)
(* AsyncTranscribePipeline::transcribe_many (vasr-transcribe, pipeline.rs): *)
(* one call, its inputs deduplicated, then three stages on tasks of their   *)
(* own, joined by bounded channels                                          *)
(*                                                                         *)
(*    loader --loaded--> VAD --asr--> ASR worker --> outcomes               *)
(*                                                                         *)
(* The loader and the VAD stage work on several inputs at a time.  The VAD  *)
(* task of an input sends one message per speech segment, or one for the    *)
(* whole input; the ASR worker collects messages of one sort into a batch   *)
(* and stashes those of the other sort.                                     *)
(*                                                                         *)
(* Inputs are numbered from 1.  A timeline is the bag of what was put into  *)
(* it: Speech for the VAD's annotations, k for the transcription of the     *)
(* k-th segment, which is taken never to be empty.  (Its order is that of   *)
(* the batches.)  The pipeline has a VAD model, as build_offline_pipeline   *)
(* always gives it one.                                                     *)
(***************************************************************************)
EXTENDS Integers, Sequences, FiniteSets, Bags, Functions

CONSTANTS
  Calls,         \* the sequences of sources a call may be given
  Buffer,        \* stage_buffer: both channels, the tasks of a stage, the batch
  MaxSegments,   \* bound: segments the VAD finds in one input
  Failing        \* stages that may fail

ASSUME PipelineAssumption ==
  /\ Buffer \in Nat \ {0}
  /\ MaxSegments \in Nat \ {0}
  /\ Failing \subseteq {"loader", "vad", "recognizer"}
  /\ \A call \in Calls : call # <<>> /\ call \in Seq(Range(call))

VARIABLES
  sources,   \* the inputs of the call
  phase,     \* where transcribe_many is: "called", "waiting" or "returned"
  todo,      \* inputs the loader has not started on, the first of them next
  loading,   \* inputs in the loader's JoinSet
  loaded,    \* the channel from loader to VAD stage
  vad,       \* input -> messages its running VAD task has still to send
  asr,       \* the channel from VAD stage to ASR worker
  worker,    \* what the ASR worker does: "receiving", collecting "jobs" or "segments"
  batch,     \* what it has collected
  pending,   \* what it has stashed
  open,      \* SegmentAsrState: input -> its timeline so far and segments done
  outcomes,  \* what the ASR worker sent; when returned, what the caller got
  heard      \* history: input -> number of segments of its speech, once known

vars == <<sources, phase, todo, loading, loaded, vad, asr, worker, batch, pending,
          open, outcomes, heard>>

Inputs == DOMAIN sources
Speech == 0

\* seen.get(&key): the first input with the same source.
Canonical(i) == CHOOSE j \in Inputs :
  sources[j] = sources[i] /\ \A k \in 1 .. j-1 : sources[k] # sources[i]

\* deduplicate_transcribe_inputs
UniqueInputs == {i \in Inputs : Canonical(i) = i}

\* AsrPipelineMessage, or the outcome of a stage that failed, sorted by the stage.
Job(i, n)        == [input |-> i, sort |-> "job", part |-> 1, of |-> n]
Segment(i, k, n) == [input |-> i, sort |-> "segment", part |-> k, of |-> n]
Failure(i, at)   == [input |-> i, sort |-> at, part |-> 0, of |-> 0]
IsFailure(m)     == m.sort \in {"loader", "vad"}

\* TranscribeItemOutcome: bad_component is the stage that failed, if one did.
Ok(i, timeline) == [index |-> i, bad_component |-> "none", timeline |-> timeline]
Failed(i, at)   == [index |-> i, bad_component |-> at, timeline |-> EmptyBag]

\* OfflinePipeline::transcribe_prepared: the VAD's annotations, then the segments.
WholeTimeline(n) == IF n = 0 THEN EmptyBag ELSE SetToBag({Speech} \cup 1 .. n)

Init ==
  /\ sources \in Calls
  /\ phase = "called"
  /\ todo = {}
  /\ loading = {}
  /\ loaded = <<>>
  /\ vad = <<>>
  /\ asr = <<>>
  /\ worker = "receiving"
  /\ batch = <<>>
  /\ pending = <<>>
  /\ open = <<>>
  /\ outcomes = EmptyBag
  /\ heard = [i \in Inputs |-> 0]

stages == <<loaded, vad, asr, worker, batch, pending, open>>

--------------------------------------------------------------------------------
\* expand_duplicate_outcomes: a copy of the first outcome of the canonical input, if
\* it has one.  (The sort by index is left out: outcomes are a bag.)
Expand(results) ==
  LET of(i)  == {o \in DOMAIN results : o.index = Canonical(i)}
      copies == {[(CHOOSE o \in of(i) : TRUE) EXCEPT !.index = i] :
                 i \in {j \in Inputs : Canonical(j) # j /\ of(j) # {}}}
  IN  results (+) SetToBag(copies)

\* transcribe_many spawns the stages when there are several inputs left.
Start ==
  /\ phase = "called"
  /\ Cardinality(UniqueInputs) > 1
  /\ todo' = UniqueInputs
  /\ phase' = "waiting"
  /\ UNCHANGED <<sources, loading, outcomes, heard, stages>>

\* transcribe_single: one input goes through load and transcribe_with_vad_options,
\* whose failures are all the recogniser's, the VAD's included.
Single ==
  /\ phase = "called"
  /\ Cardinality(UniqueInputs) = 1
  /\ \E n \in 0 .. MaxSegments :
       /\ heard' = [heard EXCEPT ![1] = n]
       /\ \/ outcomes' = Expand(SetToBag({Ok(1, WholeTimeline(n))}))
          \/ \E at \in {IF f = "vad" THEN "recognizer" ELSE f : f \in Failing} :
               outcomes' = Expand(SetToBag({Failed(1, at)}))
  /\ phase' = "returned"
  /\ UNCHANGED <<sources, todo, loading, stages>>

--------------------------------------------------------------------------------
\* spawn_loader_worker: start loads until Buffer are under way, ...
SpawnLoad ==
  /\ Cardinality(loading) < Buffer
  /\ \E i \in todo :
       /\ \A j \in todo : i <= j
       /\ loading' = loading \cup {i}
       /\ todo' = todo \ {i}
  /\ UNCHANGED <<sources, phase, outcomes, heard, stages>>

\* ... then join one that is finished, whichever it is, and send it on, with room.
SendLoaded(i) ==
  /\ i \in loading
  /\ Cardinality(loading) >= Buffer \/ todo = {}
  /\ Len(loaded) < Buffer
  /\ loading' = loading \ {i}
  /\ \/ loaded' = Append(loaded, Job(i, 0))
     \/ "loader" \in Failing /\ loaded' = Append(loaded, Failure(i, "loader"))
  /\ UNCHANGED <<sources, phase, todo, vad, asr, worker, batch, pending, open, outcomes, heard>>

\* spawn_vad_worker passes a failure on, ...
ForwardFailure ==
  /\ loaded # <<>>
  /\ IsFailure(Head(loaded))
  /\ Cardinality(DOMAIN vad) < Buffer
  /\ Len(asr) < Buffer
  /\ asr' = Append(asr, Head(loaded))
  /\ loaded' = Tail(loaded)
  /\ UNCHANGED <<sources, phase, todo, loading, vad, worker, batch, pending, open, outcomes, heard>>

\* spawn_vad_task: what prepare_vad_stage may make of input i.  Speech that covers the
\* whole input is one job, as is an input without speech.
Preparations(i) ==
  {<<Job(i, 0)>>, <<Job(i, 1)>>}
  \cup {[k \in 1 .. n |-> Segment(i, k, n)] : n \in 1 .. MaxSegments}
  \cup (IF "vad" \in Failing THEN {<<Failure(i, "vad")>>} ELSE {})

\* ... and spawns a task for a job, unless Buffer of them are running.  (A task that
\* has finished stays in the JoinSet only until the next one is spawned.)
SpawnVad ==
  /\ loaded # <<>>
  /\ Head(loaded).sort = "job"
  /\ Cardinality(DOMAIN vad) < Buffer
  /\ LET i == Head(loaded).input
     IN  \E messages \in Preparations(i) :
           /\ vad' = [j \in DOMAIN vad \cup {i} |-> IF j = i THEN messages ELSE vad[j]]
           /\ heard' = [heard EXCEPT ![i] = Head(messages).of]
  /\ loaded' = Tail(loaded)
  /\ UNCHANGED <<sources, phase, todo, loading, asr, worker, batch, pending, open, outcomes>>

\* send_message, with room; the task ends with its last message.
SendPrepared(i) ==
  /\ i \in DOMAIN vad
  /\ Len(asr) < Buffer
  /\ asr' = Append(asr, Head(vad[i]))
  /\ vad' = IF Len(vad[i]) = 1
            THEN [j \in DOMAIN vad \ {i} |-> vad[j]]
            ELSE [vad EXCEPT ![i] = Tail(@)]
  /\ UNCHANGED <<sources, phase, todo, loading, loaded, worker, batch, pending, open, outcomes, heard>>

\* The loader and the VAD stage have ended, and every sender of asr is dropped.
AsrClosed ==
  /\ phase = "waiting"
  /\ todo = {}
  /\ loading = {}
  /\ loaded = <<>>
  /\ DOMAIN vad = {}

--------------------------------------------------------------------------------
\* recv_asr_message takes the stash before the channel; a failure is sent on, a job or
\* a segment starts a batch of its sort.
Receive ==
  /\ worker = "receiving"
  /\ \/ pending # <<>> /\ pending' = Tail(pending) /\ UNCHANGED asr
     \/ pending = <<>> /\ asr # <<>> /\ asr' = Tail(asr) /\ UNCHANGED pending
  /\ LET m == Head(pending \o asr)
     IN  IF IsFailure(m)
         THEN /\ outcomes' = outcomes (+) SetToBag({Failed(m.input, m.sort)})
              /\ UNCHANGED <<worker, batch>>
         ELSE /\ worker' = IF m.sort = "job" THEN "jobs" ELSE "segments"
              /\ batch' = <<m>>
              /\ UNCHANGED outcomes
  /\ UNCHANGED <<sources, phase, todo, loading, loaded, vad, open, heard>>

\* Mutant: the segment is dropped.
CollectJobDropping ==
  /\ worker = "jobs"
  /\ Len(batch) < Buffer
  /\ asr # <<>>
  /\ asr' = Tail(asr)
  /\ batch' = IF Head(asr).sort = "segment" THEN batch ELSE Append(batch, Head(asr))
  /\ UNCHANGED <<sources, phase, todo, loading, loaded, vad, worker, pending, open, outcomes, heard>>

\* collect_job_microbatch: jobs and failures are collected, segments stashed.
CollectJob ==
  /\ worker = "jobs"
  /\ Len(batch) < Buffer
  /\ asr # <<>>
  /\ asr' = Tail(asr)
  /\ IF Head(asr).sort = "segment"
     THEN pending' = Append(pending, Head(asr)) /\ UNCHANGED batch
     ELSE batch' = Append(batch, Head(asr)) /\ UNCHANGED pending
  /\ UNCHANGED <<sources, phase, todo, loading, loaded, vad, worker, open, outcomes, heard>>

\* collect_segment_microbatch: the other way round.
CollectSegment ==
  /\ worker = "segments"
  /\ Len(batch) < Buffer
  /\ asr # <<>>
  /\ asr' = Tail(asr)
  /\ IF Head(asr).sort = "segment"
     THEN batch' = Append(batch, Head(asr)) /\ UNCHANGED pending
     ELSE pending' = Append(pending, Head(asr)) /\ UNCHANGED batch
  /\ UNCHANGED <<sources, phase, todo, loading, loaded, vad, worker, open, outcomes, heard>>

InputsOf(some) == {m.input : m \in some}

\* Mutant: the batch waits until it is full.
JobsReadyWhenFull == Len(batch) >= Buffer

\* Without a timeout: full, or every sender is gone.
JobsReady == Len(batch) >= Buffer \/ (asr = <<>> /\ AsrClosed)

\* run_asr_jobs_batch: no recognition for inputs without speech; the others succeed or
\* fail together.
RunJobs ==
  /\ worker = "jobs"
  /\ JobsReady
  /\ LET failures == {Failed(m.input, m.sort) : m \in {b \in Range(batch) : IsFailure(b)}}
         done(m)  == Ok(m.input, WholeTimeline(m.of))
         jobs     == {m \in Range(batch) : m.sort = "job"}
         silent   == {m \in jobs : m.of = 0}
         raw      == jobs \ silent
         sent     == failures \cup {done(m) : m \in silent}
     IN  \/ outcomes' = outcomes (+) SetToBag(sent \cup {done(m) : m \in raw})
         \/ /\ "recognizer" \in Failing /\ raw # {}
            /\ outcomes' = outcomes (+) SetToBag(sent \cup {Failed(m.input, "recognizer") : m \in raw})
  /\ worker' = "receiving"
  /\ batch' = <<>>
  /\ UNCHANGED <<sources, phase, todo, loading, loaded, vad, asr, pending, open, heard>>

\* prepare_segment_job_state: an entry for every input of the batch.  The first segment
\* brings the VAD's annotations; they are put into a timeline that is still empty.
Prepared(i) ==
  LET old   == IF i \in DOMAIN open THEN open[i] ELSE [timeline |-> EmptyBag, done |-> 0]
      first == \E m \in Range(batch) : m.input = i /\ m.part = 1
  IN  IF first /\ old.timeline = EmptyBag THEN [old EXCEPT !.timeline = SetToBag({Speech})]
      ELSE old

\* The places of input i in the batch, and its segments that are there, counted.
PlacesOf(i) == {p \in DOMAIN batch : batch[p].input = i}
Segments(i) == [k \in {batch[p].part : p \in PlacesOf(i)} |->
                  Cardinality({p \in PlacesOf(i) : batch[p].part = k})]

\* Mutant: one segment short.
ExtendedEarly(i) ==
  [timeline |-> Prepared(i).timeline (+) Segments(i),
   done     |-> Prepared(i).done + Cardinality(PlacesOf(i)) + 1]

\* finish_segment_asr_batch, when recognition succeeded.
Extended(i) ==
  [timeline |-> Prepared(i).timeline (+) Segments(i),
   done     |-> Prepared(i).done + Cardinality(PlacesOf(i))]

\* finish_segment_asr_batch, when it failed: the inputs of the batch fail and their
\* entries go, those of segments that are still to come included.
DropFailed ==
  /\ outcomes' = outcomes (+) SetToBag({Failed(i, "recognizer") : i \in InputsOf(Range(batch))})
  /\ open' = [i \in DOMAIN open \ InputsOf(Range(batch)) |-> open[i]]

\* An input is complete when as many segments as it has are done.
ExtendOpen ==
  LET now      == [i \in DOMAIN open \cup InputsOf(Range(batch)) |->
                    IF i \in InputsOf(Range(batch)) THEN Extended(i) ELSE open[i]]
      complete == {m.input : m \in {b \in Range(batch) : now[b.input].done >= b.of}}
  IN  /\ outcomes' = outcomes (+) SetToBag({Ok(i, now[i].timeline) : i \in complete})
      /\ open' = [i \in DOMAIN now \ complete |-> now[i]]

\* The batch is full, or the channel has been empty for COLLECT_WAIT_MS or is closed;
\* prepare_segment_job_state, recognition and finish_segment_asr_batch follow.
RunSegments ==
  /\ worker = "segments"
  /\ Len(batch) >= Buffer \/ asr = <<>>
  /\ ExtendOpen \/ ("recognizer" \in Failing /\ DropFailed)
  /\ worker' = "receiving"
  /\ batch' = <<>>
  /\ UNCHANGED <<sources, phase, todo, loading, loaded, vad, asr, pending, heard>>

\* The worker has ended, result_rx is closed, and transcribe_many returns.
Return ==
  /\ AsrClosed
  /\ worker = "receiving"
  /\ pending = <<>>
  /\ asr = <<>>
  /\ outcomes' = Expand(outcomes)
  /\ phase' = "returned"
  /\ UNCHANGED <<sources, todo, loading, heard, stages>>

--------------------------------------------------------------------------------
Loader == SpawnLoad \/ \E i \in loading : SendLoaded(i)
VadStage == ForwardFailure \/ SpawnVad
AsrWorker == Receive \/ CollectJob \/ CollectSegment \/ RunJobs \/ RunSegments

Next ==
  \/ Start \/ Single
  \/ Loader
  \/ VadStage
  \/ \E i \in DOMAIN vad : SendPrepared(i)
  \/ AsrWorker
  \/ Return

Spec == Init /\ [][Next]_vars

\* The runtime polls every task that can run, timers fire, and loads, VAD and recognition
\* return.  A call has finitely many steps, so no stage can be overtaken for ever and
\* fairness of Next as a whole is enough.
FairSpec == Spec /\ WF_vars(Next)

--------------------------------------------------------------------------------
Messages == {Failure(i, at) : i \in Inputs, at \in {"loader", "vad"}} \cup {Job(i, n) : i \in Inputs, n \in 0 .. 1}
            \cup {Segment(i, k, n) : i \in Inputs, k \in 1 .. MaxSegments, n \in 1 .. MaxSegments}

\* The shape of the state; channels and batches are within their capacity.
TypeOK ==
  /\ phase \in {"called", "waiting", "returned"}
  /\ todo \subseteq Inputs /\ loading \subseteq Inputs
  /\ loaded \in Seq(Messages) /\ Len(loaded) <= Buffer
  /\ DOMAIN vad \subseteq Inputs /\ \A i \in DOMAIN vad : vad[i] \in Seq(Messages) \ {<<>>}
  /\ asr \in Seq(Messages) /\ Len(asr) <= Buffer
  /\ worker \in {"receiving", "jobs", "segments"}
  /\ batch \in Seq(Messages) /\ Len(batch) <= Buffer
  /\ pending \in Seq(Messages)
  /\ DOMAIN open \subseteq Inputs
  /\ \A i \in DOMAIN open : open[i].done \in 0 .. MaxSegments
  /\ IsABag(outcomes)
  /\ heard \in [Inputs -> 0 .. MaxSegments]

OutcomesOf(i) == {o \in DOMAIN outcomes : o.index = i}

\* The state has its shape, channels and batches being within their capacity.  However the
\* stages interleave and whatever fails, no input of the call is left without an outcome:
\* none is forgotten in a stash, a batch or a segment entry.  And only recognition, which
\* sees an input in pieces, may answer it more than once: an input that succeeded, or
\* failed to load or in the VAD, has that one outcome, and after a batch of an input
\* failed, its later segments never complete it (transcribe_many).
EveryInputAnswered ==
  /\ TypeOK
  /\ phase = "returned" => \A i \in Inputs : OutcomesOf(i) # {}
  /\ \A o \in DOMAIN outcomes :
       o.bad_component # "recognizer" => OutcomesOf(o.index) = {o} /\ outcomes[o] = 1

\* An input that succeeded has every one of its segments in its timeline exactly once,
\* and nothing else but the VAD's annotations, even if some of its segments were
\* recognised in different batches.  A duplicate has those of its original.
OkIsWhole ==
  \A o \in DOMAIN outcomes :
    o.bad_component = "none" =>
      /\ BagToSet(o.timeline) \ {Speech} = 1 .. heard[Canonical(o.index)]
      /\ \A k \in 1 .. heard[Canonical(o.index)] : o.timeline[k] = 1

\* transcribe_many returns: the stages never wait for each other in a circle, although
\* a job batch waits for more messages without a timeout and every channel is bounded.
CallReturns == <>(phase = "returned")
================================================================================
