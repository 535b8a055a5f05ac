------------------------------ MODULE OfflineAsync ------------------------------
(* AsyncOfflinePipeline (vasr-runtime/src/pipeline/async.rs): a task detects   *)
(* speech in one waveform after the other and sends jobs, or one message for   *)
(* every speech segment, down a bounded channel; a second task collects        *)
(* micro-batches of jobs or of segments of several waveforms, recognises them  *)
(* together and puts the segments of a waveform back together; the caller      *)
(* collects the results.  Whatever fails, the call returns, and it returns     *)
(* what the pipeline without tasks would have (OfflineCall).                   *)
EXTENDS OfflineCall, FiniteSets, SequencesExt

CONSTANTS
    WaveCalls,      \* the waveforms of the calls
    StageBuffer,    \* stage_buffer
    MaxBatch        \* max_batch_size

ASSUME AsyncAssumption ==
    /\ StageBuffer \in Nat /\ MaxBatch \in Nat
    /\ Pad \in Nat /\ CoverGap \in Nat /\ MergeGap \in Nat /\ MergeMax \in Nat
    /\ \A ws \in WaveCalls : /\ ws \in Seq([dur : Nat, segs : Seq([start : Nat, end : Nat])])
                             /\ \A i \in 1..Len(ws) : InOrder(ws[i])

VARIABLES
    upcoming,   \* the waveform spawn_vad_worker is at
    toSend,     \* the messages of it not yet sent
    vad,        \* "running", "done" or "failed"
    chan,       \* the channel between the tasks
    pending,    \* VecDeque of the ASR task: a message of the other kind
    batch,      \* the micro-batch being collected or recognised
    asr,        \* "waiting", "collecting", "running" or "done"
    segments,   \* SegmentAsrState: job -> state
    results     \* what the caller has collected

taskVars == <<upcoming, toSend, vad, chan, pending, batch, asr, segments, results>>
asyncVars == <<detector, waves, broken, returned, taskVars>>

Jobs == 1..Len(waves)

(* The messages for a waveform: one job, or a message a segment of which the   *)
(* first carries the speech annotations (speech_job_to_segments).              *)
MessagesOf(i) ==
    IF Preparation(waves[i]) # "Speech"
    THEN <<[kind |-> "job", index |-> i]>>
    ELSE LET ranges == Ranges(waves[i])
         IN [k \in 1..Len(ranges) |->
               [kind |-> "segment", index |-> i, count |-> Len(ranges), range |-> ranges[k],
                speech |-> IF k = 1 THEN SpeechAnnotations(waves[i]) ELSE <<>>]]

AsyncInit ==
    /\ CallInit(WaveCalls)
    /\ upcoming = 1 /\ toSend = <<>> /\ vad = "running"
    /\ chan = <<>> /\ pending = <<>> /\ batch = <<>> /\ asr = "waiting"
    /\ segments = <<>> /\ results = <<>>

(* transcribe_many of a single waveform: the pipeline without tasks *)
Single ==
    /\ returned = NoAnswer /\ Len(waves) = 1
    /\ \/ Return
       \/ FailAndReturn
    /\ UNCHANGED taskVars

(* prepare_vad_stage of the next waveform *)
Detect ==
    /\ Len(waves) > 1 /\ vad = "running" /\ toSend = <<>> /\ upcoming <= Len(waves)
    /\ toSend' = MessagesOf(upcoming)
    /\ upcoming' = upcoming + 1
    /\ UNCHANGED <<detector, waves, broken, returned, vad, chan, pending, batch, asr,
                   segments, results>>

(* the detector fails: the task ends and drops its end of the channel *)
DetectFails ==
    /\ detector /\ Len(waves) > 1 /\ vad = "running" /\ toSend = <<>> /\ upcoming <= Len(waves)
    /\ vad' = "failed" /\ broken' = TRUE
    /\ UNCHANGED <<detector, waves, returned, upcoming, toSend, chan, pending, batch, asr,
                   segments, results>>

Buffer == IF StageBuffer = 0 THEN 1 ELSE StageBuffer

Send ==
    /\ vad = "running" /\ toSend # <<>> /\ Len(chan) < Buffer
    /\ chan' = Append(chan, Head(toSend))
    /\ toSend' = Tail(toSend)
    /\ UNCHANGED <<detector, waves, broken, returned, upcoming, vad, pending, batch, asr,
                   segments, results>>

VadDone ==
    /\ Len(waves) > 1 /\ vad = "running" /\ toSend = <<>> /\ upcoming > Len(waves)
    /\ vad' = "done"
    /\ UNCHANGED <<detector, waves, broken, returned, upcoming, toSend, chan, pending, batch,
                   asr, segments,
                   results>>

Closed == vad # "running" /\ chan = <<>>
Cap == IF MaxBatch = 0 THEN 1 ELSE MaxBatch

(* recv_asr_message: a message put back comes first *)
ReceiveMessage ==
    /\ asr = "waiting"
    /\ \/ pending # <<>> /\ batch' = <<Head(pending)>> /\ pending' = Tail(pending)
          /\ UNCHANGED chan
       \/ pending = <<>> /\ chan # <<>> /\ batch' = <<Head(chan)>> /\ chan' = Tail(chan)
          /\ UNCHANGED pending
    /\ asr' = "collecting"
    /\ UNCHANGED <<detector, waves, broken, returned, upcoming, toSend, vad, segments, results>>

(* collect_job_microbatch, collect_segment_microbatch: wait for messages of    *)
(* the same kind until the batch is full, the kind changes or the channel is   *)
(* closed                                                                      *)
Collect ==
    /\ asr = "collecting" /\ Len(batch) < Cap /\ chan # <<>>
    /\ \/ /\ Head(chan).kind = batch[1].kind
          /\ batch' = Append(batch, Head(chan))
          /\ UNCHANGED <<asr, pending>>
       \/ /\ Head(chan).kind # batch[1].kind
          /\ pending' = <<Head(chan)>> \o pending
          /\ asr' = "running" /\ UNCHANGED batch
    /\ chan' = Tail(chan)
    /\ UNCHANGED <<detector, waves, broken, returned, upcoming, toSend, vad, segments, results>>

(* Mutant of Collected: the end of the channel does not end a batch.           *)
CollectedFull ==
    /\ asr = "collecting" /\ Len(batch) >= Cap
    /\ asr' = "running"
    /\ UNCHANGED <<detector, waves, broken, returned, upcoming, toSend, vad, chan, pending, batch,
                   segments, results>>

Collected ==
    /\ asr = "collecting" /\ (Len(batch) >= Cap \/ Closed)
    /\ asr' = "running"
    /\ UNCHANGED <<detector, waves, broken, returned, upcoming, toSend, vad, chan, pending,
                   batch, segments,
                   results>>

Ready(i, timeline) == [index |-> i, ok |-> TRUE, timeline |-> timeline]
Failed(i) == [index |-> i, ok |-> FALSE, timeline |-> <<>>]

(* the batch is done and its results sent *)
Deliver(rs) ==
    /\ results' = results \o rs
    /\ batch' = <<>> /\ asr' = "waiting"
    /\ UNCHANGED <<detector, waves, returned, upcoming, toSend, vad, chan, pending>>

(* what the jobs of a batch that need a recogniser hear *)
Silent(m) == Preparation(waves[m.index]) = "NoSpeech"

(* run_asr_jobs_batch with a recogniser that answers; a waveform without       *)
(* speech needs none, one that is all speech keeps its annotations             *)
RunJobs ==
    /\ asr = "running" /\ batch[1].kind = "job"
    /\ Deliver([k \in 1..Len(batch) |->
            Ready(batch[k].index,
                  IF Silent(batch[k]) THEN <<>>
                  ELSE (IF Preparation(waves[batch[k].index]) = "FullSpeech"
                        THEN SpeechAnnotations(waves[batch[k].index]) ELSE <<>>)
                       \o <<TextOf(Whole(waves[batch[k].index]))>>)])
    /\ UNCHANGED <<broken, segments>>

(* the recogniser fails or answers for too few: every job that needed it fails *)
RunJobsFails ==
    /\ asr = "running" /\ batch[1].kind = "job"
    /\ \E k \in 1..Len(batch) : ~Silent(batch[k])
    /\ Deliver([k \in 1..Len(batch) |->
            IF Silent(batch[k]) THEN Ready(batch[k].index, <<>>) ELSE Failed(batch[k].index)])
    /\ broken' = TRUE /\ UNCHANGED segments

(* the blocking task ends in a join error: one failure is reported, for the    *)
(* first waveform                                                              *)
RunJobsPanics ==
    /\ asr = "running" /\ batch[1].kind = "job"
    /\ Deliver(<<Failed(1)>>)
    /\ broken' = TRUE /\ UNCHANGED segments

(* prepare_segment_job_state for one segment *)
Opened(jobs, m) ==
    LET entry == IF m.index \in DOMAIN jobs THEN jobs[m.index]
                 ELSE [speech |-> m.speech, timeline |-> <<>>, count |-> m.count, done |-> 0]
        speech == IF m.speech # <<>> THEN m.speech ELSE entry.speech
    IN [i \in DOMAIN jobs \cup {m.index} |->
          IF i # m.index THEN jobs[i]
          ELSE [speech |-> speech, count |-> m.count, done |-> entry.done,
                timeline |-> IF entry.timeline = <<>> THEN speech ELSE entry.timeline]]

Without(jobs, i) == [j \in DOMAIN jobs \ {i} |-> jobs[j]]

(* Mutant of Finished: a waveform is ready one segment early.                  *)
FinishedEarly(acc, m) ==
    IF m.index \notin DOMAIN acc.jobs THEN acc
    ELSE LET job == acc.jobs[m.index]
             more == [job EXCEPT !.timeline = Append(@, TextOf(m.range)), !.done = @ + 1]
         IN IF more.done >= more.count - 1
            THEN [jobs |-> Without(acc.jobs, m.index),
                  ready |-> Append(acc.ready, Ready(m.index, more.timeline))]
            ELSE [acc EXCEPT !.jobs[m.index] = more]

(* finish_segment_asr_batch for one recognised segment *)
Finished(acc, m) ==
    IF m.index \notin DOMAIN acc.jobs THEN acc
    ELSE LET job == acc.jobs[m.index]
             more == [job EXCEPT !.timeline = Append(@, TextOf(m.range)), !.done = @ + 1]
         IN IF more.done >= more.count
            THEN [jobs |-> Without(acc.jobs, m.index),
                  ready |-> Append(acc.ready, Ready(m.index, more.timeline))]
            ELSE [acc EXCEPT !.jobs[m.index] = more]

OpenedAll ==
    LET after[k \in 0..Len(batch)] ==
            IF k = 0 THEN segments ELSE Opened(after[k - 1], batch[k])
    IN after[Len(batch)]

FinishedAll(jobs) ==
    LET after[k \in 0..Len(batch)] ==
            IF k = 0 THEN [jobs |-> jobs, ready |-> <<>>] ELSE Finished(after[k - 1], batch[k])
    IN after[Len(batch)]

RunSegments ==
    /\ asr = "running" /\ batch[1].kind = "segment"
    /\ \E acc \in {FinishedAll(OpenedAll)} : Deliver(acc.ready) /\ segments' = acc.jobs
    /\ UNCHANGED broken

(* the recogniser fails, panics or answers for too few: the waveforms of the   *)
(* batch fail, in any order, and their states are dropped; a segment that      *)
(* arrives later opens a new one                                               *)
RunSegmentsFails ==
    /\ asr = "running" /\ batch[1].kind = "segment"
    /\ \E affected \in {{batch[k].index : k \in 1..Len(batch)}} :
         /\ \E order \in [1..Cardinality(affected) -> affected] :
              /\ {order[k] : k \in DOMAIN order} = affected
              /\ Deliver([k \in DOMAIN order |-> Failed(order[k])])
         /\ segments' = [i \in DOMAIN OpenedAll \ affected |-> OpenedAll[i]]
    /\ broken' = TRUE

AsrDone ==
    /\ Len(waves) > 1 /\ asr = "waiting" /\ pending = <<>> /\ Closed
    /\ asr' = "done"
    /\ UNCHANGED <<detector, waves, broken, returned, upcoming, toSend, vad, chan, pending,
                   batch, segments,
                   results>>

(* the results by index; one failure fails the call, and so does the detector  *)
CollectResults ==
    /\ returned = NoAnswer /\ asr = "done"
    /\ returned' =
         IF vad = "failed" \/ \E k \in DOMAIN results : ~results[k].ok THEN Error
         ELSE Timelines([r \in 1..Len(results) |->
                results[CHOOSE k \in DOMAIN results :
                    Cardinality({j \in DOMAIN results :
                        \/ results[j].index < results[k].index
                        \/ results[j].index = results[k].index /\ j < k}) = r - 1].timeline])
    /\ UNCHANGED <<detector, waves, broken, taskVars>>

VadTask == Detect \/ DetectFails \/ Send \/ VadDone
AsrTask ==
    \/ ReceiveMessage \/ Collect \/ Collected \/ RunJobs \/ RunJobsFails \/ RunJobsPanics
    \/ RunSegments \/ RunSegmentsFails \/ AsrDone
CallerTask == Single \/ CollectResults

AsyncNext == VadTask \/ AsrTask \/ CallerTask

(* the tasks are spawned on the runtime and the caller is awaited *)
Fairness == WF_asyncVars(VadTask) /\ WF_asyncVars(AsrTask) /\ WF_asyncVars(CallerTask)

AsyncSpec == AsyncInit /\ [][AsyncNext]_asyncVars /\ Fairness

-----------------------------------------------------------------------------
(* Properties *)

(* The answer of the tasks is the answer of OfflinePipeline: a timeline for    *)
(* every waveform in the order of the call, its segments recognised once, in   *)
(* place and after its speech annotations, or an error exactly when a model    *)
(* failed, whatever was batched with what.                                     *)
AsCalled == CallSpec

(* The call returns, whatever fails and however small the channel and the      *)
(* batches are.                                                                *)
Returns == <>(returned # NoAnswer)

(* What is recognised of a waveform covers all its speech, stays inside it, is *)
(* in order, and no merged stretch is longer than allowed unless the detector  *)
(* itself found it (merge_vad_segments_for_asr, padded_asr_range).             *)
RangesCoverSpeech ==
    \A i \in Jobs : Preparation(waves[i]) \in {"Speech", "FullSpeech"} =>
        \E ranges \in {Ranges(waves[i])} :
            /\ \A s \in ToSet(waves[i].segs) : \E r \in ToSet(ranges) :
                 r.start <= s.start /\ s.end <= r.end
            /\ \A r \in ToSet(ranges) : 0 <= r.start /\ r.end <= waves[i].dur
            /\ \A k \in 1..Len(ranges) - 1 :
                 /\ ranges[k].start <= ranges[k + 1].start /\ ranges[k].end <= ranges[k + 1].end
                 /\ ranges[k + 1].start >= ranges[k].end - 2 * Pad
            /\ \A r \in ToSet(ranges) :
                 \/ r.end - r.start <= MergeMax + 2 * Pad
                 \/ \E s \in ToSet(waves[i].segs) : PaddedRange(waves[i], s) = r

=============================================================================
