---------------------------- MODULE ContinuousBatch ----------------------------
(***************************************************************************)
(* AsrBatchScheduler::run_continuous_prepared (vasr-models,                *)
(* inference/batch_scheduler.rs) with the decode and prefill steps it      *)
(* calls (model/paged_batch_engine.rs), on the block manager of            *)
(* PagedBlocks.  The run holds the runtime's mutex from its start to its   *)
(* end, so it is one process; each action is one turn of one of its loops. *)
(*                                                                         *)
(* A client is a row of the prepared batch.  Its prompt is its length; the *)
(* model's answer is the number of tokens it produces before an            *)
(* end-of-sequence token.  A forward pass may fail.  Runs follow each      *)
(* other on the same pool, each with a new scheduler whose request ids     *)
(* start at 0 (run_paged_prepared_batch).                                  *)
(***************************************************************************)
EXTENDS PagedBlocks, FiniteSetsExt

CONSTANTS
  MaxSeqs,   \* max_num_seqs
  MaxNew,    \* max_new_tokens
  MaxRuns,   \* bound: runs on one pool
  Batches    \* the batches a caller may ask for: sequences of [len, stop]

\* Empty batches and max_new_tokens = 0 return before anything happens; every
\* prompt has tokens.
ASSUME BatchAssumption ==
  /\ MaxSeqs \in Nat \ {0}
  /\ MaxNew \in Nat \ {0}
  /\ MaxRuns \in Nat
  /\ \A b \in Batches :
       /\ b \in Seq([len : Nat \ {0}, stop : Nat])
       /\ b # <<>>
       /\ 0 .. Len(b)-1 \subseteq RequestIds

VARIABLES
  mgr,        \* the pool's block manager, which outlives the run
  pc,         \* where the run is
  batch,      \* prepared
  waiting,    \* the clients not yet admitted, front first
  running,    \* slot -> its sequence, for the occupied slots
  outputs,    \* client -> number of tokens delivered, once delivered
  nextId,     \* next_request_id
  busy,       \* active_steps is not empty
  pending,    \* active slots whose decode group is still to come
  group,      \* the slots of the current decode group
  todo,       \* those of them still to ask for their block
  ready,      \* those that got it and still have to take their token
  active,     \* those that took a token and take part in the forward pass
  projected,  \* projected_used and projected_running
  wave,       \* the sequences being admitted
  base,       \* request_id_base of the wave
  row,        \* the row of the wave the prefill is at
  outcome,    \* how the run ended, or why it is ending
  stale,      \* history: the requests that held blocks when the run started
  refused,    \* history: the clients that were refused a block for their next token
  runs        \* the runs started so far

decodeVars == <<busy, pending, group, todo, ready, active>>
admitVars  == <<projected, wave, base, row>>
runVars    == <<batch, stale, refused, runs>>
vars == <<mgr, pc, waiting, running, outputs, nextId, outcome,
          decodeVars, admitVars, runVars>>

Clients == DOMAIN batch
Slots   == 1 .. Min({MaxSeqs, Len(batch)})

Put(f, x, v) == [y \in DOMAIN f \cup {x} |-> IF y = x THEN v ELSE f[y]]
Drop(f, x)   == Restrict(f, DOMAIN f \ {x})
EmptyMap     == [x \in {} |-> x]

Finished   == {s \in DOMAIN running : running[s].finished}
Unfinished == DOMAIN running \ Finished

\* next_id of the slot is an end-of-sequence token.
AtEnd(s) == running[s].made >= batch[running[s].client].stop

Tokens(s) == running[s].prompt + running[s].made

--------------------------------------------------------------------------------
Init ==
  /\ mgr = NewManager
  /\ pc = "idle"
  /\ batch = <<>>
  /\ waiting = <<>>
  /\ running = EmptyMap
  /\ outputs = EmptyMap
  /\ nextId = 0
  /\ busy = FALSE
  /\ pending = {} /\ group = {} /\ todo = {} /\ ready = {} /\ active = {}
  /\ projected = [used |-> 0, running |-> 0]
  /\ wave = <<>>
  /\ base = 0
  /\ row = 1
  /\ outcome = "none"
  /\ stale = {} /\ refused = {}
  /\ runs = 0

StartRun(b) ==
  /\ pc = "idle"
  /\ runs < MaxRuns
  /\ runs' = runs + 1
  /\ pc' = "free"
  /\ batch' = b
  /\ waiting' = [c \in 1 .. Len(b) |-> c]
  /\ outputs' = EmptyMap
  /\ nextId' = 0
  /\ stale' = DOMAIN mgr.table
  /\ refused' = {}
  /\ UNCHANGED <<mgr, running, outcome, decodeVars, admitVars>>

\* Mutant: the slot is not emptied.
FreeFinishedLeaving ==
  /\ pc \in {"free", "refree"}
  /\ Finished # {}
  /\ LET s == Min(Finished) IN
       /\ outputs' = Put(outputs, running[s].client, running[s].made)
       /\ mgr' = FreeRequest(mgr, running[s].request)
  /\ UNCHANGED <<pc, running, waiting, nextId, outcome, decodeVars, admitVars, runVars>>

\* free_finished_running, which runs before the decode phase and after it.
FreeFinished ==
  /\ pc \in {"free", "refree"}
  /\ Finished # {}
  /\ LET s == Min(Finished) IN
       /\ outputs' = Put(outputs, running[s].client, running[s].made)
       /\ mgr' = FreeRequest(mgr, running[s].request)
       /\ running' = Drop(running, s)
  /\ UNCHANGED <<pc, waiting, nextId, outcome, decodeVars, admitVars, runVars>>

--------------------------------------------------------------------------------
\* The decode phase: one call of paged_batch_decode_slots_at_step per group of
\* slots with the same decode step, smallest step first.

SnapshotActive ==
  /\ pc = "free"
  /\ Finished = {}
  /\ pending' = Unfinished
  /\ busy' = (Unfinished # {})
  /\ pc' = "group"
  /\ UNCHANGED <<mgr, waiting, running, outputs, nextId, outcome, group, todo, ready,
                 active, admitVars, runVars>>

\* A slot that reached max_new_tokens was marked finished before (MarkAtLimit), so
\* the early return on step >= max_new_tokens is never taken.
StartGroup ==
  /\ pc = "group"
  /\ pending # {}
  /\ group' = {s \in pending : \A t \in pending : running[s].step <= running[t].step}
  /\ pending' = pending \ group'
  /\ todo' = group'
  /\ ready' = {}
  /\ active' = {}
  /\ pc' = "alloc"
  /\ UNCHANGED <<mgr, waiting, running, outputs, nextId, outcome, busy, admitVars, runVars>>

\* try_allocate_slots for the next slot of the group; a refusal leaves it out.
AllocateForToken ==
  /\ pc = "alloc"
  /\ todo # {}
  /\ LET s == Min(todo)
         r == running[s].request
     IN /\ mgr' = Allocate(mgr, r, Tokens(s) + 1)
        /\ IF CanAllocate(mgr, r, Tokens(s) + 1)
           THEN ready' = ready \cup {s} /\ UNCHANGED refused
           ELSE refused' = refused \cup {running[s].client} /\ UNCHANGED ready
        /\ todo' = todo \ {s}
  /\ UNCHANGED <<pc, waiting, running, outputs, nextId, outcome, busy, pending, group,
                 active, admitVars, batch, stale, runs>>

\* decodable_indices is empty: the group is left as it is.
NoneDecodable ==
  /\ pc = "alloc"
  /\ todo = {}
  /\ ready = {}
  /\ pc' = "group"
  /\ group' = {}
  /\ UNCHANGED <<mgr, waiting, running, outputs, nextId, outcome, busy, pending, todo,
                 ready, active, admitVars, runVars>>

\* The token a slot was waiting with is an end of sequence...
TakeEnd ==
  /\ pc = "alloc"
  /\ todo = {}
  /\ ready # {}
  /\ LET s == Min(ready) IN
       /\ AtEnd(s)
       /\ running' = [running EXCEPT ![s].finished = TRUE]
       /\ mgr' = Trim(mgr, running[s].request, Tokens(s))
       /\ ready' = ready \ {s}
       /\ pc' = IF ready' = {} THEN "forward" ELSE "alloc"
  /\ UNCHANGED <<waiting, outputs, nextId, outcome, busy, pending, group, todo, active,
                 admitVars, runVars>>

\* ... or goes to its output and into the forward pass.
TakeToken ==
  /\ pc = "alloc"
  /\ todo = {}
  /\ ready # {}
  /\ LET s == Min(ready) IN
       /\ ~AtEnd(s)
       /\ running' = [running EXCEPT ![s].made = @ + 1]
       /\ active' = active \cup {s}
       /\ ready' = ready \ {s}
       /\ pc' = IF ready' = {} THEN "forward" ELSE "alloc"
  /\ UNCHANGED <<mgr, waiting, outputs, nextId, outcome, busy, pending, group, todo,
                 admitVars, runVars>>

\* Every decodable slot ended: no forward pass, and the step of every slot of the
\* group that is still unfinished - one whose allocation was refused - goes up.
NoneActive ==
  /\ pc = "forward"
  /\ active = {}
  /\ running' = [s \in DOMAIN running |->
                   IF s \in group /\ ~running[s].finished
                   THEN [running[s] EXCEPT !.step = @ + 1] ELSE running[s]]
  /\ pc' = "group"
  /\ group' = {}
  /\ UNCHANGED <<mgr, waiting, outputs, nextId, outcome, busy, pending, todo, ready,
                 active, admitVars, runVars>>

\* The positions decode_metadata_for_batch_step maps: the metadata of all steps up to
\* this one is built, so all of them must be in the block table.
DecodePosition(s) == running[s].prompt + running[s].step
PositionsCovered  == \A s \in active : DecodePosition(s) \in Covered(mgr, running[s].request)

Forward ==
  /\ pc = "forward"
  /\ active # {}
  /\ PositionsCovered
  /\ running' = [s \in DOMAIN running |->
                   IF s \in active THEN [running[s] EXCEPT !.step = @ + 1] ELSE running[s]]
  /\ pc' = "group"
  /\ group' = {}
  /\ active' = {}
  /\ UNCHANGED <<mgr, waiting, outputs, nextId, outcome, busy, pending, todo, ready,
                 admitVars, runVars>>

\* A forward pass can always fail, and does when a position has no block.
DecodeFails ==
  /\ pc = "forward"
  /\ active # {}
  /\ outcome' = "decode failed"
  /\ pc' = "unwind"
  /\ pending' = {} /\ group' = {} /\ active' = {}
  /\ UNCHANGED <<mgr, waiting, running, outputs, nextId, busy, todo, ready, admitVars,
                 runVars>>

MarkAtLimit ==
  /\ pc = "group"
  /\ pending = {}
  /\ running' = [s \in DOMAIN running |->
                   IF running[s].step >= MaxNew
                   THEN [running[s] EXCEPT !.finished = TRUE] ELSE running[s]]
  /\ pc' = "refree"
  /\ UNCHANGED <<mgr, waiting, outputs, nextId, outcome, decodeVars, admitVars, runVars>>

--------------------------------------------------------------------------------
\* The admission phase.

HeldBy(s) == Held(mgr, running[s].request)

\* The sum of a function's values: what they count, counted together.
SumOf(f) == Cardinality(UNION {{x} \X (1 .. f[x]) : x \in DOMAIN f})

BeginAdmission ==
  /\ pc = "refree"
  /\ Finished = {}
  /\ projected' = [used    |-> SumOf([s \in DOMAIN running |-> HeldBy(s)]),
                   running |-> Cardinality(DOMAIN running)]
  /\ wave' = <<>>
  /\ row' = 1
  /\ pc' = "admit"
  /\ UNCHANGED <<mgr, waiting, running, outputs, nextId, outcome, decodeVars, base, runVars>>

\* can_admit_with_projected_kv, asked with projected_running + 1.
CanAdmit(prompt_len) ==
  projected.used + BlocksFor(prompt_len) + (projected.running + 1) <= Capacity

FreeSlots == (Slots \ DOMAIN running) \ {wave[i].slot : i \in DOMAIN wave}

MayAdmit == FreeSlots # {} /\ waiting # <<>> /\ CanAdmit(batch[Head(waiting)].len)

\* Mutant: projected_used is not updated within the wave.
AdmitNextStale ==
  /\ pc = "admit"
  /\ MayAdmit
  /\ LET c == Head(waiting) IN
       /\ wave' = Append(wave, [client |-> c, slot |-> Min(FreeSlots)])
       /\ projected' = [used    |-> projected.used,
                        running |-> projected.running + 1]
  /\ waiting' = Tail(waiting)
  /\ UNCHANGED <<mgr, pc, running, outputs, nextId, outcome, decodeVars, base, row, runVars>>

\* Each admitted client takes a free slot, so projected_running stays below max_slots
\* and the loop's break on it is never taken.
AdmitNext ==
  /\ pc = "admit"
  /\ MayAdmit
  /\ LET c == Head(waiting) IN
       /\ wave' = Append(wave, [client |-> c, slot |-> Min(FreeSlots)])
       /\ projected' = [used    |-> projected.used + BlocksFor(batch[c].len),
                        running |-> projected.running + 1]
  /\ waiting' = Tail(waiting)
  /\ UNCHANGED <<mgr, pc, running, outputs, nextId, outcome, decodeVars, base, row, runVars>>

\* Mutant: the client that does not fit is not pushed back.
CloseWaveDropping ==
  /\ pc = "admit"
  /\ ~MayAdmit
  /\ base' = nextId
  /\ nextId' = nextId + Len(wave)
  /\ row' = 1
  /\ waiting' = IF FreeSlots = {} \/ waiting = <<>> THEN waiting ELSE Tail(waiting)
  /\ pc' = IF wave = <<>> THEN "check" ELSE "prefill"
  /\ UNCHANGED <<mgr, running, outputs, outcome, decodeVars, projected, wave, runVars>>

\* No slot, no client, or no room for the client at the front, which stays there.
CloseWave ==
  /\ pc = "admit"
  /\ ~MayAdmit
  /\ base' = nextId
  /\ nextId' = nextId + Len(wave)
  /\ row' = 1
  /\ pc' = IF wave = <<>> THEN "check" ELSE "prefill"
  /\ UNCHANGED <<mgr, waiting, running, outputs, outcome, decodeVars, projected, wave, runVars>>

\* paged_batch_prefill: blocks for every row with allocate_slots, ...
PromptLen(i) == batch[wave[i].client].len
RowId(i)     == base + i - 1

AllocatePrompt ==
  /\ pc = "prefill"
  /\ row <= Len(wave)
  /\ CanAllocate(mgr, RowId(row), PromptLen(row))
  /\ mgr' = Allocate(mgr, RowId(row), PromptLen(row))
  /\ row' = row + 1
  /\ UNCHANGED <<pc, waiting, running, outputs, nextId, outcome, decodeVars, projected,
                 wave, base, runVars>>

PromptDoesNotFit ==
  /\ pc = "prefill"
  /\ row <= Len(wave)
  /\ ~CanAllocate(mgr, RowId(row), PromptLen(row))
  /\ outcome' = "prefill failed"
  /\ pc' = "unwind"
  /\ UNCHANGED <<mgr, waiting, running, outputs, nextId, decodeVars, admitVars, runVars>>

\* ... then the forward pass, ...
PrefillForward ==
  /\ pc = "prefill"
  /\ row > Len(wave)
  /\ \/ /\ row' = 1
        /\ pc' = "install"
        /\ UNCHANGED outcome
     \/ /\ outcome' = "prefill failed"
        /\ pc' = "unwind"
        /\ UNCHANGED row
  /\ UNCHANGED <<mgr, waiting, running, outputs, nextId, decodeVars, projected, wave,
                 base, runVars>>

\* Mutant: the first token counts as a decode step.
InstallOneStepOn ==
  /\ pc = "install"
  /\ LET c     == wave[row].client
         first == batch[c].stop = 0
     IN /\ mgr' = IF first THEN Trim(mgr, RowId(row), PromptLen(row)) ELSE mgr
        /\ running' = Put(running, wave[row].slot,
                          [client |-> c, request |-> RowId(row), prompt |-> PromptLen(row),
                           made |-> 0, step |-> 1, finished |-> first])
  /\ row' = row + 1
  /\ pc' = IF row = Len(wave) THEN "check" ELSE "install"
  /\ UNCHANGED <<waiting, outputs, nextId, outcome, decodeVars, projected, wave, base, runVars>>

\* ... and a trim of the rows whose first token is an end of sequence.  The scheduler
\* then puts the sequence in its slot (PagedDecodeSlot::from_prefill_state).
Install ==
  /\ pc = "install"
  /\ LET c     == wave[row].client
         first == batch[c].stop = 0
     IN /\ mgr' = IF first THEN Trim(mgr, RowId(row), PromptLen(row)) ELSE mgr
        /\ running' = Put(running, wave[row].slot,
                          [client |-> c, request |-> RowId(row), prompt |-> PromptLen(row),
                           made |-> 0, step |-> 0, finished |-> first])
  /\ row' = row + 1
  /\ pc' = IF row = Len(wave) THEN "check" ELSE "install"
  /\ UNCHANGED <<waiting, outputs, nextId, outcome, decodeVars, projected, wave, base, runVars>>

--------------------------------------------------------------------------------
\* The end of an iteration, and of the run.

Served == waiting = <<>> /\ running = EmptyMap
Exhausted == wave = <<>> /\ ~busy /\ running = EmptyMap /\ waiting # <<>>

Finish ==
  /\ pc = "check"
  /\ Served
  /\ outcome' = "ok"
  /\ pc' = "unwind"
  /\ UNCHANGED <<mgr, waiting, running, outputs, nextId, decodeVars, admitVars, runVars>>

GiveUp ==
  /\ pc = "check"
  /\ Exhausted
  /\ outcome' = "exhausted"
  /\ pc' = "unwind"
  /\ UNCHANGED <<mgr, waiting, running, outputs, nextId, decodeVars, admitVars, runVars>>

Again ==
  /\ pc = "check"
  /\ ~Served
  /\ ~Exhausted
  /\ pc' = "free"
  /\ UNCHANGED <<mgr, waiting, running, outputs, nextId, outcome, decodeVars, admitVars, runVars>>

\* Mutant: the slots are emptied but their blocks are kept.
FreeRunningForgetting ==
  /\ pc = "unwind"
  /\ DOMAIN running # {}
  /\ running' = Drop(running, Min(DOMAIN running))
  /\ UNCHANGED <<mgr, pc, waiting, outputs, nextId, outcome, decodeVars, admitVars, runVars>>

\* free_all_running, whatever the outcome; then the call returns.
FreeRunning ==
  /\ pc = "unwind"
  /\ DOMAIN running # {}
  /\ LET s == Min(DOMAIN running) IN
       /\ mgr' = FreeRequest(mgr, running[s].request)
       /\ running' = Drop(running, s)
  /\ UNCHANGED <<pc, waiting, outputs, nextId, outcome, decodeVars, admitVars, runVars>>

Returning == pc = "unwind" /\ running = EmptyMap

\* Everything but the pool is local to the call.
Return ==
  /\ Returning
  /\ pc' = "idle"
  /\ batch' = <<>> /\ waiting' = <<>> /\ outputs' = EmptyMap /\ nextId' = 0
  /\ busy' = FALSE
  /\ projected' = [used |-> 0, running |-> 0]
  /\ wave' = <<>> /\ base' = 0 /\ row' = 1
  /\ outcome' = "none" /\ stale' = {} /\ refused' = {}
  /\ UNCHANGED <<mgr, running, pending, group, todo, ready, active, runs>>

Decode == \/ SnapshotActive \/ StartGroup \/ AllocateForToken \/ NoneDecodable
          \/ TakeEnd \/ TakeToken \/ NoneActive \/ Forward \/ DecodeFails \/ MarkAtLimit

Admission == \/ BeginAdmission \/ AdmitNext \/ CloseWave \/ AllocatePrompt
             \/ PromptDoesNotFit \/ PrefillForward \/ Install

\* What the thread inside the call does.
Run == FreeFinished \/ Decode \/ Admission \/ Finish \/ GiveUp \/ Again \/ FreeRunning \/ Return

Next == Run \/ \E b \in Batches : StartRun(b)

Spec     == Init /\ [][Next]_vars
FairSpec == Spec /\ WF_vars(Run)

--------------------------------------------------------------------------------
Phases   == {"idle", "free", "group", "alloc", "forward", "refree", "admit", "prefill",
             "install", "check", "unwind"}
Outcomes == {"none", "ok", "exhausted", "decode failed", "prefill failed"}
Entries  == [client : Clients, request : RequestIds, prompt : Nat \ {0},
             made : 0 .. MaxNew, step : 0 .. MaxNew, finished : BOOLEAN]

TypeOK ==
  /\ IsManager(mgr)
  /\ pc \in Phases
  /\ batch \in Batches \cup {<<>>}
  /\ waiting \in Seq(Clients)
  /\ DOMAIN outputs \subseteq Clients
  /\ outputs \in [DOMAIN outputs -> 0 .. MaxNew]
  /\ nextId \in 0 .. Len(batch)
  /\ batch = <<>> => running = EmptyMap
  /\ batch # <<>> => /\ DOMAIN running \subseteq Slots
                     /\ running \in [DOMAIN running -> Entries]
  /\ busy \in BOOLEAN
  /\ pending \cap group = {} /\ todo \cap ready = {} /\ ready \cap active = {}
  /\ todo \cup ready \cup active \subseteq group
  /\ pending \cup group \subseteq DOMAIN running
  /\ projected \in [used : Nat, running : Nat]
  /\ wave \in Seq([client : Clients, slot : Nat \ {0}])
  /\ base \in Nat
  /\ row \in 1 .. Len(wave) + 1
  /\ outcome \in Outcomes
  /\ stale \subseteq RequestIds /\ refused \subseteq Clients
  /\ runs \in 0 .. MaxRuns

\* Where a client is during a run.
InWave ==
  {wave[i].client : i \in CASE pc \in {"admit", "prefill"} -> DOMAIN wave
                            [] pc = "install" -> row .. Len(wave)
                            [] OTHER -> {}}
Holding(c) ==
  {<<"waiting", i>> : i \in {j \in DOMAIN waiting : waiting[j] = c}}
    \cup {<<"wave">> : x \in InWave \cap {c}}
    \cup {<<"running", s>> : s \in {t \in DOMAIN running : running[t].client = c}}
    \cup {<<"delivered">> : x \in DOMAIN outputs \cap {c}}

OneClientOnePlace == outcome = "none" => \A c \in Clients : Cardinality(Holding(c)) = 1
QueueInOrder      == \A i \in DOMAIN waiting : waiting[i] = Len(batch) - Len(waiting) + i

\* The state has its shape, and no client is lost, served twice or overtaken: while a run
\* goes on every client of the batch is in exactly one place - waiting, being admitted, in
\* one slot, or delivered - though admission pops a client and pushes it back when it does
\* not fit, and slots are freed, reused and delivered in between; and the queue is left in
\* the order of the batch, so that a client that does not fit is not overtaken by a smaller
\* one behind it (run_continuous_prepared).
EveryClientKeepsItsPlace ==
  /\ TypeOK
  /\ OneClientOnePlace
  /\ QueueInOrder

\* A slot's blocks hold all its tokens, and no other sequence has its request id: the ids
\* of a wave, counted from next_request_id, never meet those of an earlier wave that is
\* still running.  What a run leaves in the pool is what earlier runs left there, less its
\* own ids, whether it succeeds, gives up or fails in a decode step.  (A failed prefill
\* leaves the wave's blocks behind: free_all_running knows installed slots only.)
BlocksFollowTheirSlots ==
  /\ \A s \in DOMAIN running :
       /\ BlocksFor(Tokens(s)) <= HeldBy(s)
       /\ \A t \in DOMAIN running : running[s].request = running[t].request => s = t
  /\ Returning /\ outcome \in {"ok", "exhausted", "decode failed"} =>
       DOMAIN mgr.table = stale \ (0 .. nextId-1)

\* The admission test is neither too generous nor too strict.  As long as no request held
\* blocks when the run started, allocate_slots never finds the pool empty during the
\* prefill of a wave; and the run gives up only on a client that no empty pool could take,
\* whose prompt and one block of headroom exceed the whole capacity
\* (can_admit_with_projected_kv).
AdmissionIsExact ==
  /\ stale = {} /\ pc = "prefill" /\ row <= Len(wave) =>
       CanAllocate(mgr, RowId(row), PromptLen(row))
  /\ outcome = "exhausted" => BlocksFor(batch[Head(waiting)].len) + 1 > Capacity

\* A sequence that was never refused a block is decoded as if it were alone, whatever
\* becomes of the others in its group: a forward pass writes the key and value of the token
\* it is given right after those of the tokens before it, skipping no position and writing
\* none twice, and its client is delivered the whole answer, up to the token limit.  A run
\* that succeeds has delivered to every client (paged_batch_decode_slots_at_step).
WholeUnlessRefused ==
  /\ pc = "forward" =>
       \A s \in active : running[s].client \notin refused => DecodePosition(s) = Tokens(s) - 1
  /\ \A c \in DOMAIN outputs \ refused : outputs[c] = Min({batch[c].stop, MaxNew})
  /\ outcome = "ok" => DOMAIN outputs = Clients

\* Every running sequence needs a block for its next token and the pool has none.
Starved ==
  /\ Unfinished # {}
  /\ Finished = {}
  /\ \A s \in DOMAIN running : ~CanAllocate(mgr, running[s].request, Tokens(s) + 1)

\* Every run ends, unless its running sequences have used up the pool and all of them
\* need more: nothing else keeps the loop going round.
RunsEndUnlessStarved == (pc # "idle") ~> (pc = "idle" \/ Starved)
================================================================================
