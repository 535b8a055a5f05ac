------------------------- MODULE ContinuousBatch_proofs -------------------------
(***************************************************************************)
(* Proofs about run_continuous_prepared for every pool, every set of       *)
(* batches and every number of slots, tokens and runs.  Request ids are    *)
(* given in the order of admission, and clients are admitted in the order  *)
(* of the batch, so a client is always one more than its request id: that  *)
(* is why no id and no client is met twice.                                *)
(*                                                                         *)
(* The second part is the account of the pool during an admission wave:    *)
(* what is projected to be used is what is not free and what the rows      *)
(* still ask for.                                                          *)
(***************************************************************************)
EXTENDS ContinuousBatch, PagedBlocks_proofs, FiniteSetTheorems, WellFoundedInduction

\* The requests 0 .. Installed-1 belong to sequences that have had a slot.
Installed ==
  IF pc = "prefill" THEN base ELSE IF pc = "install" THEN base + row - 1 ELSE nextId

\* The requests of the wave that hold blocks and have no slot yet.
Fresh ==
  IF pc = "prefill" THEN base .. base + row - 2
  ELSE IF pc = "install" THEN base + row - 1 .. nextId - 1 ELSE {}

\* The requests 0 .. Claimed-1 belong to this run and no longer to an earlier one.
Claimed == IF pc = "prefill" THEN base ELSE nextId

\* The first row of the wave without a slot.
FirstLeft == IF pc = "install" THEN row ELSE 1

Requests == {running[s].request : s \in DOMAIN running}

\* What the rows of a wave and the slots hold.
Rows  == [client : Nat, slot : Nat]
Seats == [client : Nat, request : Nat, prompt : Nat, made : Nat, step : Nat,
          finished : BOOLEAN]

\* The run, its batch and how it ends.
Shape ==
  /\ Partitioned(mgr)
  /\ pc \in Phases
  /\ pc = "idle" => batch = <<>> /\ waiting = <<>> /\ DOMAIN outputs = {} /\ nextId = 0
  /\ pc # "idle" => batch \in Batches
  /\ outcome \in Outcomes
  /\ outcome = "none" <=> pc # "unwind"

\* Clients leave the queue in order and get the next request ids.
Queue ==
  /\ waiting \in Seq(Nat)
  /\ nextId \in Nat
  /\ pc # "admit" => nextId + Len(waiting) = Len(batch)
  /\ pc = "admit" => nextId + Len(wave) + Len(waiting) = Len(batch)
  /\ QueueInOrder

\* The wave is the clients last taken from the queue; each has a slot of its own.
Wave ==
  /\ wave \in Seq(Rows)
  /\ base \in Nat
  /\ row \in 1 .. Len(wave) + 1
  /\ pc \in {"prefill", "install"} => base + Len(wave) = nextId /\ wave # <<>>
  /\ pc = "install" => row <= Len(wave)
  /\ pc = "admit" => \A i \in DOMAIN wave : wave[i].client = nextId + i
  /\ pc \in {"prefill", "install"} => \A i \in DOMAIN wave : wave[i].client = base + i
  /\ pc \in {"admit", "prefill", "install"} =>
       /\ \A i, j \in DOMAIN wave : wave[i].slot = wave[j].slot => i = j
       /\ \A i \in DOMAIN wave :
            i >= FirstLeft => wave[i].slot \in Slots /\ wave[i].slot \notin DOMAIN running

\* A slot's sequence is that of the client one above its request id.
Seated ==
  /\ DOMAIN running \subseteq Slots
  /\ \A s \in DOMAIN running :
       /\ running[s] \in Seats
       /\ running[s].request < Installed
       /\ running[s].client = running[s].request + 1
       /\ running[s].prompt = batch[running[s].client].len
  /\ \A s, t \in DOMAIN running : running[s].request = running[t].request => s = t

\* Blocks cover the tokens, those of prompts being prefilled included.
Covers ==
  /\ \A s \in DOMAIN running : BlocksFor(Tokens(s)) <= HeldBy(s)
  /\ \A s \in ready : BlocksFor(Tokens(s) + 1) <= HeldBy(s)
  /\ pc = "prefill" =>
       \A i \in 1 .. row - 1 : BlocksFor(PromptLen(i)) <= Held(mgr, RowId(i))
  /\ pc = "install" =>
       \A i \in row .. Len(wave) : BlocksFor(PromptLen(i)) <= Held(mgr, RowId(i))

\* Who holds blocks, unless a prefill has failed.
Holders ==
  pc # "idle" /\ outcome # "prefill failed" =>
    DOMAIN mgr.table = (stale \ (0 .. Claimed - 1)) \cup Requests \cup Fresh

\* The sets of the decode phase.
Groups ==
  /\ pc \notin {"group", "alloc", "forward"} => pending = {}
  /\ pc \notin {"alloc", "forward"} => group = {}
  /\ pc # "alloc" => todo = {} /\ ready = {}
  /\ pc = "alloc" /\ (todo # {} \/ ready = {}) => active = {}
  /\ pending \cup group \subseteq DOMAIN running
  /\ todo \cup ready \cup active \subseteq group
  /\ pending \cap group = {} /\ todo \cap ready = {} /\ (todo \cup ready) \cap active = {}
  /\ \A s \in pending \cup todo \cup ready \cup active : ~running[s].finished
  /\ \A s \in group \ (todo \cup ready \cup active) :
       running[s].finished \/ running[s].client \in refused

\* The step of a slot that was never refused a block is the number of its tokens.
SlotInStep(s) ==
  /\ running[s].made <= batch[running[s].client].stop
  /\ running[s].made <= MaxNew
  /\ running[s].finished =>
       running[s].made = batch[running[s].client].stop \/ running[s].made = MaxNew
  /\ ~running[s].finished /\ pc # "unwind" =>
       /\ s \in active => running[s].made = running[s].step + 1
       /\ s \notin active => running[s].made = running[s].step
       /\ s \in pending \cup todo \cup ready \/ pc \notin {"group", "alloc", "forward"} =>
            running[s].step < MaxNew

InStep ==
  \A s \in DOMAIN running : running[s].client \notin refused => SlotInStep(s)

\* The clients before Installed have their answer or a slot.
Delivered ==
  /\ \A c \in DOMAIN outputs :
       /\ c \in 1 .. Installed
       /\ \A s \in DOMAIN running : running[s].client # c
       /\ c \notin refused => outputs[c] = Min({batch[c].stop, MaxNew})
  /\ outcome \in {"none", "ok"} =>
       \A c \in 1 .. Installed : c \in DOMAIN outputs \/ c - 1 \in Requests
  /\ outcome = "ok" => DOMAIN running = {} /\ waiting = <<>>

IInv == /\ Shape /\ Queue /\ Wave /\ Seated /\ Covers /\ Holders
        /\ Groups /\ InStep /\ Delivered

--------------------------------------------------------------------------------
\* A set of natural numbers has a least element, which is its Min.
LEMMA LeastOf ==
  ASSUME NEW S \in SUBSET Nat, S # {}
  PROVE  Min(S) \in S /\ \A y \in S : Min(S) <= y
<1> DEFINE below == OpToRel(<, Nat)
<1>1. IsWellFoundedOn(below, Nat)
  BY NatLessThanWellFounded
<1>2. \A x, y \in Nat : y < x => <<y, x>> \in below
  BY DEF OpToRel
<1> HIDE DEF below
<1>3. PICK x \in S : \A y \in S : ~(<<y, x>> \in below)
  BY <1>1, WFMin
<1>4. \A y \in S : ~(y < x)
  BY <1>2, <1>3
<1>5. \A y \in S : x <= y
  BY <1>4
<1>6. QED
  BY <1>5 DEF Min

\* Ranges that start alike.
LEMMA RangeGrows ==
  ASSUME NEW a \in Nat, NEW b \in Nat, a <= b
  PROVE  1 .. a \subseteq 1 .. b
OBVIOUS

\* What is below a number is below a larger one.
LEMMA BelowAll ==
  ASSUME NEW x \in Nat, NEW a \in Nat, NEW b \in Nat, x < a, a <= b
  PROVE  x < b
OBVIOUS

\* The smaller of two numbers.
LEMMA MinOfTwo ==
  ASSUME NEW a \in Nat, NEW b \in Nat
  PROVE  Min({a, b}) = IF a <= b THEN a ELSE b
<1>1. Min({a, b}) \in {a, b} /\ \A y \in {a, b} : Min({a, b}) <= y
  BY LeastOf
<1>2. QED
  BY <1>1

\* What a batch is made of.
LEMMA BatchFacts ==
  ASSUME IInv, pc # "idle"
  PROVE  /\ Len(batch) \in Nat /\ Clients = 1 .. Len(batch)
         /\ 0 .. Len(batch) - 1 \subseteq RequestIds
         /\ \A c \in 1 .. Len(batch) : batch[c].len \in Nat \ {0} /\ batch[c].stop \in Nat
<1>1. batch \in Batches
  BY DEF IInv, Shape
<1>2. batch \in Seq([len : Nat \ {0}, stop : Nat]) /\ 0 .. Len(batch) - 1 \subseteq RequestIds
  BY <1>1, BatchAssumption
<1>3. DOMAIN batch = 1 .. Len(batch) /\ Len(batch) \in Nat
  BY <1>2, LenProperties
<1>4. \A c \in 1 .. Len(batch) : batch[c] \in [len : Nat \ {0}, stop : Nat]
  BY <1>2, ElementOfSeq
<1>5. \A c \in 1 .. Len(batch) : batch[c].len \in Nat \ {0} /\ batch[c].stop \in Nat
  BY <1>4
<1>6. QED
  BY <1>2, <1>3, <1>5 DEF Clients

\* There are no slots, and so no sequences, between runs.
LEMMA NoSlotsIdle ==
  ASSUME IInv, pc = "idle"
  PROVE  DOMAIN running = {} /\ Slots = {}
<1>1. Len(batch) = 0
  BY DEF IInv, Shape
<1>2. Min({MaxSeqs, Len(batch)}) = 0
  BY <1>1, MinOfTwo, BatchAssumption
<1>3. Slots = 1 .. 0
  BY <1>2 DEF Slots
<1>4. Slots = {}
  BY <1>3
<1>5. QED
  BY <1>4 DEF IInv, Seated

\* The ids in use are below nextId, which counts clients of the batch.
LEMMA InstalledBound ==
  ASSUME IInv
  PROVE  /\ Installed \in Nat /\ Installed <= nextId
         /\ nextId \in Nat /\ nextId + Len(waiting) <= Len(batch)
         /\ Len(waiting) \in Nat /\ Len(wave) \in Nat
<1>1. Len(waiting) \in Nat /\ Len(wave) \in Nat /\ nextId \in Nat
  BY DEF IInv, Queue, Wave
<1>2. nextId + Len(waiting) <= Len(batch)
  BY <1>1 DEF IInv, Queue
<1>3. Installed \in Nat /\ Installed <= nextId
  BY <1>1 DEF IInv, Wave, Installed
<1>4. QED
  BY <1>1, <1>2, <1>3

\* What a slot holds.
LEMMA SlotFacts ==
  ASSUME IInv, NEW s \in DOMAIN running
  PROVE  /\ pc # "idle" /\ s \in Nat
         /\ running[s] \in Seats
         /\ running[s].client \in 1 .. Len(batch)
         /\ running[s].request \in RequestIds
         /\ running[s].request < nextId
         /\ running[s].prompt \in Nat \ {0}
         /\ Tokens(s) \in Nat \ {0}
         /\ running[s].request \in DOMAIN mgr.table
<1>1. pc # "idle"
  BY NoSlotsIdle
<1>2. /\ running[s] \in Seats
      /\ running[s].request < Installed
      /\ running[s].client = running[s].request + 1
      /\ running[s].prompt = batch[running[s].client].len
  BY DEF IInv, Seated
<1>3. /\ running[s].client \in Nat /\ running[s].request \in Nat
      /\ running[s].prompt \in Nat /\ running[s].made \in Nat
  BY <1>2 DEF Seats
<1>4. running[s].client \in 1 .. Len(batch) /\ running[s].request < nextId
  BY <1>1, <1>2, <1>3, InstalledBound, BatchFacts
<1>5. running[s].request \in RequestIds
  <2>1. running[s].request \in 0 .. Len(batch) - 1
    BY <1>1, <1>2, <1>3, <1>4, BatchFacts
  <2>2. QED
    BY <1>1, <2>1, BatchFacts
<1>6. running[s].prompt \in Nat \ {0}
  BY <1>1, <1>2, <1>4, BatchFacts
<1>7. Tokens(s) \in Nat \ {0}
  BY <1>3, <1>6 DEF Tokens
<1>8. running[s].request \in DOMAIN mgr.table
  <2>1. BlocksFor(Tokens(s)) > 0 /\ BlocksFor(Tokens(s)) \in Nat
    BY <1>7, BlocksForGrows, BlocksForType
  <2>2. Held(mgr, running[s].request) >= BlocksFor(Tokens(s))
    BY DEF IInv, Covers, HeldBy
  <2>3. running[s].request \notin DOMAIN mgr.table => Held(mgr, running[s].request) = 0
    BY DEF Held, BlocksOf
  <2>4. Held(mgr, running[s].request) \in Nat
    BY BlocksOfType DEF IInv, Shape, Partitioned
  <2>5. QED
    BY <2>1, <2>2, <2>3, <2>4
<1>9. s \in Nat
  BY DEF IInv, Seated, Slots
<1>10. QED
  BY <1>1, <1>2, <1>4, <1>5, <1>6, <1>7, <1>8, <1>9

\* What a row of the wave is.
LEMMA RowFacts ==
  ASSUME IInv, pc \in {"prefill", "install"}, NEW i \in 1 .. Len(wave)
  PROVE  /\ i \in DOMAIN wave
         /\ wave[i] \in Rows
         /\ wave[i].client = base + i /\ wave[i].client \in 1 .. Len(batch)
         /\ RowId(i) = base + i - 1 /\ RowId(i) \in Nat /\ RowId(i) < nextId
         /\ RowId(i) \in RequestIds
         /\ PromptLen(i) = batch[base + i].len /\ PromptLen(i) \in Nat \ {0}
<1>1. /\ wave \in Seq(Rows) /\ base \in Nat
      /\ base + Len(wave) = nextId
      /\ \A k \in DOMAIN wave : wave[k].client = base + k
  BY DEF IInv, Wave
<1>2. i \in DOMAIN wave /\ wave[i] \in Rows /\ wave[i].client = base + i
  BY <1>1
<1>3. /\ Len(batch) \in Nat /\ 0 .. Len(batch) - 1 \subseteq RequestIds
      /\ \A c \in 1 .. Len(batch) : batch[c].len \in Nat \ {0}
  BY BatchFacts
<1>4. nextId <= Len(batch) /\ Len(wave) \in Nat /\ nextId \in Nat
  BY <1>3, InstalledBound
<1>5. base + i \in 1 .. Len(batch) /\ base + i - 1 \in 0 .. Len(batch) - 1
      /\ base + i - 1 < nextId
  BY <1>1, <1>3, <1>4
<1>6. QED
  BY <1>2, <1>3, <1>5 DEF RowId, PromptLen

--------------------------------------------------------------------------------
\* The end of an iteration and of a run changes no data.
LEMMA FinishKeeps ==
  ASSUME IInv, Finish \/ GiveUp \/ Again
  PROVE  IInv'
<1>1. /\ UNCHANGED <<mgr, waiting, running, outputs, nextId, batch, busy, pending, group,
                     todo, ready, active, projected, wave, base, row, stale, refused>>
      /\ pc = "check" /\ outcome = "none"
      /\ pc' \in {"unwind", "free"}
      /\ pc' = "free" => outcome' = "none"
      /\ pc' = "unwind" => outcome' \in {"ok", "exhausted"}
      /\ outcome' = "ok" => waiting = <<>> /\ DOMAIN running = {}
  BY DEF IInv, Shape, Served, EmptyMap, Finish, GiveUp, Again, runVars, decodeVars, admitVars
<1> USE <1>1
<1>2. Shape'
  BY DEF IInv, Shape, Phases, Outcomes
<1>3. Queue'
  BY DEF IInv, Queue, QueueInOrder
<1>4. Wave'
  BY DEF IInv, Wave
<1>5. Seated'
  BY DEF IInv, Seated, Slots, Installed
<1>6. Covers'
  BY DEF IInv, Covers, Tokens, HeldBy
<1>7. Holders'
  BY DEF IInv, Holders, Claimed, Requests, Fresh
<1>8. Groups'
  BY DEF IInv, Groups
<1>9. InStep'
  BY DEF IInv, InStep, SlotInStep
<1>10. Delivered'
  <2>1. Installed' = Installed /\ Requests' = Requests
    BY DEF Installed, Requests
  <2>2. QED
    BY <2>1 DEF IInv, Delivered
<1>11. QED
  BY <1>2, <1>3, <1>4, <1>5, <1>6, <1>7, <1>8, <1>9, <1>10 DEF IInv

\* The snapshot of the active slots takes the unfinished ones.
LEMMA SnapshotKeeps ==
  ASSUME IInv, SnapshotActive
  PROVE  IInv'
<1>1. /\ UNCHANGED <<mgr, waiting, running, outputs, nextId, batch, group, todo, ready,
                     active, wave, base, row, outcome, stale, refused>>
      /\ pc = "free" /\ pc' = "group"
      /\ pending' \subseteq DOMAIN running /\ \A s \in pending' : ~running[s].finished
      /\ group = {} /\ active = {}
  BY DEF IInv, Groups, SnapshotActive, Unfinished, Finished, admitVars, runVars
<1> USE <1>1
<1>2. Shape'
  BY DEF IInv, Shape, Phases, Outcomes
<1>3. Queue'
  BY DEF IInv, Queue, QueueInOrder
<1>4. Wave'
  BY DEF IInv, Wave
<1>5. Seated'
  BY DEF IInv, Seated, Slots, Installed
<1>6. Covers'
  BY DEF IInv, Covers, Tokens, HeldBy
<1>7. Holders'
  BY DEF IInv, Holders, Claimed, Requests, Fresh
<1>8. Groups'
  BY DEF IInv, Groups
<1>9. InStep'
  BY DEF IInv, InStep, SlotInStep
<1>10. Delivered'
  <2>1. Installed' = Installed /\ Requests' = Requests
    BY DEF Installed, Requests
  <2>2. QED
    BY <2>1 DEF IInv, Delivered
<1>11. QED
  BY <1>2, <1>3, <1>4, <1>5, <1>6, <1>7, <1>8, <1>9, <1>10 DEF IInv

\* A decode group is part of the pending slots.
LEMMA StartGroupKeeps ==
  ASSUME IInv, StartGroup
  PROVE  IInv'
<1>1. /\ UNCHANGED <<mgr, waiting, running, outputs, nextId, batch, wave, base, row, outcome,
                     stale, refused>>
      /\ pc = "group" /\ pc' = "alloc"
      /\ group' \subseteq pending /\ pending' = pending \ group' /\ todo' = group'
      /\ ready' = {} /\ active' = {}
      /\ group = {} /\ todo = {} /\ ready = {} /\ active = {}
  BY DEF IInv, Groups, StartGroup, admitVars, runVars
<1> USE <1>1
<1>2. Shape'
  BY DEF IInv, Shape, Phases, Outcomes
<1>3. Queue'
  BY DEF IInv, Queue, QueueInOrder
<1>4. Wave'
  BY DEF IInv, Wave
<1>5. Seated'
  BY DEF IInv, Seated, Slots, Installed
<1>6. Covers'
  BY DEF IInv, Covers, Tokens, HeldBy
<1>7. Holders'
  BY DEF IInv, Holders, Claimed, Requests, Fresh
<1>8. Groups'
  BY DEF IInv, Groups
<1>9. InStep'
  BY DEF IInv, InStep, SlotInStep
<1>10. Delivered'
  <2>1. Installed' = Installed /\ Requests' = Requests
    BY DEF Installed, Requests
  <2>2. QED
    BY <2>1 DEF IInv, Delivered
<1>11. QED
  BY <1>2, <1>3, <1>4, <1>5, <1>6, <1>7, <1>8, <1>9, <1>10 DEF IInv

\* A group none of whose slots got its block is left as it is.
LEMMA NoneDecodableKeeps ==
  ASSUME IInv, NoneDecodable
  PROVE  IInv'
<1>1. /\ UNCHANGED <<mgr, waiting, running, outputs, nextId, batch, pending, todo, ready, active,
                     wave, base, row, outcome, stale, refused>>
      /\ pc = "alloc" /\ pc' = "group" /\ group' = {}
      /\ todo = {} /\ ready = {} /\ active = {}
  BY DEF IInv, Groups, NoneDecodable, admitVars, runVars
<1> USE <1>1
<1>2. Shape'
  BY DEF IInv, Shape, Phases, Outcomes
<1>3. Queue'
  BY DEF IInv, Queue, QueueInOrder
<1>4. Wave'
  BY DEF IInv, Wave
<1>5. Seated'
  BY DEF IInv, Seated, Slots, Installed
<1>6. Covers'
  BY DEF IInv, Covers, Tokens, HeldBy
<1>7. Holders'
  BY DEF IInv, Holders, Claimed, Requests, Fresh
<1>8. Groups'
  BY DEF IInv, Groups
<1>9. InStep'
  BY DEF IInv, InStep, SlotInStep
<1>10. Delivered'
  <2>1. Installed' = Installed /\ Requests' = Requests
    BY DEF Installed, Requests
  <2>2. QED
    BY <2>1 DEF IInv, Delivered
<1>11. QED
  BY <1>2, <1>3, <1>4, <1>5, <1>6, <1>7, <1>8, <1>9, <1>10 DEF IInv

\* A failed forward pass ends the run.
LEMMA DecodeFailsKeeps ==
  ASSUME IInv, DecodeFails
  PROVE  IInv'
<1>1. /\ UNCHANGED <<mgr, waiting, running, outputs, nextId, batch, todo, ready,
                     wave, base, row, stale, refused>>
      /\ pc = "forward" /\ pc' = "unwind" /\ outcome' = "decode failed"
      /\ pending' = {} /\ group' = {} /\ active' = {} /\ todo = {} /\ ready = {}
  BY DEF IInv, Groups, DecodeFails, admitVars, runVars
<1> USE <1>1
<1>2. Shape'
  BY DEF IInv, Shape, Phases, Outcomes
<1>3. Queue'
  BY DEF IInv, Queue, QueueInOrder
<1>4. Wave'
  BY DEF IInv, Wave
<1>5. Seated'
  BY DEF IInv, Seated, Slots, Installed
<1>6. Covers'
  BY DEF IInv, Covers, Tokens, HeldBy
<1>7. Holders'
  <2>1. outcome = "none"
    BY DEF IInv, Shape
  <2>2. QED
    BY <2>1 DEF IInv, Holders, Claimed, Requests, Fresh
<1>8. Groups'
  BY DEF IInv, Groups
<1>9. InStep'
  BY DEF IInv, InStep, SlotInStep
<1>10. Delivered'
  <2>1. Installed' = Installed /\ Requests' = Requests
    BY DEF Installed, Requests
  <2>2. QED
    BY <2>1 DEF IInv, Delivered
<1>11. QED
  BY <1>2, <1>3, <1>4, <1>5, <1>6, <1>7, <1>8, <1>9, <1>10 DEF IInv

\* A sequence that took max_new_tokens steps is finished; it has as many tokens.
LEMMA MarkAtLimitKeeps ==
  ASSUME IInv, MarkAtLimit
  PROVE  IInv'
<1>1. /\ UNCHANGED <<mgr, waiting, outputs, nextId, batch, pending, group, todo, ready,
                     active, wave, base, row, outcome, stale, refused>>
      /\ pc = "group" /\ pc' = "refree" /\ pending = {} /\ group = {} /\ active = {}
      /\ todo = {} /\ ready = {}
      /\ DOMAIN running' = DOMAIN running
      /\ \A s \in DOMAIN running :
           /\ running'[s] \in Seats
           /\ running'[s].client = running[s].client
           /\ running'[s].request = running[s].request
           /\ running'[s].prompt = running[s].prompt
           /\ running'[s].made = running[s].made
           /\ running'[s].step = running[s].step
           /\ running'[s].finished = (running[s].finished \/ running[s].step >= MaxNew)
  BY BatchAssumption, ZenonT(40)
     DEF IInv, Groups, Seated, Seats, MarkAtLimit, decodeVars, admitVars, runVars
<1> USE <1>1
<1>2. Shape'
  BY DEF IInv, Shape, Phases, Outcomes
<1>3. Queue'
  BY DEF IInv, Queue, QueueInOrder
<1>4. Wave'
  BY DEF IInv, Wave
<1>5. Seated'
  <2>1. Slots' = Slots /\ Installed' = Installed
    BY DEF Slots, Installed
  <2>2. QED
    BY <2>1 DEF IInv, Seated
<1>6. Covers'
  BY DEF IInv, Covers, Tokens, HeldBy
<1>7. Holders'
  <2>1. Requests' = Requests
    BY DEF Requests
  <2>2. QED
    BY <2>1 DEF IInv, Holders, Claimed, Fresh
<1>8. Groups'
  BY DEF IInv, Groups
<1>9. InStep'
  <2>1. \A s \in DOMAIN running : /\ running[s].made \in Nat /\ running[s].step \in Nat
                                  /\ running[s].finished \in BOOLEAN
    BY DEF IInv, Seated, Seats
  <2>2. MaxNew \in Nat /\ batch' = batch /\ refused' = refused
    BY BatchAssumption
  <2> SUFFICES ASSUME NEW s \in DOMAIN running, running[s].client \notin refused
               PROVE  SlotInStep(s)'
    BY DEF InStep
  <2>3. SlotInStep(s)
    BY DEF IInv, InStep
  <2>4. CASE running[s].finished
    BY <2>1, <2>2, <2>3, <2>4 DEF SlotInStep
  <2>5. CASE ~running[s].finished
    <3>1. running[s].made = running[s].step
      BY <2>3, <2>5 DEF SlotInStep
    <3>2. running[s].step >= MaxNew => running[s].made = MaxNew
      BY <2>1, <2>2, <2>3, <3>1 DEF SlotInStep
    <3>3. ~(running[s].step >= MaxNew) => running[s].step < MaxNew
      BY <2>1, <2>2
    <3>4. QED
      BY <2>1, <2>2, <2>3, <2>5, <3>1, <3>2, <3>3 DEF SlotInStep
  <2>6. QED
    BY <2>4, <2>5
<1>10. Delivered'
  <2>1. Installed' = Installed /\ Requests' = Requests
    BY DEF Installed, Requests
  <2>2. QED
    BY <2>1 DEF IInv, Delivered
<1>11. QED
  BY <1>2, <1>3, <1>4, <1>5, <1>6, <1>7, <1>8, <1>9, <1>10 DEF IInv

\* A prefill that fails ends the run.
LEMMA PrefillFailsKeeps ==
  ASSUME IInv, PromptDoesNotFit \/ (PrefillForward /\ pc' = "unwind")
  PROVE  IInv'
<1>1. /\ UNCHANGED <<mgr, waiting, running, outputs, nextId, batch, pending, group, todo, ready,
                     active, wave, base, row, stale, refused>>
      /\ pc = "prefill" /\ pc' = "unwind" /\ outcome' = "prefill failed"
  BY DEF PromptDoesNotFit, PrefillForward, decodeVars, admitVars, runVars
<1> USE <1>1
<1>2. Shape'
  BY DEF IInv, Shape, Phases, Outcomes
<1>3. Queue'
  BY DEF IInv, Queue, QueueInOrder
<1>4. Wave'
  BY DEF IInv, Wave
<1>5. Seated'
  <2>1. Installed = base /\ Installed' = nextId /\ base <= nextId /\ Slots' = Slots
    BY InstalledBound DEF Installed, Slots
  <2>2. \A s \in DOMAIN running : running[s].request \in Nat
    BY DEF IInv, Seated, Seats
  <2>3. ASSUME NEW s \in DOMAIN running PROVE running[s].request < Installed'
    <3>1. running[s].request < Installed /\ running[s].request \in Nat
      BY <2>2 DEF IInv, Seated
    <3>2. Installed \in Nat /\ Installed <= nextId /\ nextId \in Nat
      BY InstalledBound
    <3>3. running[s].request < nextId
      BY <3>1, <3>2, BelowAll
    <3>4. QED
      BY <2>1, <3>3
  <2>4. QED
    BY <2>1, <2>3 DEF IInv, Seated
<1>6. Covers'
  BY DEF IInv, Covers, Tokens, HeldBy
<1>7. Holders'
  BY DEF IInv, Holders, Claimed, Requests, Fresh
<1>8. Groups'
  BY DEF IInv, Groups
<1>9. InStep'
  BY DEF IInv, InStep, SlotInStep
<1>10. Delivered'
  <2>1. Installed \in Nat /\ Installed' \in Nat /\ Installed <= Installed'
    BY InstalledBound DEF Installed
  <2>2. 1 .. Installed \subseteq 1 .. Installed'
    BY <2>1, RangeGrows
  <2>3. QED
    BY <2>2 DEF IInv, Delivered
<1>11. QED
  BY <1>2, <1>3, <1>4, <1>5, <1>6, <1>7, <1>8, <1>9, <1>10 DEF IInv

\* After the forward pass the rows of the wave are put in their slots one by one.
LEMMA PrefillForwardKeeps ==
  ASSUME IInv, PrefillForward, pc' = "install"
  PROVE  IInv'
<1>1. /\ UNCHANGED <<mgr, waiting, running, outputs, nextId, batch, pending, group, todo, ready,
                     active, wave, base, outcome, stale, refused>>
      /\ pc = "prefill" /\ pc' = "install" /\ row > Len(wave) /\ row' = 1
      /\ Len(wave) \in Nat \ {0} /\ base \in Nat /\ base + Len(wave) = nextId
      /\ row = Len(wave) + 1 /\ wave \in Seq(Rows)
  BY EmptySeq
     DEF PrefillForward, decodeVars, admitVars, runVars, IInv, Wave
<1> USE <1>1
<1>2. Shape'
  BY DEF IInv, Shape, Phases, Outcomes
<1>3. Queue'
  BY DEF IInv, Queue, QueueInOrder
<1>4. Wave'
  <2>1. FirstLeft = 1 /\ FirstLeft' = 1 /\ Slots' = Slots
    BY DEF FirstLeft, Slots
  <2>2. QED
    BY <2>1 DEF IInv, Wave
<1>5. Seated'
  <2>1. Slots' = Slots /\ Installed' = Installed
    BY DEF Slots, Installed
  <2>2. QED
    BY <2>1 DEF IInv, Seated
<1>6. Covers'
  BY DEF IInv, Covers, Tokens, HeldBy, RowId, PromptLen
<1>7. Holders'
  <2>1. Fresh = base .. nextId - 1 /\ Fresh' = base .. nextId - 1
    BY DEF Fresh
  <2>2. Claimed = base /\ Claimed' = nextId /\ Requests' = Requests
    BY DEF Claimed, Requests
  <2>3. 0 .. nextId - 1 = (0 .. base - 1) \cup (base .. nextId - 1)
    OBVIOUS
  <2>4. QED
    BY <2>1, <2>2, <2>3 DEF IInv, Holders
<1>8. Groups'
  BY DEF IInv, Groups
<1>9. InStep'
  BY DEF IInv, InStep, SlotInStep
<1>10. Delivered'
  <2>1. Installed' = Installed /\ Requests' = Requests
    BY DEF Installed, Requests
  <2>2. QED
    BY <2>1 DEF IInv, Delivered
<1>11. QED
  BY <1>2, <1>3, <1>4, <1>5, <1>6, <1>7, <1>8, <1>9, <1>10 DEF IInv

\* A wave starts empty.
LEMMA BeginAdmissionKeeps ==
  ASSUME IInv, BeginAdmission
  PROVE  IInv'
<1>1. /\ UNCHANGED <<mgr, waiting, running, outputs, nextId, batch, pending, group, todo, ready,
                     active, base, outcome, stale, refused>>
      /\ pc = "refree" /\ pc' = "admit" /\ wave' = <<>> /\ row' = 1
  BY DEF BeginAdmission, decodeVars, runVars
<1> USE <1>1
<1>2. Shape'
  BY DEF IInv, Shape, Phases, Outcomes
<1>3. Queue'
  BY DEF IInv, Queue, QueueInOrder
<1>4. Wave'
  BY DEF IInv, Wave
<1>5. Seated'
  BY DEF IInv, Seated, Slots, Installed
<1>6. Covers'
  BY DEF IInv, Covers, Tokens, HeldBy
<1>7. Holders'
  BY DEF IInv, Holders, Claimed, Requests, Fresh
<1>8. Groups'
  BY DEF IInv, Groups
<1>9. InStep'
  BY DEF IInv, InStep, SlotInStep
<1>10. Delivered'
  <2>1. Installed' = Installed /\ Requests' = Requests
    BY DEF Installed, Requests
  <2>2. QED
    BY <2>1 DEF IInv, Delivered
<1>11. QED
  BY <1>2, <1>3, <1>4, <1>5, <1>6, <1>7, <1>8, <1>9, <1>10 DEF IInv

\* A wave that is closed has the next request ids.
LEMMA CloseWaveKeeps ==
  ASSUME IInv, CloseWave
  PROVE  IInv'
<1>1. /\ UNCHANGED <<mgr, waiting, running, outputs, batch, pending, group, todo, ready,
                     active, wave, outcome, stale, refused>>
      /\ pc = "admit" /\ base' = nextId /\ nextId' = nextId + Len(wave) /\ row' = 1
      /\ wave = <<>> => pc' = "check" /\ Len(wave) = 0
      /\ wave # <<>> => pc' = "prefill" /\ Len(wave) \in Nat \ {0}
      /\ pc' \in {"check", "prefill"}
      /\ Len(wave) \in Nat /\ nextId \in Nat
  BY EmptySeq
     DEF CloseWave, decodeVars, admitVars, runVars, IInv, Wave, Queue
<1> USE <1>1
<1>2. Shape'
  BY DEF IInv, Shape, Phases, Outcomes
<1>3. Queue'
  BY DEF IInv, Queue, QueueInOrder
<1>4. Wave'
  <2>1. FirstLeft = 1 /\ FirstLeft' = 1 /\ Slots' = Slots
    BY DEF FirstLeft, Slots
  <2>2. QED
    BY <2>1 DEF IInv, Wave
<1>5. Seated'
  <2>1. Slots' = Slots /\ Installed' = Installed
    BY DEF Slots, Installed
  <2>2. QED
    BY <2>1 DEF IInv, Seated
<1>6. Covers'
  BY DEF IInv, Covers, Tokens, HeldBy
<1>7. Holders'
  <2>1. Claimed' = Claimed /\ Requests' = Requests
    BY DEF Claimed, Requests
  <2>2. Fresh = {} /\ Fresh' = {}
    BY DEF Fresh
  <2>3. QED
    BY <2>1, <2>2 DEF IInv, Holders
<1>8. Groups'
  BY DEF IInv, Groups
<1>9. InStep'
  BY DEF IInv, InStep, SlotInStep
<1>10. Delivered'
  <2>1. Installed' = Installed /\ Requests' = Requests
    BY DEF Installed, Requests
  <2>2. QED
    BY <2>1 DEF IInv, Delivered
<1>11. QED
  BY <1>2, <1>3, <1>4, <1>5, <1>6, <1>7, <1>8, <1>9, <1>10 DEF IInv

\* The call returns.
LEMMA ReturnKeeps ==
  ASSUME IInv, Return
  PROVE  IInv'
<1>1. /\ UNCHANGED <<mgr, running, pending, group, todo, ready, active>>
      /\ pc = "unwind" /\ pc' = "idle" /\ batch' = <<>> /\ waiting' = <<>>
      /\ DOMAIN outputs' = {} /\ nextId' = 0 /\ wave' = <<>> /\ base' = 0 /\ row' = 1
      /\ outcome' = "none" /\ DOMAIN running = {}
  BY DEF Return, Returning, EmptyMap
<1> USE <1>1
<1>2. Shape'
  BY DEF IInv, Shape, Phases, Outcomes
<1>3. Queue'
  BY DEF IInv, Queue, QueueInOrder
<1>4. Wave'
  BY DEF IInv, Wave
<1>5. Seated'
  BY DEF IInv, Seated, Slots, Installed
<1>6. Covers'
  BY DEF IInv, Covers, Tokens, HeldBy
<1>7. Holders'
  BY DEF IInv, Holders, Claimed, Requests, Fresh
<1>8. Groups'
  BY DEF IInv, Groups
<1>9. InStep'
  BY DEF IInv, InStep, SlotInStep
<1>10. Delivered'
  <2>1. Installed' = 0
    BY DEF Installed
  <2>2. QED
    BY <2>1 DEF IInv, Delivered, Shape
<1>11. QED
  BY <1>2, <1>3, <1>4, <1>5, <1>6, <1>7, <1>8, <1>9, <1>10 DEF IInv

\* A run starts on its batch, with the pool as it is.
LEMMA StartRunKeeps ==
  ASSUME IInv, NEW b \in Batches, StartRun(b)
  PROVE  IInv'
<1>1. /\ UNCHANGED <<mgr, running, outcome, pending, group, todo, ready, active, wave, base, row>>
      /\ pc = "idle" /\ pc' = "free" /\ batch' = b /\ waiting' = [c \in 1 .. Len(b) |-> c]
      /\ DOMAIN outputs' = {} /\ nextId' = 0 /\ stale' = DOMAIN mgr.table /\ refused' = {}
      /\ DOMAIN running = {} /\ Len(b) \in Nat /\ outcome = "none"
  BY NoSlotsIdle, BatchAssumption
     DEF StartRun, decodeVars, admitVars, EmptyMap, IInv, Shape
<1> USE <1>1
<1>2. Shape'
  BY DEF IInv, Shape, Phases, Outcomes
<1>3. Queue'
  BY DEF IInv, Queue, QueueInOrder
<1>4. Wave'
  BY DEF IInv, Wave
<1>5. Seated'
  BY DEF IInv, Seated, Slots, Installed
<1>6. Covers'
  BY DEF IInv, Covers, Tokens, HeldBy
<1>7. Holders'
  <2>1. Claimed' = 0 /\ Requests' = {} /\ Fresh' = {}
    BY DEF Claimed, Requests, Fresh
  <2>2. QED
    BY <2>1 DEF Holders
<1>8. Groups'
  BY DEF IInv, Groups
<1>9. InStep'
  BY DEF IInv, InStep, SlotInStep
<1>10. Delivered'
  <2>1. Installed' = 0
    BY DEF Installed
  <2>2. QED
    BY <2>1 DEF IInv, Delivered, Shape
<1>11. QED
  BY <1>2, <1>3, <1>4, <1>5, <1>6, <1>7, <1>8, <1>9, <1>10 DEF IInv

\* The sets of the decode phase are sets of occupied slots, which are numbers.
LEMMA GroupsAreSlots ==
  ASSUME IInv
  PROVE  /\ DOMAIN running \subseteq Nat /\ Slots \subseteq Nat
         /\ pending \cup group \cup todo \cup ready \cup active \subseteq DOMAIN running
<1>1. Slots \subseteq Nat
  BY DEF Slots
<1>2. QED
  BY <1>1 DEF IInv, Seated, Groups

\* The fields of a seat that carry numbers, and the limit they are compared with.
LEMMA SeatNumbers ==
  ASSUME IInv
  PROVE  /\ \A s \in DOMAIN running : /\ running[s].made \in Nat /\ running[s].step \in Nat
                                      /\ running[s].prompt \in Nat
                                      /\ running[s].finished \in BOOLEAN
                                      /\ batch[running[s].client].stop \in Nat
         /\ MaxNew \in Nat \ {0}
<1>1. \A s \in DOMAIN running : batch[running[s].client].stop \in Nat
  BY SlotFacts, BatchFacts
<1>2. QED
  BY <1>1, BatchAssumption DEF IInv, Seated, Seats

\* A forward pass is one step of every slot that took a token.
LEMMA ForwardKeeps ==
  ASSUME IInv, Forward
  PROVE  IInv'
<1>1. /\ UNCHANGED <<mgr, waiting, outputs, nextId, batch, pending, todo, ready, wave, base, row,
                     outcome, stale, refused>>
      /\ pc = "forward" /\ pc' = "group" /\ group' = {} /\ active' = {}
      /\ todo = {} /\ ready = {} /\ active \subseteq group /\ pending \cap group = {}
      /\ DOMAIN running' = DOMAIN running
      /\ \A s \in DOMAIN running :
           /\ running'[s] \in Seats
           /\ running'[s].client = running[s].client
           /\ running'[s].request = running[s].request
           /\ running'[s].prompt = running[s].prompt
           /\ running'[s].made = running[s].made
           /\ running'[s].step = IF s \in active THEN running[s].step + 1 ELSE running[s].step
           /\ running'[s].finished = running[s].finished
  BY DEF IInv, Groups, Seated, Seats, Forward, admitVars, runVars
<1> USE <1>1
<1>2. Shape'
  BY DEF IInv, Shape, Phases, Outcomes
<1>3. Queue'
  BY DEF IInv, Queue, QueueInOrder
<1>4. Wave'
  BY DEF IInv, Wave
<1>5. Seated'
  <2>1. Slots' = Slots /\ Installed' = Installed
    BY DEF Slots, Installed
  <2>2. QED
    BY <2>1 DEF IInv, Seated
<1>6. Covers'
  BY DEF IInv, Covers, Tokens, HeldBy
<1>7. Holders'
  <2>1. Requests' = Requests
    BY DEF Requests
  <2>2. QED
    BY <2>1 DEF IInv, Holders, Claimed, Fresh
<1>8. Groups'
  BY DEF IInv, Groups
<1>9. InStep'
  <2> SUFFICES ASSUME NEW s \in DOMAIN running, running[s].client \notin refused
               PROVE  SlotInStep(s)'
    BY DEF InStep
  <2>1. SlotInStep(s)
    BY DEF IInv, InStep
  <2>2. s \notin active'
    OBVIOUS
  <2>3. pc # "unwind" /\ pc' # "unwind" /\ pc' \in {"group", "alloc", "forward"}
    OBVIOUS
  <2>4. s \in pending' \cup todo' \cup ready' => s \in pending /\ s \notin active
    OBVIOUS
  <2>5. ~running[s].finished => running'[s].made = running'[s].step
    BY <2>1, <2>3, SeatNumbers DEF SlotInStep
  <2>6. QED
    BY <2>1, <2>2, <2>3, <2>4, <2>5 DEF SlotInStep
<1>10. Delivered'
  <2>1. Installed' = Installed /\ Requests' = Requests
    BY DEF Installed, Requests
  <2>2. QED
    BY <2>1 DEF IInv, Delivered
<1>11. QED
  BY <1>2, <1>3, <1>4, <1>5, <1>6, <1>7, <1>8, <1>9, <1>10 DEF IInv

\* When every decodable slot has ended, the steps of refused slots go up.
LEMMA NoneActiveKeeps ==
  ASSUME IInv, NoneActive
  PROVE  IInv'
<1>1. /\ UNCHANGED <<mgr, waiting, outputs, nextId, batch, pending, todo, ready, active,
                     wave, base, row, outcome, stale, refused>>
      /\ pc = "forward" /\ pc' = "group" /\ group' = {} /\ active = {}
      /\ todo = {} /\ ready = {} /\ pending \cap group = {}
      /\ \A s \in group : running[s].finished \/ running[s].client \in refused
      /\ DOMAIN running' = DOMAIN running
      /\ \A s \in DOMAIN running :
           /\ running'[s] \in Seats
           /\ running'[s].client = running[s].client
           /\ running'[s].request = running[s].request
           /\ running'[s].prompt = running[s].prompt
           /\ running'[s].made = running[s].made
           /\ running'[s].step = IF s \in group /\ ~running[s].finished
                               THEN running[s].step + 1 ELSE running[s].step
           /\ running'[s].finished = running[s].finished
  BY DEF IInv, Groups, Seated, Seats, NoneActive, admitVars, runVars
<1> USE <1>1
<1>2. Shape'
  BY DEF IInv, Shape, Phases, Outcomes
<1>3. Queue'
  BY DEF IInv, Queue, QueueInOrder
<1>4. Wave'
  BY DEF IInv, Wave
<1>5. Seated'
  <2>1. Slots' = Slots /\ Installed' = Installed
    BY DEF Slots, Installed
  <2>2. QED
    BY <2>1 DEF IInv, Seated
<1>6. Covers'
  BY DEF IInv, Covers, Tokens, HeldBy
<1>7. Holders'
  <2>1. Requests' = Requests
    BY DEF Requests
  <2>2. QED
    BY <2>1 DEF IInv, Holders, Claimed, Fresh
<1>8. Groups'
  BY DEF IInv, Groups
<1>9. InStep'
  <2> SUFFICES ASSUME NEW s \in DOMAIN running, running[s].client \notin refused
               PROVE  SlotInStep(s)'
    BY DEF InStep
  <2>1. SlotInStep(s)
    BY DEF IInv, InStep
  <2>2. running'[s].step = running[s].step
    OBVIOUS
  <2>3. QED
    BY <2>1, <2>2 DEF SlotInStep
<1>10. Delivered'
  <2>1. Installed' = Installed /\ Requests' = Requests
    BY DEF Installed, Requests
  <2>2. QED
    BY <2>1, ZenonT(40) DEF IInv, Delivered
<1>11. QED
  BY <1>2, <1>3, <1>4, <1>5, <1>6, <1>7, <1>8, <1>9, <1>10 DEF IInv

\* A slot takes its token into the forward pass.
LEMMA TakeTokenKeeps ==
  ASSUME IInv, TakeToken
  PROVE  IInv'
<1>x. PICK x \in ready : x = Min(ready) /\ x \in DOMAIN running
  BY LeastOf, GroupsAreSlots DEF TakeToken
<1>1. /\ UNCHANGED <<mgr, waiting, outputs, nextId, batch, pending, group, todo, wave, base, row,
                     outcome, stale, refused>>
      /\ pc = "alloc" /\ pc' \in {"alloc", "forward"} /\ todo = {} /\ ready' = ready \ {x}
      /\ pc' = "alloc" <=> ready' # {}
      /\ active' = active \cup {x} /\ x \in ready /\ x \in DOMAIN running /\ x \in group
      /\ x \notin active /\ ready \cap active = {} /\ ~running[x].finished
      /\ ~AtEnd(x)
      /\ DOMAIN running' = DOMAIN running
      /\ \A s \in DOMAIN running :
           /\ running'[s] \in Seats
           /\ running'[s].client = running[s].client
           /\ running'[s].request = running[s].request
           /\ running'[s].prompt = running[s].prompt
           /\ running'[s].made = IF s = x THEN running[s].made + 1 ELSE running[s].made
           /\ running'[s].step = running[s].step
           /\ running'[s].finished = running[s].finished
  BY <1>x DEF IInv, Groups, Seated, Seats, TakeToken, admitVars, runVars
<1> USE <1>1
<1>2. Shape'
  BY DEF IInv, Shape, Phases, Outcomes
<1>3. Queue'
  BY DEF IInv, Queue, QueueInOrder
<1>4. Wave'
  BY DEF IInv, Wave
<1>5. Seated'
  <2>1. Slots' = Slots /\ Installed' = Installed
    BY DEF Slots, Installed
  <2>2. QED
    BY <2>1 DEF IInv, Seated
<1>6. Covers'
  <2>1. \A s \in DOMAIN running : HeldBy(s)' = HeldBy(s)
    BY DEF HeldBy
  <2>2. \A s \in DOMAIN running \ {x} : Tokens(s)' = Tokens(s)
    BY DEF Tokens
  <2>3. Tokens(x)' = Tokens(x) + 1
    <3>1. running'[x].prompt = running[x].prompt /\ running'[x].made = running[x].made + 1
      OBVIOUS
    <3>2. running[x].prompt \in Nat /\ running[x].made \in Nat
      BY SeatNumbers
    <3>3. QED
      BY ONLY <3>1, <3>2 DEF Tokens
  <2>4. ready' \subseteq ready \ {x} /\ ready \subseteq DOMAIN running
    BY GroupsAreSlots
  <2>5. ASSUME NEW s \in DOMAIN running PROVE BlocksFor(Tokens(s)') <= HeldBy(s)'
    <3>1. CASE s = x
      BY <2>1, <2>3, <3>1 DEF IInv, Covers
    <3>2. CASE s # x
      BY <2>1, <2>2, <3>2 DEF IInv, Covers
    <3>3. QED
      BY <3>1, <3>2
  <2>6. \A s \in ready' : BlocksFor(Tokens(s)' + 1) <= HeldBy(s)'
    BY <2>1, <2>2, <2>4 DEF IInv, Covers
  <2>7. QED
    BY ONLY <2>5, <2>6, <1>1 DEF Covers
<1>7. Holders'
  <2>1. Requests' = Requests
    BY DEF Requests
  <2>2. QED
    BY <2>1 DEF IInv, Holders, Claimed, Fresh
<1>8. Groups'
  BY DEF IInv, Groups
<1>9. InStep'
  <2> SUFFICES ASSUME NEW s \in DOMAIN running, running[s].client \notin refused
               PROVE  SlotInStep(s)'
    BY DEF InStep
  <2>1. SlotInStep(s)
    BY DEF IInv, InStep
  <2>2. CASE s = x
    <3>1. running[x].made = running[x].step /\ running[x].step < MaxNew
      BY <2>1, <2>2 DEF SlotInStep
    <3>2. running[x].made + 1 <= batch[running[x].client].stop
      BY SeatNumbers DEF AtEnd
    <3>3. running[x].made + 1 <= MaxNew /\ x \in active' /\ pc' \in {"alloc", "forward"}
      BY <3>1, SeatNumbers
    <3>4. x \notin pending' \cup todo' \cup ready'
      BY DEF IInv, Groups
    <3>5. QED
      BY <2>2, <3>1, <3>2, <3>3, <3>4 DEF SlotInStep
  <2>3. CASE s # x
    BY <2>1, <2>3 DEF SlotInStep
  <2>4. QED
    BY <2>2, <2>3
<1>10. Delivered'
  <2>1. Installed' = Installed /\ Requests' = Requests
    BY DEF Installed, Requests
  <2>2. /\ DOMAIN running' = DOMAIN running
        /\ \A s \in DOMAIN running : running'[s].client = running[s].client
        /\ outputs' = outputs /\ refused' = refused /\ outcome' = outcome /\ batch' = batch
        /\ waiting' = waiting
    OBVIOUS
  <2>3. Delivered
    BY DEF IInv
  <2>4. QED
    BY ONLY <2>1, <2>2, <2>3 DEF Delivered
<1>11. QED
  BY <1>2, <1>3, <1>4, <1>5, <1>6, <1>7, <1>8, <1>9, <1>10 DEF IInv

\* A slot whose token is an end of sequence is finished and trimmed.
LEMMA TakeEndKeeps ==
  ASSUME IInv, TakeEnd
  PROVE  IInv'
<1>x. PICK x \in ready : x = Min(ready) /\ x \in DOMAIN running
  BY LeastOf, GroupsAreSlots DEF TakeEnd
<1>u. /\ UNCHANGED <<waiting, outputs, nextId, batch, pending, group, todo, active, wave, base, row,
                     outcome, stale, refused>>
      /\ pc = "alloc" /\ pc' \in {"alloc", "forward"} /\ todo = {} /\ ready' = ready \ {x}
      /\ pc' = "alloc" <=> ready' # {}
      /\ AtEnd(x) /\ mgr' = Trim(mgr, running[x].request, Tokens(x))
      /\ running' = [running EXCEPT ![x].finished = TRUE]
  BY <1>x DEF TakeEnd, admitVars, runVars
<1>v. /\ x \in group /\ x \notin active /\ x \notin pending /\ ~running[x].finished
      /\ \A s \in DOMAIN running : running[s] \in Seats
  BY <1>x, <1>u DEF IInv, Groups, Seated
<1>1. /\ UNCHANGED <<waiting, outputs, nextId, batch, pending, group, todo, active, wave, base, row,
                     outcome, stale, refused>>
      /\ pc = "alloc" /\ pc' \in {"alloc", "forward"} /\ todo = {} /\ ready' = ready \ {x}
      /\ pc' = "alloc" <=> ready' # {}
      /\ x \in ready /\ x \in DOMAIN running /\ x \in group
      /\ x \notin active /\ x \notin pending /\ ~running[x].finished /\ AtEnd(x)
      /\ mgr' = Trim(mgr, running[x].request, Tokens(x))
      /\ DOMAIN running' = DOMAIN running
      /\ \A s \in DOMAIN running :
           /\ running'[s] \in Seats
           /\ running'[s].client = running[s].client
           /\ running'[s].request = running[s].request
           /\ running'[s].prompt = running[s].prompt
           /\ running'[s].made = running[s].made
           /\ running'[s].step = running[s].step
           /\ running'[s].finished = (running[s].finished \/ s = x)
  BY <1>x, <1>u, <1>v DEF Seats
<1> USE <1>1
<1>a. /\ running[x].request \in RequestIds /\ Tokens(x) \in Nat /\ Partitioned(mgr)
      /\ \A s \in DOMAIN running : running[s].request \in RequestIds
  BY SlotFacts DEF IInv, Shape
<1>b. /\ DOMAIN mgr'.table = DOMAIN mgr.table
      /\ \A q \in RequestIds \ {running[x].request} : Held(mgr', q) = Held(mgr, q)
      /\ BlocksFor(Tokens(x)) <= Held(mgr, running[x].request) =>
           BlocksFor(Tokens(x)) <= Held(mgr', running[x].request)
  BY <1>a, TrimHolds
<1>2. Shape'
  <2>1. Partitioned(mgr')
    BY <1>a, TrimKeeps
  <2>2. QED
    BY <2>1 DEF IInv, Shape, Phases, Outcomes
<1>3. Queue'
  BY DEF IInv, Queue, QueueInOrder
<1>4. Wave'
  BY DEF IInv, Wave
<1>5. Seated'
  <2>1. Slots' = Slots /\ Installed' = Installed
    BY DEF Slots, Installed
  <2>2. QED
    BY <2>1 DEF IInv, Seated
<1>6. Covers'
  <2>1. \A s \in DOMAIN running \ {x} : HeldBy(s)' = HeldBy(s)
    BY <1>a, <1>b DEF HeldBy, IInv, Seated
  <2>2. \A s \in DOMAIN running : Tokens(s)' = Tokens(s)
    BY DEF Tokens
  <2>3. BlocksFor(Tokens(x)) <= HeldBy(x)'
    <3>1. HeldBy(x)' = Held(mgr', running[x].request)
      BY DEF HeldBy
    <3>2. BlocksFor(Tokens(x)) <= Held(mgr, running[x].request)
      BY DEF HeldBy, IInv, Covers
    <3>3. QED
      BY ONLY <1>b, <3>1, <3>2
  <2>4. ready' \subseteq ready \ {x} /\ ready \subseteq DOMAIN running
    BY GroupsAreSlots
  <2>5. ASSUME NEW s \in DOMAIN running PROVE BlocksFor(Tokens(s)') <= HeldBy(s)'
    <3>1. CASE s = x
      BY <2>2, <2>3, <3>1
    <3>2. CASE s # x
      BY <2>1, <2>2, <3>2 DEF IInv, Covers
    <3>3. QED
      BY <3>1, <3>2
  <2>6. \A s \in ready' : BlocksFor(Tokens(s)' + 1) <= HeldBy(s)'
    BY <2>1, <2>2, <2>4 DEF IInv, Covers
  <2>7. QED
    BY ONLY <2>5, <2>6, <1>1 DEF Covers
<1>7. Holders'
  <2>1. Requests' = Requests
    BY DEF Requests
  <2>2. QED
    BY <2>1, <1>b DEF IInv, Holders, Claimed, Fresh
<1>8. Groups'
  BY ZenonT(40) DEF IInv, Groups
<1>9. InStep'
  <2> SUFFICES ASSUME NEW s \in DOMAIN running, running[s].client \notin refused
               PROVE  SlotInStep(s)'
    BY DEF InStep
  <2>1. SlotInStep(s)
    BY DEF IInv, InStep
  <2>2. CASE s = x
    <3>1. running[x].made = batch[running[x].client].stop
      <4>1. running[x].made <= batch[running[x].client].stop
        BY <2>1, <2>2 DEF SlotInStep
      <4>2. QED
        BY <4>1, SeatNumbers DEF AtEnd
    <3>2. QED
      BY <2>1, <2>2, <3>1 DEF SlotInStep
  <2>3. CASE s # x
    BY <2>1, <2>3 DEF SlotInStep
  <2>4. QED
    BY <2>2, <2>3
<1>10. Delivered'
  <2>1. Installed' = Installed /\ Requests' = Requests
    BY DEF Installed, Requests
  <2>2. /\ DOMAIN running' = DOMAIN running
        /\ \A s \in DOMAIN running : running'[s].client = running[s].client
        /\ outputs' = outputs /\ refused' = refused /\ outcome' = outcome /\ batch' = batch
        /\ waiting' = waiting
    OBVIOUS
  <2>3. Delivered
    BY DEF IInv
  <2>4. QED
    BY ONLY <2>1, <2>2, <2>3 DEF Delivered
<1>11. QED
  BY <1>2, <1>3, <1>4, <1>5, <1>6, <1>7, <1>8, <1>9, <1>10 DEF IInv

\* A slot asks for the block of its next token, and is left out when there is none.
LEMMA AllocateForTokenKeeps ==
  ASSUME IInv, AllocateForToken
  PROVE  IInv'
<1>x. PICK x \in todo : x = Min(todo) /\ x \in DOMAIN running
  BY LeastOf, GroupsAreSlots DEF AllocateForToken
<1>1. /\ UNCHANGED <<pc, waiting, running, outputs, nextId, batch, pending, group, active, wave,
                     base, row, outcome, stale>>
      /\ pc = "alloc" /\ todo' = todo \ {x} /\ active = {}
      /\ mgr' = Allocate(mgr, running[x].request, Tokens(x) + 1)
      /\ \/ CanAllocate(mgr, running[x].request, Tokens(x) + 1) /\ ready' = ready \cup {x}
              /\ refused' = refused
         \/ refused' = refused \cup {running[x].client} /\ ready' = ready
  BY <1>x DEF IInv, Groups, AllocateForToken, admitVars
<1> USE <1>1
<1>a. /\ running[x].request \in RequestIds /\ Tokens(x) + 1 \in Nat /\ Partitioned(mgr)
      /\ running[x].request \in DOMAIN mgr.table
      /\ \A s \in DOMAIN running : running[s].request \in RequestIds
  BY <1>x, SlotFacts DEF IInv, Shape
<1>b. /\ DOMAIN mgr'.table = DOMAIN mgr.table
      /\ \A q \in RequestIds \ {running[x].request} : Held(mgr', q) = Held(mgr, q)
      /\ Held(mgr', running[x].request) >= Held(mgr, running[x].request)
      /\ CanAllocate(mgr, running[x].request, Tokens(x) + 1) =>
           Held(mgr', running[x].request) >= BlocksFor(Tokens(x) + 1)
  BY <1>a, AllocateHolds
<1>c. Partitioned(mgr')
  BY <1>a, AllocateKeeps
<1>2. Shape'
  BY <1>c DEF IInv, Shape, Phases, Outcomes
<1>3. Queue'
  BY DEF IInv, Queue, QueueInOrder
<1>4. Wave'
  BY DEF IInv, Wave
<1>5. Seated'
  <2>1. Slots' = Slots /\ Installed' = Installed
    BY DEF Slots, Installed
  <2>2. QED
    BY <2>1 DEF IInv, Seated
<1>6. Covers'
  <2>1. \A s \in DOMAIN running : Tokens(s)' = Tokens(s) /\ BlocksFor(Tokens(s)) \in Nat
                                  /\ BlocksFor(Tokens(s) + 1) \in Nat
    <3>1. \A s \in DOMAIN running : Tokens(s) \in Nat /\ Tokens(s) + 1 \in Nat
      BY SlotFacts
    <3>2. \A s \in DOMAIN running : Tokens(s)' = Tokens(s)
      BY DEF Tokens
    <3>3. QED
      BY <3>1, <3>2, BlocksForType
  <2>2. \A s \in DOMAIN running : HeldBy(s) \in Nat /\ HeldBy(s)' \in Nat
    <3>1. IsManager(mgr) /\ IsManager(mgr')
      BY <1>a, <1>c DEF Partitioned
    <3>2. \A s \in DOMAIN running : /\ Held(mgr, running[s].request) \in Nat
                                    /\ Held(mgr', running[s].request) \in Nat
      BY <3>1, BlocksOfType
    <3>3. QED
      BY <3>2 DEF HeldBy
  <2>3. \A s \in DOMAIN running : HeldBy(s) <= HeldBy(s)'
    <3>1. HeldBy(x) <= HeldBy(x)'
      BY <1>b, <1>x, <2>2 DEF HeldBy
    <3>2. \A s \in DOMAIN running \ {x} : HeldBy(s)' = HeldBy(s)
      BY <1>a, <1>b, <1>x DEF HeldBy, IInv, Seated
    <3>3. QED
      BY <2>2, <3>1, <3>2
  <2>4. \A s \in DOMAIN running : BlocksFor(Tokens(s)) <= HeldBy(s)'
    BY <2>1, <2>2, <2>3 DEF IInv, Covers
  <2>5. \A s \in ready : s \in DOMAIN running /\ BlocksFor(Tokens(s) + 1) <= HeldBy(s)'
    BY <2>1, <2>2, <2>3, GroupsAreSlots DEF IInv, Covers
  <2>6. x \in ready' \ ready => BlocksFor(Tokens(x) + 1) <= HeldBy(x)'
    BY <1>b, <1>x, <2>1, <2>2 DEF HeldBy
  <2>7. \A s \in ready' : BlocksFor(Tokens(s)' + 1) <= HeldBy(s)'
    BY <1>x, <2>1, <2>5, <2>6
  <2>8. pc' = "alloc"
    OBVIOUS
  <2>9. QED
    BY ONLY <1>1, <2>1, <2>4, <2>7, <2>8 DEF Covers
<1>7. Holders'
  <2>1. Requests' = Requests
    BY DEF Requests
  <2>2. QED
    BY <2>1, <1>b DEF IInv, Holders, Claimed, Fresh
<1>8. Groups'
  BY <1>x DEF IInv, Groups
<1>9. InStep'
  <2> SUFFICES ASSUME NEW s \in DOMAIN running, running[s].client \notin refused'
               PROVE  SlotInStep(s)'
    BY DEF InStep
  <2>1. SlotInStep(s) /\ (todo' \cup ready' \subseteq todo \cup ready)
    BY <1>x DEF IInv, InStep
  <2>2. QED
    BY <2>1 DEF SlotInStep
<1>10. Delivered'
  <2>1. Installed' = Installed /\ Requests' = Requests
    BY DEF Installed, Requests
  <2>2. outputs' = outputs /\ outcome' = outcome /\ batch' = batch /\ waiting' = waiting
        /\ running' = running /\ refused \subseteq refused'
    OBVIOUS
  <2>3. Delivered
    BY DEF IInv
  <2>4. QED
    BY ONLY <2>1, <2>2, <2>3 DEF Delivered
<1>11. QED
  BY <1>2, <1>3, <1>4, <1>5, <1>6, <1>7, <1>8, <1>9, <1>10 DEF IInv

\* A finished sequence is delivered, its blocks freed and its slot emptied.
LEMMA FreeFinishedKeeps ==
  ASSUME IInv, FreeFinished
  PROVE  IInv'
<1>x. PICK x \in DOMAIN running : x = Min(Finished) /\ running[x].finished
  <2>1. Finished \subseteq Nat
    BY GroupsAreSlots DEF Finished
  <2>2. QED
    BY <2>1, LeastOf DEF FreeFinished, Finished
<1>1. /\ UNCHANGED <<pc, waiting, nextId, batch, pending, group, todo, ready, active, wave, base,
                     row, outcome, stale, refused>>
      /\ pc \in {"free", "refree"} /\ outcome = "none"
      /\ pending = {} /\ group = {} /\ todo = {} /\ ready = {} /\ active = {}
      /\ mgr' = FreeRequest(mgr, running[x].request)
      /\ DOMAIN running' = DOMAIN running \ {x}
      /\ \A s \in DOMAIN running \ {x} : running'[s] = running[s]
      /\ DOMAIN outputs' = DOMAIN outputs \cup {running[x].client}
      /\ outputs'[running[x].client] = running[x].made
      /\ \A c \in DOMAIN outputs \ {running[x].client} : outputs'[c] = outputs[c]
  BY <1>x
     DEF IInv, Shape, Groups, FreeFinished, decodeVars, admitVars, runVars, Drop, Restrict, Put
<1> USE <1>1
<1>a. /\ running[x].request \in RequestIds /\ Partitioned(mgr) /\ running[x].request \in Nat
      /\ \A s \in DOMAIN running : running[s].request \in RequestIds
      /\ \A s \in DOMAIN running \ {x} : running[s].request # running[x].request
      /\ running[x].client = running[x].request + 1
  BY <1>x, SlotFacts DEF IInv, Shape, Seated, Seats
<1>b. /\ DOMAIN mgr'.table = DOMAIN mgr.table \ {running[x].request}
      /\ \A q \in RequestIds \ {running[x].request} : Held(mgr', q) = Held(mgr, q)
  BY <1>a, FreeHolds
<1>c. Partitioned(mgr')
  BY <1>a, FreeKeeps
<1>d. Requests' = Requests \ {running[x].request}
  BY <1>a, <1>x DEF Requests
<1>2. Shape'
  BY <1>c DEF IInv, Shape, Phases, Outcomes
<1>3. Queue'
  BY DEF IInv, Queue, QueueInOrder
<1>4. Wave'
  BY DEF IInv, Wave
<1>5. Seated'
  <2>1. Slots' = Slots /\ Installed' = Installed
    BY DEF Slots, Installed
  <2>2. QED
    BY <2>1 DEF IInv, Seated
<1>6. Covers'
  <2>1. \A s \in DOMAIN running' : Tokens(s)' = Tokens(s) /\ HeldBy(s)' = HeldBy(s)
    BY <1>a, <1>b DEF Tokens, HeldBy
  <2>2. ready' = {} /\ pc' \notin {"prefill", "install"}
    OBVIOUS
  <2>3. QED
    BY <2>1, <2>2 DEF IInv, Covers
<1>7. Holders'
  <2>1. Claimed = nextId /\ Claimed' = nextId /\ Fresh = {} /\ Fresh' = {}
    BY DEF Claimed, Fresh
  <2>2. running[x].request \in 0 .. nextId - 1
    BY <1>a, <1>x, SlotFacts, InstalledBound
  <2>3. DOMAIN mgr.table = (stale \ (0 .. nextId - 1)) \cup Requests
    BY <2>1 DEF IInv, Holders
  <2>4. DOMAIN mgr'.table = (stale' \ (0 .. nextId' - 1)) \cup Requests'
    BY ONLY <1>1, <1>b, <1>d, <2>2, <2>3
  <2>5. QED
    BY <2>1, <2>4 DEF Holders
<1>8. Groups'
  BY DEF IInv, Groups
<1>9. InStep'
  <2>1. \A s \in DOMAIN running' : SlotInStep(s) => SlotInStep(s)'
    BY DEF SlotInStep
  <2>2. QED
    BY <2>1 DEF IInv, InStep
<1>10. Delivered'
  <2>1. Installed' = Installed
    BY DEF Installed
  <2>2. ASSUME running[x].client \notin refused
        PROVE  running[x].made = Min({batch[running[x].client].stop, MaxNew})
    <3>1. /\ running[x].made <= batch[running[x].client].stop /\ running[x].made <= MaxNew
          /\ \/ running[x].made = batch[running[x].client].stop
             \/ running[x].made = MaxNew
      BY <1>x, <2>2 DEF IInv, InStep, SlotInStep
    <3>2. QED
      BY <1>x, <3>1, SeatNumbers, MinOfTwo
  <2>3. running[x].client \in 1 .. Installed
    BY <1>a, <1>x, InstalledBound DEF IInv, Seated
  <2>4. \A s \in DOMAIN running \ {x} : running[s].client # running[x].client
    BY <1>a DEF IInv, Seated, Seats
  <2>5. ASSUME NEW c \in DOMAIN outputs'
        PROVE  /\ c \in 1 .. Installed
               /\ \A s \in DOMAIN running' : running'[s].client # c
               /\ c \notin refused => outputs'[c] = Min({batch[c].stop, MaxNew})
    <3>1. CASE c = running[x].client
      BY <2>2, <2>3, <2>4, <3>1
    <3>2. CASE c # running[x].client
      BY <3>2, ZenonT(40) DEF IInv, Delivered
    <3>3. QED
      BY <3>1, <3>2
  <2>6. ASSUME NEW c \in 1 .. Installed
        PROVE  c \in DOMAIN outputs' \/ c - 1 \in Requests'
    <3>1. c \in DOMAIN outputs \/ c - 1 \in Requests
      BY DEF IInv, Delivered
    <3>2. c - 1 = running[x].request => c = running[x].client
      BY <1>a, InstalledBound
    <3>3. QED
      BY <1>d, <3>1, <3>2
  <2>7. outcome' = "none" /\ refused' = refused /\ batch' = batch
    OBVIOUS
  <2>8. QED
    BY ONLY <2>1, <2>5, <2>6, <2>7 DEF Delivered
<1>11. QED
  BY <1>2, <1>3, <1>4, <1>5, <1>6, <1>7, <1>8, <1>9, <1>10 DEF IInv

\* On its way out the run frees the blocks of every sequence that is still in a slot.
LEMMA FreeRunningKeeps ==
  ASSUME IInv, FreeRunning
  PROVE  IInv'
<1>x. PICK x \in DOMAIN running : x = Min(DOMAIN running)
  BY GroupsAreSlots, LeastOf DEF FreeRunning
<1>1. /\ UNCHANGED <<pc, waiting, outputs, nextId, batch, pending, group, todo, ready, active, wave,
                     base, row, outcome, stale, refused>>
      /\ pc = "unwind" /\ outcome \notin {"none", "ok"}
      /\ pending = {} /\ group = {} /\ todo = {} /\ ready = {} /\ active = {}
      /\ mgr' = FreeRequest(mgr, running[x].request)
      /\ DOMAIN running' = DOMAIN running \ {x}
      /\ \A s \in DOMAIN running \ {x} : running'[s] = running[s]
  BY <1>x
     DEF IInv, Shape, Delivered, Groups, FreeRunning, decodeVars, admitVars, runVars, Drop, Restrict
<1> USE <1>1
<1>a. /\ running[x].request \in RequestIds /\ Partitioned(mgr) /\ running[x].request \in Nat
      /\ \A s \in DOMAIN running : running[s].request \in RequestIds
      /\ \A s \in DOMAIN running \ {x} : running[s].request # running[x].request
      /\ running[x].client = running[x].request + 1
  BY <1>x, SlotFacts DEF IInv, Shape, Seated, Seats
<1>b. /\ DOMAIN mgr'.table = DOMAIN mgr.table \ {running[x].request}
      /\ \A q \in RequestIds \ {running[x].request} : Held(mgr', q) = Held(mgr, q)
  BY <1>a, FreeHolds
<1>c. Partitioned(mgr')
  BY <1>a, FreeKeeps
<1>d. Requests' = Requests \ {running[x].request}
  BY <1>a, <1>x DEF Requests
<1>2. Shape'
  BY <1>c DEF IInv, Shape, Phases, Outcomes
<1>3. Queue'
  BY DEF IInv, Queue, QueueInOrder
<1>4. Wave'
  BY DEF IInv, Wave
<1>5. Seated'
  <2>1. Slots' = Slots /\ Installed' = Installed
    BY DEF Slots, Installed
  <2>2. QED
    BY <2>1 DEF IInv, Seated
<1>6. Covers'
  <2>1. \A s \in DOMAIN running' : Tokens(s)' = Tokens(s) /\ HeldBy(s)' = HeldBy(s)
    BY <1>a, <1>b DEF Tokens, HeldBy
  <2>2. ready' = {} /\ pc' \notin {"prefill", "install"}
    OBVIOUS
  <2>3. QED
    BY <2>1, <2>2 DEF IInv, Covers
<1>7. Holders'
  <2>1. Claimed = nextId /\ Claimed' = nextId /\ Fresh = {} /\ Fresh' = {}
    BY DEF Claimed, Fresh
  <2>2. running[x].request \in 0 .. nextId - 1
    BY <1>a, <1>x, SlotFacts, InstalledBound
  <2>3. outcome # "prefill failed" =>
          DOMAIN mgr.table = (stale \ (0 .. nextId - 1)) \cup Requests
    BY <2>1 DEF IInv, Holders
  <2>4. outcome # "prefill failed" =>
          DOMAIN mgr'.table = (stale' \ (0 .. nextId' - 1)) \cup Requests'
    BY ONLY <1>1, <1>b, <1>d, <2>2, <2>3
  <2>5. QED
    BY <2>1, <2>4 DEF Holders
<1>8. Groups'
  BY DEF IInv, Groups
<1>9. InStep'
  <2>1. \A s \in DOMAIN running' : SlotInStep(s) => SlotInStep(s)'
    BY DEF SlotInStep
  <2>2. QED
    BY <2>1 DEF IInv, InStep
<1>10. Delivered'
  <2>1. Installed' = Installed
    BY DEF Installed
  <2>2. QED
    BY <2>1 DEF IInv, Delivered
<1>11. QED
  BY <1>2, <1>3, <1>4, <1>5, <1>6, <1>7, <1>8, <1>9, <1>10 DEF IInv

\* The client at the front of the queue joins the wave, with a free slot of its own.
LEMMA AdmitNextKeeps ==
  ASSUME IInv, AdmitNext
  PROVE  IInv'
<1>x. PICK f \in Nat : /\ f \in FreeSlots
                       /\ wave' = Append(wave, [client |-> Head(waiting), slot |-> f])
  <2>1. FreeSlots \subseteq Nat
    BY GroupsAreSlots DEF FreeSlots
  <2>2. QED
    BY <2>1, LeastOf DEF AdmitNext, MayAdmit
<1>y. /\ waiting \in Seq(Nat) /\ waiting # <<>> /\ Len(waiting) \in Nat \ {0}
      /\ Head(waiting) = waiting[1] /\ DOMAIN waiting = 1 .. Len(waiting)
      /\ Tail(waiting) \in Seq(Nat) /\ Len(Tail(waiting)) = Len(waiting) - 1
      /\ \A i \in 1 .. Len(waiting) - 1 : Tail(waiting)[i] = waiting[i + 1]
      /\ DOMAIN Tail(waiting) = 1 .. Len(waiting) - 1
  <2>1. waiting \in Seq(Nat) /\ waiting # <<>>
    BY DEF IInv, Queue, AdmitNext, MayAdmit
  <2>2. QED
    BY <2>1, HeadTailProperties, EmptySeq, LenProperties
<1>z. Head(waiting) = nextId + Len(wave) + 1 /\ Head(waiting) \in Nat
  <2>1. /\ nextId \in Nat /\ Len(wave) \in Nat
        /\ nextId + Len(wave) + Len(waiting) = Len(batch)
        /\ waiting[1] = Len(batch) - Len(waiting) + 1
    <3>1. nextId \in Nat /\ Len(wave) \in Nat /\ nextId + Len(wave) + Len(waiting) = Len(batch)
      BY InstalledBound DEF IInv, Queue, AdmitNext
    <3>2. 1 \in DOMAIN waiting
      BY <1>y
    <3>3. QED
      BY <3>1, <3>2 DEF IInv, Queue, QueueInOrder
  <2>2. QED
    BY <1>y, <2>1
<1> DEFINE new == [client |-> Head(waiting), slot |-> f]
<1>w. /\ Append(wave, new) \in Seq(Rows) /\ Len(Append(wave, new)) = Len(wave) + 1
      /\ \A i \in 1 .. Len(wave) : Append(wave, new)[i] = wave[i]
      /\ Append(wave, new)[Len(wave) + 1] = new
      /\ DOMAIN wave = 1 .. Len(wave) /\ DOMAIN Append(wave, new) = 1 .. Len(wave) + 1
      /\ Len(wave) \in Nat
  <2>1. wave \in Seq(Rows) /\ new \in Rows
    BY <1>x, <1>z DEF IInv, Wave, Rows
  <2>2. QED
    BY <2>1, AppendProperties, LenProperties
<1>v. /\ f \in Slots /\ f \notin DOMAIN running
      /\ \A i \in DOMAIN wave : wave[i].slot # f
  BY <1>x DEF FreeSlots
<1>u. new.client = nextId + Len(wave) + 1 /\ new.slot = f
  BY <1>z
<1> HIDE DEF new
<1>1. /\ UNCHANGED <<mgr, pc, running, outputs, nextId, batch, pending, group, todo, ready, active,
                     base, row, outcome, stale, refused>>
      /\ pc = "admit" /\ waiting' = Tail(waiting)
      /\ wave' \in Seq(Rows) /\ Len(wave') = Len(wave) + 1
      /\ \A i \in 1 .. Len(wave) : wave'[i] = wave[i]
      /\ wave'[Len(wave) + 1].client = nextId + Len(wave) + 1
      /\ wave'[Len(wave) + 1].slot = f
      /\ f \in Slots /\ f \notin DOMAIN running
      /\ \A i \in 1 .. Len(wave) : wave[i].slot # f
      /\ DOMAIN wave = 1 .. Len(wave) /\ DOMAIN wave' = 1 .. Len(wave) + 1
      /\ Len(wave) \in Nat /\ nextId \in Nat
  <2>1. wave' = Append(wave, new) /\ nextId \in Nat
    BY <1>x, InstalledBound DEF new
  <2>2. QED
    BY <1>u, <1>v, <1>w, <2>1 DEF AdmitNext, decodeVars, runVars
<1> USE <1>1
<1>2. Shape'
  BY DEF IInv, Shape, Phases, Outcomes
<1>3. Queue'
  <2>1. \A i \in 1 .. Len(waiting) : waiting[i] = Len(batch) - Len(waiting) + i
    BY <1>y DEF IInv, Queue, QueueInOrder
  <2>2. nextId + Len(wave) + Len(waiting) = Len(batch) /\ Len(batch) \in Nat
    BY BatchFacts DEF IInv, Queue
  <2>3. \A i \in 1 .. Len(waiting) - 1 :
          Tail(waiting)[i] = Len(batch) - (Len(waiting) - 1) + i
    <3>1. \A i \in 1 .. Len(waiting) - 1 : i + 1 \in 1 .. Len(waiting)
      BY ONLY <1>y
    <3>2. QED
      BY ONLY <1>y, <2>1, <2>2, <3>1
  <2>4. nextId + (Len(wave) + 1) + (Len(waiting) - 1) = Len(batch)
    <3>1. nextId \in Nat /\ Len(wave) \in Nat /\ Len(waiting) \in Nat
      BY <1>y
    <3>2. QED
      BY ONLY <2>2, <3>1
  <2>5. QED
    BY <1>y, <2>3, <2>4 DEF Queue, QueueInOrder
<1>4. Wave'
  <2>1. Slots' = Slots /\ FirstLeft = 1 /\ FirstLeft' = 1
    BY DEF Slots, FirstLeft
  <2>2. \A i \in 1 .. Len(wave) + 1 : i \in 1 .. Len(wave) \/ i = Len(wave) + 1
    OBVIOUS
  <2>3. \A i \in 1 .. Len(wave) + 1 : wave'[i].client = nextId + i
    BY <2>2, SMTT(30) DEF IInv, Wave
  <2>4. \A i, j \in 1 .. Len(wave) + 1 : wave'[i].slot = wave'[j].slot => i = j
    BY <2>2 DEF IInv, Wave
  <2>5. \A i \in 1 .. Len(wave) + 1 : wave'[i].slot \in Slots /\ wave'[i].slot \notin DOMAIN running
    BY <2>1, <2>2 DEF IInv, Wave
  <2>6. row' \in 1 .. Len(wave') + 1 /\ base' \in Nat
    BY DEF IInv, Wave
  <2>7. QED
    BY <2>1, <2>3, <2>4, <2>5, <2>6 DEF Wave
<1>5. Seated'
  BY DEF IInv, Seated, Slots, Installed
<1>6. Covers'
  BY DEF IInv, Covers, Tokens, HeldBy
<1>7. Holders'
  BY ZenonT(40) DEF IInv, Holders, Claimed, Requests, Fresh
<1>8. Groups'
  BY DEF IInv, Groups
<1>9. InStep'
  BY DEF IInv, InStep, SlotInStep
<1>10. Delivered'
  <2>1. Installed' = Installed /\ Requests' = Requests
    BY DEF Installed, Requests
  <2>2. Delivered /\ outcome = "none"
    BY DEF IInv, Shape
  <2>3. outputs' = outputs /\ outcome' = outcome /\ batch' = batch /\ running' = running
        /\ refused' = refused
    OBVIOUS
  <2>4. QED
    BY ONLY <2>1, <2>2, <2>3 DEF Delivered
<1>11. QED
  BY <1>2, <1>3, <1>4, <1>5, <1>6, <1>7, <1>8, <1>9, <1>10 DEF IInv

\* The prompt of the next row of the wave gets its blocks.
LEMMA AllocatePromptKeeps ==
  ASSUME IInv, AllocatePrompt
  PROVE  IInv'
<1>x. PICK r \in RequestIds :
         /\ r = RowId(row) /\ row \in 1 .. Len(wave) /\ PromptLen(row) \in Nat \ {0}
         /\ r = base + row - 1 /\ pc = "prefill"
  <2>1. pc = "prefill" /\ row \in 1 .. Len(wave)
    BY DEF AllocatePrompt, IInv, Wave
  <2>2. QED
    BY <2>1, RowFacts
<1>y. PICK k \in Nat \ {0} : k = PromptLen(row)
  BY <1>x
<1>1. /\ UNCHANGED <<pc, waiting, running, outputs, nextId, batch, pending, group, todo, ready, active,
                     wave, base, outcome, stale, refused>>
      /\ pc = "prefill" /\ row' = row + 1
      /\ CanAllocate(mgr, r, k) /\ mgr' = Allocate(mgr, r, k)
      /\ base \in Nat /\ Len(wave) \in Nat /\ ready = {} /\ outcome = "none"
  BY <1>x, <1>y, InstalledBound DEF AllocatePrompt, IInv, Wave, Groups, Shape, decodeVars, runVars
<1> USE <1>1
<1>a. Partitioned(mgr) /\ BlocksFor(k) \in Nat /\ BlocksFor(k) > 0
  BY BlocksForGrows, BlocksForType DEF IInv, Shape
<1>b. /\ DOMAIN mgr'.table = DOMAIN mgr.table \cup {r}
      /\ \A q \in RequestIds \ {r} : Held(mgr', q) = Held(mgr, q)
      /\ Held(mgr', r) >= BlocksFor(k) /\ Held(mgr', r) \in Nat
  <2>1. Partitioned(mgr')
    BY <1>a, AllocateKeeps
  <2>2. Held(mgr', r) \in Nat
    BY <2>1, BlocksOfType DEF Partitioned
  <2>3. QED
    BY <1>a, <2>2, AllocateHolds
<1>2. Shape'
  <2>1. Partitioned(mgr')
    BY <1>a, AllocateKeeps
  <2>2. QED
    BY <2>1 DEF IInv, Shape, Phases, Outcomes
<1>3. Queue'
  BY DEF IInv, Queue, QueueInOrder
<1>4. Wave'
  <2>1. row' \in 1 .. Len(wave') + 1 /\ FirstLeft' = FirstLeft /\ Slots' = Slots
    BY <1>x DEF FirstLeft, Slots
  <2>2. QED
    BY <2>1 DEF IInv, Wave
<1>5. Seated'
  BY DEF IInv, Seated, Slots, Installed
<1>6. Covers'
  <2>1. ASSUME NEW s \in DOMAIN running
        PROVE  BlocksFor(Tokens(s)') <= HeldBy(s)'
    <3>1. running[s].request \in RequestIds /\ running[s].request # r
      <4>1. running[s].request \in Nat /\ running[s].request < base
        BY DEF IInv, Seated, Seats, Installed
      <4>2. QED
        BY <1>x, <4>1, SlotFacts
    <3>2. HeldBy(s)' = HeldBy(s) /\ Tokens(s)' = Tokens(s)
      BY <1>b, <3>1 DEF HeldBy, Tokens
    <3>3. QED
      BY <3>2 DEF IInv, Covers
  <2>2. ASSUME NEW i \in 1 .. row' - 1
        PROVE  BlocksFor(PromptLen(i)') <= Held(mgr', RowId(i)')
    <3>1. PromptLen(i)' = PromptLen(i) /\ RowId(i)' = RowId(i)
      BY DEF PromptLen, RowId
    <3>2. CASE i = row
      BY <1>a, <1>b, <1>x, <1>y, <3>1, <3>2
    <3>3. CASE i # row
      <4>1. i \in 1 .. row - 1 /\ i \in 1 .. Len(wave)
        BY <1>x, <3>3
      <4>2. RowId(i) \in RequestIds \ {r}
        BY <1>x, <3>3, <4>1, RowFacts
      <4>3. QED
        BY <1>b, <3>1, <4>1, <4>2 DEF IInv, Covers
    <3>4. QED
      BY <3>2, <3>3
  <2>3. ready' = {} /\ pc' = "prefill"
    OBVIOUS
  <2>4. QED
    BY ONLY <1>1, <2>1, <2>2, <2>3 DEF Covers
<1>7. Holders'
  <2>1. Claimed' = Claimed /\ Requests' = Requests
    BY DEF Claimed, Requests
  <2>2. Fresh' = Fresh \cup {r}
    <3>1. Fresh = base .. base + row - 2 /\ Fresh' = base .. base + (row + 1) - 2
      BY DEF Fresh
    <3>2. base .. base + (row + 1) - 2 = (base .. base + row - 2) \cup {base + row - 1}
      BY <1>x
    <3>3. QED
      BY <1>x, <3>1, <3>2
  <2>3. QED
    BY <1>b, <2>1, <2>2 DEF IInv, Holders
<1>8. Groups'
  BY DEF IInv, Groups
<1>9. InStep'
  BY DEF IInv, InStep, SlotInStep
<1>10. Delivered'
  <2>1. Installed' = Installed /\ Requests' = Requests
    BY DEF Installed, Requests
  <2>2. QED
    BY <2>1 DEF IInv, Delivered
<1>11. QED
  BY <1>2, <1>3, <1>4, <1>5, <1>6, <1>7, <1>8, <1>9, <1>10 DEF IInv

\* A row of the wave becomes the sequence of its slot.
LEMMA InstallKeeps ==
  ASSUME IInv, Install
  PROVE  IInv'
<1>x. PICK r \in RequestIds, k \in Nat \ {0}, c \in 1 .. Len(batch), f \in Slots :
         /\ r = RowId(row) /\ k = PromptLen(row) /\ c = wave[row].client /\ f = wave[row].slot
         /\ row \in 1 .. Len(wave) /\ r = base + row - 1 /\ r \in Nat /\ c = r + 1 /\ k = batch[c].len
         /\ f \notin DOMAIN running /\ pc = "install" /\ r < nextId
  <2>1. pc = "install" /\ row \in 1 .. Len(wave)
    BY DEF Install, IInv, Wave
  <2>2. /\ RowId(row) = base + row - 1 /\ RowId(row) \in Nat /\ RowId(row) \in RequestIds
        /\ RowId(row) < nextId
        /\ wave[row].client = base + row /\ wave[row].client \in 1 .. Len(batch)
        /\ PromptLen(row) = batch[base + row].len /\ PromptLen(row) \in Nat \ {0}
        /\ row \in DOMAIN wave
    BY <2>1, RowFacts
  <2>3. base \in Nat /\ row \in Nat
    BY DEF IInv, Wave
  <2>4. wave[row].slot \in Slots /\ wave[row].slot \notin DOMAIN running
    BY <2>1, <2>2, <2>3 DEF IInv, Wave, FirstLeft
  <2>5. base + row = RowId(row) + 1
    BY <2>2, <2>3
  <2>6. QED
    BY <2>1, <2>2, <2>4, <2>5
<1>s. batch[c].stop \in Nat /\ MaxNew \in Nat \ {0}
  BY <1>x, BatchFacts, BatchAssumption
<1>w. base \in Nat /\ Len(wave) \in Nat /\ base + Len(wave) = nextId
  BY <1>x, InstalledBound DEF IInv, Wave
<1>1. /\ UNCHANGED <<waiting, outputs, nextId, batch, pending, group, todo, ready, active, wave, base,
                     outcome, stale, refused>>
      /\ pc = "install" /\ row' = row + 1 /\ outcome = "none"
      /\ row = Len(wave) => pc' = "check"
      /\ row # Len(wave) => pc' = "install"
      /\ pc' \in {"check", "install"}
      /\ pending = {} /\ group = {} /\ todo = {} /\ ready = {} /\ active = {}
      /\ mgr' \in {mgr, Trim(mgr, r, k)}
      /\ DOMAIN running' = DOMAIN running \cup {f}
      /\ \A s \in DOMAIN running : running'[s] = running[s]
      /\ running'[f] = [client |-> c, request |-> r, prompt |-> k, made |-> 0, step |-> 0,
                        finished |-> (batch[c].stop = 0)]
  BY <1>x
     DEF IInv, Shape, Groups, Install, Put, decodeVars, runVars
<1> USE <1>1
<1>a. Partitioned(mgr) /\ Partitioned(mgr')
  BY TrimKeeps DEF IInv, Shape
<1>b. /\ DOMAIN mgr'.table = DOMAIN mgr.table
      /\ \A q \in RequestIds \ {r} : Held(mgr', q) = Held(mgr, q)
      /\ BlocksFor(k) <= Held(mgr, r) => BlocksFor(k) <= Held(mgr', r)
  BY <1>a, TrimHolds
<1>c. running'[f] \in Seats
  BY <1>x DEF Seats
<1>d. Installed = r /\ Installed' = r + 1
  <2>1. Installed = r
    BY <1>x DEF Installed
  <2>2. row \in Nat /\ r = base + row - 1 /\ base + Len(wave) = nextId /\ base \in Nat
    BY <1>w, <1>x
  <2>3. base + (row + 1) - 1 = r + 1 /\ (row = Len(wave) => nextId = r + 1)
    BY ONLY <2>2
  <2>4. ASSUME row = Len(wave) PROVE Installed' = r + 1
    <3>1. Installed' = nextId
      BY <2>4 DEF Installed
    <3>2. QED
      BY <2>3, <2>4, <3>1
  <2>5. ASSUME row # Len(wave) PROVE Installed' = r + 1
    <3>1. Installed' = base + (row + 1) - 1
      BY <2>5 DEF Installed
    <3>2. QED
      BY <2>3, <3>1
  <2>6. QED
    BY <2>1, <2>4, <2>5
<1>e. \A s \in DOMAIN running : running[s].request \in RequestIds /\ running[s].request \in Nat
                              /\ running[s].request < r
  BY <1>d, SlotFacts DEF IInv, Seated, Seats
<1>f. Requests' = Requests \cup {r}
  BY <1>x DEF Requests
<1>2. Shape'
  BY <1>a DEF IInv, Shape, Phases, Outcomes
<1>3. Queue'
  BY DEF IInv, Queue, QueueInOrder
<1>4. Wave'
  <2>1. Slots' = Slots /\ FirstLeft = row
    BY DEF Slots, FirstLeft
  <2>2. row' \in 1 .. Len(wave') + 1 /\ row' \in Nat
    BY <1>w, <1>x
  <2>3. /\ wave \in Seq(Rows) /\ wave # <<>>
        /\ \A i \in DOMAIN wave : wave[i].client = base + i
        /\ \A i, j \in DOMAIN wave : wave[i].slot = wave[j].slot => i = j
        /\ \A i \in DOMAIN wave :
             i >= row => wave[i].slot \in Slots /\ wave[i].slot \notin DOMAIN running
        /\ DOMAIN wave = 1 .. Len(wave)
    BY <2>1, LenProperties DEF IInv, Wave
  <2>4. pc' = "install" => row' <= Len(wave)
    BY <1>w, <1>x
  <2>5. ASSUME NEW i \in DOMAIN wave, i >= row + 1
        PROVE  wave[i].slot \in Slots /\ wave[i].slot \notin DOMAIN running'
    <3>1. i \in 1 .. Len(wave) /\ row \in 1 .. Len(wave)
      BY <1>x, <2>3
    <3>2. i >= row /\ i # row /\ row \in DOMAIN wave
      BY ONLY <1>w, <2>3, <2>5, <3>1
    <3>3. QED
      BY <1>x, <2>3, <3>2
  <2>6. pc' = "install" => FirstLeft' = row + 1
    BY DEF FirstLeft
  <2>7. UNCHANGED <<wave, base, nextId>> /\ pc' \in {"check", "install"}
    OBVIOUS
  <2>8. QED
    BY ONLY <1>w, <2>1, <2>2, <2>3, <2>4, <2>5, <2>6, <2>7 DEF Wave
<1>5. Seated'
  <2>1. Slots' = Slots
    BY DEF Slots
  <2>2. /\ DOMAIN running \subseteq Slots
        /\ \A s \in DOMAIN running :
             /\ running[s] \in Seats
             /\ running[s].client = running[s].request + 1
             /\ running[s].prompt = batch[running[s].client].len
        /\ \A s, t \in DOMAIN running : running[s].request = running[t].request => s = t
    BY DEF IInv, Seated
  <2>3. /\ running'[f].request = r /\ running'[f].client = r + 1 /\ running'[f].prompt = k
        /\ k = batch[r + 1].len
    BY <1>x
  <2>4. r < Installed' /\ \A s \in DOMAIN running : running[s].request < Installed'
    BY <1>d, <1>e, <1>x
  <2>5. \A s \in DOMAIN running : running[s].request # r
    BY <1>e, <1>x
  <2>6. DOMAIN running' = DOMAIN running \cup {f} /\ batch' = batch
        /\ \A s \in DOMAIN running : running'[s] = running[s]
    OBVIOUS
  <2>7. QED
    BY ONLY <1>c, <1>x, <2>1, <2>2, <2>3, <2>4, <2>5, <2>6 DEF Seated
<1>6. Covers'
  <2>1. ASSUME NEW s \in DOMAIN running
        PROVE  BlocksFor(Tokens(s)') <= HeldBy(s)'
    <3>1. HeldBy(s)' = HeldBy(s) /\ Tokens(s)' = Tokens(s)
      BY <1>b, <1>e, <1>x DEF HeldBy, Tokens
    <3>2. QED
      BY <3>1 DEF IInv, Covers
  <2>2. \A i \in 1 .. Len(wave) : PromptLen(i)' = PromptLen(i) /\ RowId(i)' = RowId(i)
    BY DEF PromptLen, RowId
  <2>3. BlocksFor(Tokens(f)') <= HeldBy(f)'
    <3>1. Tokens(f)' = k /\ HeldBy(f)' = Held(mgr', r)
      BY <1>x DEF Tokens, HeldBy
    <3>2. BlocksFor(k) <= Held(mgr, r)
      <4>1. row \in row .. Len(wave)
        BY <1>w, <1>x
      <4>2. QED
        BY <1>x, <4>1 DEF IInv, Covers
    <3>3. QED
      BY <1>b, <3>1, <3>2
  <2>4. ASSUME NEW i \in row' .. Len(wave)
        PROVE  BlocksFor(PromptLen(i)') <= Held(mgr', RowId(i)')
    <3>1. i \in row .. Len(wave) /\ i # row /\ i \in 1 .. Len(wave)
      BY <1>w, <1>x
    <3>2. RowId(i) \in RequestIds \ {r}
      BY <1>w, <1>x, <3>1, RowFacts
    <3>3. QED
      BY <1>b, <2>2, <3>1, <3>2 DEF IInv, Covers
  <2>5. ready' = {} /\ pc' \in {"check", "install"} /\ wave' = wave
        /\ DOMAIN running' = DOMAIN running \cup {f}
    OBVIOUS
  <2>6. QED
    BY ONLY <2>1, <2>3, <2>4, <2>5 DEF Covers
<1>7. Holders'
  <2>1. Claimed' = Claimed
    BY DEF Claimed
  <2>2. Fresh = {r} \cup Fresh'
    <3>1. Fresh = r .. nextId - 1
      BY <1>x DEF Fresh
    <3>2. CASE row = Len(wave)
      BY <1>w, <1>x, <3>1, <3>2 DEF Fresh
    <3>3. CASE row # Len(wave)
      <4>1. Fresh' = r + 1 .. nextId - 1
        BY <1>w, <1>x, <3>3 DEF Fresh
      <4>2. QED
        BY <1>w, <1>x, <3>1, <4>1, SMTT(30)
    <3>4. QED
      BY <3>2, <3>3
  <2>3. QED
    BY <1>b, <1>f, <2>1, <2>2 DEF IInv, Holders
<1>8. Groups'
  BY DEF IInv, Groups
<1>9. InStep'
  <2>1. \A s \in DOMAIN running : SlotInStep(s) => SlotInStep(s)'
    BY DEF SlotInStep
  <2>2. SlotInStep(f)'
    <3>1. /\ running'[f].client = c /\ running'[f].made = 0 /\ running'[f].step = 0
          /\ running'[f].finished = (batch[c].stop = 0)
          /\ batch' = batch /\ f \notin active'
      OBVIOUS
    <3>2. batch'[running'[f].client].stop = batch[c].stop
      BY <3>1
    <3>3. running'[f].finished => batch[c].stop = 0
      BY <3>1
    <3>4. 0 <= batch[c].stop /\ 0 <= MaxNew /\ 0 < MaxNew
      BY <1>s
    <3>5. QED
      BY ONLY <3>1, <3>2, <3>3, <3>4 DEF SlotInStep
  <2>3. QED
    BY <2>1, <2>2 DEF IInv, InStep
<1>10. Delivered'
  <2>1. r + 1 = c /\ r \in Nat
    BY <1>x
  <2>2. \A i \in 1 .. r + 1 : i \in 1 .. r \/ i = c
    BY <2>1
  <2>3. c \notin DOMAIN outputs
    <3>1. \A d \in DOMAIN outputs : d \in 1 .. r
      BY <1>d DEF IInv, Delivered
    <3>2. r + 1 \notin 1 .. r
      BY ONLY <2>1
    <3>3. QED
      BY <2>1, <3>1, <3>2
  <2>4. Delivered /\ outcome = "none" /\ UNCHANGED <<outputs, outcome, batch, refused>>
    BY DEF IInv
  <2>5. 1 .. r \subseteq 1 .. r + 1 /\ c - 1 = r
    BY <2>1
  <2>6. running'[f].client = c /\ DOMAIN running' = DOMAIN running \cup {f}
        /\ \A s \in DOMAIN running : running'[s] = running[s]
    OBVIOUS
  <2>7. QED
    BY ONLY <1>d, <1>f, <2>2, <2>3, <2>4, <2>5, <2>6 DEF Delivered
<1>11. QED
  BY <1>2, <1>3, <1>4, <1>5, <1>6, <1>7, <1>8, <1>9, <1>10 DEF IInv

--------------------------------------------------------------------------------
\* The invariant holds at the start, ...
LEMMA InitHolds == Init => IInv
<1> SUFFICES ASSUME Init PROVE IInv
  OBVIOUS
<1> USE DEF Init, EmptyMap
<1>1. Shape
  BY NewManagerPartitioned DEF Shape, Phases, Outcomes
<1>2. Queue
  BY DEF Queue, QueueInOrder
<1>3. Wave
  BY DEF Wave
<1>4. Seated /\ Covers /\ Holders
  BY DEF Seated, Covers, Holders
<1>5. Groups /\ InStep
  BY DEF Groups, InStep
<1>6. Delivered
  BY DEF Delivered, Installed
<1>7. QED
  BY <1>1, <1>2, <1>3, <1>4, <1>5, <1>6 DEF IInv

\* ... every step keeps it, ...
LEMMA NextKeeps ==
  ASSUME IInv, [Next]_vars
  PROVE  IInv'
<1>1. CASE FreeFinished
  BY <1>1, FreeFinishedKeeps
<1>2. CASE Decode
  BY <1>2, SnapshotKeeps, StartGroupKeeps, AllocateForTokenKeeps, NoneDecodableKeeps,
     TakeEndKeeps, TakeTokenKeeps, NoneActiveKeeps, ForwardKeeps, DecodeFailsKeeps,
     MarkAtLimitKeeps DEF Decode
<1>3. CASE Admission
  <2>1. CASE PrefillForward
    <3>1. pc' = "install" \/ pc' = "unwind"
      BY <2>1 DEF PrefillForward
    <3>2. QED
      BY <2>1, <3>1, PrefillForwardKeeps, PrefillFailsKeeps
  <2>2. CASE ~PrefillForward
    BY <1>3, <2>2, BeginAdmissionKeeps, AdmitNextKeeps, CloseWaveKeeps, AllocatePromptKeeps,
       PrefillFailsKeeps, InstallKeeps DEF Admission
  <2>3. QED
    BY <2>1, <2>2
<1>4. CASE Finish \/ GiveUp \/ Again
  BY <1>4, FinishKeeps
<1>5. CASE FreeRunning
  BY <1>5, FreeRunningKeeps
<1>6. CASE Return
  BY <1>6, ReturnKeeps
<1>7. CASE \E b \in Batches : StartRun(b)
  BY <1>7, StartRunKeeps
<1>8. CASE UNCHANGED vars
  <2>1. UNCHANGED <<mgr, pc, waiting, running, outputs, nextId, outcome, pending, group, todo,
                    ready, active, wave, base, row, batch, stale, refused>>
    BY <1>8 DEF vars, decodeVars, admitVars, runVars
  <2> USE <2>1
  <2>2. Installed' = Installed /\ Claimed' = Claimed /\ Fresh' = Fresh /\ Requests' = Requests
        /\ FirstLeft' = FirstLeft /\ Slots' = Slots
    BY DEF Installed, Claimed, Fresh, Requests, FirstLeft, Slots
  <2>3. Shape' /\ Queue' /\ Groups'
    BY DEF IInv, Shape, Queue, QueueInOrder, Groups
  <2>4. Wave' /\ Seated'
    BY <2>2 DEF IInv, Wave, Seated
  <2>5. Covers'
    BY DEF IInv, Covers, Tokens, HeldBy, PromptLen, RowId
  <2>6. Holders'
    BY <2>2 DEF IInv, Holders
  <2>7. InStep'
    BY DEF IInv, InStep, SlotInStep
  <2>8. Delivered'
    BY <2>2 DEF IInv, Delivered
  <2>9. QED
    BY <2>3, <2>4, <2>5, <2>6, <2>7, <2>8 DEF IInv
<1>9. QED
  BY <1>1, <1>2, <1>3, <1>4, <1>5, <1>6, <1>7, <1>8 DEF Next, Run

\* ... and so it always holds.
THEOREM AlwaysIInv == Spec => []IInv
<1>1. Init => IInv
  BY InitHolds
<1>2. IInv /\ [Next]_vars => IInv'
  BY NextKeeps
<1>3. QED
  BY <1>1, <1>2, PTL DEF Spec

--------------------------------------------------------------------------------
\* What the scheduler does with the block manager keeps it a partition of the pool: no
\* block is lost, given twice or held by two requests (PagedBlockManager as
\* run_continuous_prepared calls it).
THEOREM PoolStaysPartitioned == Spec => []Partitioned(mgr)
<1>1. IInv => Partitioned(mgr)
  BY DEF IInv, Shape
<1>2. QED
  BY <1>1, AlwaysIInv, PTL

\* A slot's blocks hold its tokens, no request id is met twice, and a run leaves nothing
\* of its own behind (free_all_running).
THEOREM BlocksAlwaysFollow == Spec => []BlocksFollowTheirSlots
<1>1. ASSUME IInv PROVE BlocksFollowTheirSlots
  <2>1. \A s \in DOMAIN running :
          /\ BlocksFor(Tokens(s)) <= HeldBy(s)
          /\ \A t \in DOMAIN running : running[s].request = running[t].request => s = t
    BY <1>1 DEF IInv, Covers, Seated
  <2>2. ASSUME Returning, outcome \in {"ok", "exhausted", "decode failed"}
        PROVE  DOMAIN mgr.table = stale \ (0 .. nextId - 1)
    <3>1. DOMAIN running = {} /\ pc = "unwind"
      BY <2>2 DEF Returning, EmptyMap
    <3>2. Requests = {} /\ Fresh = {} /\ Claimed = nextId
      BY <3>1 DEF Requests, Fresh, Claimed
    <3>3. QED
      BY <1>1, <2>2, <3>1, <3>2 DEF IInv, Holders
  <2>3. QED
    BY <2>1, <2>2 DEF BlocksFollowTheirSlots
<1>2. QED
  BY <1>1, AlwaysIInv, PTL

\* A sequence that is never refused a block is decoded as if it were alone, and a run that
\* succeeds has answered everybody (paged_batch_decode_slots_at_step).
THEOREM AlwaysWhole == Spec => []WholeUnlessRefused
<1>1. ASSUME IInv PROVE WholeUnlessRefused
  <2>1. ASSUME pc = "forward", NEW s \in active, running[s].client \notin refused
        PROVE  DecodePosition(s) = Tokens(s) - 1
    <3>1. s \in DOMAIN running
      BY <1>1, GroupsAreSlots
    <3>2. ~running[s].finished
      BY <1>1 DEF IInv, Groups
    <3>3. running[s].made = running[s].step + 1
      BY <1>1, <2>1, <3>1, <3>2 DEF IInv, InStep, SlotInStep
    <3>4. running[s].made \in Nat /\ running[s].step \in Nat /\ running[s].prompt \in Nat
      BY <1>1, <3>1, SeatNumbers
    <3>5. QED
      BY <3>3, <3>4 DEF DecodePosition, Tokens
  <2>2. \A c \in DOMAIN outputs \ refused : outputs[c] = Min({batch[c].stop, MaxNew})
    BY <1>1 DEF IInv, Delivered
  <2>3. ASSUME outcome = "ok" PROVE DOMAIN outputs = Clients
    <3>1. pc = "unwind" /\ DOMAIN running = {} /\ waiting = <<>>
      BY <1>1, <2>3 DEF IInv, Shape, Delivered
    <3>2. Requests = {} /\ Installed = nextId
      BY <3>1 DEF Requests, Installed
    <3>3. nextId = Len(batch)
      BY <1>1, <3>1, InstalledBound DEF IInv, Queue
    <3>4. \A c \in DOMAIN outputs : c \in 1 .. nextId
      BY <1>1, <3>2 DEF IInv, Delivered
    <3>5. \A c \in 1 .. nextId : c \in DOMAIN outputs
      BY <1>1, <2>3, <3>2 DEF IInv, Delivered
    <3>6. QED
      BY <1>1, <3>1, <3>3, <3>4, <3>5, BatchFacts
  <2>4. QED
    BY <2>1, <2>2, <2>3 DEF WholeUnlessRefused
<1>2. QED
  BY <1>1, AlwaysIInv, PTL

\* The clients of a batch in order: those with a slot or an answer, those of the wave, those
\* in the queue.
LEMMA PlacesInOrder ==
  ASSUME IInv
  PROVE  \E top \in Nat :
           /\ Installed \in Nat /\ Installed <= top /\ top + Len(waiting) = Len(batch)
           /\ InWave = Installed + 1 .. top
<1>1. /\ Installed \in Nat /\ nextId \in Nat /\ Len(wave) \in Nat /\ Len(waiting) \in Nat
      /\ DOMAIN wave = 1 .. Len(wave) /\ row \in 1 .. Len(wave) + 1 /\ base \in Nat
  BY InstalledBound, LenProperties DEF IInv, Wave
<1>2. CASE pc = "admit"
  <2>1. InWave = {wave[i].client : i \in 1 .. Len(wave)}
    BY <1>1, <1>2 DEF InWave
  <2>2. \A i \in 1 .. Len(wave) : wave[i].client = nextId + i
    BY <1>1, <1>2 DEF IInv, Wave
  <2>3. InWave = {nextId + i : i \in 1 .. Len(wave)}
    BY <2>1, <2>2
  <2>4. {nextId + i : i \in 1 .. Len(wave)} = nextId + 1 .. nextId + Len(wave)
    <3>1. ASSUME NEW k \in nextId + 1 .. nextId + Len(wave)
          PROVE  \E i \in 1 .. Len(wave) : k = nextId + i
      <4>1. k - nextId \in 1 .. Len(wave) /\ k = nextId + (k - nextId)
        BY <1>1
      <4>2. QED
        BY <4>1
    <3>2. \A i \in 1 .. Len(wave) : nextId + i \in nextId + 1 .. nextId + Len(wave)
      BY <1>1
    <3>3. QED
      BY <3>1, <3>2
  <2>5. Installed = nextId /\ nextId + Len(wave) + Len(waiting) = Len(batch)
    BY <1>2 DEF Installed, IInv, Queue
  <2>6. nextId + Len(wave) \in Nat /\ Installed <= nextId + Len(wave)
    BY <1>1, <2>5
  <2>7. QED
    BY <1>1, <2>3, <2>4, <2>5, <2>6
<1>3. CASE pc \in {"prefill", "install"}
  <2>1. FirstLeft \in 1 .. Len(wave) /\ Installed = base + FirstLeft - 1
        /\ base + Len(wave) = nextId
    BY <1>1, <1>3, EmptySeq DEF FirstLeft, Installed, IInv, Wave
  <2>2. InWave = {wave[i].client : i \in FirstLeft .. Len(wave)}
    BY <1>1, <1>3 DEF InWave, FirstLeft
  <2>3. \A i \in FirstLeft .. Len(wave) : wave[i].client = base + i
    <3>1. \A k \in DOMAIN wave : wave[k].client = base + k
      BY <1>3 DEF IInv, Wave
    <3>2. DOMAIN wave = 1 .. Len(wave) /\ Len(wave) \in Nat
      BY LenProperties DEF IInv, Wave
    <3>3. FirstLeft .. Len(wave) \subseteq 1 .. Len(wave)
      BY <2>1, <3>2
    <3>4. QED
      BY ONLY <3>1, <3>2, <3>3
  <2>4. InWave = {base + i : i \in FirstLeft .. Len(wave)}
    BY <2>2, <2>3
  <2>5. {base + i : i \in FirstLeft .. Len(wave)} = Installed + 1 .. nextId
    <3>1. ASSUME NEW k \in Installed + 1 .. nextId
          PROVE  \E i \in FirstLeft .. Len(wave) : k = base + i
      <4>1. k - base \in FirstLeft .. Len(wave) /\ k = base + (k - base)
        BY <1>1, <2>1
      <4>2. QED
        BY <4>1
    <3>2. \A i \in FirstLeft .. Len(wave) : base + i \in Installed + 1 .. nextId
      BY <1>1, <2>1
    <3>3. QED
      BY <3>1, <3>2
  <2>6. Installed <= nextId /\ nextId + Len(waiting) = Len(batch)
    BY <1>3, InstalledBound DEF IInv, Queue
  <2>7. QED
    BY <1>1, <2>4, <2>5, <2>6
<1>4. CASE pc \notin {"admit", "prefill", "install"}
  <2>1. InWave = {} /\ Installed = nextId
    BY <1>4 DEF InWave, Installed
  <2>2. nextId + Len(waiting) = Len(batch) /\ nextId + 1 .. nextId = {}
    BY <1>1, <1>4 DEF IInv, Queue
  <2>3. QED
    BY <1>1, <2>1, <2>2
<1>5. QED
  BY <1>2, <1>3, <1>4

\* No client is lost, served twice or overtaken while a run goes on (run_continuous_prepared).
THEOREM OnePlaceEach == Spec => [](OneClientOnePlace /\ QueueInOrder)
<1>1. ASSUME IInv PROVE OneClientOnePlace
  <2> SUFFICES ASSUME outcome = "none", NEW c \in Clients
               PROVE  Cardinality(Holding(c)) = 1
    BY DEF OneClientOnePlace
  <2>1. PICK top \in Nat : /\ Installed \in Nat /\ Installed <= top
                           /\ top + Len(waiting) = Len(batch)
                           /\ InWave = Installed + 1 .. top
    BY <1>1, PlacesInOrder
  <2>2. /\ pc # "idle" => c \in 1 .. Len(batch)
        /\ pc = "idle" => Clients = {}
    BY <1>1, BatchFacts DEF Clients, IInv, Shape
  <2>3. c \in Nat /\ c \in 1 .. Len(batch) /\ Len(batch) \in Nat
    BY <1>1, <2>2, BatchFacts
  <2>4. /\ DOMAIN waiting = 1 .. Len(waiting) /\ Len(waiting) \in Nat
        /\ \A i \in 1 .. Len(waiting) : waiting[i] = Len(batch) - Len(waiting) + i
    BY <1>1, LenProperties DEF IInv, Queue, QueueInOrder
  <2>5. \A i \in 1 .. Len(waiting) : waiting[i] = top + i
    BY <2>1, <2>3, <2>4
  <2>6. \A s \in DOMAIN running : /\ running[s].client \in 1 .. Installed
                                  /\ running[s].client = running[s].request + 1
                                  /\ running[s].request \in Nat
    <3>1. \A s \in DOMAIN running : /\ running[s].client = running[s].request + 1
                                    /\ running[s].request \in Nat
                                    /\ running[s].request < Installed
      BY <1>1 DEF IInv, Seated, Seats
    <3>2. QED
      BY <2>1, <3>1
  <2>7. /\ \A d \in DOMAIN outputs : /\ d \in 1 .. Installed
                                     /\ \A s \in DOMAIN running : running[s].client # d
        /\ \A d \in 1 .. Installed : d \in DOMAIN outputs \/ d - 1 \in Requests
    BY <1>1 DEF IInv, Delivered
  <2> DEFINE queued == {<<"waiting", i>> : i \in {j \in DOMAIN waiting : waiting[j] = c}}
             inWave == {<<"wave">> : x \in InWave \cap {c}}
             seated == {<<"running", s>> : s \in {t \in DOMAIN running : running[t].client = c}}
             served == {<<"delivered">> : x \in DOMAIN outputs \cap {c}}
  <2>8. Holding(c) = queued \cup inWave \cup seated \cup served
    BY DEF Holding
  <2>9. c <= top => queued = {}
    BY <2>1, <2>4, <2>5
  <2>10. ~(Installed < c /\ c <= top) => inWave = {}
    BY <2>1
  <2>11. Installed < c => seated = {} /\ served = {}
    BY <2>1, <2>3, <2>6, <2>7
  <2>12. CASE c \in DOMAIN outputs
    <3>1. seated = {} /\ served = {<<"delivered">>} /\ c \in 1 .. Installed
      BY <2>7, <2>12
    <3>2. queued = {} /\ inWave = {}
      BY <2>1, <2>3, <2>9, <2>10, <3>1
    <3>3. Holding(c) = {<<"delivered">>}
      BY <2>8, <3>1, <3>2
    <3>4. QED
      BY <3>3, FS_Singleton
  <2>13. CASE c <= Installed /\ c \notin DOMAIN outputs
    <3>1. c \in 1 .. Installed
      BY <2>1, <2>3, <2>13
    <3>2. PICK s \in DOMAIN running : running[s].request = c - 1
      BY <2>7, <2>13, <3>1 DEF Requests
    <3>3. \A t \in DOMAIN running : running[t].client = c => t = s
      <4>1. \A t \in DOMAIN running : running[t].client = c => running[t].request = c - 1
        BY <2>3, <2>6
      <4>2. QED
        BY <1>1, <3>2, <4>1 DEF IInv, Seated
    <3>4. running[s].client = c
      BY <2>3, <2>6, <3>2
    <3>5. seated = {<<"running", s>>} /\ served = {}
      BY <2>13, <3>3, <3>4
    <3>6. queued = {} /\ inWave = {}
      BY <2>1, <2>3, <2>9, <2>10, <3>1
    <3>7. Holding(c) = {<<"running", s>>}
      BY <2>8, <3>5, <3>6
    <3>8. QED
      BY <3>7, FS_Singleton
  <2>14. CASE Installed < c /\ c <= top
    <3>1. inWave = {<<"wave">>}
      BY <2>1, <2>3, <2>14
    <3>2. Holding(c) = {<<"wave">>}
      BY <2>8, <2>9, <2>11, <2>14, <3>1
    <3>3. QED
      BY <3>2, FS_Singleton
  <2>15. CASE top < c
    <3>1. c - top \in 1 .. Len(waiting) /\ top + (c - top) = c
      BY <2>1, <2>3, <2>4, <2>15
    <3>2. \A j \in 1 .. Len(waiting) : waiting[j] = c <=> j = c - top
      BY <2>3, <2>5, <3>1
    <3>3. queued = {<<"waiting", c - top>>}
      BY <2>4, <3>1, <3>2
    <3>4. Installed < c /\ ~(c <= top)
      BY <2>1, <2>3, <2>15
    <3>5. Holding(c) = {<<"waiting", c - top>>}
      BY <2>8, <2>10, <2>11, <3>3, <3>4
    <3>6. QED
      BY <3>5, FS_Singleton
  <2>16. QED
    BY <2>1, <2>3, <2>12, <2>13, <2>14, <2>15
<1>2. IInv => QueueInOrder
  BY DEF IInv, Queue
<1>3. QED
  BY <1>1, <1>2, AlwaysIInv, PTL
--------------------------------------------------------------------------------
\* Sums: what SumOf counts are places <<x, i>>, f[x] of them for each x.
Places(f) == UNION {{x} \X (1 .. f[x]) : x \in DOMAIN f}

\* A place is an element and a number up to its value.
LEMMA PlaceIs ==
  ASSUME NEW f, NEW p
  PROVE  p \in Places(f) <=> \E x \in DOMAIN f : \E i \in 1 .. f[x] : p = <<x, i>>
BY DEF Places

\* There are as many places of an element as its value.
LEMMA ColumnSize ==
  ASSUME NEW x, NEW n \in Nat
  PROVE  IsFiniteSet({x} \X (1 .. n)) /\ Cardinality({x} \X (1 .. n)) = n
<1>1. IsFiniteSet({x}) /\ Cardinality({x}) = 1
  BY FS_Singleton
<1>2. IsFiniteSet(1 .. n) /\ Cardinality(1 .. n) = n
  BY FS_Interval
<1>3. IsFiniteSet({x} \X (1 .. n))
      /\ Cardinality({x} \X (1 .. n)) = Cardinality({x}) * Cardinality(1 .. n)
  BY ONLY <1>1, <1>2, FS_Product
<1>4. QED
  BY <1>1, <1>2, <1>3

\* The places of a function on a finite set are finitely many.
LEMMA PlacesFinite ==
  ASSUME NEW f, IsFiniteSet(DOMAIN f), \A x \in DOMAIN f : f[x] \in Nat
  PROVE  IsFiniteSet(Places(f)) /\ SumOf(f) \in Nat
<1> DEFINE columns == {{x} \X (1 .. f[x]) : x \in DOMAIN f}
           column == [x \in DOMAIN f |-> {x} \X (1 .. f[x])]
<1>1. column \in Surjection(DOMAIN f, columns)
  BY DEF Surjection
<1>2. IsFiniteSet(columns)
  BY <1>1, FS_Surjection
<1>3. \A T \in columns : IsFiniteSet(T)
  <2>1. ASSUME NEW T \in columns
        PROVE  IsFiniteSet(T)
    <3>1. PICK x \in DOMAIN f : T = {x} \X (1 .. f[x])
      OBVIOUS
    <3>2. f[x] \in Nat
      OBVIOUS
    <3>3. IsFiniteSet({x} \X (1 .. f[x]))
      BY ONLY <3>2, ColumnSize
    <3>4. QED
      BY <3>1, <3>3
  <2>2. QED
    BY <2>1
<1>4. IsFiniteSet(UNION columns)
  <2> HIDE DEF columns
  <2> QED
    BY ONLY <1>2, <1>3, FS_UNION
<1>5. QED
  BY <1>4, FS_CardinalityType DEF Places, SumOf

\* The sum of no values is zero.
LEMMA SumOfNone ==
  ASSUME NEW f, DOMAIN f = {}
  PROVE  SumOf(f) = 0
<1>1. UNION {{x} \X (1 .. f[x]) : x \in DOMAIN f} = {}
  OBVIOUS
<1>2. QED
  BY <1>1, FS_EmptySet DEF SumOf

\* One more element adds its value.
LEMMA SumOfMore ==
  ASSUME NEW f, NEW g, NEW x, IsFiniteSet(DOMAIN f),
         x \notin DOMAIN f, DOMAIN g = DOMAIN f \cup {x},
         \A y \in DOMAIN f : f[y] \in Nat /\ g[y] = f[y],
         g[x] \in Nat
  PROVE  SumOf(g) = SumOf(f) + g[x]
<1> DEFINE column == {x} \X (1 .. g[x])
<1>1. Places(g) = Places(f) \cup column
  BY DEF Places
<1>2. Places(f) \cap column = {}
  BY DEF Places
<1>3. IsFiniteSet(Places(f)) /\ Cardinality(Places(f)) \in Nat
  BY PlacesFinite, FS_CardinalityType
<1>4. IsFiniteSet(column) /\ Cardinality(column) = g[x]
  BY ColumnSize
<1>5. Cardinality(Places(f) \cap column) = 0
  BY <1>2, FS_EmptySet
<1> HIDE DEF column
<1>6. Cardinality(Places(g)) = Cardinality(Places(f)) + Cardinality(column) - 0
  BY <1>1, <1>3, <1>4, <1>5, FS_Union
<1>7. QED
  BY <1>3, <1>4, <1>6 DEF SumOf, Places

\* Giving the elements other names does not change the sum.
LEMMA SumRenamed ==
  ASSUME NEW f, NEW g, NEW name, IsFiniteSet(DOMAIN f),
         \A x \in DOMAIN f : f[x] \in Nat,
         DOMAIN g = {name[x] : x \in DOMAIN f},
         \A x, y \in DOMAIN f : name[x] = name[y] => x = y,
         \A x \in DOMAIN f : g[name[x]] = f[x]
  PROVE  SumOf(g) = SumOf(f)
<1> DEFINE move == [p \in Places(f) |-> <<name[p[1]], p[2]>>]
<1>1. \A p \in Places(f) : /\ p = <<p[1], p[2]>>
                           /\ p[1] \in DOMAIN f /\ p[2] \in 1 .. f[p[1]]
  BY PlaceIs
<1>2. \A p \in Places(f) : <<name[p[1]], p[2]>> \in Places(g)
  <2> TAKE p \in Places(f)
  <2>1. name[p[1]] \in DOMAIN g /\ p[2] \in 1 .. g[name[p[1]]]
    BY <1>1
  <2>2. QED
    BY <2>1, PlaceIs
<1>3. \A p, q \in Places(f) : move[p] = move[q] => p = q
  BY <1>1
<1>4. ASSUME NEW q \in Places(g)
      PROVE  \E p \in Places(f) : move[p] = q
  <2>1. PICK y \in DOMAIN g : \E i \in 1 .. g[y] : q = <<y, i>>
    BY PlaceIs
  <2>4. PICK i \in 1 .. g[y] : q = <<y, i>>
    BY <2>1
  <2>2. PICK x \in DOMAIN f : y = name[x]
    OBVIOUS
  <2>3. <<x, i>> \in Places(f)
    BY <2>2, <2>4, PlaceIs
  <2>5. QED
    BY <2>2, <2>3, <2>4
<1>5. move \in Bijection(Places(f), Places(g))
  BY <1>2, <1>3, <1>4 DEF Bijection, Injection, IsInjective, Surjection
<1>6. Cardinality(Places(g)) = Cardinality(Places(f))
  BY <1>5, PlacesFinite, FS_Bijection DEF ExistsBijection
<1>7. QED
  BY <1>6 DEF SumOf, Places

\* The blocks of a pool are on the free list or in a table: their numbers add up.
LEMMA BlocksAddUp ==
  ASSUME NEW m, Partitioned(m)
  PROVE  Len(m.free) + SumOf([r \in DOMAIN m.table |-> Len(m.table[r])]) = Capacity
<1> DEFINE lengths == [r \in DOMAIN m.table |-> Len(m.table[r])]
           held == {b \in Blocks : \A i \in DOMAIN m.free : m.free[i] # b}
           block == [p \in Places(lengths) |-> m.table[p[1]][p[2]]]
<1>1. /\ m.free \in Seq(Blocks) /\ DOMAIN m.free = 1 .. Len(m.free) /\ Len(m.free) \in Nat
      /\ \A i \in 1 .. Len(m.free) : m.free[i] \in Blocks
  BY LenProperties, ElementOfSeq DEF Partitioned, IsManager
<1>2. \A r \in DOMAIN m.table : m.table[r] \in Seq(Blocks)
  BY DEF Partitioned, IsManager
<1>3. \A r \in DOMAIN m.table :
        /\ DOMAIN m.table[r] = 1 .. Len(m.table[r])
        /\ \A j \in 1 .. Len(m.table[r]) : m.table[r][j] \in Blocks
  BY <1>2, LenProperties, ElementOfSeq
<1>4. \A p \in Places(lengths) : /\ p = <<p[1], p[2]>>
                                 /\ p[1] \in DOMAIN m.table
                                 /\ p[2] \in DOMAIN m.table[p[1]]
  BY <1>3, PlaceIs
<1>5. \A p \in Places(lengths) : m.table[p[1]][p[2]] \in held
  BY <1>3, <1>4 DEF Partitioned, FreeNotHeld
<1>6. \A p, q \in Places(lengths) : block[p] = block[q] => p = q
  <2>1. \A p, q \in Places(lengths) : block[p] = block[q] => p[1] = q[1] /\ p[2] = q[2]
    BY <1>4 DEF Partitioned, TablesDistinct
  <2>2. QED
    BY <1>4, <2>1
<1>7. ASSUME NEW b \in held
      PROVE  \E p \in Places(lengths) : block[p] = b
  <2>1. PICK r \in DOMAIN m.table : \E j \in DOMAIN m.table[r] : m.table[r][j] = b
    BY DEF Partitioned, NoneLost
  <2>2. PICK j \in DOMAIN m.table[r] : m.table[r][j] = b
    BY <2>1
  <2>3. <<r, j>> \in Places(lengths)
    BY <1>3, PlaceIs
  <2>4. QED
    BY <2>2, <2>3
<1>8. block \in Bijection(Places(lengths), held)
  BY <1>5, <1>6, <1>7 DEF Bijection, Injection, IsInjective, Surjection
<1>9. m.free \in Bijection(1 .. Len(m.free), Blocks \ held)
  BY <1>1 DEF Bijection, Injection, IsInjective, Surjection, Partitioned, FreeDistinct
<1>10. IsFiniteSet(Blocks) /\ Cardinality(Blocks) = Capacity
  BY PoolAssumption, FS_Interval DEF Blocks, Capacity
<1>11. Cardinality(Blocks \ held) = Len(m.free)
  <2>1. IsFiniteSet(1 .. Len(m.free)) /\ Cardinality(1 .. Len(m.free)) = Len(m.free)
    BY <1>1, FS_Interval
  <2>2. ExistsBijection(1 .. Len(m.free), Blocks \ held)
    BY <1>9 DEF ExistsBijection
  <2> HIDE DEF held
  <2>3. QED
    BY ONLY <2>1, <2>2, FS_Bijection
<1>12. Cardinality(Places(lengths)) = Cardinality(held)
  <2>1. IsFiniteSet(held)
    BY <1>10, FS_Subset
  <2>2. block \in Injection(Places(lengths), held) /\ block \in Surjection(Places(lengths), held)
    BY <1>8 DEF Bijection
  <2>3. QED
    BY <2>1, <2>2, FS_Injection
<1>13. IsFiniteSet(held) /\ held \subseteq Blocks /\ Blocks \cap held = held
  BY <1>10, FS_Subset
<1>14. Cardinality(Blocks \ held) = Cardinality(Blocks) - Cardinality(held)
  <2> HIDE DEF held
  <2>1. Cardinality(Blocks \ held) = Cardinality(Blocks) - Cardinality(Blocks \cap held)
    BY ONLY <1>10, FS_Difference
  <2>2. QED
    BY ONLY <2>1, <1>13
<1>15. Cardinality(held) \in Nat /\ Capacity \in Int
  BY <1>13, FS_CardinalityType, PoolAssumption DEF Capacity
<1>16. SumOf(lengths) = Cardinality(Places(lengths))
  BY DEF SumOf, Places
<1> HIDE DEF lengths, held
<1>17. Len(m.free) + SumOf(lengths) = Capacity
  BY <1>1, <1>10, <1>11, <1>12, <1>14, <1>15, <1>16
<1>18. QED
  BY <1>17 DEF lengths

\* The slots are finitely many, and their blocks a number.
LEMMA RunningSum ==
  ASSUME IInv
  PROVE  /\ IsFiniteSet(DOMAIN running) /\ Cardinality(DOMAIN running) \in Nat
         /\ \A s \in DOMAIN running : HeldBy(s) \in Nat
         /\ SumOf([s \in DOMAIN running |-> HeldBy(s)]) \in Nat
<1>1. DOMAIN running \subseteq 1 .. Min({MaxSeqs, Len(batch)})
  BY DEF IInv, Seated, Slots
<1>2. Len(batch) \in Nat
  BY InstalledBound, BatchFacts DEF IInv, Shape
<1>3. Min({MaxSeqs, Len(batch)}) \in Nat
  BY <1>2, MinOfTwo, BatchAssumption
<1>4. IsFiniteSet(DOMAIN running)
  <2>1. IsFiniteSet(1 .. Min({MaxSeqs, Len(batch)}))
    BY <1>3, FS_Interval
  <2>2. QED
    BY <1>1, <2>1, FS_Subset
<1>5. \A s \in DOMAIN running : HeldBy(s) \in Nat
  BY BlocksOfType DEF IInv, Shape, Partitioned, HeldBy
<1>6. QED
  BY <1>4, <1>5, FS_CardinalityType, PlacesFinite
--------------------------------------------------------------------------------
\* The rest of the shape of a state: what the parts of IInv do not need.
Kinds ==
  /\ busy \in BOOLEAN
  /\ runs \in 0 .. MaxRuns
  /\ stale \subseteq RequestIds /\ refused \subseteq Clients
  /\ projected \in [used : Nat, running : Nat]
  /\ wave \in Seq([client : Clients, slot : Nat \ {0}])
  /\ pc = "idle" => wave = <<>> /\ refused = {}
  /\ outputs \in [DOMAIN outputs -> 0 .. MaxNew]
  /\ running \in [DOMAIN running -> Seats]

\* A slot that has yet to take part in a step of the model has not reached the limit, ...
Ahead(s) ==
  s \in pending \cup group \/ pc \notin {"group", "alloc", "forward", "unwind"}

\* ... and no sequence goes past it, refused a block or not.
SlotWithin(s) ==
  /\ running[s].made <= MaxNew /\ running[s].step <= MaxNew
  /\ ~running[s].finished =>
       /\ Ahead(s) => running[s].step < MaxNew
       /\ pc # "unwind" =>
            running[s].made <= running[s].step + (IF s \in active THEN 1 ELSE 0)

Limits == \A s \in DOMAIN running : SlotWithin(s)

\* Outside a decode group no slot waits for one.
LEMMA NoGroupOutside ==
  ASSUME IInv
  PROVE  /\ pc \notin {"alloc", "forward"} => group = {} /\ active = {}
         /\ pc \notin {"group", "alloc", "forward"} => pending = {}
BY DEF IInv, Groups

\* The limits are kept by what changes no sequence and makes no slot wait.
LEMMA LimitsOfRest ==
  ASSUME IInv, Limits, DOMAIN running' \subseteq DOMAIN running,
         \A s \in DOMAIN running' : running'[s] = running[s],
         \A s \in DOMAIN running' : Ahead(s)' /\ ~running[s].finished => Ahead(s),
         pc' = "unwind" \/ (active' = active /\ pc # "unwind")
  PROVE  Limits'
<1> SUFFICES ASSUME NEW s \in DOMAIN running' PROVE SlotWithin(s)'
  BY DEF Limits
<1>1. SlotWithin(s) /\ running'[s] = running[s]
  BY DEF Limits
<1>2. QED
  BY <1>1 DEF SlotWithin

\* Every step keeps the limits.
LEMMA LimitsKept ==
  ASSUME IInv, Limits, [Next]_vars
  PROVE  Limits'
<1> USE DEF decodeVars, admitVars, runVars
<1>n. /\ MaxNew \in Nat \ {0}
      /\ \A s \in DOMAIN running : running[s] \in Seats /\ running[s].made \in Nat
                                   /\ running[s].step \in Nat
  BY BatchAssumption, SlotFacts DEF Seats
<1>1. CASE FreeFinished \/ FreeRunning
  <2>1. /\ DOMAIN running' \subseteq DOMAIN running
        /\ \A s \in DOMAIN running' : running'[s] = running[s]
        /\ UNCHANGED <<pc, pending, group, active>>
    BY <1>1 DEF FreeFinished, FreeRunning, Drop, Restrict
  <2>2. \A s \in DOMAIN running' : Ahead(s)' => Ahead(s)
    BY <2>1 DEF Ahead
  <2>3. pc = "unwind" \/ pc # "unwind"
    OBVIOUS
  <2>4. QED
    BY <2>1, <2>2, <2>3, LimitsOfRest
<1>2. CASE SnapshotActive \/ StartGroup \/ AllocateForToken \/ NoneDecodable
  <2>1. running' = running /\ pc \in {"free", "group", "alloc"} /\ pc' \in {"group", "alloc"}
    BY <1>2 DEF SnapshotActive, StartGroup, AllocateForToken, NoneDecodable
  <2>2. active' = active
    BY <1>2, NoGroupOutside DEF SnapshotActive, StartGroup, AllocateForToken, NoneDecodable
  <2>3. \A s \in DOMAIN running' : Ahead(s)' => Ahead(s)
    BY <1>2, NoGroupOutside DEF SnapshotActive, StartGroup, AllocateForToken, NoneDecodable, Ahead
  <2>4. QED
    BY <2>1, <2>2, <2>3, LimitsOfRest
<1>3. CASE TakeEnd \/ TakeToken
  <2>0. PICK s : s = Min(ready)
    OBVIOUS
  <2>1. /\ pc = "alloc" /\ pc' \in {"alloc", "forward"} /\ pending' = pending /\ group' = group
        /\ s \in ready /\ s \in group /\ s \in DOMAIN running /\ s \notin active
        /\ ~running[s].finished
    <3>1. ready # {} /\ ready \subseteq DOMAIN running /\ ready \subseteq group /\ ready \cap active = {}
      BY <1>3, GroupsAreSlots DEF TakeEnd, TakeToken, IInv, Groups
    <3>2. ready \in SUBSET Nat
      BY <3>1, SlotFacts
    <3>3. s \in ready
      BY <2>0, <3>1, <3>2, LeastOf
    <3>4. QED
      BY <1>3, <3>1, <3>3 DEF TakeEnd, TakeToken, IInv, Groups
  <2>2. /\ DOMAIN running' = DOMAIN running
        /\ \A t \in DOMAIN running : t # s => running'[t] = running[t]
        /\ TakeEnd => /\ active' = active /\ running'[s].finished
                      /\ running'[s].made = running[s].made
                      /\ running'[s].step = running[s].step
        /\ TakeToken => /\ active' = active \cup {s}
                        /\ running'[s].made = running[s].made + 1
                        /\ running'[s].step = running[s].step
    <3>1. running[s] \in Seats
      BY <1>n, <2>1
    <3>2. QED
      BY <1>3, <2>0, <2>1, <3>1 DEF TakeEnd, TakeToken, Seats
  <2>3. SlotWithin(s)'
    <3>1. running[s].step < MaxNew /\ running[s].made <= running[s].step
          /\ running[s].made <= MaxNew
      BY <1>n, <2>1 DEF Limits, SlotWithin, Ahead
    <3>2. running[s].made + 1 <= MaxNew /\ running[s].made + 1 <= running[s].step + 1
          /\ running[s].step <= MaxNew
      BY <1>n, <2>1, <3>1
    <3>3. CASE TakeEnd
      BY <2>2, <3>1, <3>2, <3>3 DEF SlotWithin
    <3>4. CASE TakeToken
      BY <2>2, <3>1, <3>2, <3>4 DEF SlotWithin
    <3>5. QED
      BY <1>3, <3>3, <3>4
  <2>4. ASSUME NEW t \in DOMAIN running, t # s PROVE SlotWithin(t)'
    <3>1. SlotWithin(t) /\ running'[t] = running[t] /\ (t \in active' <=> t \in active)
      BY <1>3, <2>2, <2>4 DEF Limits
    <3>2. Ahead(t)' => Ahead(t)
      BY <2>1 DEF Ahead
    <3>3. QED
      BY <2>1, <3>1, <3>2 DEF SlotWithin
  <2>5. QED
    BY <2>2, <2>3, <2>4 DEF Limits
<1>4. CASE NoneActive \/ Forward
  <2> DEFINE moved == IF active = {} THEN {t \in group : ~running[t].finished} ELSE active
  <2>1. /\ pc = "forward" /\ pc' = "group" /\ pending' = pending /\ group' = {} /\ active' = {}
        /\ DOMAIN running' = DOMAIN running
        /\ \A t \in DOMAIN running :
             running'[t] = IF t \in moved THEN [running[t] EXCEPT !.step = @ + 1] ELSE running[t]
    BY <1>4 DEF NoneActive, Forward
  <2>2. moved \subseteq group /\ active \subseteq moved /\ (\A t \in moved : ~running[t].finished)
        /\ pending \cap group = {}
    BY DEF IInv, Groups
  <2> HIDE DEF moved
  <2> SUFFICES ASSUME NEW t \in DOMAIN running PROVE SlotWithin(t)'
    BY <2>1 DEF Limits
  <2>3. SlotWithin(t)
    BY DEF Limits
  <2>4. CASE t \in moved
    <3>1. /\ running'[t].step = running[t].step + 1
          /\ running'[t].made = running[t].made
          /\ running'[t].finished = running[t].finished
      BY <1>n, <2>1, <2>4 DEF Seats
    <3>2. /\ running[t].step < MaxNew
          /\ running[t].made <= running[t].step + (IF t \in active THEN 1 ELSE 0)
      BY <2>1, <2>2, <2>3, <2>4 DEF SlotWithin, Ahead
    <3>3. running[t].step + 1 <= MaxNew /\ running[t].made <= running[t].step + 1
      BY <1>n, <3>2
    <3>4. ~(Ahead(t)')
      BY <2>1, <2>2, <2>4 DEF Ahead
    <3>5. t \notin active' /\ running[t].step + 1 + 0 = running[t].step + 1
      BY <1>n, <2>1
    <3>6. QED
      BY <2>3, <3>1, <3>3, <3>4, <3>5 DEF SlotWithin
  <2>5. CASE t \notin moved
    <3>1. running'[t] = running[t] /\ t \notin active /\ t \notin active'
      BY <2>1, <2>2, <2>5
    <3>2. Ahead(t)' => Ahead(t)
      BY <2>1 DEF Ahead
    <3>3. QED
      BY <2>1, <2>3, <3>1, <3>2 DEF SlotWithin
  <2>6. QED
    BY <2>4, <2>5
<1>5. CASE MarkAtLimit
  <2>1. /\ pc = "group" /\ pc' = "refree" /\ active' = active
        /\ DOMAIN running' = DOMAIN running
        /\ \A t \in DOMAIN running :
             running'[t] = IF running[t].step >= MaxNew
                           THEN [running[t] EXCEPT !.finished = TRUE] ELSE running[t]
    BY <1>5 DEF MarkAtLimit
  <2> SUFFICES ASSUME NEW t \in DOMAIN running PROVE SlotWithin(t)'
    BY <2>1 DEF Limits
  <2>2. /\ running'[t].made = running[t].made /\ running'[t].step = running[t].step
        /\ ~running'[t].finished => ~running[t].finished /\ running[t].step < MaxNew
    BY <1>n, <2>1 DEF Seats
  <2>3. SlotWithin(t)
    BY DEF Limits
  <2>4. QED
    BY <2>1, <2>2, <2>3 DEF SlotWithin
<1>6. CASE Install
  <2>0. PICK s : s = wave[row].slot
    OBVIOUS
  <2>1. /\ pc = "install" /\ pc' \in {"install", "check"} /\ active' = active /\ active = {}
        /\ DOMAIN running' = DOMAIN running \cup {s}
        /\ \A t \in DOMAIN running : t # s => running'[t] = running[t]
        /\ running'[s].made = 0 /\ running'[s].step = 0
    BY <1>6, <2>0, NoGroupOutside DEF Install, Put
  <2>2. SlotWithin(s)'
    BY <1>n, <2>1 DEF SlotWithin
  <2>3. ASSUME NEW t \in DOMAIN running, t # s PROVE SlotWithin(t)'
    <3>1. SlotWithin(t) /\ running'[t] = running[t]
      BY <2>1, <2>3 DEF Limits
    <3>2. Ahead(t)
      BY <2>1 DEF Ahead
    <3>3. QED
      BY <2>1, <3>1, <3>2 DEF SlotWithin
  <2>4. QED
    BY <2>1, <2>2, <2>3 DEF Limits
<1>7. CASE \/ DecodeFails \/ BeginAdmission \/ AdmitNext \/ CloseWave \/ AllocatePrompt
           \/ PromptDoesNotFit \/ PrefillForward \/ Finish \/ GiveUp \/ Again
  <2>1. /\ running' = running
        /\ \/ pc' = "unwind"
           \/ /\ pc \in {"refree", "admit", "prefill", "check"} /\ active' = active
    BY <1>7 DEF DecodeFails, BeginAdmission, AdmitNext, CloseWave, AllocatePrompt,
                PromptDoesNotFit, PrefillForward, Finish, GiveUp, Again
  <2>2. pc' = "unwind" => pending' = {} /\ group' = {}
    BY <1>7, NoGroupOutside DEF DecodeFails, BeginAdmission, AdmitNext, CloseWave, AllocatePrompt,
                PromptDoesNotFit, PrefillForward, Finish, GiveUp, Again
  <2>3. \A s \in DOMAIN running' : Ahead(s)' => Ahead(s)
    BY <2>1, <2>2 DEF Ahead
  <2>4. QED
    BY <2>1, <2>3, LimitsOfRest
<1>8. CASE Return \/ \E b \in Batches : StartRun(b)
  <2>1. DOMAIN running = {} /\ running' = running
    BY <1>8, NoSlotsIdle DEF Return, Returning, EmptyMap, StartRun
  <2>2. QED
    BY <2>1 DEF Limits
<1>9. CASE UNCHANGED vars
  BY <1>9 DEF vars, Limits, SlotWithin, Ahead
<1>10. QED
  BY <1>1, <1>2, <1>3, <1>4, <1>5, <1>6, <1>7, <1>8, <1>9 DEF Next, Run, Decode, Admission

\* A sequence is one of whatever its elements are in.
LEMMA SeqOfElements ==
  ASSUME NEW S, NEW T, NEW s \in Seq(S), \A i \in 1 .. Len(s) : s[i] \in T
  PROVE  s \in Seq(T)
<1>1. Len(s) \in Nat /\ s = [i \in 1 .. Len(s) |-> s[i]]
  BY LenProperties
<1>2. s \in [1 .. Len(s) -> T]
  BY <1>1
<1>3. s \in UNION {[1 .. n -> T] : n \in Nat}
  BY <1>1, <1>2
<1>4. QED
  BY <1>3, SeqDef

\* The client at the front of the queue is one of the batch.
LEMMA FrontClient ==
  ASSUME IInv, pc # "idle", waiting # <<>>
  PROVE  Head(waiting) \in 1 .. Len(batch) /\ BlocksFor(batch[Head(waiting)].len) \in Nat
<1>1. waiting \in Seq(Nat) /\ DOMAIN waiting = 1 .. Len(waiting)
  BY LenProperties DEF IInv, Queue
<1>2. Len(waiting) \in Nat \ {0} /\ Head(waiting) = waiting[1]
  BY <1>1, EmptySeq
<1>3. waiting[1] = Len(batch) - Len(waiting) + 1
  <2>1. 1 \in DOMAIN waiting /\ QueueInOrder
    BY <1>1, <1>2 DEF IInv, Queue
  <2>2. QED
    BY <2>1 DEF QueueInOrder
<1>4. Len(batch) \in Nat /\ nextId \in Nat /\ nextId + Len(waiting) <= Len(batch)
  BY InstalledBound, BatchFacts
<1>5. Head(waiting) \in 1 .. Len(batch)
  BY ONLY <1>2, <1>3, <1>4
<1>6. QED
  BY <1>5, BatchFacts, BlocksForType

\* Every step keeps the kinds: what loses an argument, gets another value or one more
\* argument stays a function, and what it gets is of the same kind.
LEMMA KindsKept ==
  ASSUME IInv, IInv', Kinds, Limits, [Next]_vars
  PROVE  Kinds'
<1> USE DEF decodeVars, admitVars, runVars
<1>n. \A t \in DOMAIN running' : running'[t] \in Seats
  BY DEF IInv, Seated
<1>1. CASE FreeFinished
  <2> DEFINE s == Min(Finished)
  <2>1. s \in DOMAIN running
    <3>1. Finished # {} /\ Finished \in SUBSET Nat /\ Finished \subseteq DOMAIN running
      BY <1>1, SlotFacts DEF FreeFinished, Finished
    <3>2. QED
      BY <3>1, LeastOf
  <2>2. running[s].made \in 0 .. MaxNew
    BY <2>1, SlotFacts DEF Limits, SlotWithin, Seats
  <2>3. outputs' = Put(outputs, running[s].client, running[s].made)
        /\ running' = Drop(running, s)
        /\ UNCHANGED <<pc, busy, runs, stale, refused, projected, wave, batch>>
    BY <1>1 DEF FreeFinished
  <2> HIDE DEF s
  <2>4. outputs' \in [DOMAIN outputs' -> 0 .. MaxNew]
    BY <2>2, <2>3 DEF Put, Kinds
  <2>5. running' \in [DOMAIN running' -> Seats]
    BY <1>n, <2>3 DEF Drop, Restrict
  <2>6. QED
    BY <2>3, <2>4, <2>5 DEF Kinds, Clients
<1>2. CASE SnapshotActive
  <2>1. busy' \in BOOLEAN /\ pc' # "idle"
        /\ UNCHANGED <<runs, stale, refused, projected, wave, batch, outputs, running>>
    BY <1>2 DEF SnapshotActive
  <2>2. QED
    BY <2>1 DEF Kinds, Clients
<1>3. CASE AllocateForToken
  <2> DEFINE s == Min(todo)
  <2>1. s \in DOMAIN running
    <3>1. todo # {} /\ todo \subseteq DOMAIN running
      BY <1>3, GroupsAreSlots DEF AllocateForToken
    <3>2. todo \in SUBSET Nat
      BY <3>1, SlotFacts
    <3>3. QED
      BY <3>1, <3>2, LeastOf
  <2>2. running[s].client \in Clients
    BY <2>1, SlotFacts, BatchFacts
  <2>3. /\ refused' \subseteq refused \cup {running[s].client} /\ pc' # "idle"
        /\ UNCHANGED <<runs, stale, projected, wave, batch, outputs, running, busy>>
    BY <1>3 DEF AllocateForToken, IInv, Shape
  <2> HIDE DEF s
  <2>4. QED
    BY <2>2, <2>3 DEF Kinds, Clients
<1>4. CASE TakeEnd \/ TakeToken \/ NoneActive \/ Forward \/ MarkAtLimit \/ Install \/ FreeRunning
  <2>1. pc' # "idle"
        /\ UNCHANGED <<runs, stale, refused, projected, wave, batch, outputs, busy>>
    BY <1>4 DEF TakeEnd, TakeToken, NoneActive, Forward, MarkAtLimit, Install, FreeRunning
  <2>2. running' \in [DOMAIN running' -> Seats]
    <3>1. CASE TakeEnd
      BY <1>n, <3>1 DEF Kinds, TakeEnd
    <3>2. CASE TakeToken
      BY <1>n, <3>2 DEF Kinds, TakeToken
    <3>3. CASE NoneActive \/ Forward \/ MarkAtLimit
      BY <1>n, <3>3 DEF NoneActive, Forward, MarkAtLimit
    <3>4. CASE Install
      BY <1>n, <3>4 DEF Install, Put
    <3>5. CASE FreeRunning
      BY <1>n, <3>5 DEF FreeRunning, Drop, Restrict
    <3>6. QED
      BY <1>4, <3>1, <3>2, <3>3, <3>4, <3>5
  <2>3. QED
    BY <2>1, <2>2 DEF Kinds, Clients
<1>5. CASE BeginAdmission
  <2>1. /\ wave' = <<>> /\ pc' # "idle"
        /\ projected' = [used    |-> SumOf([s \in DOMAIN running |-> HeldBy(s)]),
                         running |-> Cardinality(DOMAIN running)]
        /\ UNCHANGED <<runs, stale, refused, batch, outputs, running, busy>>
    BY <1>5 DEF BeginAdmission
  <2>2. projected' \in [used : Nat, running : Nat]
    BY <2>1, RunningSum
  <2>3. wave' \in Seq([client : Clients', slot : Nat \ {0}])
    BY <2>1
  <2>4. QED
    BY <2>1, <2>2, <2>3 DEF Kinds, Clients
<1>6. CASE AdmitNext
  <2>1. /\ pc = "admit" /\ waiting # <<>> /\ pc' = pc
        /\ projected' = [used    |-> projected.used + BlocksFor(batch[Head(waiting)].len),
                         running |-> projected.running + 1]
        /\ UNCHANGED <<runs, stale, refused, batch, outputs, running, busy, nextId>>
    BY <1>6 DEF AdmitNext, MayAdmit
  <2>2. Head(waiting) \in 1 .. Len(batch)
    BY <2>1, FrontClient
  <2>3. projected' \in [used : Nat, running : Nat]
    <3>1. BlocksFor(batch[Head(waiting)].len) \in Nat
      BY <2>1, FrontClient
    <3>2. QED
      BY <2>1, <3>1 DEF Kinds
  <2>4. wave' \in Seq([client : Clients, slot : Nat \ {0}])
    <3>w. Wave' /\ Queue' /\ pc' = "admit"
      BY <2>1 DEF IInv
    <3>1. /\ wave' \in Seq(Rows) /\ DOMAIN wave' = 1 .. Len(wave') /\ Len(wave') \in Nat
          /\ \A i \in 1 .. Len(wave') : wave'[i].client = nextId + i /\ wave'[i].slot \in Slots
      <4>1. wave' \in Seq(Rows) /\ \A i \in DOMAIN wave' : wave'[i].client = nextId + i
        BY <2>1, <3>w DEF Wave
      <4>2. DOMAIN wave' = 1 .. Len(wave') /\ Len(wave') \in Nat
        BY <4>1, LenProperties
      <4>3. \A i \in DOMAIN wave' : i >= 1 => wave'[i].slot \in Slots'
        BY <3>w DEF Wave, FirstLeft
      <4>4. Slots' = Slots
        BY <2>1 DEF Slots
      <4>5. \A i \in 1 .. Len(wave') : i >= 1
        BY <4>2
      <4>6. QED
        BY ONLY <4>1, <4>2, <4>3, <4>4, <4>5
    <3>2. nextId \in Nat /\ Len(wave') \in Nat /\ nextId + Len(wave') <= Len(batch) /\ Len(batch) \in Nat
      <4>1. nextId + Len(wave') + Len(waiting') = Len(batch) /\ Len(waiting') \in Nat
            /\ nextId \in Nat /\ Len(wave') \in Nat
        BY <2>1, <3>w, <3>1 DEF Queue
      <4>2. Len(batch) \in Nat
        BY <2>1, BatchFacts
      <4>3. QED
        BY <4>1, <4>2
    <3>3. \A i \in 1 .. Len(wave') : wave'[i] \in [client : Clients, slot : Nat \ {0}]
      <4>1. \A i \in 1 .. Len(wave') : wave'[i] \in Rows /\ wave'[i].client \in 1 .. Len(batch)
                                       /\ wave'[i].slot \in Nat \ {0}
        BY <3>1, <3>2 DEF Slots
      <4>2. QED
        BY <2>1, <4>1, BatchFacts DEF Rows
    <3>4. QED
      BY ONLY <3>1, <3>3, SeqOfElements
  <2>5. QED
    BY <2>1, <2>3, <2>4 DEF Kinds, Clients
<1>7. CASE \/ StartGroup \/ NoneDecodable \/ DecodeFails \/ CloseWave \/ AllocatePrompt
           \/ PromptDoesNotFit \/ PrefillForward \/ Finish \/ GiveUp \/ Again
  <2>1. pc' # "idle"
        /\ UNCHANGED <<runs, stale, refused, projected, wave, batch, outputs, busy, running>>
    BY <1>7 DEF StartGroup, NoneDecodable, DecodeFails, CloseWave, AllocatePrompt,
                PromptDoesNotFit, PrefillForward, Finish, GiveUp, Again
  <2>2. QED
    BY <2>1 DEF Kinds, Clients
<1>8. CASE Return
  <2>1. /\ busy' = FALSE /\ runs' = runs /\ stale' = {} /\ refused' = {} /\ wave' = <<>>
        /\ projected' = [used |-> 0, running |-> 0]
        /\ outputs' = EmptyMap /\ running' = running
    BY <1>8 DEF Return
  <2>2. wave' \in Seq([client : Clients', slot : Nat \ {0}])
    BY <2>1
  <2>3. outputs' \in [DOMAIN outputs' -> 0 .. MaxNew]
    BY <2>1 DEF EmptyMap
  <2>4. QED
    BY <2>1, <2>2, <2>3 DEF Kinds
<1>9. CASE \E b \in Batches : StartRun(b)
  <2>1. /\ pc = "idle" /\ pc' = "free" /\ runs < MaxRuns /\ runs' = runs + 1
        /\ stale' = DOMAIN mgr.table /\ refused' = {} /\ outputs' = EmptyMap
        /\ UNCHANGED <<busy, running, projected, wave>>
    BY <1>9 DEF StartRun
  <2>2. wave' = <<>>
    BY <2>1 DEF Kinds
  <2>3. wave' \in Seq([client : Clients', slot : Nat \ {0}])
    BY <2>2
  <2>4. outputs' \in [DOMAIN outputs' -> 0 .. MaxNew]
    BY <2>1 DEF EmptyMap
  <2>5. runs' \in 0 .. MaxRuns
    BY <2>1, BatchAssumption DEF Kinds
  <2>6. DOMAIN mgr.table \subseteq RequestIds
    BY DEF IInv, Shape, Partitioned, IsManager
  <2>7. QED
    BY <2>1, <2>3, <2>4, <2>5, <2>6 DEF Kinds
<1>10. CASE UNCHANGED vars
  BY <1>10 DEF vars, Kinds, Clients
<1>11. QED
  BY <1>1, <1>2, <1>3, <1>4, <1>5, <1>6, <1>7, <1>8, <1>9, <1>10 DEF Next, Run, Decode, Admission

--------------------------------------------------------------------------------
\* What the rows of the wave from number i on ask for.
Asked(i) == SumOf([k \in i .. Len(wave) |-> BlocksFor(PromptLen(k))])

\* The client at the front needs more than an empty pool has.
NeverFits == BlocksFor(batch[Head(waiting)].len) + 1 > Capacity

\* While nobody else holds blocks, what is projected is what is taken, and so the wave's
\* prompts fit into what is free.
Room ==
  /\ pc = "admit" =>
       /\ wave = <<>> /\ DOMAIN running = {} => projected = [used |-> 0, running |-> 0]
       /\ wave # <<>> => projected.used <= Capacity
       /\ stale = {} => projected.used + Len(mgr.free) = Capacity + Asked(1)
  /\ pc = "prefill" /\ stale = {} => Asked(row) <= Len(mgr.free)
  /\ pc = "check" /\ wave = <<>> /\ DOMAIN running = {} /\ waiting # <<>> => NeverFits
  /\ outcome = "exhausted" => NeverFits

\* The rows of the wave are clients of the batch.
LEMMA WaveClients ==
  ASSUME Kinds
  PROVE  \A k \in 1 .. Len(wave) : wave[k].client \in Clients
<1>1. wave \in Seq([client : Clients, slot : Nat \ {0}])
  BY DEF Kinds
<1>2. \A k \in 1 .. Len(wave) : wave[k] \in [client : Clients, slot : Nat \ {0}]
  BY <1>1, ElementOfSeq
<1>3. QED
  BY <1>2

\* The blocks of a prompt leave the free list.
LEMMA AllocateTakes ==
  ASSUME NEW m, Partitioned(m), NEW r, r \notin DOMAIN m.table, NEW tokens \in Nat
  PROVE  /\ CanAllocate(m, r, tokens) <=> BlocksFor(tokens) <= Len(m.free)
         /\ CanAllocate(m, r, tokens) =>
              Len(Allocate(m, r, tokens).free) = Len(m.free) - BlocksFor(tokens)
<1>1. m.free \in Seq(Blocks) /\ Len(m.free) \in Nat
  BY LenProperties DEF Partitioned, IsManager
<1>2. BlocksFor(tokens) \in Nat
  BY BlocksForType
<1>3. Held(m, r) = 0
  BY DEF Held, BlocksOf
<1>4. Needed(m, r, tokens) = BlocksFor(tokens)
  BY <1>2, <1>3 DEF Needed
<1>5. CASE BlocksFor(tokens) = 0
  BY <1>1, <1>4, <1>5 DEF CanAllocate, Allocate
<1>6. CASE BlocksFor(tokens) # 0 /\ BlocksFor(tokens) <= Len(m.free)
  <2>1. Allocate(m, r, tokens).free = SubSeq(m.free, BlocksFor(tokens) + 1, Len(m.free))
    BY <1>4, <1>6 DEF CanAllocate, Allocate
  <2>2. Len(SubSeq(m.free, BlocksFor(tokens) + 1, Len(m.free))) = Len(m.free) - BlocksFor(tokens)
    BY <1>1, <1>2, <1>6, TailOfTable
  <2>3. QED
    BY <1>4, <1>6, <2>1, <2>2 DEF CanAllocate
<1>7. QED
  BY <1>1, <1>2, <1>4, <1>5, <1>6 DEF CanAllocate

\* What is added on both sides.
LEMMA BothGrow ==
  ASSUME NEW used \in Nat, NEW free \in Nat, NEW all \in Nat, NEW old \in Nat, NEW more \in Nat,
         NEW sum, sum = old + more, used + free = all + old
  PROVE  (used + more) + free = all + sum
OBVIOUS

\* One more row asks for its blocks, ...
LEMMA AskedWithMore ==
  ASSUME NEW f, NEW g, NEW i \in Nat, NEW n \in Nat, i <= n + 1,
         DOMAIN f = i .. n, DOMAIN g = i .. n+1,
         \A k \in i .. n : f[k] \in Nat /\ g[k] = f[k], g[n+1] \in Nat
  PROVE  SumOf(g) = SumOf(f) + g[n+1]
<1>1. DOMAIN f = i .. n /\ DOMAIN g = i .. n+1
  OBVIOUS
<1>2. n+1 \notin i .. n /\ i .. n+1 = (i .. n) \cup {n+1}
  OBVIOUS
<1>3. IsFiniteSet(DOMAIN f)
  BY <1>1, FS_Interval
<1>4. QED
  BY ONLY <1>1, <1>2, <1>3, SumOfMore,
     \A k \in i .. n : f[k] \in Nat /\ g[k] = f[k], g[n+1] \in Nat

\* ... and a row that has them no longer does.
LEMMA AskedWithLess ==
  ASSUME NEW f, NEW g, NEW i \in Nat, NEW n \in Nat, i <= n,
         DOMAIN f = i+1 .. n, DOMAIN g = i .. n,
         \A k \in i+1 .. n : f[k] \in Nat /\ g[k] = f[k], g[i] \in Nat
  PROVE  SumOf(g) = SumOf(f) + g[i] /\ SumOf(f) \in Nat
<1>1. DOMAIN f = i+1 .. n /\ DOMAIN g = i .. n
  OBVIOUS
<1>2. i \notin i+1 .. n /\ i .. n = (i+1 .. n) \cup {i}
  OBVIOUS
<1>3. IsFiniteSet(DOMAIN f)
  <2>1. i+1 \in Int /\ n \in Int
    OBVIOUS
  <2>2. IsFiniteSet(i+1 .. n)
    BY ONLY <2>1, FS_Interval
  <2>3. QED
    BY <1>1, <2>2
<1>4. SumOf(f) \in Nat
  BY <1>1, <1>3, PlacesFinite
<1>5. QED
  BY ONLY <1>1, <1>2, <1>3, <1>4, SumOfMore,
     \A k \in i+1 .. n : f[k] \in Nat /\ g[k] = f[k], g[i] \in Nat

\* With nobody else in the pool, the slots' blocks and the free ones are all there are.
LEMMA SlotsHoldTheRest ==
  ASSUME IInv, pc = "refree", stale = {}
  PROVE  SumOf([s \in DOMAIN running |-> HeldBy(s)]) + Len(mgr.free) = Capacity
<1> DEFINE name == [s \in DOMAIN running |-> running[s].request]
           held == [s \in DOMAIN running |-> HeldBy(s)]
           lengths == [r \in DOMAIN mgr.table |-> Len(mgr.table[r])]
<1>1. DOMAIN mgr.table = Requests
  BY DEF IInv, Shape, Holders, Fresh
<1>2. \A s, t \in DOMAIN held : name[s] = name[t] => s = t
  BY DEF IInv, Seated
<1>3. DOMAIN lengths = {name[s] : s \in DOMAIN held}
  BY <1>1 DEF Requests
<1>4. \A s \in DOMAIN held : lengths[name[s]] = held[s]
  BY <1>1 DEF Requests, HeldBy, Held, BlocksOf
<1>5. IsFiniteSet(DOMAIN held) /\ SumOf(held) \in Nat /\ \A s \in DOMAIN held : held[s] \in Nat
  BY RunningSum
<1>6. Len(mgr.free) + SumOf(lengths) = Capacity
  BY BlocksAddUp DEF IInv, Shape
<1>7. Len(mgr.free) \in Nat
  BY LenProperties DEF IInv, Shape, Partitioned, IsManager
<1> HIDE DEF name, held, lengths
<1>8. SumOf(lengths) = SumOf(held)
  BY <1>2, <1>3, <1>4, <1>5, SumRenamed
<1>9. SumOf(held) + Len(mgr.free) = Capacity
  BY <1>5, <1>6, <1>7, <1>8
<1>10. QED
  BY <1>9 DEF held

\* With nobody else in the pool, a row of the wave holds nothing before its turn.
LEMMA RowUnknown ==
  ASSUME IInv, pc = "prefill", stale = {}, NEW i \in 1 .. Len(wave), i = row
  PROVE  RowId(i) \notin DOMAIN mgr.table
<1>a. RowId(i) = base + i - 1
  BY RowFacts
<1>b. base \in Nat /\ i \in Nat /\ i >= 1
  BY DEF IInv, Wave
<1>c. Installed = base
  BY DEF Installed
<1>d. \A s \in DOMAIN running : running[s].request < base
  BY <1>c DEF IInv, Seated
<1>e. \A s \in DOMAIN running : running[s].request \in Nat
  BY DEF IInv, Seated, Seats
<1>1. /\ RowId(i) = base + i - 1 /\ base \in Nat /\ i \in Nat /\ i >= 1
      /\ \A s \in DOMAIN running : running[s].request < base /\ running[s].request \in Nat
  BY <1>a, <1>b, <1>d, <1>e
<1>2. DOMAIN mgr.table = Requests \cup (base .. base + i - 2)
  BY DEF IInv, Shape, Holders, Fresh
<1>3. RowId(i) \notin Requests
  <2>1. base + i - 1 >= base
    BY <1>1
  <2>2. \A s \in DOMAIN running : running[s].request # base + i - 1
    BY <1>1, <2>1
  <2>3. QED
    BY <1>1, <2>2 DEF Requests
<1>4. RowId(i) \notin base .. base + i - 2
  BY <1>1
<1>5. QED
  BY <1>2, <1>3, <1>4

\* Every step keeps the room.
LEMMA RoomKept ==
  ASSUME IInv, IInv', Kinds, Room, [Next]_vars
  PROVE  Room'
<1> USE DEF decodeVars, admitVars, runVars
<1>o. /\ pc' # "unwind" => outcome' = "none"
      /\ Len(mgr.free) \in Nat /\ Capacity \in Nat
      /\ projected.used \in Nat /\ projected.running \in Nat
  BY LenProperties, PoolAssumption DEF IInv, Shape, Partitioned, IsManager, Capacity, Kinds
<1>1. CASE BeginAdmission
  <2> DEFINE sum == SumOf([s \in DOMAIN running |-> HeldBy(s)])
  <2>1. /\ pc = "refree" /\ pc' = "admit" /\ wave' = <<>>
        /\ projected' = [used |-> sum, running |-> Cardinality(DOMAIN running)]
        /\ UNCHANGED <<mgr, running, stale>>
    BY <1>1 DEF BeginAdmission
  <2>2. DOMAIN running = {} => sum = 0 /\ Cardinality(DOMAIN running) = 0
    BY SumOfNone, FS_EmptySet
  <2>3. stale = {} => sum + Len(mgr.free) = Capacity
    BY <2>1, SlotsHoldTheRest
  <2>4. Asked(1)' = 0
    <3>1. \A f : DOMAIN f = 1 .. 0 => SumOf(f) = 0
      <4>1. 1 .. 0 = {}
        OBVIOUS
      <4>2. QED
        BY <4>1, SumOfNone
    <3>2. Len(wave') = 0
      BY <2>1
    <3>3. QED
      BY <3>1, <3>2 DEF Asked
  <2> HIDE DEF sum
  <2>5. QED
    BY <1>o, <2>1, <2>2, <2>3, <2>4 DEF Room
<1>2. CASE AdmitNext
  <2> DEFINE new == [client |-> Head(waiting), slot |-> Min(FreeSlots)]
  <2>0. PICK n \in Nat, asks \in Nat :
          n = Len(wave) /\ asks = BlocksFor(batch[Head(waiting)].len)
    <3>1. Len(wave) \in Nat
      BY InstalledBound
    <3>2. BlocksFor(batch[Head(waiting)].len) \in Nat
      BY <1>2, FrontClient DEF AdmitNext, MayAdmit
    <3>3. QED
      BY <3>1, <3>2
  <2>1. /\ pc = "admit" /\ pc' = "admit" /\ waiting # <<>>
        /\ projected.used + asks + (projected.running + 1) <= Capacity
        /\ wave' = Append(wave, new)
        /\ projected' = [used |-> projected.used + asks, running |-> projected.running + 1]
        /\ UNCHANGED <<mgr, running, stale, batch>>
    BY <1>2, <2>0 DEF AdmitNext, MayAdmit, CanAdmit
  <2>2. /\ Len(wave') = n + 1 /\ wave' # <<>>
        /\ \A k \in 1 .. n : wave'[k] = wave[k]
        /\ wave'[n + 1].client = Head(waiting)
    <3>1. wave \in Seq(Rows) /\ new \in [client : {Head(waiting)}, slot : {Min(FreeSlots)}]
      BY DEF IInv, Wave
    <3>2. new.client = Head(waiting)
      OBVIOUS
    <3> HIDE DEF new
    <3>3. QED
      BY <2>0, <2>1, <3>1, <3>2
  <2>3. \A k \in 1 .. n : BlocksFor(PromptLen(k)) \in Nat
    <3>1. \A k \in 1 .. n : wave[k].client \in Clients
      BY <2>0, WaveClients
    <3>2. QED
      BY <2>1, <3>1, BatchFacts, BlocksForType DEF PromptLen
  <2> DEFINE f == [k \in 1 .. n |-> BlocksFor(PromptLen(k))]
             g == [k \in 1 .. n + 1 |-> BlocksFor(batch[wave'[k].client].len)]
  <2>4. Asked(1) = SumOf(f) /\ Asked(1)' = SumOf(g)
    <3>1. Asked(1) = SumOf(f)
      BY <2>0 DEF Asked
    <3>2. Asked(1)' = SumOf(g)
      BY <2>1, <2>2 DEF Asked, PromptLen
    <3>3. QED
      BY <3>1, <3>2
  <2>5. SumOf(g) = SumOf(f) + asks
    <3>1. /\ DOMAIN f = 1 .. n /\ DOMAIN g = 1 .. n + 1 /\ 1 \in Nat /\ 1 <= n + 1
          /\ \A k \in 1 .. n : f[k] \in Nat /\ g[k] = f[k]
          /\ g[n + 1] = asks
      BY <2>0, <2>2, <2>3 DEF PromptLen
    <3> HIDE DEF f, g
    <3>2. SumOf(g) = SumOf(f) + g[n + 1]
      <4>1. 1 \in Nat /\ n \in Nat /\ 1 <= n + 1 /\ g[n + 1] \in Nat
        BY <3>1
      <4>2. QED
        BY ONLY <3>1, <4>1, AskedWithMore
    <3>3. QED
      BY <3>1, <3>2
  <2>6. SumOf(f) \in Nat
    BY <2>3, FS_Interval, PlacesFinite
  <2>7. projected'.used <= Capacity
    BY <1>o, <2>0, <2>1
  <2>8. stale' = {} => projected'.used + Len(mgr'.free) = Capacity + Asked(1)'
    <3> HIDE DEF f, g
    <3>1. stale = {} => projected.used + Len(mgr.free) = Capacity + SumOf(f)
      BY <2>1, <2>4 DEF Room
    <3>2. projected'.used = projected.used + asks /\ mgr' = mgr /\ stale' = stale
      BY <2>1
    <3>3. ASSUME stale = {}
          PROVE  (projected.used + asks) + Len(mgr.free) = Capacity + SumOf(g)
      <4>1. /\ projected.used \in Nat /\ Len(mgr.free) \in Nat /\ Capacity \in Nat
            /\ SumOf(f) \in Nat /\ asks \in Nat
        BY <1>o, <2>6
      <4>2. projected.used + Len(mgr.free) = Capacity + SumOf(f)
        BY <3>1, <3>3
      <4>3. QED
        BY ONLY <4>1, <4>2, <2>5, BothGrow, SMTT(30)
    <3>4. QED
      BY <2>4, <3>2, <3>3
  <2>9. QED
    BY <1>o, <2>1, <2>2, <2>7, <2>8 DEF Room
<1>3. CASE CloseWave
  <2>1. /\ pc = "admit" /\ ~MayAdmit /\ row' = 1
        /\ pc' = IF wave = <<>> THEN "check" ELSE "prefill"
        /\ UNCHANGED <<mgr, running, stale, batch, wave, waiting, projected>>
    BY <1>3 DEF CloseWave
  <2>2. ASSUME wave # <<>>, stale = {} PROVE Asked(row)' <= Len(mgr'.free)
    <3>1. Asked(row)' = Asked(1)
      BY <2>1 DEF Asked, PromptLen
    <3>2. projected.used <= Capacity /\ projected.used + Len(mgr.free) = Capacity + Asked(1)
      BY <2>1, <2>2 DEF Room
    <3>3. Asked(1) \in Nat
      <4>1. \A k \in 1 .. Len(wave) : wave[k].client \in Clients
        BY WaveClients
      <4>2. \A k \in 1 .. Len(wave) : BlocksFor(PromptLen(k)) \in Nat
        BY <2>1, <4>1, BatchFacts, BlocksForType DEF PromptLen
      <4>3. IsFiniteSet(1 .. Len(wave))
        BY InstalledBound, FS_Interval
      <4>4. QED
        BY <4>2, <4>3, PlacesFinite DEF Asked
    <3>4. QED
      BY <1>o, <2>1, <3>1, <3>2, <3>3
  <2>3. ASSUME wave = <<>>, DOMAIN running = {}, waiting # <<>> PROVE NeverFits'
    <3>1. Slots # {}
      <4>1. Len(batch) \in Nat \ {0}
        <5>1. batch \in Batches
          BY <2>1 DEF IInv, Shape
        <5>2. QED
          BY <5>1, BatchAssumption, EmptySeq
      <4>2. Min({MaxSeqs, Len(batch)}) \in Nat \ {0}
        BY <4>1, MinOfTwo, BatchAssumption
      <4>3. 1 \in 1 .. Min({MaxSeqs, Len(batch)})
        BY <4>2
      <4>4. QED
        BY <4>3 DEF Slots
    <3>2. FreeSlots = Slots
      <4>1. {wave[i].slot : i \in DOMAIN wave} = {}
        BY <2>3
      <4>2. QED
        BY <2>3, <4>1 DEF FreeSlots
    <3>3. ~CanAdmit(batch[Head(waiting)].len)
      BY <2>1, <2>3, <3>1, <3>2 DEF MayAdmit
    <3>4. projected = [used |-> 0, running |-> 0]
      BY <2>1, <2>3 DEF Room
    <3>5. BlocksFor(batch[Head(waiting)].len) \in Nat
      BY <2>1, <2>3, FrontClient
    <3>6. NeverFits
      BY <1>o, <3>3, <3>4, <3>5 DEF CanAdmit, NeverFits
    <3>7. QED
      BY <2>1, <3>6 DEF NeverFits
  <2>4. QED
    BY <1>o, <2>1, <2>2, <2>3 DEF Room
<1>4. CASE AllocatePrompt
  <2>0. PICK n \in Nat, i \in Nat : n = Len(wave) /\ i = row
    BY InstalledBound DEF IInv, Wave
  <2>1. /\ pc = "prefill" /\ pc' = "prefill" /\ i \in 1 .. n
        /\ CanAllocate(mgr, RowId(i), PromptLen(i))
        /\ mgr' = Allocate(mgr, RowId(i), PromptLen(i))
        /\ row' = i + 1
        /\ UNCHANGED <<stale, batch, wave>>
    BY <1>4, <2>0 DEF AllocatePrompt, IInv, Wave
  <2>2. SUFFICES ASSUME stale = {} PROVE Asked(row)' <= Len(mgr'.free)
    BY <1>o, <2>1 DEF Room
  <2>3. RowId(i) \notin DOMAIN mgr.table
    BY <2>0, <2>1, <2>2, RowUnknown
  <2>4. \A k \in 1 .. n : PromptLen(k) \in Nat /\ BlocksFor(PromptLen(k)) \in Nat
    BY <2>0, <2>1, RowFacts, BlocksForType
  <2>5. Len(mgr'.free) = Len(mgr.free) - BlocksFor(PromptLen(i))
    BY <2>1, <2>3, <2>4, AllocateTakes DEF IInv, Shape
  <2> DEFINE f == [k \in i + 1 .. n |-> BlocksFor(PromptLen(k))]
             g == [k \in i .. n |-> BlocksFor(PromptLen(k))]
  <2>6. Asked(row) = SumOf(g) /\ Asked(row)' = SumOf(f)
    <3>1. Asked(row) = SumOf(g)
      BY <2>0 DEF Asked
    <3>2. Asked(row)' = SumOf(f)
      BY <2>0, <2>1 DEF Asked, PromptLen
    <3>3. QED
      BY <3>1, <3>2
  <2>7. SumOf(g) = SumOf(f) + BlocksFor(PromptLen(i)) /\ SumOf(f) \in Nat
    <3>1. /\ DOMAIN f = i + 1 .. n /\ DOMAIN g = i .. n
          /\ \A k \in i + 1 .. n : f[k] \in Nat /\ g[k] = f[k]
          /\ g[i] = BlocksFor(PromptLen(i)) /\ g[i] \in Nat /\ i <= n
      BY <2>0, <2>1, <2>4
    <3> HIDE DEF f, g
    <3>2. QED
      BY ONLY <2>0, <3>1, AskedWithLess
  <2>8. SumOf(g) <= Len(mgr.free)
    BY <2>1, <2>2, <2>6 DEF Room
  <2>9. BlocksFor(PromptLen(i)) \in Nat
    BY <2>1, <2>4
  <2> HIDE DEF f, g
  <2>10. SumOf(f) <= Len(mgr.free) - BlocksFor(PromptLen(i))
    BY ONLY <1>o, <2>7, <2>8, <2>9
  <2>11. QED
    BY <2>5, <2>6, <2>10
<1>5. CASE Install
  <2>1. /\ pc = "install" /\ pc' \in {"install", "check"} /\ wave' = wave
    BY <1>5 DEF Install
  <2>2. wave # <<>>
    BY <2>1 DEF IInv, Wave
  <2>3. QED
    BY <1>o, <2>1, <2>2 DEF Room
<1>6. CASE GiveUp
  <2>1. /\ pc = "check" /\ pc' = "unwind" /\ wave = <<>> /\ running = EmptyMap /\ waiting # <<>>
        /\ UNCHANGED <<waiting, batch>>
    BY <1>6 DEF GiveUp, Exhausted
  <2>2. DOMAIN running = {}
    BY <2>1 DEF EmptyMap
  <2>3. NeverFits
    BY <2>1, <2>2 DEF Room
  <2>4. NeverFits'
    BY <2>1, <2>3 DEF NeverFits
  <2>5. QED
    BY <2>1, <2>4 DEF Room
<1>7. CASE FreeRunning
  <2>1. pc' = "unwind" /\ UNCHANGED <<waiting, batch, outcome>>
    BY <1>7 DEF FreeRunning
  <2>2. QED
    BY <2>1 DEF Room, NeverFits
<1>8. CASE \/ FreeFinished \/ Decode \/ PromptDoesNotFit \/ PrefillForward \/ Finish \/ Again
           \/ Return \/ \E b \in Batches : StartRun(b)
  <2>1. pc' \notin {"admit", "prefill", "check"} /\ (pc' = "unwind" => outcome' # "exhausted")
    BY <1>8 DEF FreeFinished, Decode, SnapshotActive, StartGroup, AllocateForToken, NoneDecodable,
                TakeEnd, TakeToken, NoneActive, Forward, DecodeFails, MarkAtLimit,
                PromptDoesNotFit, PrefillForward, Finish, Again, Return, StartRun
  <2>2. QED
    BY <1>o, <2>1 DEF Room
<1>9. CASE UNCHANGED vars
  BY <1>9 DEF vars, Room, NeverFits, Asked, PromptLen
<1>10. QED
  BY <1>1, <1>2, <1>3, <1>4, <1>5, <1>6, <1>7, <1>8, <1>9 DEF Next, Run, Admission

--------------------------------------------------------------------------------
\* The second invariant, above the first.
Fuller == Kinds /\ Limits /\ Room

\* It holds at the start and every step keeps it, ...
LEMMA InitFuller == Init => Fuller
<1> SUFFICES ASSUME Init PROVE Fuller
  OBVIOUS
<1> USE DEF Init, EmptyMap
<1>1. Limits /\ Room
  BY DEF Limits, Room
<1>2. wave \in Seq([client : Clients, slot : Nat \ {0}])
  OBVIOUS
<1>3. 0 \in 0 .. MaxRuns
  BY BatchAssumption
<1>4. outputs \in [DOMAIN outputs -> 0 .. MaxNew] /\ running \in [DOMAIN running -> Seats]
  OBVIOUS
<1>5. Kinds
  BY <1>2, <1>3, <1>4 DEF Kinds
<1>6. QED
  BY <1>1, <1>5 DEF Fuller

\* ... and so it always holds.
THEOREM AlwaysFuller == Spec => [](IInv /\ Fuller)
<1>1. Init => IInv /\ Fuller
  BY InitHolds, InitFuller
<1>2. (IInv /\ Fuller) /\ [Next]_vars => (IInv /\ Fuller)'
  BY NextKeeps, LimitsKept, KindsKept, RoomKept DEF Fuller
<1>3. QED
  BY <1>1, <1>2, PTL DEF Spec

\* The state has its shape (run_continuous_prepared).
THEOREM TypeCorrect == Spec => []TypeOK
<1>1. ASSUME IInv, Fuller PROVE TypeOK
  <2> USE <1>1
  <2>1. /\ IsManager(mgr) /\ pc \in Phases /\ batch \in Batches \cup {<<>>}
        /\ outcome \in Outcomes /\ base \in Nat /\ row \in 1 .. Len(wave) + 1
    BY DEF IInv, Shape, Partitioned, Wave
  <2>2. /\ Len(batch) \in Nat /\ Clients = 1 .. Len(batch)
    <3>1. pc = "idle" => batch = <<>>
      BY DEF IInv, Shape
    <3>2. QED
      BY <3>1, BatchFacts DEF Clients
  <2>3. nextId \in 0 .. Len(batch) /\ Len(waiting) \in Nat
        /\ nextId + Len(waiting) <= Len(batch) /\ Installed \in Nat /\ Installed <= nextId
    BY <2>2, InstalledBound
  <2>4. waiting \in Seq(Clients)
    <3>1. waiting \in Seq(Nat) /\ DOMAIN waiting = 1 .. Len(waiting)
          /\ \A i \in DOMAIN waiting : waiting[i] = Len(batch) - Len(waiting) + i
      BY LenProperties DEF IInv, Queue, QueueInOrder
    <3>2. \A i \in 1 .. Len(waiting) : waiting[i] \in Clients
      BY <2>2, <2>3, <3>1
    <3>3. QED
      BY <3>1, <3>2, SeqOfElements
  <2>5. DOMAIN outputs \subseteq Clients
    <3>1. \A c \in DOMAIN outputs : c \in 1 .. Installed
      BY DEF IInv, Delivered
    <3>2. 1 .. Installed \subseteq 1 .. Len(batch)
      BY <2>2, <2>3
    <3>3. QED
      BY <2>2, <3>1, <3>2
  <2>6. batch = <<>> => running = EmptyMap
    <3>1. pc # "idle" => batch # <<>>
      BY BatchAssumption DEF IInv, Shape
    <3>2. batch = <<>> => DOMAIN running = {}
      BY <3>1, NoSlotsIdle
    <3>3. DOMAIN running = {} => running = EmptyMap
      BY DEF Fuller, Kinds, EmptyMap
    <3>4. QED
      BY <3>2, <3>3
  <2>7. DOMAIN running \subseteq Slots /\ running \in [DOMAIN running -> Entries]
    <3>1. \A s \in DOMAIN running : running[s] \in Entries
      <4> TAKE s \in DOMAIN running
      <4>1. running[s] \in Seats /\ running[s].client \in Clients
            /\ running[s].request \in RequestIds /\ running[s].prompt \in Nat \ {0}
        BY <2>2, SlotFacts
      <4>2. running[s].made \in 0 .. MaxNew /\ running[s].step \in 0 .. MaxNew
        BY <4>1, BatchAssumption DEF Fuller, Limits, SlotWithin, Seats
      <4>3. QED
        BY <4>1, <4>2 DEF Seats, Entries
    <3>2. QED
      BY <3>1 DEF Fuller, Kinds, IInv, Seated
  <2>8. /\ pending \cap group = {} /\ todo \cap ready = {} /\ ready \cap active = {}
        /\ todo \cup ready \cup active \subseteq group
        /\ pending \cup group \subseteq DOMAIN running
    BY DEF IInv, Groups
  <2>9. /\ busy \in BOOLEAN /\ runs \in 0 .. MaxRuns
        /\ stale \subseteq RequestIds /\ refused \subseteq Clients
        /\ projected \in [used : Nat, running : Nat]
        /\ wave \in Seq([client : Clients, slot : Nat \ {0}])
        /\ outputs \in [DOMAIN outputs -> 0 .. MaxNew]
    BY DEF Fuller, Kinds
  <2>10. QED
    BY ONLY <2>1, <2>3, <2>4, <2>5, <2>6, <2>7, <2>8, <2>9 DEF TypeOK
<1>2. QED
  BY <1>1, AlwaysFuller, PTL

\* No client is lost, served twice or overtaken, and the state has its shape
\* (run_continuous_prepared).
THEOREM EveryClientPlaced == Spec => []EveryClientKeepsItsPlace
<1>1. TypeOK /\ (OneClientOnePlace /\ QueueInOrder) => EveryClientKeepsItsPlace
  BY DEF EveryClientKeepsItsPlace
<1>2. QED
  BY <1>1, TypeCorrect, OnePlaceEach, PTL

\* The admission test is neither too generous nor too strict: with nobody else in the pool
\* the prompts of a wave always get their blocks, and the run gives up only on a client that
\* no empty pool could take (can_admit_with_projected_kv).
THEOREM AdmissionAlwaysExact == Spec => []AdmissionIsExact
<1>1. ASSUME IInv, Fuller PROVE AdmissionIsExact
  <2> USE <1>1
  <2>1. ASSUME stale = {}, pc = "prefill", row <= Len(wave)
        PROVE  CanAllocate(mgr, RowId(row), PromptLen(row))
    <3>0. PICK n \in Nat, i \in Nat : n = Len(wave) /\ i = row
      BY InstalledBound DEF IInv, Wave
    <3>1. i \in 1 .. n
      BY <2>1, <3>0 DEF IInv, Wave
    <3>2. RowId(i) \notin DOMAIN mgr.table
      BY <2>1, <3>0, <3>1, RowUnknown
    <3>3. \A k \in 1 .. n : PromptLen(k) \in Nat /\ BlocksFor(PromptLen(k)) \in Nat
      BY <2>1, <3>0, RowFacts, BlocksForType
    <3>4. PICK f, g : /\ f = [k \in i + 1 .. n |-> BlocksFor(PromptLen(k))]
                      /\ g = [k \in i .. n |-> BlocksFor(PromptLen(k))]
      OBVIOUS
    <3>5. SumOf(g) <= Len(mgr.free) /\ Len(mgr.free) \in Nat
      BY <2>1, <3>0, <3>4, LenProperties DEF Fuller, Room, Asked, IInv, Shape, Partitioned, IsManager
    <3>6. /\ DOMAIN f = i + 1 .. n /\ DOMAIN g = i .. n
          /\ \A k \in i + 1 .. n : f[k] \in Nat /\ g[k] = f[k]
          /\ g[i] = BlocksFor(PromptLen(i)) /\ g[i] \in Nat /\ i <= n
      BY <3>0, <3>1, <3>3, <3>4
    <3>7. SumOf(g) = SumOf(f) + BlocksFor(PromptLen(i)) /\ SumOf(f) \in Nat
      BY ONLY <3>0, <3>6, AskedWithLess
    <3>8. BlocksFor(PromptLen(i)) <= Len(mgr.free)
      BY <3>5, <3>6, <3>7
    <3>9. QED
      BY <3>0, <3>1, <3>2, <3>3, <3>8, AllocateTakes DEF IInv, Shape
  <2>2. outcome = "exhausted" => BlocksFor(batch[Head(waiting)].len) + 1 > Capacity
    BY DEF Fuller, Room, NeverFits
  <2>3. QED
    BY <2>1, <2>2 DEF AdmissionIsExact
<1>2. QED
  BY <1>1, AlwaysFuller, PTL
================================================================================
