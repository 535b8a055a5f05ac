------------------------ MODULE TranscribePipeline_proofs ------------------------
(***************************************************************************)
(* Proofs about transcribe_many for any call, any capacity of its channels *)
(* and batches, any number of segments and any failures.  The argument     *)
(* follows each input: before the VAD stage it is in one place; after it   *)
(* its messages are each in one place, and what is in no place any more is *)
(* in the input's timeline or in an answer.                                *)
(***************************************************************************)
EXTENDS TranscribePipeline, FiniteSetTheorems, SequenceTheorems, WellFoundedInduction, TLAPS

\* The inputs that have not reached the VAD stage.
Waiting == todo \cup loading \cup InputsOf(Range(loaded))

\* The messages on their way to an answer: those the VAD tasks have yet to send, those in
\* the channel, in the batch and in the stash.
UnderVad    == UNION {Range(vad[i]) : i \in DOMAIN vad}
Flying      == UnderVad \cup Range(asr) \cup Range(batch) \cup Range(pending)
FlyingOf(i) == {m \in Flying : m.input = i}

Distinct(s) == \A p, q \in DOMAIN s : s[p] = s[q] => p = q

\* An outcome with its fields.
IsOutcome(o) ==
  /\ o.index \in Inputs
  /\ o = [index |-> o.index, bad_component |-> o.bad_component, timeline |-> o.timeline]

\* What the type does not say.
Shape ==
  /\ Inputs = 1 .. Len(sources) /\ Len(sources) \in Nat \ {0}
  /\ \A o \in DOMAIN outcomes : IsOutcome(o)
  /\ \A i \in DOMAIN open : open[i] = [timeline |-> open[i].timeline, done |-> open[i].done]

\* No message is in two places.
OnePlace ==
  /\ Distinct(asr) /\ Distinct(batch) /\ Distinct(pending)
  /\ \A i \in DOMAIN vad : Distinct(vad[i]) /\ \A m \in Range(vad[i]) : m.input = i
  /\ Range(asr) \cap Range(batch) = {}
  /\ Range(asr) \cap Range(pending) = {}
  /\ Range(batch) \cap Range(pending) = {}
  /\ UnderVad \cap (Range(asr) \cup Range(batch) \cup Range(pending)) = {}

\* An input that is still to reach the VAD stage is in one place before it.
Before ==
  /\ Waiting \subseteq UniqueInputs
  /\ todo \cap loading = {}
  /\ (todo \cup loading) \cap InputsOf(Range(loaded)) = {}
  /\ \A p, q \in DOMAIN loaded : loaded[p].input = loaded[q].input => p = q
  /\ \A m \in Range(loaded) : m = Job(m.input, 0) \/ m = Failure(m.input, "loader")

\* A batch is of one sort.
Sorts ==
  /\ worker = "receiving" => batch = <<>>
  /\ worker = "jobs" => batch # <<>> /\ \A m \in Range(batch) : m.sort # "segment"
  /\ worker = "segments" => batch # <<>> /\ \A m \in Range(batch) : m.sort = "segment"

\* Nothing is under way before and after the stages run.
Still ==
  phase # "waiting" =>
    /\ todo = {} /\ loading = {} /\ loaded = <<>> /\ DOMAIN vad = {} /\ asr = <<>>
    /\ batch = <<>> /\ pending = <<>> /\ worker = "receiving"
    /\ phase = "called" => DOMAIN open = {} /\ outcomes = EmptyBag

\* A timeline with every segment once.
Whole(timeline, n) ==
  DOMAIN timeline \ {Speech} = 1 .. n /\ \A k \in 1 .. n : timeline[k] = 1

\* The segments that an open timeline has.
Parts(i) == IF i \in DOMAIN open THEN DOMAIN open[i].timeline \ {Speech} ELSE {}

\* Where an input is: nothing of it has been seen, ...
Unseen(i) == FlyingOf(i) = {} /\ i \notin DOMAIN open /\ OutcomesOf(i) = {}

\* ... or one message for all of it is under way, ...
Alone(i) ==
  /\ i \notin DOMAIN open /\ OutcomesOf(i) = {}
  /\ \E m \in {Failure(i, "loader"), Failure(i, "vad"), Job(i, heard[i])} : FlyingOf(i) = {m}

\* ... or it has its one answer, ...
IsAnswer(o, i) ==
  /\ o.bad_component = "none" => Whole(o.timeline, heard[Canonical(i)])
  /\ o.bad_component # "recognizer" => outcomes[o] = 1
Answered(i) ==
  /\ FlyingOf(i) = {} /\ i \notin DOMAIN open
  /\ \E o : OutcomesOf(i) = {o} /\ IsAnswer(o, i)

\* ... or it goes in pieces.  Unless a batch with pieces of it has failed, every piece is
\* under way or in its timeline, and not all are in the timeline; if one has, some piece is
\* in neither place, and so the timeline is never complete.
PieceOf(i, k) == Segment(i, k, heard[i])
InPieces(i) ==
  /\ heard[i] \in 1 .. MaxSegments
  /\ \A m \in FlyingOf(i) : m.part \in 1 .. heard[i] /\ m = PieceOf(i, m.part)
  /\ OutcomesOf(i) \subseteq {Failed(i, "recognizer")}
  /\ \A k \in Parts(i) : k \in 1 .. heard[i] /\ PieceOf(i, k) \notin FlyingOf(i)
  /\ IF OutcomesOf(i) = {}
     THEN /\ \A k \in 1 .. heard[i] : k \in Parts(i) \/ PieceOf(i, k) \in FlyingOf(i)
          /\ FlyingOf(i) # {}
     ELSE \E k \in 1 .. heard[i] : k \notin Parts(i) /\ PieceOf(i, k) \notin FlyingOf(i)
  /\ i \in DOMAIN open =>
       /\ open[i].done = Cardinality(Parts(i))
       /\ IsABag(open[i].timeline)
       /\ \A k \in Parts(i) : open[i].timeline[k] = 1

Placed(i) == Alone(i) \/ Answered(i) \/ InPieces(i)

Going ==
  phase = "waiting" =>
    /\ \A i \in Waiting \cup (Inputs \ UniqueInputs) : Unseen(i)
    /\ \A i \in UniqueInputs \ Waiting : Placed(i)

\* When the call returns, every input has one answer, however often it was given.
Closed ==
  phase = "returned" => \A i \in Inputs : \E o : OutcomesOf(i) = {o} /\ IsAnswer(o, i)

IInv == TypeOK /\ Shape /\ OnePlace /\ Before /\ Sorts /\ Still /\ Going /\ Closed

--------------------------------------------------------------------------------
\* What a sequence has after an element was put at its end, ...
LEMMA AppendRange ==
  ASSUME NEW S, NEW s \in Seq(S), NEW e \in S
  PROVE  /\ Append(s, e) \in Seq(S) /\ Len(Append(s, e)) = Len(s) + 1
         /\ Range(Append(s, e)) = Range(s) \cup {e}
         /\ Distinct(s) /\ e \notin Range(s) => Distinct(Append(s, e))
<1>1. /\ Append(s, e) \in Seq(S) /\ Len(Append(s, e)) = Len(s) + 1 /\ Len(s) \in Nat
      /\ DOMAIN s = 1 .. Len(s) /\ DOMAIN Append(s, e) = 1 .. Len(s) + 1
      /\ \A p \in 1 .. Len(s) : Append(s, e)[p] = s[p]
      /\ Append(s, e)[Len(s) + 1] = e
  BY AppendProperties, LenProperties
<1> DEFINE t == Append(s, e)
<1> HIDE DEF t
<1>2. 1 .. Len(s) + 1 = (1 .. Len(s)) \cup {Len(s) + 1} /\ Len(s) + 1 \notin 1 .. Len(s)
  BY <1>1
<1>3. Range(t) = Range(s) \cup {e}
  BY <1>1, <1>2 DEF Range, t
<1>4. ASSUME Distinct(s), e \notin Range(s) PROVE Distinct(t)
  BY <1>1, <1>2, <1>4 DEF Distinct, Range, t
<1>5. QED
  BY <1>1, <1>3, <1>4 DEF t

\* ... and after the one at its front was taken.
LEMMA TailRange ==
  ASSUME NEW S, NEW s \in Seq(S), s # <<>>
  PROVE  /\ Head(s) \in S /\ Head(s) = s[1] /\ 1 \in DOMAIN s
         /\ Tail(s) \in Seq(S) /\ Len(Tail(s)) = Len(s) - 1 /\ Len(s) \in Nat \ {0}
         /\ Range(s) = Range(Tail(s)) \cup {Head(s)}
         /\ Distinct(s) => Distinct(Tail(s)) /\ Head(s) \notin Range(Tail(s))
         /\ \A p \in DOMAIN Tail(s) : p + 1 \in DOMAIN s /\ Tail(s)[p] = s[p + 1]
<1>1. /\ Len(s) \in Nat \ {0} /\ DOMAIN s = 1 .. Len(s)
      /\ Head(s) = s[1] /\ Head(s) \in S
      /\ Tail(s) \in Seq(S) /\ Len(Tail(s)) = Len(s) - 1
      /\ DOMAIN Tail(s) = 1 .. Len(s) - 1
      /\ \A p \in 1 .. Len(s) - 1 : Tail(s)[p] = s[p + 1]
  BY HeadTailProperties, EmptySeq, LenProperties
<1> DEFINE t == Tail(s)
<1> HIDE DEF t
<1>2. \A p \in 1 .. Len(s) : p = 1 \/ p - 1 \in 1 .. Len(s) - 1
  BY <1>1
<1>3. \A p \in 1 .. Len(s) - 1 : p + 1 \in 1 .. Len(s) /\ p + 1 # 1 /\ (p + 1) - 1 = p
  BY <1>1
<1>4. Range(s) = Range(t) \cup {s[1]}
  <2>1. \A p \in 1 .. Len(s) : p # 1 => s[p] = t[p - 1]
    BY <1>1, <1>2 DEF t
  <2>2. \A p \in 1 .. Len(s) : s[p] \in Range(t) \cup {s[1]}
    BY <1>1, <1>2, <2>1 DEF Range, t
  <2>3. \A x \in Range(t) \cup {s[1]} : x \in Range(s)
    BY <1>1, <1>3 DEF Range, t
  <2>4. QED
    BY <1>1, <2>2, <2>3 DEF Range
<1>5. ASSUME Distinct(s) PROVE Distinct(t) /\ s[1] \notin Range(t)
  <2>1. \A p, q \in 1 .. Len(s) - 1 : t[p] = t[q] => p + 1 = q + 1
    BY <1>1, <1>3, <1>5 DEF Distinct, t
  <2>2. \A p, q \in 1 .. Len(s) - 1 : p + 1 = q + 1 => p = q
    OBVIOUS
  <2>3. \A p \in 1 .. Len(s) - 1 : t[p] # s[1]
    BY <1>1, <1>3, <1>5 DEF Distinct, t
  <2>4. QED
    BY <1>1, <2>1, <2>2, <2>3 DEF Distinct, Range, t
<1>6. QED
  BY <1>1, <1>3, <1>4, <1>5 DEF t

\* A sequence of one element, and none.
LEMMA OneRange ==
  ASSUME NEW S, NEW e \in S
  PROVE  /\ <<e>> \in Seq(S) /\ Len(<<e>>) = 1 /\ Range(<<e>>) = {e} /\ Distinct(<<e>>)
         /\ <<e>> # <<>>
         /\ <<>> \in Seq(S) /\ Len(<<>>) = 0 /\ Range(<<>>) = {} /\ Distinct(<<>>)
<1>1. Len(<<e>>) = 1 /\ DOMAIN <<e>> = {1} /\ <<e>>[1] = e /\ <<e>> \in Seq(S)
  OBVIOUS
<1>2. DOMAIN <<>> = {} /\ Len(<<>>) = 0 /\ <<>> \in Seq(S)
  OBVIOUS
<1>3. <<e>> # <<>>
  BY <1>1, <1>2
<1>4. QED
  BY <1>1, <1>2, <1>3 DEF Range, Distinct

\* The elements of a sequence are in its range, and in its set.
LEMMA RangeIn ==
  ASSUME NEW S, NEW s \in Seq(S)
  PROVE  Range(s) \subseteq S /\ (s = <<>> <=> Range(s) = {})
<1>1. DOMAIN s = 1 .. Len(s) /\ Len(s) \in Nat /\ \A p \in 1 .. Len(s) : s[p] \in S
  BY LenProperties, ElementOfSeq
<1>2. s # <<>> => 1 \in DOMAIN s
  BY <1>1, EmptySeq
<1>3. s = <<>> => DOMAIN s = {}
  OBVIOUS
<1>4. Range(s) \subseteq S
  BY <1>1 DEF Range
<1>5. s = <<>> <=> Range(s) = {}
  BY <1>2, <1>3 DEF Range
<1>6. QED
  BY <1>4, <1>5

\* A bag with one more of each element of a set.
LEMMA BagAdd ==
  ASSUME NEW bag, IsABag(bag), NEW S
  PROVE  /\ IsABag(bag (+) SetToBag(S)) /\ DOMAIN (bag (+) SetToBag(S)) = DOMAIN bag \cup S
         /\ \A x \in DOMAIN bag \ S : (bag (+) SetToBag(S))[x] = bag[x]
         /\ \A x \in S \ DOMAIN bag : (bag (+) SetToBag(S))[x] = 1
<1>1. \A x \in DOMAIN bag : bag[x] \in Nat /\ bag[x] > 0
  BY DEF IsABag
<1>2. DOMAIN (bag (+) SetToBag(S)) = DOMAIN bag \cup S
  BY DEF (+), SetToBag
<1>3. \A x \in DOMAIN bag \cup S :
        (bag (+) SetToBag(S))[x] = (IF x \in DOMAIN bag THEN bag[x] ELSE 0) + (IF x \in S THEN 1 ELSE 0)
  BY DEF (+), SetToBag
<1>4. bag (+) SetToBag(S) = [x \in DOMAIN bag \cup S |-> (bag (+) SetToBag(S))[x]]
  BY DEF (+), SetToBag
<1> DEFINE sum == bag (+) SetToBag(S)
<1> HIDE DEF sum
<1>5. \A x \in DOMAIN bag \cup S : sum[x] \in Nat /\ sum[x] > 0
  BY <1>1, <1>3 DEF sum
<1>6. sum = [x \in DOMAIN sum |-> sum[x]] /\ DOMAIN sum = DOMAIN bag \cup S
  BY <1>2, <1>4 DEF sum
<1>7. IsABag(sum)
  BY <1>5, <1>6 DEF IsABag
<1>8. QED
  BY <1>1, <1>2, <1>3, <1>7 DEF sum

--------------------------------------------------------------------------------
\* What a message is.
LEMMA MessageIs ==
  ASSUME NEW m \in Messages
  PROVE  /\ m.input \in Inputs
         /\ m = [input |-> m.input, sort |-> m.sort, part |-> m.part, of |-> m.of]
         /\ m.sort \in {"loader", "vad", "job", "segment"}
         /\ m.sort = "job" => m = Job(m.input, m.of) /\ m.of \in 0 .. 1
         /\ IsFailure(m) => m = Failure(m.input, m.sort)
         /\ m.sort = "segment" => m = Segment(m.input, m.part, m.of) /\ m.part \in 1 .. MaxSegments
BY DEF Messages, Job, Failure, Segment, IsFailure

\* Messages are made of what they say.
LEMMA MessageMade ==
  ASSUME NEW i \in Inputs
  PROVE  /\ \A n \in 0 .. 1 : Job(i, n) \in Messages
         /\ \A at \in {"loader", "vad"} : Failure(i, at) \in Messages
         /\ \A k, n \in 1 .. MaxSegments : Segment(i, k, n) \in Messages
BY DEF Messages

\* Every place holds messages.
LEMMA FlyingMessages ==
  ASSUME TypeOK
  PROVE  /\ Flying \subseteq Messages
         /\ \A i \in DOMAIN vad : Range(vad[i]) \subseteq UnderVad /\ Range(vad[i]) # {}
<1>1. Range(asr) \subseteq Messages /\ Range(batch) \subseteq Messages /\ Range(pending) \subseteq Messages
  BY RangeIn DEF TypeOK
<1>2. \A i \in DOMAIN vad : Range(vad[i]) \subseteq Messages /\ Range(vad[i]) # {}
  BY RangeIn DEF TypeOK
<1>3. QED
  BY <1>1, <1>2 DEF Flying, UnderVad

--------------------------------------------------------------------------------
\* The canonical input of an input is the first that has its source, and is its own.
LEMMA CanonicalIs ==
  ASSUME Inputs = 1 .. Len(sources), Len(sources) \in Nat
  PROVE  \A i \in Inputs : /\ Canonical(i) \in UniqueInputs
                           /\ UniqueInputs \subseteq Inputs
                           /\ Canonical(Canonical(i)) = Canonical(i)
                           /\ Canonical(i) <= i
<1> DEFINE Is(i, j) == j \in Inputs /\ sources[j] = sources[i] /\ \A k \in 1 .. j-1 : sources[k] # sources[i]
<1> DEFINE below == OpToRel(<, Nat)
<1>a. IsWellFoundedOn(below, Nat)
  BY NatLessThanWellFounded
<1>b. \A x, y \in Nat : y < x => <<y, x>> \in below
  BY DEF OpToRel
<1> HIDE DEF below
<1>1. ASSUME NEW i \in Inputs PROVE \E j \in Inputs : Is(i, j) /\ j <= i
  <2> DEFINE T == {j \in Inputs : sources[j] = sources[i]}
  <2>1. i \in T /\ T \subseteq Nat /\ T # {}
    BY <1>1
  <2>2. PICK j \in T : \A k \in T : ~ (<<k, j>> \in below)
    BY <1>a, <2>1, WFMin
  <2>3. \A k \in T : ~ (k < j)
    BY <1>b, <2>1, <2>2
  <2>4. \A k \in 1 .. j-1 : k \in Inputs /\ k < j
    BY <2>2
  <2>5. j <= i
    BY <2>1, <2>2, <2>3
  <2>6. \A k \in 1 .. j-1 : sources[k] # sources[j]
    BY <2>2, <2>3, <2>4
  <2>7. QED
    BY <2>2, <2>5, <2>6
<1>2. \A i \in Inputs : Is(i, Canonical(i))
  BY <1>1 DEF Canonical
<1>3. ASSUME NEW i \in Inputs, NEW j, NEW k, Is(i, j), Is(i, k) PROVE j = k
  <2>1. j < k => j \in 1 .. k-1
    BY <1>3
  <2>2. k < j => k \in 1 .. j-1
    BY <1>3
  <2>3. j \in Int /\ k \in Int
    BY <1>3
  <2>4. QED
    BY <1>3, <2>1, <2>2, <2>3
<1>4. ASSUME NEW i \in Inputs PROVE Canonical(Canonical(i)) = Canonical(i) /\ Canonical(i) \in Inputs
  <2>1. Is(i, Canonical(i)) /\ Is(Canonical(i), Canonical(Canonical(i)))
    BY <1>2, <1>4
  <2>2. Is(i, Canonical(Canonical(i)))
    BY <2>1
  <2>3. QED
    BY <1>3, <2>1, <2>2
<1>5. ASSUME NEW i \in Inputs PROVE Canonical(i) <= i
  BY <1>1, <1>2, <1>3, <1>5
<1>6. QED
  BY <1>4, <1>5 DEF UniqueInputs

\* What the VAD task of an input may have to send.
LEMMA PreparationsAre ==
  ASSUME NEW i \in Inputs, NEW messages \in Preparations(i)
  PROVE  /\ messages \in Seq(Messages) \ {<<>>} /\ Distinct(messages)
         /\ Head(messages).of \in 0 .. MaxSegments
         /\ \A m \in Range(messages) : m.input = i
         /\ \/ \E m \in {Failure(i, "vad"), Job(i, Head(messages).of)} : Range(messages) = {m}
            \/ /\ Head(messages).of \in 1 .. MaxSegments
               /\ Range(messages) = {Segment(i, k, Head(messages).of) : k \in 1 .. Head(messages).of}
<1>0. MaxSegments \in Nat \ {0} /\ 0 \in 0 .. MaxSegments /\ 1 \in 0 .. MaxSegments
  BY PipelineAssumption
<1>1. CASE \E m \in {Job(i, 0), Job(i, 1), Failure(i, "vad")} : messages = <<m>>
  <2>1. PICK m \in {Job(i, 0), Job(i, 1), Failure(i, "vad")} : messages = <<m>>
    BY <1>1
  <2>2. m \in Messages
    BY MessageMade
  <2>3. Head(messages) = m
    BY <2>1
  <2>4. Range(messages) = {m} /\ messages \in Seq(Messages) \ {<<>>} /\ Distinct(messages)
    BY <2>1, <2>2, OneRange
  <2>5. m.input = i /\ m.of \in 0 .. 1 /\ m \in {Failure(i, "vad"), Job(i, m.of)}
    BY DEF Job, Failure
  <2>6. QED
    BY <1>0, <2>3, <2>4, <2>5
<1>2. CASE \E n \in 1 .. MaxSegments : messages = [k \in 1 .. n |-> Segment(i, k, n)]
  <2>1. PICK n \in 1 .. MaxSegments : messages = [k \in 1 .. n |-> Segment(i, k, n)]
    BY <1>2
  <2>2. n \in Nat \ {0} /\ 1 \in 1 .. n /\ n \in 0 .. MaxSegments /\ 1 .. n \subseteq 1 .. MaxSegments
    BY <1>0
  <2>3. \A k \in 1 .. n : Segment(i, k, n) \in Messages
    BY <2>2, MessageMade
  <2>4. messages \in [1 .. n -> Messages]
    BY <2>1, <2>3
  <2>5. messages \in Seq(Messages) /\ Len(messages) = n
    BY <2>2, <2>4, LenProperties, SeqDef
  <2>6. messages # <<>> /\ Head(messages) = messages[1]
    BY <2>2, <2>5
  <2>7. Head(messages).of = n
    BY <2>1, <2>2, <2>6 DEF Segment
  <2>8. Distinct(messages)
    BY <2>1 DEF Distinct, Segment
  <2>9. Range(messages) = {Segment(i, k, n) : k \in 1 .. n}
    BY <2>1 DEF Range
  <2>10. \A m \in Range(messages) : m.input = i
    BY <2>9 DEF Segment
  <2>11. QED
    BY <2>2, <2>5, <2>6, <2>7, <2>8, <2>9, <2>10
<1>3. QED
  BY <1>1, <1>2 DEF Preparations

\* The timeline an input has before a batch.
OldTimeline(i) == IF i \in DOMAIN open THEN open[i].timeline ELSE EmptyBag

\* What the state of an input with a segment in the batch begins with.
LEMMA PreparedIs ==
  ASSUME NEW i,
         i \in DOMAIN open => /\ open[i] = [timeline |-> open[i].timeline, done |-> open[i].done]
  PROVE  /\ Prepared(i) = [timeline |-> Prepared(i).timeline, done |-> Prepared(i).done]
         /\ Prepared(i).done = IF i \in DOMAIN open THEN open[i].done ELSE 0
         /\ \/ Prepared(i).timeline = OldTimeline(i)
            \/ Prepared(i).timeline = SetToBag({Speech}) /\ OldTimeline(i) = EmptyBag
<1> DEFINE old == IF i \in DOMAIN open THEN open[i] ELSE [timeline |-> EmptyBag, done |-> 0]
<1>1. old = [timeline |-> old.timeline, done |-> old.done]
  OBVIOUS
<1>2. \/ Prepared(i) = old
      \/ old.timeline = EmptyBag /\ Prepared(i) = [old EXCEPT !.timeline = SetToBag({Speech})]
  BY DEF Prepared
<1> HIDE DEF old
<1>3. CASE Prepared(i) = old
  BY <1>1, <1>3 DEF old, OldTimeline
<1>4. CASE old.timeline = EmptyBag /\ Prepared(i) = [old EXCEPT !.timeline = SetToBag({Speech})]
  <2>1. Prepared(i) = [timeline |-> SetToBag({Speech}), done |-> old.done]
    BY <1>1, <1>4
  <2>2. QED
    BY <1>4, <2>1 DEF old, OldTimeline
<1>5. QED
  BY <1>2, <1>3, <1>4

\* The places of an input in the batch are finitely many.
LEMMA PlacesCount ==
  ASSUME TypeOK, NEW i
  PROVE  IsFiniteSet(PlacesOf(i)) /\ Cardinality(PlacesOf(i)) \in Nat /\ IsFiniteSet(DOMAIN batch)
<1>1. DOMAIN batch = 1 .. Len(batch) /\ Len(batch) \in Nat
  BY LenProperties DEF TypeOK
<1>2. IsFiniteSet(DOMAIN batch)
  BY <1>1, FS_Interval
<1>3. PlacesOf(i) \in SUBSET DOMAIN batch
  BY DEF PlacesOf
<1>4. QED
  BY <1>2, <1>3, FS_Subset, FS_CardinalityType

--------------------------------------------------------------------------------
\* The parts of the state that no step of the stages changes, or that only some do.
LEMMA FramesOf ==
  ASSUME TypeOK, Shape, Still, Next
  PROVE  /\ sources' = sources /\ Inputs' = Inputs /\ Messages' = Messages
         /\ \/ Start \/ Single \/ Return
            \/ phase = "waiting" /\ phase' = "waiting"
<1>1. sources' = sources
  BY DEF Next, Start, Single, Loader, SpawnLoad, SendLoaded, VadStage, ForwardFailure, SpawnVad,
         SendPrepared, AsrWorker, Receive, CollectJob, CollectSegment, RunJobs, RunSegments, Return
<1>2. Inputs' = Inputs /\ Messages' = Messages
  BY <1>1 DEF Inputs, Messages, Failure, Job, Segment
<1>3. ASSUME phase # "waiting", ~ Start, ~ Single, ~ Return PROVE FALSE
  <2>1. /\ todo = {} /\ loading = {} /\ loaded = <<>> /\ DOMAIN vad = {} /\ asr = <<>>
        /\ batch = <<>> /\ pending = <<>> /\ worker = "receiving"
    BY <1>3 DEF Still
  <2>2. ~ SpawnLoad /\ (\A i \in loading : ~ SendLoaded(i)) /\ ~ ForwardFailure /\ ~ SpawnVad
    BY <2>1 DEF SpawnLoad, ForwardFailure, SpawnVad
  <2>3. (\A i \in DOMAIN vad : ~ SendPrepared(i)) /\ ~ Receive /\ ~ CollectJob /\ ~ CollectSegment
    BY <2>1 DEF Receive, CollectJob, CollectSegment
  <2>4. ~ RunJobs /\ ~ RunSegments
    BY <2>1 DEF RunJobs, RunSegments
  <2>5. QED
    BY <1>3, <2>2, <2>3, <2>4 DEF Next, Loader, VadStage, AsrWorker
<1>4. ASSUME ~ Start, ~ Single, ~ Return PROVE phase' = phase
  BY <1>4 DEF Next, Loader, SpawnLoad, SendLoaded, VadStage, ForwardFailure, SpawnVad,
         SendPrepared, AsrWorker, Receive, CollectJob, CollectSegment, RunJobs, RunSegments
<1>5. QED
  BY <1>1, <1>2, <1>3, <1>4

\* Outcomes are copied from the canonical inputs to their duplicates: ...
LEMMA Expanding ==
  ASSUME Inputs = 1 .. Len(sources), Len(sources) \in Nat,
         NEW results, IsABag(results), \A o \in DOMAIN results : IsOutcome(o)
  PROVE  IsABag(Expand(results)) /\ \A o \in DOMAIN Expand(results) : IsOutcome(o)
<1> DEFINE of(i)  == {o \in DOMAIN results : o.index = Canonical(i)}
           copies == {[(CHOOSE o \in of(i) : TRUE) EXCEPT !.index = i] :
                        i \in {j \in Inputs : Canonical(j) # j /\ of(j) # {}}}
<1>1. Expand(results) = results (+) SetToBag(copies)
  BY DEF Expand
<1>2. \A i \in Inputs : of(i) # {} => (CHOOSE o \in of(i) : TRUE) \in of(i)
  OBVIOUS
<1>3. ASSUME NEW c \in copies PROVE IsOutcome(c)
  <2>1. PICK i \in Inputs : of(i) # {} /\ c = [(CHOOSE o \in of(i) : TRUE) EXCEPT !.index = i]
    BY <1>3
  <2>2. PICK o \in of(i) : c = [o EXCEPT !.index = i]
    BY <1>2, <2>1
  <2>3. c = [index |-> i, bad_component |-> o.bad_component, timeline |-> o.timeline]
    BY <2>2 DEF IsOutcome
  <2>4. QED
    BY <2>1, <2>3 DEF IsOutcome
<1> HIDE DEF of, copies
<1>4. IsABag(Expand(results)) /\ DOMAIN Expand(results) = DOMAIN results \cup copies
  BY <1>1, BagAdd
<1>5. QED
  BY <1>3, <1>4

\* What there is for an input.
AnswersIn(results, i) == {o \in DOMAIN results : o.index = i}

\* ... if every canonical input has one, every input has one, and it is the same.
LEMMA EveryInputExpanded ==
  ASSUME Inputs = 1 .. Len(sources), Len(sources) \in Nat,
         NEW results, IsABag(results), \A o \in DOMAIN results : IsOutcome(o),
         \A i \in UniqueInputs : \E o : AnswersIn(results, i) = {o},
         \A i \in Inputs \ UniqueInputs : AnswersIn(results, i) = {},
         NEW i \in Inputs
  PROVE  \E r, o : /\ AnswersIn(results, Canonical(i)) = {r}
                   /\ AnswersIn(Expand(results), i) = {o}
                   /\ o.bad_component = r.bad_component /\ o.timeline = r.timeline
                   /\ results[r] = 1 => Expand(results)[o] = 1
<1> USE DEF AnswersIn
<1> DEFINE of(j)   == {o \in DOMAIN results : o.index = Canonical(j)}
           copy(j) == [(CHOOSE o \in of(j) : TRUE) EXCEPT !.index = j]
           copies  == {copy(j) : j \in {k \in Inputs : Canonical(k) # k /\ of(k) # {}}}
<1>1. Expand(results) = results (+) SetToBag(copies)
  BY DEF Expand
<1>2. Canonical(i) \in UniqueInputs /\ UniqueInputs \subseteq Inputs
  BY CanonicalIs
<1>3. ASSUME NEW j \in Inputs, of(j) # {}
      PROVE  \E o \in of(j) : copy(j) = [index |-> j, bad_component |-> o.bad_component, timeline |-> o.timeline]
  <2>1. PICK o \in of(j) : copy(j) = [o EXCEPT !.index = j]
    BY <1>3
  <2>2. o = [index |-> o.index, bad_component |-> o.bad_component, timeline |-> o.timeline]
    BY DEF IsOutcome
  <2> HIDE DEF copy, of
  <2>3. copy(j) = [index |-> j, bad_component |-> o.bad_component, timeline |-> o.timeline]
    BY <2>1, <2>2
  <2>4. QED
    BY <2>3
<1>4. \A c \in copies : c.index \in Inputs \ UniqueInputs /\ c = copy(c.index)
  <2>1. ASSUME NEW j \in Inputs, Canonical(j) # j, of(j) # {}
        PROVE  copy(j).index = j /\ j \in Inputs \ UniqueInputs
    <3> HIDE DEF of, copy
    <3>1. copy(j).index = j
      BY <1>3, <2>1
    <3>2. QED
      BY <3>1, <2>1 DEF UniqueInputs
  <2>2. ASSUME NEW c \in copies PROVE c.index \in Inputs \ UniqueInputs /\ c = copy(c.index)
    <3>1. PICK j \in Inputs : Canonical(j) # j /\ of(j) # {} /\ c = copy(j)
      OBVIOUS
    <3> HIDE DEF of, copy, copies
    <3>2. QED
      BY <2>1, <3>1
  <2> HIDE DEF of, copy, copies
  <2>3. QED
    BY <2>2
<1>5. PICK r : of(i) = {r}
  BY <1>2
<1> HIDE DEF copy
<1>6. /\ DOMAIN Expand(results) = DOMAIN results \cup copies
      /\ \A x \in DOMAIN results \ copies : Expand(results)[x] = results[x]
      /\ \A x \in copies \ DOMAIN results : Expand(results)[x] = 1
  <2> HIDE DEF copies
  <2>1. /\ IsABag(results (+) SetToBag(copies))
        /\ DOMAIN (results (+) SetToBag(copies)) = DOMAIN results \cup copies
        /\ \A x \in DOMAIN results \ copies : (results (+) SetToBag(copies))[x] = results[x]
        /\ \A x \in copies \ DOMAIN results : (results (+) SetToBag(copies))[x] = 1
    BY ONLY IsABag(results), BagAdd, Zenon
  <2>2. QED
    BY <1>1, <2>1
<1>7. CASE i \in UniqueInputs
  <2>1. Canonical(i) = i
    BY <1>7 DEF UniqueInputs
  <2>2. {x \in DOMAIN Expand(results) : x.index = i} = {r} /\ r \notin copies /\ r \in DOMAIN results
    <3> HIDE DEF copies
    <3>1. QED
      BY <1>4, <1>5, <1>6, <1>7, <2>1 DEF of
  <2>3. QED
    BY <1>5, <1>6, <2>1, <2>2
<1>8. CASE i \notin UniqueInputs
  <2>1. Canonical(i) # i
    BY <1>8 DEF UniqueInputs
  <2>2. copy(i) \in copies
    BY <1>5, <2>1
  <2>3. copy(i) = [index |-> i, bad_component |-> r.bad_component, timeline |-> r.timeline]
    <3> HIDE DEF of
    <3>1. QED
      BY <1>3, <1>5
  <2>4. {x \in DOMAIN results : x.index = i} = {}
    BY <1>8
  <2>5. {x \in DOMAIN Expand(results) : x.index = i} = {copy(i)} /\ copy(i) \notin DOMAIN results
    <3> HIDE DEF copies, of
    <3>1. copy(i).index = i
      BY <2>3
    <3>2. QED
      BY <1>4, <1>6, <2>2, <2>4, <3>1
  <2>6. Expand(results)[copy(i)] = 1
    BY <1>6, <2>2, <2>5
  <2>7. QED
    BY <1>5, <2>3, <2>5, <2>6
<1>9. QED
  BY <1>7, <1>8

\* The first input is always its own canonical input.
LEMMA FirstInput ==
  ASSUME Shape
  PROVE  1 \in UniqueInputs /\ 1 \in Inputs
<1>1. 1 \in Inputs /\ \A j \in Inputs : j <= 1 => j = 1
  BY DEF Shape
<1>2. Canonical(1) <= 1 /\ Canonical(1) \in UniqueInputs /\ UniqueInputs \subseteq Inputs
  BY <1>1, CanonicalIs DEF Shape
<1>3. QED
  BY <1>1, <1>2

\* An answer that is added is an outcome.
LEMMA OutcomesAdded ==
  ASSUME IsABag(outcomes), \A o \in DOMAIN outcomes : IsOutcome(o),
         NEW S, \A o \in S : IsOutcome(o)
  PROVE  IsABag(outcomes (+) SetToBag(S)) /\ \A o \in DOMAIN (outcomes (+) SetToBag(S)) : IsOutcome(o)
BY BagAdd

\* What the stages answer with are outcomes.
LEMMA AnswersAre ==
  ASSUME NEW i \in Inputs
  PROVE  (\A t : IsOutcome(Ok(i, t))) /\ (\A at : IsOutcome(Failed(i, at)))
BY DEF IsOutcome, Ok, Failed

\* The loader and the VAD stage keep the state's shape, ...
LEMMA TypeBeforeAsr ==
  ASSUME TypeOK, Shape, sources' = sources, Inputs' = Inputs, Messages' = Messages,
         Loader \/ VadStage \/ \E i \in DOMAIN vad : SendPrepared(i)
  PROVE  TypeOK' /\ Shape'
<1> USE DEF TypeOK
<1>1. CASE SpawnLoad
  BY <1>1 DEF SpawnLoad, stages, Shape, IsOutcome
<1>2. ASSUME NEW i \in loading, SendLoaded(i) PROVE TypeOK' /\ Shape'
  <2>1. PICK m \in Messages : loaded' = Append(loaded, m)
    <3>1. 0 \in 0 .. 1 /\ i \in Inputs
      BY <1>2
    <3>2. QED
      BY <1>2, <3>1, MessageMade DEF SendLoaded
  <2>2. loaded' \in Seq(Messages) /\ Len(loaded') = Len(loaded) + 1 /\ Len(loaded) \in Nat
    BY <2>1, AppendRange, LenProperties
  <2>3. Len(loaded') <= Buffer
    BY <1>2, <2>2, PipelineAssumption DEF SendLoaded
  <2>4. QED
    BY <1>2, <2>2, <2>3 DEF SendLoaded, Shape, IsOutcome
<1>3. CASE ForwardFailure
  <2>1. Head(loaded) \in Messages /\ Tail(loaded) \in Seq(Messages) /\ Len(Tail(loaded)) = Len(loaded) - 1
        /\ Len(loaded) \in Nat
    BY <1>3, TailRange DEF ForwardFailure
  <2>2. asr' \in Seq(Messages) /\ Len(asr') = Len(asr) + 1 /\ Len(asr) \in Nat
    BY <1>3, <2>1, AppendRange, LenProperties DEF ForwardFailure
  <2>3. Len(asr') <= Buffer /\ Len(loaded') <= Buffer /\ loaded' \in Seq(Messages)
    BY <1>3, <2>1, <2>2, PipelineAssumption DEF ForwardFailure
  <2>4. QED
    BY <1>3, <2>2, <2>3 DEF ForwardFailure, Shape, IsOutcome
<1>4. CASE SpawnVad
  <2>1. Head(loaded) \in Messages /\ Tail(loaded) \in Seq(Messages) /\ Len(Tail(loaded)) = Len(loaded) - 1
        /\ Len(loaded) \in Nat
    BY <1>4, TailRange DEF SpawnVad
  <2>2. PICK i \in Inputs : \E messages \in Preparations(i) :
          /\ vad' = [j \in DOMAIN vad \cup {i} |-> IF j = i THEN messages ELSE vad[j]]
          /\ heard' = [heard EXCEPT ![i] = Head(messages).of]
    BY <1>4, <2>1, MessageIs DEF SpawnVad
  <2>a. PICK messages \in Preparations(i) :
          /\ vad' = [j \in DOMAIN vad \cup {i} |-> IF j = i THEN messages ELSE vad[j]]
          /\ heard' = [heard EXCEPT ![i] = Head(messages).of]
    BY <2>2
  <2>3. messages \in Seq(Messages) \ {<<>>} /\ Head(messages).of \in 0 .. MaxSegments
    BY PreparationsAre
  <2>4. DOMAIN vad' \subseteq Inputs /\ \A j \in DOMAIN vad' : vad'[j] \in Seq(Messages) \ {<<>>}
    BY <2>a, <2>3
  <2>5. heard' \in [Inputs -> 0 .. MaxSegments]
    BY <2>a, <2>3
  <2>6. loaded' \in Seq(Messages) /\ Len(loaded') <= Buffer
    BY <1>4, <2>1, PipelineAssumption DEF SpawnVad
  <2>7. QED
    BY <1>4, <2>4, <2>5, <2>6 DEF SpawnVad, Shape, IsOutcome
<1>5. ASSUME NEW i \in DOMAIN vad, SendPrepared(i) PROVE TypeOK' /\ Shape'
  <2>1. /\ Head(vad[i]) \in Messages /\ Tail(vad[i]) \in Seq(Messages)
        /\ Len(Tail(vad[i])) = Len(vad[i]) - 1 /\ Len(vad[i]) \in Nat \ {0}
    BY TailRange
  <2>2. asr' \in Seq(Messages) /\ Len(asr') = Len(asr) + 1 /\ Len(asr) \in Nat
    BY <1>5, <2>1, AppendRange, LenProperties DEF SendPrepared
  <2>3. Len(asr') <= Buffer
    BY <1>5, <2>2, PipelineAssumption DEF SendPrepared
  <2>4. Len(vad[i]) # 1 => Tail(vad[i]) # <<>>
    <3>1. Len(<<>>) = 0
      OBVIOUS
    <3>2. Len(vad[i]) # 1 => Len(Tail(vad[i])) # 0
      BY <2>1
    <3>3. QED
      BY <3>1, <3>2
  <2>5. DOMAIN vad' \subseteq Inputs /\ \A j \in DOMAIN vad' : vad'[j] \in Seq(Messages) \ {<<>>}
    <3>1. CASE Len(vad[i]) = 1
      BY <1>5, <3>1 DEF SendPrepared
    <3>2. CASE Len(vad[i]) # 1
      <4>1. vad' = [vad EXCEPT ![i] = Tail(vad[i])]
        BY <1>5, <3>2 DEF SendPrepared
      <4>2. QED
        BY <2>1, <2>4, <3>2, <4>1
    <3>3. QED
      BY <3>1, <3>2
  <2>6. QED
    BY <1>5, <2>2, <2>3, <2>5 DEF SendPrepared, Shape, IsOutcome
<1>6. QED
  BY <1>1, <1>2, <1>3, <1>4, <1>5 DEF Loader, VadStage

\* Room in a channel or a batch, before and after.
LEMMA RoomFor ==
  /\ \A n \in Nat : (n < Buffer => n + 1 <= Buffer) /\ (n <= Buffer => n - 1 <= Buffer)
  /\ 1 <= Buffer /\ 0 <= Buffer
BY PipelineAssumption

\* ... the ASR worker does, ...
LEMMA TypeOfAsr ==
  ASSUME TypeOK, Shape, Sorts, sources' = sources, Inputs' = Inputs, Messages' = Messages, AsrWorker
  PROVE  TypeOK' /\ Shape'
<1> USE DEF TypeOK
<1>0. /\ Range(batch) \subseteq Messages /\ Len(batch) \in Nat /\ Len(asr) \in Nat /\ Len(pending) \in Nat
      /\ <<>> \in Seq(Messages) /\ Len(<<>>) <= Buffer
  BY RangeIn, LenProperties, PipelineAssumption
<1>1. CASE Receive
  <2>1. PICK m \in Messages : /\ m = Head(pending \o asr)
                              /\ asr' \in Seq(Messages) /\ Len(asr') <= Buffer
                              /\ pending' \in Seq(Messages)
    <3>1. CASE pending # <<>>
      <4>1. Head(pending) \in Messages /\ Tail(pending) \in Seq(Messages)
        BY <3>1, TailRange
      <4>2. Head(pending \o asr) = Head(pending)
        BY <3>1, <1>0, ConcatProperties, EmptySeq
      <4>3. QED
        BY <1>1, <3>1, <4>1, <4>2 DEF Receive
    <3>2. CASE pending = <<>>
      <4>1. asr # <<>> /\ pending \o asr = asr
        BY <1>1, <3>2, ConcatEmptySeq DEF Receive
      <4>2. Head(asr) \in Messages /\ Tail(asr) \in Seq(Messages) /\ Len(Tail(asr)) = Len(asr) - 1
        BY <4>1, TailRange
      <4>3. Len(Tail(asr)) <= Buffer
        BY <1>0, <4>2, RoomFor
      <4>4. QED
        BY <1>0, <1>1, <3>2, <4>1, <4>2, <4>3 DEF Receive
    <3>3. QED
      BY <3>1, <3>2
  <2>2. IsOutcome(Failed(m.input, m.sort))
    BY MessageIs, AnswersAre
  <2>3. IsABag(outcomes') /\ \A o \in DOMAIN outcomes' : IsOutcome(o)
    <3>1. outcomes' = outcomes \/ outcomes' = outcomes (+) SetToBag({Failed(m.input, m.sort)})
      BY <1>1, <2>1 DEF Receive
    <3>2. QED
      BY <2>2, <3>1, OutcomesAdded DEF Shape
  <2>4. batch' \in Seq(Messages) /\ Len(batch') <= Buffer
    <3>1. batch' = batch \/ batch' = <<m>>
      BY <1>1, <2>1 DEF Receive
    <3>2. <<m>> \in Seq(Messages) /\ Len(<<m>>) = 1
      BY OneRange
    <3>3. Len(<<m>>) <= Buffer
      BY <3>2, RoomFor
    <3>4. QED
      BY <3>1, <3>2, <3>3
  <2>5. worker' \in {"receiving", "jobs", "segments"}
    BY <1>1 DEF Receive
  <2>6. QED
    BY <1>1, <2>1, <2>3, <2>4, <2>5 DEF Receive, Shape, IsOutcome
<1>2. CASE CollectJob \/ CollectSegment
  <2>1. Head(asr) \in Messages /\ Tail(asr) \in Seq(Messages) /\ Len(Tail(asr)) = Len(asr) - 1
    BY <1>2, TailRange DEF CollectJob, CollectSegment
  <2>2. /\ Append(batch, Head(asr)) \in Seq(Messages) /\ Len(Append(batch, Head(asr))) = Len(batch) + 1
        /\ Append(pending, Head(asr)) \in Seq(Messages)
    BY <2>1, AppendRange
  <2>3. asr' = Tail(asr) /\ Len(batch) < Buffer
        /\ (batch' = batch \/ batch' = Append(batch, Head(asr)))
        /\ (pending' = pending \/ pending' = Append(pending, Head(asr)))
    BY <1>2 DEF CollectJob, CollectSegment
  <2>4. Len(asr') <= Buffer /\ asr' \in Seq(Messages) /\ pending' \in Seq(Messages)
    <3>1. Len(Tail(asr)) <= Buffer
      BY <1>0, <2>1, RoomFor
    <3>2. QED
      BY <2>1, <2>2, <2>3, <3>1
  <2>5. batch' \in Seq(Messages) /\ Len(batch') <= Buffer
    <3>1. Len(Append(batch, Head(asr))) <= Buffer
      BY <1>0, <2>2, <2>3, RoomFor
    <3>2. QED
      BY <2>2, <2>3, <3>1
  <2>6. QED
    BY <1>2, <2>4, <2>5 DEF CollectJob, CollectSegment, Shape, IsOutcome
<1>3. CASE RunJobs
  <2>1. PICK sent : outcomes' = outcomes (+) SetToBag(sent) /\ \A o \in sent : IsOutcome(o)
    <3>1. \A m \in Range(batch) : m.input \in Inputs
      BY <1>0, MessageIs
    <3>2. \A m \in Range(batch) : (\A t : IsOutcome(Ok(m.input, t))) /\ (\A at : IsOutcome(Failed(m.input, at)))
      BY <3>1, AnswersAre
    <3> DEFINE failures == {Failed(m.input, m.sort) : m \in {b \in Range(batch) : IsFailure(b)}}
               done(m)  == Ok(m.input, WholeTimeline(m.of))
               jobs     == {m \in Range(batch) : m.sort = "job"}
               silent   == {m \in jobs : m.of = 0}
               raw      == jobs \ silent
               sent     == failures \cup {done(m) : m \in silent}
               all      == sent \cup {done(m) : m \in raw}
               less     == sent \cup {Failed(m.input, "recognizer") : m \in raw}
    <3>3. outcomes' = outcomes (+) SetToBag(all) \/ outcomes' = outcomes (+) SetToBag(less)
      BY <1>3 DEF RunJobs
    <3>4. (\A o \in all : IsOutcome(o)) /\ (\A o \in less : IsOutcome(o))
      BY <3>2
    <3> HIDE DEF all, less
    <3>5. QED
      BY <3>3, <3>4
  <2>2. IsABag(outcomes') /\ \A o \in DOMAIN outcomes' : IsOutcome(o)
    BY <2>1, OutcomesAdded DEF Shape
  <2>3. batch' = <<>> /\ worker' = "receiving"
    BY <1>3 DEF RunJobs
  <2>4. QED
    BY <1>0, <1>3, <2>2, <2>3 DEF RunJobs, Shape, IsOutcome
<1>4. CASE RunSegments
  <2>1. \A m \in Range(batch) : m.input \in Inputs /\ m.of \in 1 .. MaxSegments
    <3>1. ASSUME NEW m \in Range(batch)
          PROVE  m.input \in Inputs /\ m.of \in 1 .. MaxSegments
      <4>1. m \in Messages /\ m.sort = "segment"
        BY <1>0, <1>4 DEF Sorts, RunSegments
      <4>2. PICK i \in Inputs, k \in 1 .. MaxSegments, n \in 1 .. MaxSegments : m = Segment(i, k, n)
        BY <4>1 DEF Messages, Job, Failure
      <4>3. QED
        BY <4>2 DEF Segment
    <3>2. QED
      BY <3>1
  <2> DEFINE touched == InputsOf(Range(batch))
  <2>2. touched \subseteq Inputs
    BY <2>1 DEF InputsOf
  <2>3. CASE ExtendOpen
    <3> DEFINE now == [i \in DOMAIN open \cup touched |-> IF i \in touched THEN Extended(i) ELSE open[i]]
               complete == {m.input : m \in {b \in Range(batch) : now[b.input].done >= b.of}}
               answers == {Ok(i, now[i].timeline) : i \in complete}
    <3>1. outcomes' = outcomes (+) SetToBag(answers) /\ open' = [i \in DOMAIN now \ complete |-> now[i]]
      BY <2>3 DEF ExtendOpen
    <3>2. \A i \in touched : now[i] = Extended(i) /\ Extended(i).done \in Nat
                             /\ Extended(i) = [timeline |-> Extended(i).timeline, done |-> Extended(i).done]
      <4>1. ASSUME NEW i \in touched PROVE Extended(i).done \in Nat
        <5>1. Prepared(i).done \in Nat
          <6>1. Prepared(i).done = IF i \in DOMAIN open THEN open[i].done ELSE 0
            BY PreparedIs DEF Shape
          <6>2. i \in DOMAIN open => open[i].done \in Nat
            BY PipelineAssumption
          <6>3. QED
            BY <6>1, <6>2
        <5>2. QED
          BY <5>1, PlacesCount DEF Extended
      <4>2. QED
        BY <4>1 DEF Extended
    <3>3. \A i \in DOMAIN open \ touched : now[i] = open[i]
      OBVIOUS
    <3>4. DOMAIN now = DOMAIN open \cup touched
      OBVIOUS
    <3>5. \A i \in touched \ complete : \E b \in Range(batch) : i = b.input /\ ~ (now[i].done >= b.of)
      BY DEF InputsOf
    <3>6. complete \subseteq touched
      BY DEF InputsOf
    <3> HIDE DEF now, complete, touched
    <3>7. \A o \in answers : IsOutcome(o)
      BY <2>2, <3>6, AnswersAre
    <3> HIDE DEF answers
    <3>8. IsABag(outcomes') /\ \A o \in DOMAIN outcomes' : IsOutcome(o)
      BY <3>1, <3>7, OutcomesAdded DEF Shape
    <3>9. DOMAIN open' \subseteq DOMAIN open \cup touched /\ \A i \in DOMAIN open' : open'[i] = now[i]
      BY <3>1, <3>4
    <3>10. \A i \in touched \ complete : now[i].done \in 0 .. MaxSegments
      <4>1. ASSUME NEW i \in touched \ complete PROVE now[i].done \in 0 .. MaxSegments
        <5>1. PICK b \in Range(batch) : i = b.input /\ ~ (now[i].done >= b.of)
          BY <3>5
        <5>2. now[i].done \in Nat /\ b.of \in 1 .. MaxSegments
          BY <2>1, <3>2
        <5>3. QED
          BY <5>1, <5>2, PipelineAssumption
      <4>2. QED
        BY <4>1
    <3>11. \A i \in DOMAIN open' : /\ open'[i].done \in 0 .. MaxSegments
                                   /\ open'[i] = [timeline |-> open'[i].timeline, done |-> open'[i].done]
      <4>1. ASSUME NEW i \in DOMAIN open' PROVE i \in touched \ complete \/ i \in DOMAIN open \ touched
        BY <3>1, <3>4, <4>1
      <4>2. QED
        BY <3>2, <3>3, <3>9, <3>10, <4>1 DEF Shape
    <3>12. DOMAIN open' \subseteq Inputs
      BY <2>2, <3>9
    <3>13. QED
      BY <1>0, <1>4, <3>8, <3>11, <3>12 DEF RunSegments, Shape, IsOutcome
  <2>4. CASE DropFailed
    <3> DEFINE answers == {Failed(i, "recognizer") : i \in touched}
    <3>1. outcomes' = outcomes (+) SetToBag(answers) /\ open' = [i \in DOMAIN open \ touched |-> open[i]]
      BY <2>4 DEF DropFailed
    <3>2. \A o \in answers : IsOutcome(o)
      BY <2>2, AnswersAre
    <3> HIDE DEF answers, touched
    <3>3. IsABag(outcomes') /\ \A o \in DOMAIN outcomes' : IsOutcome(o)
      BY <3>1, <3>2, OutcomesAdded DEF Shape
    <3>4. DOMAIN open' \subseteq DOMAIN open /\ \A i \in DOMAIN open' : open'[i] = open[i]
      BY <3>1
    <3>5. QED
      BY <1>0, <1>4, <3>3, <3>4 DEF RunSegments, Shape, IsOutcome
  <2>5. QED
    BY <1>4, <2>3, <2>4 DEF RunSegments
<1>5. QED
  BY <1>1, <1>2, <1>3, <1>4 DEF AsrWorker

\* ... and so does the call itself.
LEMMA TypeKept ==
  ASSUME TypeOK, Shape, Sorts, Still, Next
  PROVE  TypeOK' /\ Shape'
<1>1. sources' = sources /\ Inputs' = Inputs /\ Messages' = Messages
  BY FramesOf
<1>2. CASE Loader \/ VadStage \/ (\E i \in DOMAIN vad : SendPrepared(i))
  BY <1>1, <1>2, TypeBeforeAsr
<1>3. CASE AsrWorker
  BY <1>1, <1>3, TypeOfAsr
<1>4. CASE Start
  <2>1. UniqueInputs \subseteq Inputs
    BY DEF UniqueInputs
  <2>2. QED
    BY <1>1, <1>4, <2>1 DEF Start, stages, TypeOK, Shape, IsOutcome
<1>5. CASE Single
  <2>1. PICK n \in 0 .. MaxSegments :
          /\ heard' = [heard EXCEPT ![1] = n]
          /\ \/ outcomes' = Expand(SetToBag({Ok(1, WholeTimeline(n))}))
             \/ \E at : outcomes' = Expand(SetToBag({Failed(1, at)}))
    BY <1>5 DEF Single
  <2>2. PICK o : IsOutcome(o) /\ outcomes' = Expand(SetToBag({o}))
    BY <2>1, FirstInput, AnswersAre
  <2>3. IsABag(SetToBag({o})) /\ DOMAIN SetToBag({o}) = {o}
    BY DEF IsABag, SetToBag
  <2>4. IsABag(outcomes') /\ \A x \in DOMAIN outcomes' : IsOutcome(x)
    BY <2>2, <2>3, Expanding DEF Shape
  <2>5. heard' \in [Inputs -> 0 .. MaxSegments]
    BY <2>1, FirstInput DEF TypeOK
  <2>6. QED
    BY <1>1, <1>5, <2>4, <2>5 DEF Single, stages, TypeOK, Shape, IsOutcome
<1>6. CASE Return
  <2>1. IsABag(outcomes') /\ \A x \in DOMAIN outcomes' : IsOutcome(x)
    BY <1>6, Expanding DEF Return, TypeOK, Shape
  <2>2. QED
    BY <1>1, <1>6, <2>1 DEF Return, stages, TypeOK, Shape, IsOutcome
<1>7. QED
  BY <1>2, <1>3, <1>4, <1>5, <1>6 DEF Next

--------------------------------------------------------------------------------
\* What is the first input with a source does not change in a call.
LEMMA CanonicalKept ==
  ASSUME sources' = sources
  PROVE  /\ UniqueInputs' = UniqueInputs /\ Inputs' = Inputs
         /\ \A i : Canonical(i)' = Canonical(i)
         /\ \A i : Preparations(i)' = Preparations(i)
BY DEF UniqueInputs, Inputs, Canonical, Preparations

\* No two messages of one input are in a channel.
InputsDiffer(s) == \A p, q \in DOMAIN s : s[p].input = s[q].input => p = q

\* A message of an input that is not in the channel may be put there, ...
LEMMA AppendInputs ==
  ASSUME NEW S, NEW s \in Seq(S), NEW e \in S, InputsDiffer(s), e.input \notin InputsOf(Range(s))
  PROVE  InputsDiffer(Append(s, e)) /\ InputsOf(Range(Append(s, e))) = InputsOf(Range(s)) \cup {e.input}
<1>1. /\ Len(s) \in Nat /\ DOMAIN s = 1 .. Len(s) /\ DOMAIN Append(s, e) = 1 .. Len(s) + 1
      /\ \A p \in 1 .. Len(s) : Append(s, e)[p] = s[p]
      /\ Append(s, e)[Len(s) + 1] = e
  BY AppendProperties, LenProperties
<1> DEFINE t == Append(s, e)
<1> HIDE DEF t
<1>2. 1 .. Len(s) + 1 = (1 .. Len(s)) \cup {Len(s) + 1}
  BY <1>1
<1>3. \A p \in 1 .. Len(s) : s[p].input # e.input
  BY <1>1 DEF InputsOf, Range
<1>4. InputsDiffer(t)
  BY <1>1, <1>2, <1>3 DEF InputsDiffer, t
<1>5. Range(t) = Range(s) \cup {e}
  BY AppendRange DEF t
<1>6. InputsOf(Range(t)) = InputsOf(Range(s)) \cup {e.input}
  BY <1>5 DEF InputsOf
<1>7. QED
  BY <1>4, <1>6 DEF t

\* ... and the one at the front be taken.
LEMMA TailInputs ==
  ASSUME NEW S, NEW s \in Seq(S), s # <<>>, InputsDiffer(s)
  PROVE  /\ InputsDiffer(Tail(s))
         /\ InputsOf(Range(Tail(s))) = InputsOf(Range(s)) \ {Head(s).input}
         /\ Head(s).input \in InputsOf(Range(s))
<1>1. /\ Head(s) = s[1] /\ 1 \in DOMAIN s /\ Range(s) = Range(Tail(s)) \cup {Head(s)}
      /\ \A p \in DOMAIN Tail(s) : p + 1 \in DOMAIN s /\ Tail(s)[p] = s[p + 1]
  BY TailRange
<1>2. DOMAIN Tail(s) = 1 .. Len(Tail(s)) /\ Len(Tail(s)) \in Nat
  BY TailRange, LenProperties
<1> DEFINE t == Tail(s)
<1> HIDE DEF t
<1>3. \A p, q \in DOMAIN t : p + 1 = q + 1 => p = q
  BY <1>2 DEF t
<1>4. \A p \in DOMAIN t : p + 1 # 1
  BY <1>2 DEF t
<1>5. InputsDiffer(t)
  BY <1>1, <1>3 DEF InputsDiffer, t
<1>6. \A p \in DOMAIN t : t[p].input # Head(s).input
  BY <1>1, <1>4 DEF InputsDiffer, t
<1>7. \A m \in Range(t) : m.input # Head(s).input
  BY <1>6 DEF Range
<1>8. InputsOf(Range(t)) = InputsOf(Range(s)) \ {Head(s).input} /\ Head(s).input \in InputsOf(Range(s))
  BY <1>1, <1>7 DEF InputsOf, t
<1>9. QED
  BY <1>5, <1>8 DEF t

\* The loader moves an input, from one of its places to the next.
LEMMA LoaderMoves ==
  ASSUME TypeOK, Before, sources' = sources, Loader
  PROVE  Before' /\ Waiting' = Waiting
<1>0. UniqueInputs' = UniqueInputs
  BY CanonicalKept
<1>1. CASE SpawnLoad
  <2>1. PICK i \in todo : loading' = loading \cup {i} /\ todo' = todo \ {i} /\ loaded' = loaded
    BY <1>1 DEF SpawnLoad, stages
  <2>2. QED
    BY <1>0, <2>1 DEF Before, Waiting, InputsOf
<1>2. ASSUME NEW i \in loading, SendLoaded(i) PROVE Before' /\ Waiting' = Waiting
  <2>1. PICK m \in {Job(i, 0), Failure(i, "loader")} : loaded' = Append(loaded, m)
    BY <1>2 DEF SendLoaded
  <2>2. m.input = i /\ m \in Messages /\ (m = Job(m.input, 0) \/ m = Failure(m.input, "loader"))
    <3>1. i \in Inputs /\ 0 \in 0 .. 1
      BY <1>2 DEF TypeOK
    <3>2. m \in Messages
      BY <3>1, MessageMade
    <3>3. m.input = i /\ (m = Job(m.input, 0) \/ m = Failure(m.input, "loader"))
      BY DEF Job, Failure
    <3>4. QED
      BY <3>2, <3>3
  <2>3. i \notin InputsOf(Range(loaded)) /\ InputsDiffer(loaded) /\ loaded \in Seq(Messages)
    BY <1>2 DEF Before, TypeOK, InputsDiffer
  <2>4. InputsDiffer(loaded') /\ InputsOf(Range(loaded')) = InputsOf(Range(loaded)) \cup {i}
    BY <2>1, <2>2, <2>3, AppendInputs
  <2>5. Range(loaded') = Range(loaded) \cup {m}
    BY <2>1, <2>2, <2>3, AppendRange
  <2>6. loading' = loading \ {i} /\ todo' = todo
    BY <1>2 DEF SendLoaded
  <2>7. InputsOf(Range(loaded))' = InputsOf(Range(loaded'))
    BY DEF InputsOf
  <2>8. Waiting' = Waiting
    BY <2>4, <2>6, <2>7 DEF Waiting
  <2>9. \A x \in Range(loaded') : x = Job(x.input, 0) \/ x = Failure(x.input, "loader")
    BY <2>2, <2>5 DEF Before
  <2>10. todo \cap loading' = {} /\ (todo \cup loading') \cap InputsOf(Range(loaded')) = {}
    BY <1>2, <2>4, <2>6 DEF Before
  <2>11. QED
    BY <1>0, <2>4, <2>6, <2>7, <2>8, <2>9, <2>10 DEF Before, InputsDiffer, Job, Failure
<1>3. QED
  BY <1>1, <1>2 DEF Loader

\* The VAD stage takes an input from before it.
LEMMA VadTakes ==
  ASSUME TypeOK, Before, sources' = sources, loaded # <<>>, loaded' = Tail(loaded),
         todo' = todo, loading' = loading
  PROVE  /\ Before' /\ Waiting' = Waiting \ {Head(loaded).input} /\ Head(loaded).input \in Waiting
         /\ Head(loaded) \in Messages
         /\ \/ Head(loaded) = Job(Head(loaded).input, 0)
            \/ Head(loaded) = Failure(Head(loaded).input, "loader")
<1>0. UniqueInputs' = UniqueInputs
  BY CanonicalKept
<1>1. InputsDiffer(loaded) /\ loaded \in Seq(Messages)
  BY DEF Before, InputsDiffer, TypeOK
<1>2. /\ InputsDiffer(loaded')
      /\ InputsOf(Range(loaded')) = InputsOf(Range(loaded)) \ {Head(loaded).input}
      /\ Head(loaded).input \in InputsOf(Range(loaded))
  BY <1>1, TailInputs
<1>3. Range(loaded) = Range(loaded') \cup {Head(loaded)} /\ Head(loaded) \in Messages
  BY <1>1, TailRange
<1>4. InputsOf(Range(loaded))' = InputsOf(Range(loaded'))
  BY DEF InputsOf
<1>5. Waiting' = Waiting \ {Head(loaded).input} /\ Head(loaded).input \in Waiting
  BY <1>2, <1>4 DEF Waiting, Before
<1>6. Before'
  BY <1>0, <1>2, <1>3, <1>4, <1>5 DEF Before, InputsDiffer, Job, Failure
<1>7. QED
  BY <1>3, <1>5, <1>6 DEF Before

--------------------------------------------------------------------------------
\* The loader moves no message, ...
LEMMA LoaderFlies ==
  ASSUME OnePlace, Sorts, Loader
  PROVE  /\ OnePlace' /\ Sorts' /\ Flying' = Flying
         /\ UNCHANGED <<open, outcomes, heard>>
<1>1. UNCHANGED <<vad, asr, worker, batch, pending, open, outcomes, heard>>
  BY DEF Loader, SpawnLoad, SendLoaded, stages
<1>2. QED
  BY <1>1 DEF OnePlace, UnderVad, Flying, Sorts, Distinct

\* ... the VAD stage passes a failure on, ...
LEMMA ForwardFlies ==
  ASSUME TypeOK, OnePlace, Sorts, ForwardFailure, Head(loaded) \in Messages, Head(loaded) \notin Flying
  PROVE  OnePlace' /\ Sorts' /\ Flying' = Flying \cup {Head(loaded)}
<1>1. asr' = Append(asr, Head(loaded)) /\ UNCHANGED <<vad, worker, batch, pending>>
  BY DEF ForwardFailure
<1>2. Range(asr') = Range(asr) \cup {Head(loaded)} /\ (Distinct(asr) => Distinct(asr'))
  BY <1>1, AppendRange DEF TypeOK, Flying
<1>3. UnderVad' = UnderVad
  BY <1>1 DEF UnderVad
<1>4. Range(asr)' = Range(asr')
  OBVIOUS
<1>5. Head(loaded) \notin UnderVad \cup Range(asr) \cup Range(batch) \cup Range(pending)
  BY DEF Flying
<1>6. OnePlace'
  BY <1>1, <1>2, <1>3, <1>5 DEF OnePlace, Distinct
<1>7. QED
  BY <1>1, <1>2, <1>3, <1>6 DEF Flying, Sorts

\* ... a VAD task begins with its messages, ...
LEMMA SpawnFlies ==
  ASSUME TypeOK, OnePlace, Sorts, NEW i, NEW messages, Distinct(messages),
         \A m \in Range(messages) : m.input = i /\ m \notin Flying, i \notin DOMAIN vad,
         vad' = [j \in DOMAIN vad \cup {i} |-> IF j = i THEN messages ELSE vad[j]],
         UNCHANGED <<asr, worker, batch, pending>>
  PROVE  OnePlace' /\ Sorts' /\ Flying' = Flying \cup Range(messages)
<1>1. DOMAIN vad' = DOMAIN vad \cup {i} /\ vad'[i] = messages /\ \A j \in DOMAIN vad : vad'[j] = vad[j]
  OBVIOUS
<1>2. UnderVad' = UnderVad \cup Range(messages)
  <2>1. UnderVad' = UNION {Range(vad'[j]) : j \in DOMAIN vad'}
    BY DEF UnderVad, Range
  <2>2. ASSUME NEW x PROVE (\E j \in DOMAIN vad' : x \in Range(vad'[j]))
                           <=> (x \in Range(messages) \/ \E j \in DOMAIN vad : x \in Range(vad[j]))
    <3>1. ASSUME NEW j \in DOMAIN vad', x \in Range(vad'[j])
          PROVE  x \in Range(messages) \/ (j \in DOMAIN vad /\ x \in Range(vad[j]))
      BY <1>1, <3>1
    <3>2. ASSUME NEW j \in DOMAIN vad, x \in Range(vad[j])
          PROVE  j \in DOMAIN vad' /\ x \in Range(vad'[j])
      BY <1>1, <3>2
    <3>3. x \in Range(messages) => i \in DOMAIN vad' /\ x \in Range(vad'[i])
      BY <1>1
    <3>4. QED
      BY <3>1, <3>2, <3>3, SMTT(30)
  <2>3. \A x : x \in UnderVad' <=> \E j \in DOMAIN vad' : x \in Range(vad'[j])
    BY <2>1
  <2>4. \A x : x \in UnderVad <=> \E j \in DOMAIN vad : x \in Range(vad[j])
    BY DEF UnderVad
  <2>5. QED
    BY <2>2, <2>3, <2>4
<1>3. \A j \in DOMAIN vad' : Distinct(vad'[j]) /\ \A m \in Range(vad'[j]) : m.input = j
  BY <1>1 DEF OnePlace
<1>4. Range(messages) \cap (Range(asr) \cup Range(batch) \cup Range(pending)) = {}
  BY DEF Flying
<1>5. OnePlace'
  <2>1. /\ Distinct(asr)' /\ Distinct(batch)' /\ Distinct(pending)'
        /\ Range(asr)' \cap Range(batch)' = {}
        /\ Range(asr)' \cap Range(pending)' = {}
        /\ Range(batch)' \cap Range(pending)' = {}
    BY DEF OnePlace
  <2>2. UnderVad' \cap (Range(asr)' \cup Range(batch)' \cup Range(pending)') = {}
    BY <1>2, <1>4 DEF OnePlace
  <2>3. QED
    BY <1>3, <2>1, <2>2 DEF OnePlace, Distinct, Range
<1>6. QED
  BY <1>2, <1>5 DEF Flying, Sorts

\* ... and sends them.
LEMMA SendFlies ==
  ASSUME TypeOK, OnePlace, Sorts, NEW i \in DOMAIN vad, SendPrepared(i)
  PROVE  OnePlace' /\ Sorts' /\ Flying' = Flying
<1> DEFINE m == Head(vad[i])
<1>1. /\ m \in Messages /\ Range(vad[i]) = Range(Tail(vad[i])) \cup {m} /\ Len(Tail(vad[i])) = Len(vad[i]) - 1
      /\ Tail(vad[i]) \in Seq(Messages) /\ Distinct(Tail(vad[i])) /\ m \notin Range(Tail(vad[i]))
  BY TailRange DEF TypeOK, OnePlace
<1>2. asr' = Append(asr, m) /\ UNCHANGED <<worker, batch, pending>>
  BY DEF SendPrepared
<1>3. m \in UnderVad
  BY <1>1 DEF UnderVad
<1> HIDE DEF m
<1>4. Range(asr') = Range(asr) \cup {m} /\ Distinct(asr')
  BY <1>1, <1>2, <1>3, AppendRange DEF OnePlace, TypeOK
<1>5. /\ DOMAIN vad' \subseteq DOMAIN vad /\ \A j \in DOMAIN vad \ {i} : j \in DOMAIN vad' /\ vad'[j] = vad[j]
      /\ i \in DOMAIN vad' => vad'[i] = Tail(vad[i])
      /\ i \notin DOMAIN vad' => Range(Tail(vad[i])) = {}
  <2>1. CASE Len(vad[i]) = 1
    <3>1. Len(Tail(vad[i])) = 0
      BY <1>1, <2>1
    <3>2. Tail(vad[i]) = <<>>
      BY <1>1, <3>1, EmptySeq
    <3>3. QED
      BY <1>1, <2>1, <3>2, RangeIn DEF SendPrepared
  <2>2. CASE Len(vad[i]) # 1
    <3>1. vad' = [vad EXCEPT ![i] = Tail(vad[i])]
      BY <2>2 DEF SendPrepared
    <3>2. QED
      BY <3>1
  <2>3. QED
    BY <2>1, <2>2
<1>6. \A j \in DOMAIN vad \ {i} : m \notin Range(vad[j])
  BY <1>1 DEF OnePlace
<1>7. UnderVad' = UnderVad \ {m}
  <2>1. UnderVad' = UNION {Range(vad'[j]) : j \in DOMAIN vad'}
    BY DEF UnderVad, Range
  <2>2. ASSUME NEW x PROVE (\E j \in DOMAIN vad' : x \in Range(vad'[j]))
                           <=> (x # m /\ \E j \in DOMAIN vad : x \in Range(vad[j]))
    <3>1. ASSUME NEW j \in DOMAIN vad', x \in Range(vad'[j])
          PROVE  x # m /\ x \in Range(vad[j]) /\ j \in DOMAIN vad
      BY <1>1, <1>5, <1>6, <3>1
    <3>2. ASSUME NEW j \in DOMAIN vad, x \in Range(vad[j]), x # m
          PROVE  j \in DOMAIN vad' /\ x \in Range(vad'[j])
      <4>1. CASE j = i
        BY <1>1, <1>5, <3>2, <4>1
      <4>2. CASE j # i
        BY <1>5, <3>2, <4>2
      <4>3. QED
        BY <4>1, <4>2
    <3>3. QED
      BY <3>1, <3>2
  <2>3. QED
    BY <2>1, <2>2 DEF UnderVad
<1>8. \A j \in DOMAIN vad' : Distinct(vad'[j]) /\ \A x \in Range(vad'[j]) : x.input = j
  BY <1>1, <1>5 DEF OnePlace
<1>9. m \notin Range(batch) /\ m \notin Range(pending)
  BY <1>3 DEF OnePlace
<1>10. OnePlace'
  <2>1. /\ Distinct(asr)' /\ Distinct(batch)' /\ Distinct(pending)'
        /\ Range(asr)' \cap Range(batch)' = {}
        /\ Range(asr)' \cap Range(pending)' = {}
        /\ Range(batch)' \cap Range(pending)' = {}
    BY <1>2, <1>4, <1>9 DEF OnePlace, Distinct
  <2>2. UnderVad' \cap (Range(asr)' \cup Range(batch)' \cup Range(pending)') = {}
    BY <1>2, <1>4, <1>7 DEF OnePlace
  <2>3. QED
    BY <1>8, <2>1, <2>2 DEF OnePlace, Distinct, Range
<1>11. Flying' = Flying
  <2>1. Range(asr)' = Range(asr')
    OBVIOUS
  <2>2. QED
    BY <1>2, <1>3, <1>4, <1>7 DEF Flying
<1>12. QED
  BY <1>2, <1>10, <1>11 DEF Sorts

\* The message that the ASR worker receives next, ...
Received == Head(pending \o asr)

\* ... which leaves the stash or the channel, ...
LEMMA ReceiveTakes ==
  ASSUME TypeOK, OnePlace, Receive
  PROVE  /\ Received \in Messages /\ Received \notin UnderVad /\ Received \notin Range(batch)
         /\ Range(asr') \cup Range(pending') = (Range(asr) \cup Range(pending)) \ {Received}
         /\ Received \in Range(asr) \cup Range(pending)
         /\ Range(asr') \subseteq Range(asr) /\ Range(pending') \subseteq Range(pending)
         /\ Distinct(asr') /\ Distinct(pending')
<1> USE DEF Received
<1>0. Len(pending) \in Nat /\ Len(asr) \in Nat
  BY LenProperties DEF TypeOK
<1>1. CASE pending # <<>>
  <2>1. /\ Head(pending) \in Messages /\ Range(pending) = Range(Tail(pending)) \cup {Head(pending)}
        /\ Distinct(Tail(pending)) /\ Head(pending) \notin Range(Tail(pending))
    BY <1>1, TailRange DEF TypeOK, OnePlace
  <2>2. Head(pending \o asr) = Head(pending)
    BY <1>0, <1>1, ConcatProperties, EmptySeq DEF TypeOK
  <2>3. pending' = Tail(pending) /\ asr' = asr
    BY <1>1 DEF Receive
  <2>4. QED
    BY <2>1, <2>2, <2>3 DEF OnePlace
<1>2. CASE pending = <<>>
  <2>1. asr # <<>> /\ asr' = Tail(asr) /\ pending' = pending
    BY <1>2 DEF Receive
  <2>2. pending \o asr = asr
    BY <1>2, ConcatEmptySeq DEF TypeOK
  <2>3. /\ Head(asr) \in Messages /\ Range(asr) = Range(Tail(asr)) \cup {Head(asr)}
        /\ Distinct(Tail(asr)) /\ Head(asr) \notin Range(Tail(asr))
    BY <2>1, TailRange DEF TypeOK, OnePlace
  <2>4. QED
    BY <2>1, <2>2, <2>3 DEF OnePlace
<1>3. QED
  BY <1>1, <1>2

\* ... for the batch, if it is not a failure, ...
LEMMA ReceiveFlies ==
  ASSUME TypeOK, OnePlace, Sorts, Receive
  PROVE  /\ OnePlace' /\ Sorts' /\ Received \in Messages /\ Received \in Flying
         /\ Flying' = IF IsFailure(Received) THEN Flying \ {Received} ELSE Flying
<1> DEFINE m == Received
<1>1. /\ m \in Messages /\ m \notin UnderVad /\ m \notin Range(batch)
      /\ Range(asr') \cup Range(pending') = (Range(asr) \cup Range(pending)) \ {m}
      /\ m \in Range(asr) \cup Range(pending)
      /\ Range(asr') \subseteq Range(asr) /\ Range(pending') \subseteq Range(pending)
      /\ Distinct(asr') /\ Distinct(pending')
  BY ReceiveTakes
<1>2. batch = <<>> /\ vad' = vad /\ worker = "receiving"
  BY DEF Sorts, Receive
<1>3. CASE IsFailure(m)
  <2>1. batch' = <<>> /\ worker' = "receiving"
    BY <1>2, <1>3 DEF Receive, Received
  <2>2. Range(batch) = {} /\ Range(batch') = {} /\ Distinct(batch')
    BY <1>2, <2>1, OneRange
  <2>3. UnderVad' = UnderVad
    BY <1>2 DEF UnderVad
  <2> HIDE DEF m
  <2>4. Range(asr)' = Range(asr') /\ Range(pending)' = Range(pending') /\ Range(batch)' = Range(batch')
    OBVIOUS
  <2>5. Flying' = Flying \ {m}
    BY <1>1, <2>2, <2>3, <2>4 DEF Flying
  <2>6. OnePlace'
    BY <1>1, <1>2, <2>2, <2>3, <2>4 DEF OnePlace, Distinct
  <2>7. Sorts'
    BY <2>1 DEF Sorts
  <2>8. QED
    BY <1>1, <1>3, <2>5, <2>6, <2>7 DEF m, Flying
<1>4. CASE ~ IsFailure(m)
  <2>1. batch' = <<m>> /\ worker' = IF m.sort = "job" THEN "jobs" ELSE "segments"
    BY <1>4 DEF Receive, Received
  <2>2. m.sort \in {"job", "segment"}
    BY <1>1, <1>4, MessageIs DEF IsFailure
  <2> HIDE DEF m
  <2>3. Range(batch) = {} /\ Range(batch') = {m} /\ Distinct(batch') /\ batch' # <<>>
    BY <1>1, <1>2, <2>1, OneRange
  <2>4. UnderVad' = UnderVad
    BY <1>2 DEF UnderVad
  <2>5. Range(asr)' = Range(asr') /\ Range(pending)' = Range(pending') /\ Range(batch)' = Range(batch')
    OBVIOUS
  <2>6. Flying' = Flying
    BY <1>1, <2>3, <2>4, <2>5 DEF Flying
  <2>7. Range(asr') \cap Range(pending') = {} /\ m \notin Range(asr') /\ m \notin Range(pending')
    BY <1>1 DEF OnePlace
  <2>8. UnderVad' \cap (Range(asr') \cup Range(batch') \cup Range(pending')) = {}
    BY <1>1, <2>3, <2>4 DEF OnePlace
  <2>9. OnePlace'
    BY <1>1, <1>2, <2>3, <2>5, <2>7, <2>8 DEF OnePlace, Distinct
  <2>10. Sorts'
    BY <2>1, <2>2, <2>3, <2>5 DEF Sorts
  <2>11. QED
    BY <1>1, <1>4, <2>6, <2>9, <2>10 DEF m, Flying
<1>5. QED
  BY <1>3, <1>4

\* ... and so does each message that it collects, for the batch or the stash, ...
LEMMA CollectFlies ==
  ASSUME TypeOK, OnePlace, Sorts, CollectJob \/ CollectSegment
  PROVE  OnePlace' /\ Sorts' /\ Flying' = Flying
<1> DEFINE m == Head(asr)
<1>1. /\ m \in Messages /\ Range(asr) = Range(Tail(asr)) \cup {m}
      /\ Distinct(Tail(asr)) /\ m \notin Range(Tail(asr))
  BY TailRange DEF TypeOK, OnePlace, CollectJob, CollectSegment
<1> HIDE DEF m
<1>2. m \notin UnderVad /\ m \notin Range(batch) /\ m \notin Range(pending)
  BY <1>1 DEF OnePlace
<1>3. /\ Range(Append(batch, m)) = Range(batch) \cup {m} /\ Distinct(Append(batch, m))
      /\ Range(Append(pending, m)) = Range(pending) \cup {m} /\ Distinct(Append(pending, m))
      /\ Len(Append(batch, m)) = Len(batch) + 1 /\ Len(batch) \in Nat
  BY <1>1, <1>2, AppendRange, LenProperties DEF TypeOK, OnePlace
<1>4. asr' = Tail(asr) /\ vad' = vad /\ worker' = worker
      /\ \/ batch' = Append(batch, m) /\ pending' = pending /\ (m.sort = "segment" <=> worker = "segments")
         \/ pending' = Append(pending, m) /\ batch' = batch
      /\ worker \in {"jobs", "segments"}
  BY DEF CollectJob, CollectSegment, m
<1>5. UnderVad' = UnderVad
  BY <1>4 DEF UnderVad
<1>6. Range(asr)' = Range(asr') /\ Range(pending)' = Range(pending') /\ Range(batch)' = Range(batch')
  OBVIOUS
<1>7. Flying' = Flying
  BY <1>1, <1>3, <1>4, <1>5, <1>6 DEF Flying
<1>8. OnePlace'
  <2>1. Distinct(asr') /\ Distinct(batch') /\ Distinct(pending')
    BY <1>1, <1>3, <1>4 DEF OnePlace
  <2>2. /\ Range(asr') \cap Range(batch') = {}
        /\ Range(asr') \cap Range(pending') = {}
        /\ Range(batch') \cap Range(pending') = {}
    BY <1>1, <1>2, <1>3, <1>4 DEF OnePlace
  <2>3. UnderVad \cap (Range(asr') \cup Range(batch') \cup Range(pending')) = {}
    BY <1>1, <1>2, <1>3, <1>4 DEF OnePlace
  <2>4. QED
    BY <1>4, <1>5, <1>6, <2>1, <2>2, <2>3 DEF OnePlace, Distinct
<1>9. Append(batch, m) # <<>>
  <2>1. Len(<<>>) = 0
    OBVIOUS
  <2>2. Len(Append(batch, m)) # 0
    BY <1>3
  <2>3. QED
    BY <2>1, <2>2
<1>10. Sorts'
  BY <1>3, <1>4, <1>6, <1>9 DEF Sorts
<1>11. QED
  BY <1>7, <1>8, <1>10

\* ... until the batch is recognised.
LEMMA BatchLands ==
  ASSUME OnePlace, batch' = <<>>, worker' = "receiving", UNCHANGED <<vad, asr, pending>>
  PROVE  OnePlace' /\ Sorts' /\ Flying' = Flying \ Range(batch) /\ Range(batch) \subseteq Flying
<1>1. Range(batch)' = {} /\ Distinct(batch)'
  BY OneRange DEF Range, Distinct
<1>2. UnderVad' = UnderVad /\ Range(asr)' = Range(asr) /\ Range(pending)' = Range(pending)
  BY DEF UnderVad
<1>3. Flying' = Flying \ Range(batch)
  BY <1>1, <1>2 DEF Flying, OnePlace
<1>4. OnePlace'
  BY <1>1, <1>2 DEF OnePlace, Distinct
<1>5. QED
  BY <1>3, <1>4 DEF Sorts, Flying

--------------------------------------------------------------------------------
\* A step that leaves an input alone ...
Same(i) ==
  /\ FlyingOf(i)' = FlyingOf(i)
  /\ i \in DOMAIN open' <=> i \in DOMAIN open
  /\ i \in DOMAIN open => open'[i] = open[i]
  /\ OutcomesOf(i)' = OutcomesOf(i)
  /\ \A o \in OutcomesOf(i) : outcomes'[o] = outcomes[o]
  /\ heard'[i] = heard[i]

\* ... leaves it where it is.
LEMMA Untouched ==
  ASSUME sources' = sources, NEW i, i \in UniqueInputs, Same(i), Placed(i)
  PROVE  Placed(i)'
<1>0. Canonical(i) = i /\ Canonical(i)' = Canonical(i)
  BY CanonicalKept DEF UniqueInputs
<1>1. CASE Alone(i)
  <2>1. Alone(i)'
    BY <1>1 DEF Alone, Same
  <2>2. QED
    BY <2>1 DEF Placed
<1>2. CASE Answered(i)
  <2>1. PICK o : OutcomesOf(i) = {o} /\ IsAnswer(o, i)
    BY <1>2 DEF Answered
  <2>2. OutcomesOf(i)' = {o} /\ IsAnswer(o, i)'
    BY <1>0, <2>1 DEF Same, IsAnswer, Whole
  <2>3. Answered(i)'
    BY <1>2, <2>2 DEF Answered, Same
  <2>4. QED
    BY <2>3 DEF Placed
<1>3. CASE InPieces(i)
  <2>1. Parts(i)' = Parts(i)
    BY DEF Parts, Same
  <2>2. \A k : PieceOf(i, k)' = PieceOf(i, k)
    BY DEF PieceOf, Same, Segment
  <2>3. InPieces(i)'
    BY <1>3, <2>1, <2>2 DEF InPieces, Same
  <2>4. QED
    BY <2>3 DEF Placed
<1>4. QED
  BY <1>1, <1>2, <1>3 DEF Placed

\* What a step must do to keep every input in its place: put some in a new one, and leave
\* the others alone.
LEMMA GoingKept ==
  ASSUME sources' = sources, phase = "waiting", Before, Before', Going,
         NEW T, \A i \in T : i \in UniqueInputs /\ i \notin Waiting' /\ Placed(i)',
         \A i \in Inputs \ T : Same(i) /\ (i \in Waiting' <=> i \in Waiting)
  PROVE  Going'
<1>1. UniqueInputs' = UniqueInputs /\ Inputs' = Inputs /\ UniqueInputs \subseteq Inputs
  BY CanonicalKept DEF UniqueInputs
<1>2. ASSUME NEW i \in Waiting' \cup (Inputs \ UniqueInputs) PROVE Unseen(i)'
  <2>1. i \in Inputs \ T /\ i \in Waiting \cup (Inputs \ UniqueInputs)
    BY <1>1, <1>2 DEF Before
  <2>2. Unseen(i) /\ Same(i)
    BY <2>1 DEF Going
  <2>3. QED
    BY <2>2 DEF Unseen, Same
<1>3. ASSUME NEW i \in UniqueInputs \ Waiting' PROVE Placed(i)'
  <2>1. CASE i \in T
    BY <2>1
  <2>2. CASE i \notin T
    <3>1. Same(i) /\ i \notin Waiting
      BY <1>1, <1>3, <2>2
    <3>2. Placed(i)
      BY <1>3, <3>1 DEF Going
    <3>3. QED
      BY <1>3, <3>1, <3>2, Untouched
  <2>3. QED
    BY <2>1, <2>2
<1>4. QED
  BY <1>1, <1>2, <1>3 DEF Going

\* A step that only moves messages and inputs on leaves every input alone.
LEMMA MovingOn ==
  ASSUME sources' = sources, phase = "waiting", Before, Before', Going,
         Flying' = Flying, Waiting' = Waiting, UNCHANGED <<open, outcomes, heard>>
  PROVE  Going'
<1>1. \A i : Same(i)
  BY DEF Same, FlyingOf, OutcomesOf
<1> DEFINE T == {}
<1>2. \A i \in T : i \in UniqueInputs /\ i \notin Waiting' /\ Placed(i)'
  OBVIOUS
<1>3. \A i \in Inputs \ T : Same(i) /\ (i \in Waiting' <=> i \in Waiting)
  BY <1>1
<1> HIDE DEF T
<1>4. QED
  BY <1>2, <1>3, GoingKept

\* An input that the VAD stage has just taken: its messages are the first that are seen.
LEMMA VadReached ==
  ASSUME TypeOK, sources' = sources, phase = "waiting", Before, Before', Going,
         NEW i \in Waiting, Waiting' = Waiting \ {i}, NEW M, M # {}, Flying' = Flying \cup M,
         NEW n \in 0 .. MaxSegments, heard' = [heard EXCEPT ![i] = n],
         \/ \E m \in {Failure(i, "loader"), Failure(i, "vad"), Job(i, n)} : M = {m}
         \/ n > 0 /\ M = {Segment(i, k, n) : k \in 1 .. n},
         UNCHANGED <<open, outcomes>>
  PROVE  Going'
<1>1. i \in UniqueInputs /\ i \in Inputs /\ Unseen(i)
  BY DEF Before, Going, UniqueInputs, Unseen
<1>2. \A m \in M : m.input = i
  BY DEF Failure, Job, Segment
<1>3. FlyingOf(i)' = M
  BY <1>1, <1>2 DEF Unseen, FlyingOf
<1>4. heard'[i] = n /\ \A j \in Inputs \ {i} : heard'[j] = heard[j]
  BY <1>1 DEF TypeOK
<1>5. i \notin DOMAIN open' /\ OutcomesOf(i)' = {}
  BY <1>1 DEF Unseen, OutcomesOf
<1>6. ASSUME NEW m \in {Failure(i, "loader"), Failure(i, "vad"), Job(i, n)}, M = {m} PROVE Alone(i)'
  BY <1>3, <1>4, <1>5, <1>6 DEF Alone
<1>7. ASSUME n > 0, M = {Segment(i, k, n) : k \in 1 .. n} PROVE InPieces(i)'
  <2>1. heard'[i] \in 1 .. MaxSegments
    BY <1>4, <1>7
  <2>2. \A k : PieceOf(i, k)' = Segment(i, k, n)
    BY <1>4 DEF PieceOf, Segment
  <2>3. \A m \in FlyingOf(i)' : m.part \in 1 .. heard'[i] /\ m = Segment(i, m.part, n)
    BY <1>3, <1>4, <1>7 DEF Segment
  <2>4. Parts(i)' = {}
    BY <1>5 DEF Parts
  <2>5. \A k \in 1 .. heard'[i] : Segment(i, k, n) \in FlyingOf(i)'
    BY <1>3, <1>4, <1>7
  <2>6. QED
    BY <1>3, <1>5, <2>1, <2>2, <2>3, <2>4, <2>5 DEF InPieces
<1>8. Placed(i)'
  BY <1>6, <1>7 DEF Placed
<1>9. \A j \in Inputs \ {i} : Same(j)
  <2>1. \A j \in Inputs \ {i} : FlyingOf(j)' = FlyingOf(j)
    BY <1>2 DEF FlyingOf
  <2>2. QED
    BY <1>4, <2>1 DEF Same, OutcomesOf
<1> DEFINE T == {i}
<1>10. \A j \in T : j \in UniqueInputs /\ j \notin Waiting' /\ Placed(j)'
  BY <1>1, <1>8
<1>11. \A j \in Inputs \ T : Same(j) /\ (j \in Waiting' <=> j \in Waiting)
  BY <1>9
<1> HIDE DEF T
<1>12. QED
  BY <1>10, <1>11, GoingKept

--------------------------------------------------------------------------------
\* Where everything is while the stages run.
InPlace == OnePlace /\ Before /\ Sorts /\ Going

\* The stages after the loader do not concern the inputs before the VAD stage.
LEMMA BeforeStays ==
  ASSUME Before, sources' = sources, UNCHANGED <<todo, loading, loaded>>
  PROVE  Before' /\ Waiting' = Waiting
BY CanonicalKept DEF Before, Waiting, InputsOf, Range, Job, Failure

\* The loader, ...
LEMMA LoaderPlaces ==
  ASSUME TypeOK, InPlace, phase = "waiting", sources' = sources, Loader
  PROVE  InPlace'
<1>1. Before' /\ Waiting' = Waiting
  BY LoaderMoves DEF InPlace
<1>2. OnePlace' /\ Sorts' /\ Flying' = Flying /\ UNCHANGED <<open, outcomes, heard>>
  BY LoaderFlies DEF InPlace
<1>3. Going'
  BY <1>1, <1>2, MovingOn DEF InPlace
<1>4. QED
  BY <1>1, <1>2, <1>3 DEF InPlace

\* ... the VAD stage ...
LEMMA VadPlaces ==
  ASSUME TypeOK, InPlace, phase = "waiting", sources' = sources, VadStage
  PROVE  InPlace'
<1> DEFINE i == Head(loaded).input
<1>1. /\ Before' /\ Waiting' = Waiting \ {i} /\ i \in Waiting /\ Head(loaded) \in Messages
      /\ Head(loaded) = Job(i, 0) \/ Head(loaded) = Failure(i, "loader")
      /\ UNCHANGED <<open, outcomes>>
  <2>1. loaded # <<>> /\ loaded' = Tail(loaded) /\ UNCHANGED <<todo, loading, open, outcomes>>
    BY DEF VadStage, ForwardFailure, SpawnVad
  <2>2. QED
    BY <2>1, VadTakes DEF InPlace
<1>2. FlyingOf(i) = {} /\ i \in Inputs
  BY <1>1 DEF InPlace, Going, Unseen, Before, UniqueInputs
<1>3. \A m : m.input = i => m \notin Flying
  BY <1>2 DEF FlyingOf
<1>4. CASE ForwardFailure
  <2>1. Head(loaded) = Failure(i, "loader")
    BY <1>1, <1>4 DEF ForwardFailure, IsFailure, Job
  <2>2. OnePlace' /\ Sorts' /\ Flying' = Flying \cup {Head(loaded)}
    BY <1>1, <1>3, <1>4, ForwardFlies DEF InPlace
  <2>3. heard' = [heard EXCEPT ![i] = heard[i]] /\ heard[i] \in 0 .. MaxSegments
    BY <1>2, <1>4 DEF ForwardFailure, TypeOK
  <2> DEFINE M == {Head(loaded)}
  <2>4. \E m \in {Failure(i, "loader"), Failure(i, "vad"), Job(i, heard[i])} : M = {m}
    BY <2>1
  <2>5. M # {} /\ Flying' = Flying \cup M
    BY <2>2
  <2> HIDE DEF M, i
  <2>6. Going'
    BY <1>1, <2>3, <2>4, <2>5, VadReached DEF InPlace
  <2>7. QED
    BY <1>1, <2>2, <2>6 DEF InPlace
<1>5. CASE SpawnVad
  <2>1. PICK messages \in Preparations(i) :
          /\ vad' = [j \in DOMAIN vad \cup {i} |-> IF j = i THEN messages ELSE vad[j]]
          /\ heard' = [heard EXCEPT ![i] = Head(messages).of]
    BY <1>5 DEF SpawnVad
  <2>2. UNCHANGED <<asr, worker, batch, pending>>
    BY <1>5 DEF SpawnVad
  <2> DEFINE M == Range(messages)
             n == Head(messages).of
  <2>3. /\ messages \in Seq(Messages) \ {<<>>} /\ Distinct(messages)
        /\ n \in 0 .. MaxSegments
        /\ \A m \in M : m.input = i
        /\ \/ \E m \in {Failure(i, "vad"), Job(i, n)} : M = {m}
           \/ n \in 1 .. MaxSegments /\ M = {Segment(i, k, n) : k \in 1 .. n}
    BY <1>2, PreparationsAre
  <2> HIDE DEF i
  <2>4. i \notin DOMAIN vad
    <3>1. ASSUME i \in DOMAIN vad PROVE FALSE
      <4>1. Range(vad[i]) \subseteq UnderVad /\ Range(vad[i]) # {}
        BY <3>1, FlyingMessages
      <4>2. PICK m \in Range(vad[i]) : m.input = i /\ m \in Flying
        BY <3>1, <4>1 DEF InPlace, OnePlace, Flying
      <4>3. QED
        BY <1>3, <4>2
    <3>2. QED
      BY <3>1
  <2>5. \A m \in Range(messages) : m.input = i /\ m \notin Flying
    BY <1>3, <2>3
  <2>6. OnePlace' /\ Sorts' /\ Flying' = Flying \cup M
    BY <2>1, <2>2, <2>3, <2>4, <2>5, SpawnFlies DEF InPlace
  <2>7. M # {}
    BY <2>3, RangeIn
  <2>8. n \in 1 .. MaxSegments => n > 0
    BY <2>3, PipelineAssumption
  <2>9. heard' = [heard EXCEPT ![i] = n]
    BY <2>1
  <2> HIDE DEF M, n
  <2>10. \/ \E m \in {Failure(i, "loader"), Failure(i, "vad"), Job(i, n)} : M = {m}
         \/ n > 0 /\ M = {Segment(i, k, n) : k \in 1 .. n}
    BY <2>3, <2>8
  <2>11. Going'
    BY <1>1, <2>3, <2>6, <2>7, <2>9, <2>10, VadReached DEF InPlace
  <2>12. QED
    BY <1>1, <2>6, <2>11 DEF InPlace
<1>6. QED
  BY <1>4, <1>5 DEF VadStage

\* ... and its tasks, ...
LEMMA SendPlaces ==
  ASSUME TypeOK, InPlace, phase = "waiting", sources' = sources, NEW i \in DOMAIN vad, SendPrepared(i)
  PROVE  InPlace'
<1>1. Before' /\ Waiting' = Waiting
  BY BeforeStays DEF InPlace, SendPrepared
<1>2. OnePlace' /\ Sorts' /\ Flying' = Flying
  BY SendFlies DEF InPlace
<1>3. UNCHANGED <<open, outcomes, heard>>
  BY DEF SendPrepared
<1>4. Going'
  BY <1>1, <1>2, <1>3, MovingOn DEF InPlace
<1>5. QED
  BY <1>1, <1>2, <1>4 DEF InPlace

\* The answers that the worker sends are added to those there are.
LEMMA AnswersSent ==
  ASSUME TypeOK, NEW S, outcomes' = outcomes (+) SetToBag(S)
  PROVE  /\ \A i : OutcomesOf(i)' = OutcomesOf(i) \cup {o \in S : o.index = i}
         /\ DOMAIN outcomes' = DOMAIN outcomes \cup S
         /\ \A o \in DOMAIN outcomes \ S : outcomes'[o] = outcomes[o]
         /\ \A o \in S \ DOMAIN outcomes : outcomes'[o] = 1
<1>1. /\ IsABag(outcomes (+) SetToBag(S))
      /\ DOMAIN (outcomes (+) SetToBag(S)) = DOMAIN outcomes \cup S
      /\ \A o \in DOMAIN outcomes \ S : (outcomes (+) SetToBag(S))[o] = outcomes[o]
      /\ \A o \in S \ DOMAIN outcomes : (outcomes (+) SetToBag(S))[o] = 1
  <2>1. IsABag(outcomes)
    BY DEF TypeOK
  <2>2. QED
    BY ONLY <2>1, BagAdd, Zenon
<1>2. DOMAIN outcomes' = DOMAIN outcomes \cup S
  BY <1>1
<1>3. \A i : OutcomesOf(i)' = OutcomesOf(i) \cup {o \in S : o.index = i}
  BY <1>2 DEF OutcomesOf
<1>4. QED
  BY <1>1, <1>2, <1>3

\* An input that gets its only answer.
LEMMA GetsAnswer ==
  ASSUME TypeOK, sources' = sources, NEW S, outcomes' = outcomes (+) SetToBag(S),
         NEW i, i \in UniqueInputs, NEW o, {x \in S : x.index = i} = {o}, OutcomesOf(i) = {},
         FlyingOf(i)' = {}, i \notin DOMAIN open',
         o.bad_component = "none" => Whole(o.timeline, heard'[i])
  PROVE  Placed(i)'
<1>1. OutcomesOf(i)' = {o}
  <2>1. \A j : OutcomesOf(j)' = OutcomesOf(j) \cup {x \in S : x.index = j}
    BY AnswersSent
  <2>2. QED
    BY <2>1
<1>2. o \in S \ DOMAIN outcomes
  BY DEF OutcomesOf
<1>3. outcomes'[o] = 1
  BY <1>2, AnswersSent
<1>4. Canonical(i)' = i
  BY CanonicalKept DEF UniqueInputs
<1>5. IsAnswer(o, i)'
  BY <1>3, <1>4 DEF IsAnswer, Whole
<1>6. QED
  BY <1>1, <1>5 DEF Answered, Placed

\* A message that is under way tells where its input is.
LEMMA InFlight ==
  ASSUME TypeOK, InPlace, phase = "waiting", NEW m \in Flying
  PROVE  /\ m.input \in UniqueInputs \ Waiting /\ m.input \in Inputs /\ m \in Messages
         /\ m.sort # "segment" =>
              /\ Alone(m.input) /\ FlyingOf(m.input) = {m}
              /\ m \in {Failure(m.input, "loader"), Failure(m.input, "vad"), Job(m.input, heard[m.input])}
         /\ m.sort = "segment" => InPieces(m.input)
<1> DEFINE i == m.input
<1>1. m \in Messages /\ i \in Inputs /\ m \in FlyingOf(i)
  BY FlyingMessages, MessageIs DEF FlyingOf
<1>2. i \in UniqueInputs \ Waiting /\ Placed(i)
  BY <1>1 DEF InPlace, Going, Unseen
<1>3. ~ Answered(i)
  BY <1>1 DEF Answered
<1>4. ASSUME Alone(i) PROVE FlyingOf(i) = {m} /\ m \in {Failure(i, "loader"), Failure(i, "vad"), Job(i, heard[i])}
  BY <1>1, <1>4 DEF Alone
<1>5. ASSUME InPieces(i) PROVE m.sort = "segment"
  <2>1. m = PieceOf(i, m.part)
    BY <1>1, <1>5 DEF InPieces
  <2>2. \A k : PieceOf(i, k).sort = "segment"
    BY DEF PieceOf, Segment
  <2>3. QED
    BY <2>1, <2>2
<1>6. Alone(i) => m.sort # "segment"
  BY <1>4 DEF Failure, Job
<1>7. QED
  BY <1>1, <1>2, <1>3, <1>4, <1>5, <1>6 DEF Placed

\* ... the ASR worker, when it receives ...
LEMMA ReceivePlaces ==
  ASSUME TypeOK, InPlace, phase = "waiting", sources' = sources, Receive
  PROVE  InPlace'
<1>0. PICK m, i : m = Received /\ i = m.input
  OBVIOUS
<1>1. Before' /\ Waiting' = Waiting
  BY BeforeStays DEF InPlace, Receive
<1>2. /\ OnePlace' /\ Sorts' /\ m \in Messages /\ m \in Flying
      /\ Flying' = IF IsFailure(m) THEN Flying \ {m} ELSE Flying
  BY <1>0, ReceiveFlies DEF InPlace
<1>3. UNCHANGED <<open, heard>>
  BY DEF Receive
<1>4. CASE ~ IsFailure(m)
  <2>1. outcomes' = outcomes /\ Flying' = Flying
    BY <1>0, <1>2, <1>4 DEF Receive, Received
  <2>2. Going'
    BY <1>1, <1>3, <2>1, MovingOn DEF InPlace
  <2>3. QED
    BY <1>1, <1>2, <2>2 DEF InPlace
<1>5. CASE IsFailure(m)
  <2>1. outcomes' = outcomes (+) SetToBag({Failed(i, m.sort)})
    BY <1>0, <1>5 DEF Receive, Received
  <2>2. m.sort \in {"loader", "vad"}
    BY <1>5 DEF IsFailure
  <2>3. i \in UniqueInputs \ Waiting /\ i \in Inputs /\ Alone(i) /\ FlyingOf(i) = {m}
    BY <1>0, <1>2, <2>2, InFlight
  <2>a. PICK o : o = Failed(i, m.sort)
    OBVIOUS
  <2>4. o.index = i /\ o.bad_component = m.sort
    BY <2>a DEF Failed
  <2>5. OutcomesOf(i) = {} /\ o \notin DOMAIN outcomes
    BY <2>3, <2>4 DEF Alone, OutcomesOf
  <2>6. {x \in {o} : x.index = i} = {o} /\ outcomes' = outcomes (+) SetToBag({o})
    BY <2>1, <2>a, <2>4
  <2>7. FlyingOf(i)' = {}
    BY <1>2, <1>5, <2>3 DEF FlyingOf
  <2>8. i \notin DOMAIN open' /\ o.bad_component # "none"
    BY <1>3, <2>2, <2>3, <2>4 DEF Alone
  <2>9. Placed(i)'
    BY <2>3, <2>5, <2>6, <2>7, <2>8, GetsAnswer
  <2>10. \A j \in Inputs \ {i} : Same(j)
    <3>1. \A j \in Inputs \ {i} : FlyingOf(j)' = FlyingOf(j)
      BY <1>2, <1>5, <2>3 DEF FlyingOf
    <3>2. \A j \in Inputs \ {i} : OutcomesOf(j)' = OutcomesOf(j)
      <4>1. \A j : OutcomesOf(j)' = OutcomesOf(j) \cup {x \in {o} : x.index = j}
        BY <2>6, AnswersSent
      <4>2. QED
        BY <2>4, <4>1
    <3>3. \A x \in DOMAIN outcomes : outcomes'[x] = outcomes[x]
      BY <2>5, <2>6, AnswersSent
    <3>4. QED
      BY <1>3, <3>1, <3>2, <3>3 DEF Same, OutcomesOf
  <2> DEFINE T == {i}
  <2>11. \A j \in T : j \in UniqueInputs /\ j \notin Waiting' /\ Placed(j)'
    BY <1>1, <2>3, <2>9
  <2>12. \A j \in Inputs \ T : Same(j) /\ (j \in Waiting' <=> j \in Waiting)
    BY <1>1, <2>10
  <2> HIDE DEF T
  <2>13. Going'
    BY <1>1, <2>11, <2>12, GoingKept DEF InPlace
  <2>14. QED
    BY <1>1, <1>2, <2>13 DEF InPlace
<1>6. QED
  BY <1>4, <1>5

\* ... and collects, ...
LEMMA CollectPlaces ==
  ASSUME TypeOK, InPlace, phase = "waiting", sources' = sources, CollectJob \/ CollectSegment
  PROVE  InPlace'
<1>1. UNCHANGED <<todo, loading, loaded, open, outcomes, heard>>
  BY DEF CollectJob, CollectSegment
<1>2. Before' /\ Waiting' = Waiting
  BY <1>1, BeforeStays DEF InPlace
<1>3. OnePlace' /\ Sorts' /\ Flying' = Flying
  BY CollectFlies DEF InPlace
<1>4. Going'
  BY <1>1, <1>2, <1>3, MovingOn DEF InPlace
<1>5. QED
  BY <1>2, <1>3, <1>4 DEF InPlace

\* A timeline that is put together at once has every segment.
LEMMA WholeAtOnce ==
  ASSUME NEW n \in Nat
  PROVE  Whole(WholeTimeline(n), n)
<1>1. CASE n = 0
  <2>1. DOMAIN WholeTimeline(n) = {} /\ 1 .. n = {}
    BY <1>1 DEF WholeTimeline, EmptyBag, SetToBag
  <2>2. QED
    BY <2>1 DEF Whole
<1>2. CASE n # 0
  <2>1. WholeTimeline(n) = SetToBag({Speech} \cup 1 .. n)
    BY <1>2 DEF WholeTimeline
  <2>2. DOMAIN WholeTimeline(n) = {Speech} \cup 1 .. n /\ \A k \in 1 .. n : WholeTimeline(n)[k] = 1
    BY <2>1 DEF SetToBag
  <2>3. Speech \notin 1 .. n
    BY DEF Speech
  <2>4. QED
    BY <2>2, <2>3 DEF Whole
<1>3. QED
  BY <1>1, <1>2

\* ... and recognises a batch of jobs, ...
LEMMA JobsPlaces ==
  ASSUME TypeOK, InPlace, phase = "waiting", sources' = sources, RunJobs
  PROVE  InPlace'
<1>0. PICK B, T : B = Range(batch) /\ T = InputsOf(B)
  OBVIOUS
<1>1. UNCHANGED <<todo, loading, loaded, open, heard, vad, asr, pending>> /\ batch' = <<>> /\ worker' = "receiving"
  BY DEF RunJobs
<1>2. Before' /\ Waiting' = Waiting
  BY <1>1, BeforeStays DEF InPlace
<1>3. OnePlace' /\ Sorts' /\ Flying' = Flying \ B /\ B \subseteq Flying
  BY <1>0, <1>1, BatchLands DEF InPlace
<1>4. \A m \in B : /\ m.input \in UniqueInputs \ Waiting /\ m.input \in Inputs
                   /\ Alone(m.input) /\ FlyingOf(m.input) = {m}
                   /\ m \in {Failure(m.input, "loader"), Failure(m.input, "vad"), Job(m.input, heard[m.input])}
  <2>1. \A m \in B : m.sort # "segment" /\ m \in Flying
    BY <1>0, <1>3 DEF InPlace, Sorts, RunJobs
  <2>2. QED
    BY <2>1, InFlight
<1>5. \A m \in B : (IsFailure(m) <=> m.sort # "job") /\ (m.sort = "job" => m.of = heard[m.input])
  BY <1>4 DEF IsFailure, Failure, Job
<1>6. \A m, x \in B : m.input = x.input => m = x
  BY <1>4
<1>7. PICK S : /\ outcomes' = outcomes (+) SetToBag(S)
               /\ \A o \in S : \E m \in B : o.index = m.input
               /\ \A m \in B : \E o : /\ {x \in S : x.index = m.input} = {o}
                                      /\ o.bad_component = "none" => o.timeline = WholeTimeline(heard[m.input])
  <2> DEFINE failures == {Failed(m.input, m.sort) : m \in {b \in B : IsFailure(b)}}
             done(m)  == Ok(m.input, WholeTimeline(m.of))
             jobs     == {m \in B : m.sort = "job"}
             silent   == {m \in jobs : m.of = 0}
             raw      == jobs \ silent
             sent     == failures \cup {done(m) : m \in silent}
             all      == sent \cup {done(m) : m \in raw}
             some     == sent \cup {Failed(m.input, "recognizer") : m \in raw}
             inAll(m)  == IF m.sort # "job" THEN Failed(m.input, m.sort) ELSE done(m)
             inSome(m) == IF m.sort # "job" THEN Failed(m.input, m.sort)
                          ELSE IF m.of = 0 THEN done(m) ELSE Failed(m.input, "recognizer")
  <2>1. outcomes' = outcomes (+) SetToBag(all) \/ outcomes' = outcomes (+) SetToBag(some)
    BY <1>0 DEF RunJobs
  <2>2. all = {inAll(m) : m \in B} /\ some = {inSome(m) : m \in B}
    BY <1>5
  <2>3. \A m \in B : m.sort # "none"
    BY <1>4 DEF Failure, Job
  <2>4. \A m \in B : /\ inAll(m).index = m.input /\ inSome(m).index = m.input
                     /\ inAll(m).bad_component = "none" => inAll(m).timeline = WholeTimeline(heard[m.input])
                     /\ inSome(m).bad_component = "none" => inSome(m).timeline = WholeTimeline(heard[m.input])
    BY <1>5, <2>3 DEF Ok, Failed
  <2> HIDE DEF all, some, inAll, inSome
  <2>5. /\ \A o \in all : \E m \in B : o.index = m.input
        /\ \A o \in some : \E m \in B : o.index = m.input
    BY <2>2, <2>4
  <2>6. \A m \in B : {x \in all : x.index = m.input} = {inAll(m)} /\ {x \in some : x.index = m.input} = {inSome(m)}
    BY <1>6, <2>2, <2>4
  <2>7. QED
    BY <2>1, <2>4, <2>5, <2>6
<1>8. \A i \in T : i \in UniqueInputs /\ i \notin Waiting' /\ Placed(i)'
  <2>1. ASSUME NEW i \in T PROVE i \in UniqueInputs /\ i \notin Waiting' /\ Placed(i)'
    <3>1. PICK m \in B : m.input = i
      BY <1>0 DEF InputsOf
    <3>2. i \in UniqueInputs \ Waiting /\ i \in Inputs /\ FlyingOf(i) = {m} /\ OutcomesOf(i) = {}
          /\ i \notin DOMAIN open
      BY <1>4, <3>1 DEF Alone
    <3>3. PICK o : /\ {x \in S : x.index = i} = {o}
                   /\ o.bad_component = "none" => o.timeline = WholeTimeline(heard[i])
      BY <1>7, <3>1
    <3>4. FlyingOf(i)' = {}
      BY <1>3, <3>2 DEF FlyingOf
    <3>5. heard[i] \in Nat /\ heard'[i] = heard[i]
      BY <1>1, <3>2, PipelineAssumption DEF TypeOK
    <3>6. o.bad_component = "none" => Whole(o.timeline, heard'[i])
      BY <3>3, <3>5, WholeAtOnce
    <3>7. i \notin DOMAIN open'
      BY <1>1, <3>2
    <3>8. Placed(i)'
      BY <1>7, <3>2, <3>3, <3>4, <3>6, <3>7, GetsAnswer
    <3>9. QED
      BY <1>2, <3>2, <3>8
  <2>2. QED
    BY <2>1
<1>9. \A i \in Inputs \ T : Same(i) /\ (i \in Waiting' <=> i \in Waiting)
  <2>1. ASSUME NEW i \in Inputs \ T PROVE Same(i)
    <3>1. FlyingOf(i)' = FlyingOf(i)
      BY <1>0, <1>3, <2>1 DEF FlyingOf, InputsOf
    <3>2. \A o \in S : o.index \in T
      BY <1>0, <1>7 DEF InputsOf
    <3>3. \A j : OutcomesOf(j)' = OutcomesOf(j) \cup {x \in S : x.index = j}
      BY <1>7, AnswersSent
    <3>4. OutcomesOf(i)' = OutcomesOf(i)
      BY <3>2, <3>3
    <3>5. \A o \in DOMAIN outcomes \ S : outcomes'[o] = outcomes[o]
      BY <1>7, AnswersSent
    <3>6. \A o \in OutcomesOf(i) : outcomes'[o] = outcomes[o]
      BY <3>2, <3>5 DEF OutcomesOf
    <3>7. QED
      BY <1>1, <3>1, <3>4, <3>6 DEF Same
  <2>2. QED
    BY <1>2, <2>1
<1>10. Going'
  BY <1>2, <1>8, <1>9, GoingKept DEF InPlace
<1>11. QED
  BY <1>2, <1>3, <1>10 DEF InPlace

--------------------------------------------------------------------------------
\* The segments of an input that are in the batch.
BatchParts(i) == {batch[p].part : p \in PlacesOf(i)}

\* A batch of segments has each of them once.
LEMMA PiecesInBatch ==
  ASSUME TypeOK, InPlace, phase = "waiting", worker = "segments", NEW i \in InputsOf(Range(batch))
  PROVE  /\ i \in UniqueInputs \ Waiting /\ i \in Inputs /\ InPieces(i)
         /\ BatchParts(i) \subseteq 1 .. heard[i] /\ BatchParts(i) # {}
         /\ \A k : k \in BatchParts(i) <=> PieceOf(i, k) \in Range(batch)
         /\ \A k \in BatchParts(i) : k \notin Parts(i) /\ PieceOf(i, k) \in FlyingOf(i)
         /\ IsFiniteSet(BatchParts(i)) /\ Cardinality(PlacesOf(i)) = Cardinality(BatchParts(i))
         /\ Segments(i) = SetToBag(BatchParts(i))
<1>1. \A m \in Range(batch) : m \in Flying /\ m.sort = "segment"
  BY DEF InPlace, Sorts, Flying
<1>2. i \in UniqueInputs \ Waiting /\ i \in Inputs /\ InPieces(i)
  <2>1. PICK m \in Range(batch) : m.input = i
    BY DEF InputsOf
  <2>2. QED
    BY <1>1, <2>1, InFlight
<1>3. \A m \in Range(batch) : m.input = i => /\ m \in FlyingOf(i)
                                            /\ m.part \in 1 .. heard[i] /\ m = PieceOf(i, m.part)
  BY <1>1, <1>2 DEF FlyingOf, InPieces
<1>4. \A k : PieceOf(i, k).part = k /\ PieceOf(i, k).input = i
  BY DEF PieceOf, Segment
<1>5. \A p \in PlacesOf(i) : p \in DOMAIN batch /\ batch[p] \in Range(batch) /\ batch[p].input = i
  BY DEF PlacesOf, Range
<1>6. \A k : k \in BatchParts(i) <=> PieceOf(i, k) \in Range(batch)
  <2>1. ASSUME NEW k \in BatchParts(i) PROVE PieceOf(i, k) \in Range(batch)
    <3>1. PICK p \in PlacesOf(i) : k = batch[p].part
      BY DEF BatchParts
    <3>2. batch[p] = PieceOf(i, k)
      BY <1>3, <1>5, <3>1
    <3>3. QED
      BY <1>5, <3>2
  <2>2. ASSUME NEW k, PieceOf(i, k) \in Range(batch) PROVE k \in BatchParts(i)
    <3>1. PICK p \in DOMAIN batch : batch[p] = PieceOf(i, k)
      BY <2>2 DEF Range
    <3>2. QED
      BY <1>4, <3>1 DEF BatchParts, PlacesOf
  <2>3. QED
    BY <2>1, <2>2
<1>7. BatchParts(i) \subseteq 1 .. heard[i] /\ \A k \in BatchParts(i) : PieceOf(i, k) \in FlyingOf(i)
  BY <1>3, <1>4, <1>6
<1>8. \A k \in BatchParts(i) : k \notin Parts(i)
  BY <1>2, <1>7 DEF InPieces
<1>9. BatchParts(i) # {}
  <2>1. PICK m \in Range(batch) : m.input = i
    BY DEF InputsOf
  <2>2. QED
    BY <1>3, <1>6, <2>1
<1>10. \A p, q \in PlacesOf(i) : batch[p].part = batch[q].part => p = q
  <2>1. \A p, q \in PlacesOf(i) : batch[p].part = batch[q].part => batch[p] = batch[q]
    BY <1>3, <1>5
  <2>2. QED
    BY <1>5, <2>1 DEF InPlace, OnePlace, Distinct
<1>11. IsFiniteSet(BatchParts(i)) /\ Cardinality(PlacesOf(i)) = Cardinality(BatchParts(i))
  <2> DEFINE f == [p \in PlacesOf(i) |-> batch[p].part]
  <2>1. f \in [PlacesOf(i) -> BatchParts(i)] /\ \A k \in BatchParts(i) : \E p \in PlacesOf(i) : f[p] = k
    BY DEF BatchParts
  <2>2. \A p, q \in PlacesOf(i) : f[p] = f[q] => p = q
    BY <1>10
  <2> HIDE DEF f
  <2>3. f \in Bijection(PlacesOf(i), BatchParts(i))
    BY <2>1, <2>2 DEF Bijection, Injection, IsInjective, Surjection
  <2>4. IsFiniteSet(PlacesOf(i))
    BY PlacesCount
  <2>5. QED
    BY <2>3, <2>4, FS_Bijection DEF ExistsBijection
<1>12. Segments(i) = SetToBag(BatchParts(i))
  <2>1. ASSUME NEW k \in BatchParts(i) PROVE Cardinality({p \in PlacesOf(i) : batch[p].part = k}) = 1
    <3>1. PICK p \in PlacesOf(i) : batch[p].part = k
      BY DEF BatchParts
    <3>2. {q \in PlacesOf(i) : batch[q].part = k} = {p}
      BY <1>10, <3>1
    <3>3. QED
      BY <3>2, FS_Singleton
  <2>2. QED
    BY <2>1 DEF Segments, BatchParts, SetToBag
<1>13. QED
  BY <1>2, <1>6, <1>7, <1>8, <1>9, <1>11, <1>12

\* After the batch an input has its old segments and those of the batch, each once.
LEMMA ExtendsParts ==
  ASSUME TypeOK, Shape, InPlace, phase = "waiting", worker = "segments", NEW i \in InputsOf(Range(batch))
  PROVE  /\ Extended(i) = [timeline |-> Extended(i).timeline, done |-> Extended(i).done]
         /\ IsABag(Extended(i).timeline)
         /\ DOMAIN Extended(i).timeline \ {Speech} = Parts(i) \cup BatchParts(i)
         /\ \A k \in Parts(i) \cup BatchParts(i) : Extended(i).timeline[k] = 1
         /\ Extended(i).done = Cardinality(Parts(i) \cup BatchParts(i))
         /\ Parts(i) \cup BatchParts(i) \in SUBSET (1 .. heard[i])
<1>1. /\ InPieces(i) /\ BatchParts(i) \subseteq 1 .. heard[i]
      /\ \A k \in BatchParts(i) : k \notin Parts(i)
      /\ IsFiniteSet(BatchParts(i)) /\ Cardinality(PlacesOf(i)) = Cardinality(BatchParts(i))
      /\ Segments(i) = SetToBag(BatchParts(i))
  BY PiecesInBatch
<1>2. Parts(i) \subseteq 1 .. heard[i] /\ heard[i] \in Nat
  BY <1>1, PipelineAssumption DEF InPieces
<1>3. /\ Extended(i) = [timeline |-> Extended(i).timeline, done |-> Extended(i).done]
      /\ Extended(i).timeline = Prepared(i).timeline (+) SetToBag(BatchParts(i))
      /\ Extended(i).done = Prepared(i).done + Cardinality(BatchParts(i))
  BY <1>1 DEF Extended
<1>4. /\ Prepared(i).done = IF i \in DOMAIN open THEN open[i].done ELSE 0
      /\ \/ Prepared(i).timeline = OldTimeline(i)
         \/ Prepared(i).timeline = SetToBag({Speech}) /\ OldTimeline(i) = EmptyBag
  BY PreparedIs DEF Shape
<1>5. IsABag(OldTimeline(i)) /\ DOMAIN OldTimeline(i) \ {Speech} = Parts(i)
      /\ \A k \in Parts(i) : OldTimeline(i)[k] = 1
  <2>1. CASE i \in DOMAIN open
    BY <1>1, <2>1 DEF InPieces, OldTimeline, Parts
  <2>2. CASE i \notin DOMAIN open
    BY <2>2 DEF OldTimeline, Parts, EmptyBag, SetToBag, IsABag
  <2>3. QED
    BY <2>1, <2>2
<1>6. IsABag(Prepared(i).timeline) /\ DOMAIN Prepared(i).timeline \ {Speech} = Parts(i)
      /\ \A k \in Parts(i) : Prepared(i).timeline[k] = 1
  <2>1. CASE Prepared(i).timeline = OldTimeline(i)
    BY <1>5, <2>1
  <2>2. CASE Prepared(i).timeline = SetToBag({Speech}) /\ OldTimeline(i) = EmptyBag
    <3>1. Parts(i) = {}
      BY <1>5, <2>2 DEF EmptyBag, SetToBag
    <3>2. DOMAIN Prepared(i).timeline = {Speech} /\ IsABag(Prepared(i).timeline)
      BY <2>2 DEF SetToBag, IsABag
    <3>3. QED
      BY <3>1, <3>2
  <2>3. QED
    BY <1>4, <2>1, <2>2
<1> DEFINE old == Prepared(i).timeline
<1>7. /\ IsABag(old (+) SetToBag(BatchParts(i)))
      /\ DOMAIN (old (+) SetToBag(BatchParts(i))) = DOMAIN old \cup BatchParts(i)
      /\ \A x \in DOMAIN old \ BatchParts(i) : (old (+) SetToBag(BatchParts(i)))[x] = old[x]
      /\ \A x \in BatchParts(i) \ DOMAIN old : (old (+) SetToBag(BatchParts(i)))[x] = 1
  <2> HIDE DEF old
  <2>1. IsABag(old)
    BY <1>6 DEF old
  <2>2. QED
    BY ONLY <2>1, BagAdd, Zenon
<1>8. Speech \notin BatchParts(i) /\ BatchParts(i) \cap DOMAIN old = {} /\ Parts(i) \subseteq DOMAIN old
  <2>1. Speech \notin 1 .. heard[i]
    BY <1>2 DEF Speech
  <2>2. QED
    BY <1>1, <1>6, <2>1
<1>9. DOMAIN Extended(i).timeline \ {Speech} = Parts(i) \cup BatchParts(i)
      /\ \A k \in Parts(i) \cup BatchParts(i) : Extended(i).timeline[k] = 1
  BY <1>1, <1>3, <1>6, <1>7, <1>8
<1>10. Prepared(i).done = Cardinality(Parts(i)) /\ IsFiniteSet(Parts(i))
  <2>1. IsFiniteSet(1 .. heard[i])
    BY <1>2, FS_Interval
  <2>2. IsFiniteSet(Parts(i))
    BY <1>2, <2>1, FS_Subset
  <2>3. i \notin DOMAIN open => Cardinality(Parts(i)) = 0
    BY FS_EmptySet DEF Parts
  <2>4. QED
    BY <1>1, <1>4, <2>2, <2>3 DEF InPieces
<1>11. Cardinality(Parts(i) \cup BatchParts(i)) = Cardinality(Parts(i)) + Cardinality(BatchParts(i))
  <2>1. Parts(i) \cap BatchParts(i) = {}
    BY <1>1
  <2>2. Cardinality(Parts(i) \cup BatchParts(i))
          = Cardinality(Parts(i)) + Cardinality(BatchParts(i)) - Cardinality(Parts(i) \cap BatchParts(i))
    BY <1>1, <1>10, FS_Union
  <2>3. Cardinality(Parts(i) \cap BatchParts(i)) = 0
    BY <2>1, FS_EmptySet
  <2>4. Cardinality(Parts(i)) \in Nat /\ Cardinality(BatchParts(i)) \in Nat
    BY <1>1, <1>10, FS_CardinalityType
  <2>5. QED
    BY <2>2, <2>3, <2>4
<1>12. QED
  BY <1>1, <1>2, <1>3, <1>7, <1>9, <1>10, <1>11

\* An input of a batch that was recognised, with all its segments, is answered, ...
LEMMA PiecesComplete ==
  ASSUME TypeOK, Shape, InPlace, phase = "waiting", worker = "segments", sources' = sources,
         NEW i, i \in InputsOf(Range(batch)), Extended(i).done >= heard[i], heard' = heard,
         NEW S, outcomes' = outcomes (+) SetToBag(S), 
         {o \in S : o.index = i} = {Ok(i, Extended(i).timeline)},
         i \notin DOMAIN open', Flying' = Flying \ Range(batch)
  PROVE  Placed(i)'
<1>1. /\ i \in UniqueInputs \ Waiting /\ i \in Inputs /\ InPieces(i)
      /\ BatchParts(i) \subseteq 1 .. heard[i]
      /\ \A k : k \in BatchParts(i) <=> PieceOf(i, k) \in Range(batch)
      /\ \A k \in BatchParts(i) : PieceOf(i, k) \in FlyingOf(i)
  BY PiecesInBatch
<1>2. /\ DOMAIN Extended(i).timeline \ {Speech} = Parts(i) \cup BatchParts(i)
      /\ \A k \in Parts(i) \cup BatchParts(i) : Extended(i).timeline[k] = 1
      /\ Extended(i).done = Cardinality(Parts(i) \cup BatchParts(i))
      /\ Parts(i) \cup BatchParts(i) \in SUBSET (1 .. heard[i])
  BY ExtendsParts
<1>3. heard[i] \in Nat
  BY <1>1, PipelineAssumption DEF TypeOK
<1>4. Parts(i) \cup BatchParts(i) = 1 .. heard[i]
  <2>1. IsFiniteSet(1 .. heard[i]) /\ Cardinality(1 .. heard[i]) = heard[i]
    BY <1>3, FS_Interval
  <2> DEFINE P == Parts(i) \cup BatchParts(i)
  <2> HIDE DEF P
  <2>2. P \in SUBSET (1 .. heard[i]) /\ Cardinality(P) >= heard[i]
    BY <1>2 DEF P
  <2>3. IsFiniteSet(P) /\ Cardinality(P) <= heard[i] /\ (heard[i] = Cardinality(P) => 1 .. heard[i] = P)
    BY <2>1, <2>2, FS_Subset
  <2>4. Cardinality(P) \in Nat
    BY <2>3, FS_CardinalityType
  <2>5. heard[i] = Cardinality(P)
    BY <1>3, <2>2, <2>3, <2>4
  <2>6. QED
    BY <2>3, <2>5 DEF P
<1>5. OutcomesOf(i) = {}
  <2>1. ASSUME OutcomesOf(i) # {} PROVE FALSE
    <3>1. PICK k \in 1 .. heard[i] : k \notin Parts(i) /\ PieceOf(i, k) \notin FlyingOf(i)
      BY <1>1, <2>1 DEF InPieces
    <3>2. QED
      BY <1>1, <1>4, <3>1
  <2>2. QED
    BY <2>1
<1>6. FlyingOf(i)' = {}
  <2>1. ASSUME NEW m \in Flying, m.input = i PROVE m \in Range(batch)
    <3>1. m.part \in 1 .. heard[i] /\ m = PieceOf(i, m.part) /\ m \in FlyingOf(i)
      BY <1>1, <2>1 DEF FlyingOf, InPieces
    <3>2. m.part \notin Parts(i)
      BY <1>1, <3>1 DEF InPieces
    <3>3. QED
      BY <1>1, <1>4, <3>1, <3>2
  <2>2. QED
    BY <2>1 DEF FlyingOf
<1>7. PICK o : o = Ok(i, Extended(i).timeline)
  OBVIOUS
<1>8. {x \in S : x.index = i} = {o} /\ Whole(o.timeline, heard'[i])
  BY <1>2, <1>4, <1>7 DEF Whole, Ok
<1>9. QED
  BY <1>1, <1>5, <1>6, <1>8, GetsAnswer

\* ... with some to come, it goes on in pieces, ...
LEMMA PiecesToCome ==
  ASSUME TypeOK, Shape, InPlace, phase = "waiting", worker = "segments", sources' = sources,
         NEW i, i \in InputsOf(Range(batch)), ~ (Extended(i).done >= heard[i]), heard' = heard,
         OutcomesOf(i)' = OutcomesOf(i), i \in DOMAIN open', open'[i] = Extended(i),
         Flying' = Flying \ Range(batch)
  PROVE  Placed(i)'
<1>1. /\ i \in UniqueInputs \ Waiting /\ i \in Inputs /\ InPieces(i)
      /\ BatchParts(i) \subseteq 1 .. heard[i]
      /\ \A k : k \in BatchParts(i) <=> PieceOf(i, k) \in Range(batch)
  BY PiecesInBatch
<1>2. PICK P : P = Parts(i) \cup BatchParts(i)
  OBVIOUS
<1>3. /\ IsABag(Extended(i).timeline)
      /\ DOMAIN Extended(i).timeline \ {Speech} = P
      /\ \A k \in P : Extended(i).timeline[k] = 1
      /\ Extended(i).done = Cardinality(P)
      /\ P \subseteq 1 .. heard[i]
  BY <1>2, ExtendsParts
<1>4. heard[i] \in 1 .. MaxSegments /\ heard'[i] = heard[i] /\ heard[i] \in Nat
  BY <1>1, PipelineAssumption DEF InPieces
<1>5. P # 1 .. heard[i]
  <2>1. Cardinality(1 .. heard[i]) = heard[i]
    BY <1>4, FS_Interval
  <2>2. QED
    BY <1>3, <1>4, <2>1
<1>6. Parts(i)' = P
  BY <1>3 DEF Parts
<1>7. PICK F, n : F = FlyingOf(i) /\ n = heard[i]
  OBVIOUS
<1>8. FlyingOf(i)' = F \ Range(batch) /\ \A k : PieceOf(i, k) = Segment(i, k, n) /\ PieceOf(i, k)' = Segment(i, k, n)
  BY <1>4, <1>7 DEF FlyingOf, PieceOf, Segment
<1>9. \A m \in F : m.part \in 1 .. n /\ m = Segment(i, m.part, n)
  BY <1>1, <1>7, <1>8 DEF InPieces
<1>10. \A k \in P : k \in 1 .. n /\ Segment(i, k, n) \notin F \ Range(batch)
  BY <1>1, <1>2, <1>3, <1>7, <1>8 DEF InPieces
<1>11. ASSUME OutcomesOf(i) = {}
       PROVE  (\A k \in 1 .. n : k \in P \/ Segment(i, k, n) \in F \ Range(batch)) /\ F \ Range(batch) # {}
  <2>1. \A k \in 1 .. n : k \in P \/ Segment(i, k, n) \in F \ Range(batch)
    BY <1>1, <1>2, <1>7, <1>8, <1>11 DEF InPieces
  <2>2. \E k \in 1 .. n : k \notin P
    BY <1>3, <1>5, <1>7
  <2>3. QED
    BY <2>1, <2>2
<1>12. ASSUME OutcomesOf(i) # {}
       PROVE  \E k \in 1 .. n : k \notin P /\ Segment(i, k, n) \notin F \ Range(batch)
  <2>1. PICK k \in 1 .. n : k \notin Parts(i) /\ Segment(i, k, n) \notin F
    BY <1>1, <1>7, <1>8, <1>12 DEF InPieces
  <2>2. k \notin BatchParts(i)
    <3>1. \A m \in Range(batch) : m.input = i => m \in F
      BY <1>7 DEF FlyingOf, Flying
    <3>2. Segment(i, k, n).input = i
      BY DEF Segment
    <3>3. QED
      BY <1>1, <1>8, <2>1, <3>1, <3>2
  <2>3. QED
    BY <1>2, <2>1, <2>2
<1>13. OutcomesOf(i)' = OutcomesOf(i) /\ OutcomesOf(i) \subseteq {Failed(i, "recognizer")}
  BY <1>1 DEF InPieces
<1>14. /\ heard'[i] \in 1 .. MaxSegments /\ heard'[i] = n
       /\ open'[i].done = Cardinality(Parts(i)')
       /\ IsABag(open'[i].timeline)
       /\ \A k \in Parts(i)' : open'[i].timeline[k] = 1
  BY <1>3, <1>4, <1>6, <1>7
<1>15. InPieces(i)'
  BY <1>6, <1>8, <1>9, <1>10, <1>11, <1>12, <1>13, <1>14 DEF InPieces
<1>16. QED
  BY <1>15 DEF Placed

\* ... and if the batch failed, what it had is lost for good.
LEMMA PiecesLost ==
  ASSUME TypeOK, InPlace, phase = "waiting", worker = "segments", sources' = sources,
         NEW i, i \in InputsOf(Range(batch)), heard' = heard,
         OutcomesOf(i)' = {Failed(i, "recognizer")}, i \notin DOMAIN open', Flying' = Flying \ Range(batch)
  PROVE  Placed(i)'
<1>1. /\ i \in UniqueInputs \ Waiting /\ i \in Inputs /\ InPieces(i)
      /\ BatchParts(i) \subseteq 1 .. heard[i] /\ BatchParts(i) # {}
      /\ \A k : k \in BatchParts(i) <=> PieceOf(i, k) \in Range(batch)
  BY PiecesInBatch
<1>2. PICK F, n : F = FlyingOf(i) /\ n = heard[i]
  OBVIOUS
<1>3. heard'[i] = n /\ n \in 1 .. MaxSegments /\ Parts(i)' = {}
  BY <1>1, <1>2 DEF InPieces, Parts
<1>4. FlyingOf(i)' = F \ Range(batch) /\ \A k : PieceOf(i, k) = Segment(i, k, n) /\ PieceOf(i, k)' = Segment(i, k, n)
  BY <1>2, <1>3 DEF FlyingOf, PieceOf, Segment
<1>5. \A m \in F : m.part \in 1 .. n /\ m = Segment(i, m.part, n)
  BY <1>1, <1>2, <1>4 DEF InPieces
<1>6. \E k \in 1 .. n : Segment(i, k, n) \in Range(batch)
  BY <1>1, <1>2, <1>4
<1>7. InPieces(i)'
  BY <1>3, <1>4, <1>5, <1>6 DEF InPieces
<1>8. QED
  BY <1>7 DEF Placed

\* ... or of segments.
LEMMA SegmentsPlaces ==
  ASSUME TypeOK, Shape, InPlace, phase = "waiting", sources' = sources, RunSegments
  PROVE  InPlace'
<1>0. PICK B, T : B = Range(batch) /\ T = InputsOf(B)
  OBVIOUS
<1>1. /\ UNCHANGED <<todo, loading, loaded, heard, vad, asr, pending>>
      /\ batch' = <<>> /\ worker' = "receiving" /\ worker = "segments"
  BY DEF RunSegments
<1>2. Before' /\ Waiting' = Waiting
  BY <1>1, BeforeStays DEF InPlace
<1>3. OnePlace' /\ Sorts' /\ Flying' = Flying \ B /\ B \subseteq Flying
  BY <1>0, <1>1, BatchLands DEF InPlace
<1>4. \A i \in T : i \in UniqueInputs \ Waiting /\ InPieces(i)
  BY <1>0, <1>1, PiecesInBatch
<1>5. \A b \in B : b.input \in T /\ b.of = heard[b.input]
  <2>1. ASSUME NEW b \in B PROVE b.input \in T /\ b.of = heard[b.input]
    <3>1. b.input \in T /\ b \in FlyingOf(b.input)
      BY <1>0, <1>3 DEF InputsOf, FlyingOf
    <3>2. b = PieceOf(b.input, b.part)
      BY <1>4, <3>1 DEF InPieces
    <3>3. QED
      BY <3>1, <3>2 DEF PieceOf, Segment
  <2>2. QED
    BY <2>1
<1>6. \A i \in Inputs \ T : FlyingOf(i)' = FlyingOf(i)
  BY <1>0, <1>3 DEF FlyingOf, InputsOf
<1>7. PICK S : /\ outcomes' = outcomes (+) SetToBag(S) /\ \A o \in S : o.index \in T
               /\ DOMAIN open' \subseteq DOMAIN open \cup T
               /\ \A i \in Inputs \ T : /\ i \in DOMAIN open' <=> i \in DOMAIN open
                                        /\ i \in DOMAIN open => open'[i] = open[i]
               /\ \A i \in T : Placed(i)'
  <2>1. CASE ExtendOpen
    <3> DEFINE now == [i \in DOMAIN open \cup T |-> IF i \in T THEN Extended(i) ELSE open[i]]
               complete == {m.input : m \in {b \in B : now[b.input].done >= b.of}}
               answers == {Ok(i, now[i].timeline) : i \in complete}
    <3>1. outcomes' = outcomes (+) SetToBag(answers) /\ open' = [i \in DOMAIN now \ complete |-> now[i]]
      BY <1>0, <2>1 DEF ExtendOpen
    <3>2. DOMAIN now = DOMAIN open \cup T /\ (\A i \in T : now[i] = Extended(i))
          /\ \A i \in DOMAIN open \ T : now[i] = open[i]
      OBVIOUS
    <3>3. \A i : i \in complete <=> i \in T /\ now[i].done >= heard[i]
      <4> HIDE DEF now
      <4>1. QED
        BY <1>0, <1>5 DEF InputsOf
    <3>4. PICK X, S : X = complete /\ S = answers
      OBVIOUS
    <3>5. \A o \in S : o.index \in X
      <4> HIDE DEF now, complete
      <4>1. QED
        BY <3>4 DEF Ok
    <3>6. \A i \in X : {o \in S : o.index = i} = {Ok(i, Extended(i).timeline)}
      <4>1. \A i \in X : now[i] = Extended(i)
        BY <3>2, <3>3, <3>4
      <4> HIDE DEF now, complete
      <4>2. QED
        BY <3>4, <4>1 DEF Ok
    <3> HIDE DEF now, complete, answers
    <3>7. outcomes' = outcomes (+) SetToBag(S) /\ X \subseteq T
      BY <3>1, <3>3, <3>4
    <3>8. DOMAIN open' = (DOMAIN open \cup T) \ X /\ \A i \in DOMAIN open' : open'[i] = now[i]
      BY <3>1, <3>2, <3>4
    <3>9. \A j : OutcomesOf(j)' = OutcomesOf(j) \cup {o \in S : o.index = j}
      BY <3>7, AnswersSent
    <3>10. ASSUME NEW i \in X PROVE Placed(i)'
      <4>1. i \in InputsOf(Range(batch)) /\ Extended(i).done >= heard[i]
        BY <1>0, <3>2, <3>3, <3>4
      <4>2. i \notin DOMAIN open' /\ heard' = heard /\ Flying' = Flying \ Range(batch)
        BY <1>0, <1>1, <1>3, <3>8
      <4>3. QED
        BY <1>1, <3>6, <3>7, <4>1, <4>2, PiecesComplete
    <3>11. ASSUME NEW i \in T \ X PROVE Placed(i)'
      <4>1. i \in InputsOf(Range(batch)) /\ ~ (Extended(i).done >= heard[i])
        BY <1>0, <3>2, <3>3, <3>4
      <4>2. OutcomesOf(i)' = OutcomesOf(i)
        BY <3>5, <3>9
      <4>3. i \in DOMAIN open' /\ open'[i] = Extended(i)
        BY <3>2, <3>8
      <4>4. heard' = heard /\ Flying' = Flying \ Range(batch)
        BY <1>0, <1>1, <1>3
      <4>5. QED
        BY <1>1, <4>1, <4>2, <4>3, <4>4, PiecesToCome
    <3>12. \A i \in Inputs \ T : /\ i \in DOMAIN open' <=> i \in DOMAIN open
                                 /\ i \in DOMAIN open => open'[i] = open[i]
      BY <3>2, <3>7, <3>8
    <3>13. QED
      BY <3>5, <3>7, <3>8, <3>10, <3>11, <3>12
  <2>2. CASE DropFailed
    <3>1. PICK S : S = {Failed(i, "recognizer") : i \in T}
      OBVIOUS
    <3>2. outcomes' = outcomes (+) SetToBag(S) /\ open' = [i \in DOMAIN open \ T |-> open[i]]
      BY <1>0, <2>2, <3>1 DEF DropFailed
    <3>3. (\A o \in S : o.index \in T) /\ \A i \in T : {o \in S : o.index = i} = {Failed(i, "recognizer")}
      BY <3>1 DEF Failed
    <3>4. \A j : OutcomesOf(j)' = OutcomesOf(j) \cup {o \in S : o.index = j}
      BY <3>2, AnswersSent
    <3>5. ASSUME NEW i \in T PROVE Placed(i)'
      <4>1. OutcomesOf(i) \subseteq {Failed(i, "recognizer")}
        BY <1>4 DEF InPieces
      <4>2. OutcomesOf(i)' = {Failed(i, "recognizer")}
        BY <3>3, <3>4, <4>1
      <4>3. i \notin DOMAIN open' /\ i \in InputsOf(Range(batch)) /\ heard' = heard
            /\ Flying' = Flying \ Range(batch)
        BY <1>0, <1>1, <1>3, <3>2
      <4>4. QED
        BY <1>1, <4>2, <4>3, PiecesLost
    <3>6. QED
      BY <3>2, <3>3, <3>5
  <2>3. QED
    BY <2>1, <2>2 DEF RunSegments
<1>8. \A i \in Inputs \ T : Same(i)
  <2>1. \A j : OutcomesOf(j)' = OutcomesOf(j) \cup {o \in S : o.index = j}
    BY <1>7, AnswersSent
  <2>2. \A o \in DOMAIN outcomes \ S : outcomes'[o] = outcomes[o]
    BY <1>7, AnswersSent
  <2>3. \A i \in Inputs \ T : OutcomesOf(i)' = OutcomesOf(i) /\ \A o \in OutcomesOf(i) : outcomes'[o] = outcomes[o]
    BY <1>7, <2>1, <2>2 DEF OutcomesOf
  <2>4. ASSUME NEW i \in Inputs \ T PROVE Same(i)
    <3>1. FlyingOf(i)' = FlyingOf(i) /\ heard'[i] = heard[i]
      BY <1>1, <1>6
    <3>2. i \in DOMAIN open' <=> i \in DOMAIN open
      BY <1>7
    <3>3. i \in DOMAIN open => open'[i] = open[i]
      BY <1>7
    <3>4. QED
      BY <2>3, <3>1, <3>2, <3>3 DEF Same
  <2>5. QED
    BY <2>4
<1>9. \A i \in T : i \in UniqueInputs /\ i \notin Waiting' /\ Placed(i)'
  <2>1. ASSUME NEW i \in T PROVE i \in UniqueInputs /\ i \notin Waiting' /\ Placed(i)'
    <3>1. Placed(i)'
      BY <1>7
    <3>2. QED
      BY <1>2, <1>4, <3>1
  <2>2. QED
    BY <2>1
<1>10. \A i \in Inputs \ T : Same(i) /\ (i \in Waiting' <=> i \in Waiting)
  BY <1>2, <1>8
<1>11. Going'
  BY <1>2, <1>9, <1>10, GoingKept DEF InPlace
<1>12. QED
  BY <1>2, <1>3, <1>11 DEF InPlace

--------------------------------------------------------------------------------
\* Nothing of an input is under way before the stages run and after.
LEMMA NothingFlies ==
  ASSUME DOMAIN vad = {}, asr = <<>>, batch = <<>>, pending = <<>>
  PROVE  Flying = {} /\ UnderVad = {} /\ Range(asr) = {} /\ Range(batch) = {} /\ Range(pending) = {}
         /\ Distinct(asr) /\ Distinct(batch) /\ Distinct(pending)
BY OneRange DEF Flying, UnderVad

\* The call starts with its inputs in no stage.
LEMMA InitHolds == Init => IInv
<1> SUFFICES ASSUME Init PROVE IInv
  OBVIOUS
<1>1. sources # <<>> /\ sources \in Seq(Range(sources))
  BY PipelineAssumption DEF Init
<1>2. Inputs = 1 .. Len(sources) /\ Len(sources) \in Nat \ {0}
  BY <1>1, LenProperties, EmptySeq DEF Inputs
<1>3. /\ phase = "called" /\ todo = {} /\ loading = {} /\ loaded = <<>> /\ DOMAIN vad = {} /\ asr = <<>>
      /\ worker = "receiving" /\ batch = <<>> /\ pending = <<>> /\ DOMAIN open = {} /\ outcomes = EmptyBag
      /\ heard = [i \in Inputs |-> 0]
  BY DEF Init
<1>4. IsABag(outcomes) /\ DOMAIN outcomes = {}
  BY <1>3 DEF EmptyBag, SetToBag, IsABag
<1>5. TypeOK
  <2>1. <<>> \in Seq(Messages) /\ Len(<<>>) <= Buffer
    BY PipelineAssumption
  <2>2. 0 \in 0 .. MaxSegments
    BY PipelineAssumption
  <2>3. heard \in [Inputs -> 0 .. MaxSegments]
    BY <1>3, <2>2
  <2>4. QED
    BY <1>3, <1>4, <2>1, <2>3 DEF TypeOK
<1>6. Shape
  BY <1>2, <1>3, <1>4 DEF Shape
<1>7. OnePlace
  BY <1>3, NothingFlies DEF OnePlace
<1>8. Before
  BY <1>3 DEF Before, Waiting, InputsOf, Range
<1>9. Sorts /\ Still /\ Going /\ Closed
  BY <1>3 DEF Sorts, Still, Going, Closed
<1>10. QED
  BY <1>5, <1>6, <1>7, <1>8, <1>9 DEF IInv

\* The stages begin with every input to be loaded.
LEMMA StartPlaces ==
  ASSUME TypeOK, Shape, Still, sources' = sources, Start
  PROVE  InPlace' /\ Still' /\ Closed'
<1>1. /\ loading = {} /\ loaded = <<>> /\ DOMAIN vad = {} /\ asr = <<>> /\ batch = <<>> /\ pending = <<>>
      /\ worker = "receiving" /\ DOMAIN open = {} /\ outcomes = EmptyBag
  BY DEF Start, Still
<1>2. /\ todo' = UniqueInputs /\ phase' = "waiting"
      /\ UNCHANGED <<loading, loaded, vad, asr, worker, batch, pending, open, outcomes, heard>>
  BY DEF Start, stages
<1>3. DOMAIN outcomes = {}
  BY <1>1 DEF EmptyBag, SetToBag
<1>4. Flying' = {} /\ OnePlace'
  <2>1. /\ Flying = {} /\ UnderVad = {} /\ Range(asr) = {} /\ Range(batch) = {} /\ Range(pending) = {}
        /\ Distinct(asr) /\ Distinct(batch) /\ Distinct(pending)
    BY <1>1, NothingFlies
  <2>2. Flying' = Flying /\ UnderVad' = UnderVad
    BY <1>2 DEF Flying, UnderVad
  <2>3. OnePlace
    BY <1>1, <2>1 DEF OnePlace
  <2>4. OnePlace'
    BY <1>2, <2>2, <2>3 DEF OnePlace, Distinct
  <2>5. QED
    BY <2>1, <2>2, <2>4
<1>5. UniqueInputs' = UniqueInputs /\ Inputs' = Inputs
  BY CanonicalKept
<1>6. Waiting' = UniqueInputs /\ Before'
  <2>1. InputsOf(Range(loaded))' = {} /\ loading' = {} /\ loaded' = <<>>
    BY <1>1, <1>2 DEF InputsOf, Range
  <2>2. Waiting' = UniqueInputs
    BY <1>2, <2>1 DEF Waiting
  <2>3. QED
    BY <1>5, <2>1, <2>2 DEF Before, Range
<1>7. \A i : Unseen(i)'
  <2>1. \A i : FlyingOf(i)' = {} /\ OutcomesOf(i)' = {} /\ i \notin DOMAIN open'
    BY <1>1, <1>2, <1>3, <1>4 DEF FlyingOf, OutcomesOf
  <2>2. QED
    BY <2>1 DEF Unseen
<1>8. Going'
  BY <1>5, <1>6, <1>7 DEF Going
<1>9. Sorts' /\ Still' /\ Closed'
  BY <1>1, <1>2 DEF Sorts, Still, Closed
<1>10. QED
  BY <1>4, <1>6, <1>8, <1>9 DEF InPlace

\* A call that returns leaves nothing in its stages.
LEMMA ReturnPlaces ==
  ASSUME Before, sources' = sources, phase' = "returned",
         UNCHANGED <<todo, loading, loaded, vad, asr, worker, batch, pending>>,
         todo = {}, loading = {}, loaded = <<>>, DOMAIN vad = {}, asr = <<>>, batch = <<>>,
         pending = <<>>, worker = "receiving"
  PROVE  InPlace' /\ Still'
<1>1. Before'
  BY BeforeStays
<1>2. OnePlace'
  <2>1. /\ Flying = {} /\ UnderVad = {} /\ Range(asr) = {} /\ Range(batch) = {} /\ Range(pending) = {}
        /\ Distinct(asr) /\ Distinct(batch) /\ Distinct(pending)
    BY NothingFlies
  <2>2. UnderVad' = UnderVad
    BY DEF UnderVad
  <2>3. OnePlace
    BY <2>1 DEF OnePlace
  <2>4. QED
    BY <2>2, <2>3 DEF OnePlace, Distinct
<1>3. Sorts' /\ Still' /\ Going'
  BY DEF Sorts, Still, Going
<1>4. QED
  BY <1>1, <1>2, <1>3 DEF InPlace

\* Every input has an answer when the canonical inputs have theirs.
LEMMA AllAnswered ==
  ASSUME Shape, sources' = sources, NEW results, IsABag(results), \A o \in DOMAIN results : IsOutcome(o),
         \A i \in Inputs \ UniqueInputs : AnswersIn(results, i) = {},
         \A i \in UniqueInputs :
           \E o : /\ AnswersIn(results, i) = {o}
                  /\ o.bad_component = "none" => Whole(o.timeline, heard'[i])
                  /\ o.bad_component # "recognizer" => results[o] = 1,
         outcomes' = Expand(results)
  PROVE  Closed'
<1>1. ASSUME NEW i \in Inputs PROVE (\E o : OutcomesOf(i) = {o} /\ IsAnswer(o, i))'
  <2>1. Canonical(i) \in UniqueInputs /\ Canonical(i)' = Canonical(i)
    BY CanonicalIs, CanonicalKept DEF Shape
  <2>2. PICK r, o : /\ AnswersIn(results, Canonical(i)) = {r}
                    /\ AnswersIn(Expand(results), i) = {o}
                    /\ o.bad_component = r.bad_component /\ o.timeline = r.timeline
                    /\ results[r] = 1 => Expand(results)[o] = 1
    <3>1. \A j \in UniqueInputs : \E o : AnswersIn(results, j) = {o}
      OBVIOUS
    <3>2. QED
      BY <3>1, EveryInputExpanded DEF Shape
  <2>3. /\ r.bad_component = "none" => Whole(r.timeline, heard'[Canonical(i)])
        /\ r.bad_component # "recognizer" => results[r] = 1
    <3>1. PICK c : c = Canonical(i)
      OBVIOUS
    <3>2. PICK x : /\ AnswersIn(results, c) = {x}
                   /\ x.bad_component = "none" => Whole(x.timeline, heard'[c])
                   /\ x.bad_component # "recognizer" => results[x] = 1
      BY <2>1, <3>1
    <3>3. x = r
      BY <2>2, <3>1, <3>2
    <3>4. QED
      BY <3>1, <3>2, <3>3
  <2>4. OutcomesOf(i)' = {o}
    BY <2>2 DEF OutcomesOf, AnswersIn
  <2>5. IsAnswer(o, i)'
    BY <2>1, <2>2, <2>3 DEF IsAnswer, Whole
  <2>6. QED
    BY <2>4, <2>5
<1>2. Inputs' = Inputs
  BY CanonicalKept
<1>3. QED
  BY <1>1, <1>2 DEF Closed

\* A call with one input is answered at once.
LEMMA SinglePlaces ==
  ASSUME TypeOK, Shape, Before, Still, sources' = sources, Single
  PROVE  InPlace' /\ Still' /\ Closed'
<1>1. InPlace' /\ Still'
  <2>1. /\ todo = {} /\ loading = {} /\ loaded = <<>> /\ DOMAIN vad = {} /\ asr = <<>> /\ batch = <<>>
        /\ pending = <<>> /\ worker = "receiving"
    BY DEF Single, Still
  <2>2. phase' = "returned" /\ UNCHANGED <<todo, loading, loaded, vad, asr, worker, batch, pending>>
    BY DEF Single, stages
  <2>3. QED
    BY <2>1, <2>2, ReturnPlaces
<1>2. UniqueInputs = {1} /\ 1 \in Inputs
  <2>1. 1 \in UniqueInputs /\ 1 \in Inputs /\ UniqueInputs \in SUBSET Inputs
    BY FirstInput DEF UniqueInputs
  <2>2. IsFiniteSet(Inputs)
    BY FS_Interval DEF Shape
  <2>3. IsFiniteSet(UniqueInputs)
    BY <2>1, <2>2, FS_Subset
  <2>4. QED
    BY <2>1, <2>3, FS_Singleton DEF Single
<1>3. PICK n \in 0 .. MaxSegments :
        /\ heard' = [heard EXCEPT ![1] = n]
        /\ \/ outcomes' = Expand(SetToBag({Ok(1, WholeTimeline(n))}))
           \/ \E at \in {IF f = "vad" THEN "recognizer" ELSE f : f \in Failing} :
                outcomes' = Expand(SetToBag({Failed(1, at)}))
  BY DEF Single
<1>4. heard'[1] = n /\ n \in Nat
  BY <1>2, <1>3, PipelineAssumption DEF TypeOK
<1>5. PICK o : /\ outcomes' = Expand(SetToBag({o})) /\ IsOutcome(o) /\ o.index = 1
               /\ o.bad_component = "none" => Whole(o.timeline, heard'[1])
  <2>1. CASE outcomes' = Expand(SetToBag({Ok(1, WholeTimeline(n))}))
    <3>1. Ok(1, WholeTimeline(n)).index = 1 /\ Ok(1, WholeTimeline(n)).timeline = WholeTimeline(n)
      BY DEF Ok
    <3>2. QED
      BY <1>2, <1>4, <2>1, <3>1, AnswersAre, WholeAtOnce
  <2>2. CASE \E at \in {IF f = "vad" THEN "recognizer" ELSE f : f \in Failing} :
               outcomes' = Expand(SetToBag({Failed(1, at)}))
    <3>1. PICK at : outcomes' = Expand(SetToBag({Failed(1, at)})) /\ at # "none"
      BY <2>2, PipelineAssumption
    <3>2. Failed(1, at).index = 1 /\ Failed(1, at).bad_component = at
      BY DEF Failed
    <3>3. QED
      BY <1>2, <3>1, <3>2, AnswersAre
  <2>3. QED
    BY <1>3, <2>1, <2>2
<1>6. PICK results : results = SetToBag({o})
  OBVIOUS
<1>7. IsABag(results) /\ DOMAIN results = {o} /\ results[o] = 1
  BY <1>6 DEF IsABag, SetToBag
<1>8. \A i \in Inputs \ UniqueInputs : AnswersIn(results, i) = {}
  BY <1>2, <1>5, <1>7 DEF AnswersIn
<1>9. \A i \in UniqueInputs : \E x : /\ AnswersIn(results, i) = {x}
                                     /\ x.bad_component = "none" => Whole(x.timeline, heard'[i])
                                     /\ x.bad_component # "recognizer" => results[x] = 1
  BY <1>2, <1>5, <1>7 DEF AnswersIn
<1>10. Closed'
  BY <1>5, <1>6, <1>7, <1>8, <1>9, AllAnswered
<1>11. QED
  BY <1>1, <1>10

\* The call returns when no message is under way, and so with an answer for every input.
LEMMA ReturnAnswers ==
  ASSUME TypeOK, Shape, InPlace, sources' = sources, Return
  PROVE  InPlace' /\ Still' /\ Closed'
<1>1. /\ phase = "waiting" /\ todo = {} /\ loading = {} /\ loaded = <<>> /\ DOMAIN vad = {} /\ asr = <<>>
      /\ worker = "receiving" /\ pending = <<>> /\ batch = <<>>
  BY DEF Return, AsrClosed, InPlace, Sorts
<1>2. InPlace' /\ Still'
  <2>1. phase' = "returned" /\ UNCHANGED <<todo, loading, loaded, vad, asr, worker, batch, pending>>
    BY DEF Return, stages
  <2>2. QED
    BY <1>1, <2>1, ReturnPlaces DEF InPlace
<1>3. Flying = {}
  BY <1>1, NothingFlies
<1>4. Waiting = {}
  BY <1>1 DEF Waiting, InputsOf, Range
<1>5. heard' = heard /\ outcomes' = Expand(outcomes)
  BY DEF Return
<1>6. ASSUME NEW i \in Inputs \ UniqueInputs PROVE AnswersIn(outcomes, i) = {}
  BY <1>1, <1>6 DEF InPlace, Going, Unseen, OutcomesOf, AnswersIn
<1>7. ASSUME NEW i \in UniqueInputs
      PROVE  \E o : /\ AnswersIn(outcomes, i) = {o}
                    /\ o.bad_component = "none" => Whole(o.timeline, heard'[i])
                    /\ o.bad_component # "recognizer" => outcomes[o] = 1
  <2>1. Placed(i) /\ FlyingOf(i) = {}
    BY <1>1, <1>3, <1>4 DEF InPlace, Going, FlyingOf
  <2>2. ~ Alone(i)
    BY <2>1 DEF Alone
  <2>3. CASE Answered(i)
    <3>1. Canonical(i) = i
      BY DEF UniqueInputs
    <3>2. PICK o : OutcomesOf(i) = {o} /\ IsAnswer(o, i)
      BY <2>3 DEF Answered
    <3>3. QED
      BY <1>5, <3>1, <3>2 DEF IsAnswer, OutcomesOf, AnswersIn
  <2>4. CASE InPieces(i)
    <3>1. OutcomesOf(i) = {Failed(i, "recognizer")}
      BY <2>1, <2>4 DEF InPieces
    <3>2. Failed(i, "recognizer").bad_component = "recognizer"
      BY DEF Failed
    <3>3. QED
      BY <3>1, <3>2 DEF OutcomesOf, AnswersIn
  <2>5. QED
    BY <2>1, <2>2, <2>3, <2>4 DEF Placed
<1>8. IsABag(outcomes) /\ \A o \in DOMAIN outcomes : IsOutcome(o)
  BY DEF TypeOK, Shape
<1>9. Closed'
  BY <1>5, <1>6, <1>7, <1>8, AllAnswered
<1>10. QED
  BY <1>2, <1>9

--------------------------------------------------------------------------------
\* No step of the call loses an input.
LEMMA StepHolds == IInv /\ [Next]_vars => IInv'
<1> SUFFICES ASSUME IInv, [Next]_vars PROVE IInv'
  OBVIOUS
<1>1. TypeOK /\ Shape /\ InPlace /\ Still /\ Closed /\ Before /\ Sorts
  BY DEF IInv, InPlace
<1>2. CASE Next
  <2>1. TypeOK' /\ Shape'
    BY <1>1, <1>2, TypeKept
  <2>2. sources' = sources
    BY <1>1, <1>2, FramesOf
  <2>3. CASE Start
    <3>1. InPlace' /\ Still' /\ Closed'
      BY <1>1, <2>2, <2>3, StartPlaces
    <3>2. QED
      BY <2>1, <3>1 DEF IInv, InPlace
  <2>4. CASE Single
    <3>1. InPlace' /\ Still' /\ Closed'
      BY <1>1, <2>2, <2>4, SinglePlaces
    <3>2. QED
      BY <2>1, <3>1 DEF IInv, InPlace
  <2>5. CASE Return
    <3>1. InPlace' /\ Still' /\ Closed'
      BY <1>1, <2>2, <2>5, ReturnAnswers
    <3>2. QED
      BY <2>1, <3>1 DEF IInv, InPlace
  <2>6. CASE ~ Start /\ ~ Single /\ ~ Return
    <3>1. phase = "waiting" /\ phase' = "waiting"
      BY <1>1, <1>2, <2>6, FramesOf
    <3>2. Still' /\ Closed'
      BY <3>1 DEF Still, Closed
    <3>3. InPlace'
      <4>1. CASE Loader
        BY <1>1, <2>2, <3>1, <4>1, LoaderPlaces
      <4>2. CASE VadStage
        BY <1>1, <2>2, <3>1, <4>2, VadPlaces
      <4>3. CASE \E i \in DOMAIN vad : SendPrepared(i)
        BY <1>1, <2>2, <3>1, <4>3, SendPlaces
      <4>4. CASE Receive
        BY <1>1, <2>2, <3>1, <4>4, ReceivePlaces
      <4>5. CASE CollectJob \/ CollectSegment
        BY <1>1, <2>2, <3>1, <4>5, CollectPlaces
      <4>6. CASE RunJobs
        BY <1>1, <2>2, <3>1, <4>6, JobsPlaces
      <4>7. CASE RunSegments
        BY <1>1, <2>2, <3>1, <4>7, SegmentsPlaces
      <4>8. QED
        BY <1>2, <2>6, <4>1, <4>2, <4>3, <4>4, <4>5, <4>6, <4>7 DEF Next, AsrWorker
    <3>4. QED
      BY <2>1, <3>2, <3>3 DEF IInv, InPlace
  <2>7. QED
    BY <2>3, <2>4, <2>5, <2>6
<1>3. CASE UNCHANGED vars
  <2>1. UNCHANGED <<sources, phase, todo, loading, loaded, vad, asr, worker, batch, pending, open, outcomes, heard>>
    BY <1>3 DEF vars
  <2>2. TypeOK'
    <3>1. Inputs' = Inputs /\ Messages' = Messages
      BY <2>1 DEF Inputs, Messages, Failure, Job, Segment
    <3>2. QED
      BY <1>1, <2>1, <3>1 DEF TypeOK
  <2>3. Shape' /\ Still'
    BY <1>1, <2>1 DEF Shape, IsOutcome, Inputs, Still
  <2>4. Before' /\ Waiting' = Waiting
    BY <1>1, <2>1, BeforeStays DEF InPlace
  <2>5. Flying' = Flying /\ UnderVad' = UnderVad
    BY <2>1 DEF Flying, UnderVad
  <2>6. OnePlace' /\ Sorts'
    BY <1>1, <2>1, <2>5 DEF InPlace, OnePlace, Sorts, Distinct
  <2>7. Going'
    <3>1. CASE phase = "waiting"
      BY <1>1, <2>1, <2>4, <2>5, <3>1, MovingOn DEF InPlace
    <3>2. CASE phase # "waiting"
      BY <2>1, <3>2 DEF Going
    <3>3. QED
      BY <3>1, <3>2
  <2>8. Closed'
    <3>1. \A i : Canonical(i)' = Canonical(i)
      BY <2>1, CanonicalKept
    <3>2. \A i \in Inputs : OutcomesOf(i)' = OutcomesOf(i)
      BY <2>1 DEF OutcomesOf
    <3>3. \A i, o : IsAnswer(o, i) => IsAnswer(o, i)'
      BY <2>1, <3>1 DEF IsAnswer, Whole
    <3>4. ASSUME phase = "returned", NEW i \in Inputs PROVE \E o : OutcomesOf(i)' = {o} /\ IsAnswer(o, i)'
      <4>1. PICK o : OutcomesOf(i) = {o} /\ IsAnswer(o, i)
        BY <1>1, <3>4 DEF Closed
      <4>2. QED
        BY <3>2, <3>3, <4>1
    <3>5. Inputs' = Inputs
      BY <2>1, CanonicalKept
    <3>6. QED
      BY <2>1, <3>4, <3>5 DEF Closed
  <2>9. QED
    BY <2>2, <2>3, <2>4, <2>6, <2>7, <2>8 DEF IInv
<1>4. QED
  BY <1>2, <1>3

\* An outcome that is not the recogniser's failure is the one answer of its input.
LEMMA AnswerIs ==
  ASSUME IInv, NEW o \in DOMAIN outcomes, o.bad_component # "recognizer"
  PROVE  OutcomesOf(o.index) = {o} /\ IsAnswer(o, o.index)
<1> DEFINE i == o.index
<1>1. i \in Inputs /\ o \in OutcomesOf(i)
  BY DEF IInv, Shape, IsOutcome, OutcomesOf
<1>2. CASE phase = "called"
  <2>1. DOMAIN outcomes = {}
    BY <1>2 DEF IInv, Still, EmptyBag, SetToBag
  <2>2. QED
    BY <2>1
<1>3. CASE phase = "waiting"
  <2>1. i \in UniqueInputs \ Waiting /\ Placed(i)
    BY <1>1, <1>3 DEF IInv, Going, Unseen
  <2>2. ~ Alone(i)
    BY <1>1 DEF Alone
  <2>3. ~ InPieces(i)
    <3>1. Failed(i, "recognizer").bad_component = "recognizer"
      BY DEF Failed
    <3>2. QED
      BY <1>1, <3>1 DEF InPieces
  <2>4. PICK x : OutcomesOf(i) = {x} /\ IsAnswer(x, i)
    BY <2>1, <2>2, <2>3 DEF Placed, Answered
  <2>5. QED
    BY <1>1, <2>4
<1>4. CASE phase = "returned"
  <2>1. PICK x : OutcomesOf(i) = {x} /\ IsAnswer(x, i)
    BY <1>1, <1>4 DEF IInv, Closed
  <2>2. QED
    BY <1>1, <2>1
<1>5. QED
  BY <1>2, <1>3, <1>4 DEF IInv, TypeOK

\* The invariant holds of every state of the call.
LEMMA AlwaysPlaced == Spec => []IInv
BY InitHolds, StepHolds, PTL DEF Spec

\* The channels, the stash, the batch and the timelines keep their shape, and the bounded
\* ones are never over their capacity (transcribe_many).
THEOREM TypeCorrect == Spec => []TypeOK
<1>1. IInv => TypeOK
  BY DEF IInv
<1>2. QED
  BY <1>1, AlwaysPlaced, PTL

\* Whatever the call, the capacities and the failures, and however the stages interleave,
\* no input is without an outcome when transcribe_many returns, and one that succeeded, or
\* failed before recognition, has that one outcome.
THEOREM EveryInputAlwaysAnswered == Spec => []EveryInputAnswered
<1>1. IInv => EveryInputAnswered
  <2> SUFFICES ASSUME IInv PROVE EveryInputAnswered
    OBVIOUS
  <2>1. TypeOK
    BY DEF IInv
  <2>2. phase = "returned" => \A i \in Inputs : OutcomesOf(i) # {}
    <3>1. ASSUME phase = "returned", NEW i \in Inputs PROVE OutcomesOf(i) # {}
      <4>1. PICK o : OutcomesOf(i) = {o}
        BY <3>1 DEF IInv, Closed
      <4>2. QED
        BY <4>1
    <3>2. QED
      BY <3>1
  <2>3. \A o \in DOMAIN outcomes :
          o.bad_component # "recognizer" => OutcomesOf(o.index) = {o} /\ outcomes[o] = 1
    BY AnswerIs DEF IsAnswer
  <2>4. QED
    BY <2>1, <2>2, <2>3 DEF EveryInputAnswered
<1>2. QED
  BY <1>1, AlwaysPlaced, PTL

\* An input that succeeded has every segment of its speech in its timeline once, whichever
\* batches they were recognised in (finish_segment_asr_batch), and so has its duplicate.
THEOREM OkAlwaysWhole == Spec => []OkIsWhole
<1>1. IInv => OkIsWhole
  <2> SUFFICES ASSUME IInv PROVE OkIsWhole
    OBVIOUS
  <2>1. ASSUME NEW o \in DOMAIN outcomes, o.bad_component = "none"
        PROVE  Whole(o.timeline, heard[Canonical(o.index)])
    BY <2>1, AnswerIs DEF IsAnswer
  <2>2. QED
    BY <2>1 DEF OkIsWhole, Whole, BagToSet
<1>2. QED
  BY <1>1, AlwaysPlaced, PTL
================================================================================
