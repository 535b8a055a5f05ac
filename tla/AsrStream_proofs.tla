--------------------------- MODULE AsrStream_proofs ----------------------------
(***************************************************************************)
(* What AsrStream does with its samples, for any options, any number of    *)
(* samples and pushes, and decodings that fail anywhere: none is lost,     *)
(* repeated or reordered, and the answer of finish is for all of them.     *)
(*                                                                         *)
(* Positions say it better than sequences: Numbered gives the sample at    *)
(* each position of the features and of the buffer from its offset on.     *)
(* The second part is about the audio a decoding is given: whatever was    *)
(* encoded before and kept, it is that of all samples so far.              *)
(* The third is about its text: what is committed, and what a decoding     *)
(* can change of the rest.                                                 *)
(***************************************************************************)
EXTENDS AsrStream, FiniteSetTheorems, SequenceTheorems, WellFoundedInduction, TLAPS

Held ==
  /\ opts \in Streams
  /\ pc \in {"idle", "loop", "audio", "generate", "finished", "error"}
  /\ closing \in BOOLEAN /\ failed \in BOOLEAN
  /\ wav \in Seq(Nat) /\ buffer \in Seq(Nat)
  /\ offset \in 0 .. Len(buffer)
  /\ pushed \in Nat

Numbered ==
  /\ Len(wav) + Len(buffer) - offset = pushed
  /\ \A i \in 1 .. Len(wav) : wav[i] = i
  /\ \A i \in offset+1 .. Len(buffer) : buffer[i] = Len(wav) + i - offset

\* finish consumes what is left before it decodes.
Closed == /\ closing => Len(buffer) = offset
          /\ pc \in {"idle", "loop"} => ~closing
          /\ pc \in {"finished", "error"} => closing

LessThanChunk == pc = "idle" /\ ~failed => Len(buffer) - offset < opts.chunk

\* Between decodings the last answer is for all the features, unless one failed.
Answered == pc \in {"idle", "loop", "finished"} /\ ~failed => last.upTo = Len(wav)

IInv == Held /\ Numbered /\ Closed /\ LessThanChunk /\ Answered

--------------------------------------------------------------------------------
\* The options of a stream have a positive chunk size.
LEMMA ChunkPositive == ASSUME NEW o \in Streams PROVE o.chunk \in Nat \ {0}
BY StreamAssumption DEF Options

\* What a concatenation and a part of a sequence hold, position by position.
IsConcat(u, s, t) ==
  /\ u \in Seq(Nat)
  /\ Len(u) = Len(s) + Len(t)
  /\ \A i \in 1 .. Len(s) : u[i] = s[i]
  /\ \A i \in 1 .. Len(t) : u[Len(s) + i] = t[i]

IsPart(u, s, a, b) ==
  /\ u \in Seq(Nat)
  /\ Len(u) = b - a
  /\ \A i \in 1 .. b - a : u[i] = s[a + i]

\* A concatenation, position by position.
LEMMA Concatenated == ASSUME NEW s \in Seq(Nat), NEW t \in Seq(Nat)
                      PROVE  IsConcat(s \o t, s, t)
BY DEF IsConcat

\* A part of a sequence, position by position.
LEMMA Cut == ASSUME NEW s \in Seq(Nat), NEW a \in Nat, NEW b \in Nat, a <= b, b <= Len(s)
             PROVE  IsPart(SubSeq(s, a+1, b), s, a, b)
BY DEF IsPart

\* Moving the next samples of the buffer to the features keeps every sample in its place.
LEMMA Consumed ==
  ASSUME Held, Numbered, NEW b \in Nat, offset <= b, b <= Len(buffer),
         wav' = wav \o SubSeq(buffer, offset+1, b)
  PROVE  /\ wav' \in Seq(Nat)
         /\ Len(wav') = Len(wav) + b - offset
         /\ \A i \in 1 .. Len(wav') : wav'[i] = i
         /\ \A i \in b+1 .. Len(buffer) : buffer[i] = Len(wav') + i - b
<1> DEFINE new == SubSeq(buffer, offset+1, b)
<1>0. IsPart(new, buffer, offset, b)
  <2>1. buffer \in Seq(Nat) /\ offset \in Nat
    BY DEF Held
  <2>2. QED
    BY <2>1, Cut
<1>1. /\ new \in Seq(Nat)
      /\ Len(new) = b - offset
      /\ \A i \in 1 .. b - offset : new[i] = buffer[offset + i]
  BY <1>0 DEF IsPart
<1>2. \A i \in 1 .. Len(new) : new[i] = Len(wav) + i
  BY <1>1 DEF Held, Numbered
<1>3. wav' = wav \o new
  OBVIOUS
<1> HIDE DEF new
<1>4. /\ wav' \in Seq(Nat)
      /\ Len(wav') = Len(wav) + Len(new)
      /\ \A i \in 1 .. Len(wav) : wav'[i] = wav[i]
      /\ \A i \in 1 .. Len(new) : wav'[Len(wav) + i] = new[i]
  <2>1. wav \in Seq(Nat) /\ new \in Seq(Nat)
    BY <1>1 DEF Held
  <2>2. IsConcat(wav \o new, wav, new)
    BY <2>1, Concatenated
  <2>3. IsConcat(wav', wav, new)
    BY <2>2, <1>3
  <2>4. QED
    BY <2>3 DEF IsConcat
<1>5. ASSUME NEW i \in 1 .. Len(wav') PROVE wav'[i] = i
  <2>1. CASE i <= Len(wav)
    BY <2>1, <1>4 DEF Held, Numbered
  <2>2. CASE i > Len(wav)
    <3>1. i - Len(wav) \in 1 .. Len(new) /\ i = Len(wav) + (i - Len(wav))
      BY <2>2, <1>1, <1>4 DEF Held
    <3>2. QED
      BY <3>1, <1>2, <1>4 DEF Held
  <2>3. QED
    BY <2>1, <2>2, <1>4 DEF Held
<1>6. \A i \in b+1 .. Len(buffer) : buffer[i] = Len(wav') + i - b
  <2>1. /\ Len(wav) \in Nat /\ Len(buffer) \in Nat /\ offset \in Nat
        /\ Len(wav') = Len(wav) + b - offset
    BY <1>1, <1>4 DEF Held
  <2>2. ASSUME NEW i \in b+1 .. Len(buffer) PROVE buffer[i] = Len(wav') + i - b
    <3>1. i \in offset+1 .. Len(buffer)
      BY <2>1, <2>2
    <3>2. buffer[i] = Len(wav) + i - offset
      BY <3>1 DEF Numbered
    <3>3. Len(wav) + i - offset = Len(wav') + i - b
      BY <2>1, <2>2
    <3>4. QED
      BY <3>2, <3>3
  <2>3. QED
    BY <2>2
<1>7. QED
  BY <1>1, <1>4, <1>5, <1>6 DEF Held

--------------------------------------------------------------------------------
\* Before the first push there is nothing to lose.
LEMMA InitInv == Init => IInv
<1> SUFFICES ASSUME Init PROVE IInv
  OBVIOUS
<1>1. opts.chunk \in Nat \ {0}
  BY ChunkPositive DEF Init
<1>2. QED
  <2>1. buffer = <<>> /\ wav = <<>> /\ offset = 0 /\ pushed = 0
    BY DEF Init
  <2>2. Numbered
    BY <2>1 DEF Numbered
  <2>3. Held
    <3>1. wav \in Seq(Nat) /\ buffer \in Seq(Nat) /\ offset \in 0 .. Len(buffer)
      BY <2>1
    <3>2. opts \in Streams /\ pc = "idle" /\ closing = FALSE /\ failed = FALSE
      BY DEF Init
    <3>3. QED
      BY <2>1, <3>1, <3>2 DEF Held
  <2>4. Closed /\ Answered
    BY <2>1 DEF Init, Closed, Answered
  <2>5. LessThanChunk
    BY <2>1, <1>1 DEF LessThanChunk
  <2>6. QED
    BY <2>2, <2>3, <2>4, <2>5 DEF IInv

\* Every step of a push, of finish and of a decoding keeps all of it.
LEMMA StepInv == IInv /\ [Next]_vars => IInv'
<1> SUFFICES ASSUME IInv, [Next]_vars PROVE IInv'
  OBVIOUS
<1> USE DEF IInv
<1>0. /\ opts.chunk \in Nat \ {0}
      /\ buffer \in Seq(Nat) /\ wav \in Seq(Nat)
      /\ Len(buffer) \in Nat /\ Len(wav) \in Nat
      /\ offset \in Nat /\ offset <= Len(buffer) /\ pushed \in Nat
  BY ChunkPositive DEF Held
<1>balance. Len(wav) + Len(buffer) - offset = pushed
  BY DEF Numbered
<1>1. ASSUME NEW n \in 1 .. MaxPush, Push(n) PROVE IInv'
  <2> DEFINE new == [i \in 1 .. n |-> pushed + i]
  <2>1. n \in Nat
    BY StreamAssumption
  <2>2. new \in Seq(Nat) /\ Len(new) = n /\ \A i \in 1 .. n : new[i] = pushed + i
    BY <2>1 DEF Held
  <2>3. buffer' = buffer \o new
    BY <1>1 DEF Push
  <2> HIDE DEF new
  <2>4. /\ buffer' \in Seq(Nat)
        /\ Len(buffer') = Len(buffer) + n
        /\ \A i \in 1 .. Len(buffer) : buffer'[i] = buffer[i]
        /\ \A i \in 1 .. n : buffer'[Len(buffer) + i] = pushed + i
    <3>1. /\ buffer' \in Seq(Nat)
          /\ Len(buffer') = Len(buffer) + Len(new)
          /\ \A i \in 1 .. Len(buffer) : buffer'[i] = buffer[i]
          /\ \A i \in 1 .. Len(new) : buffer'[Len(buffer) + i] = new[i]
      <4>1. buffer \in Seq(Nat) /\ new \in Seq(Nat)
        BY <1>0, <2>2
      <4>2. IsConcat(buffer \o new, buffer, new)
        BY <4>1, Concatenated
      <4>3. IsConcat(buffer', buffer, new)
        BY <4>2, <2>3
      <4>4. QED
        BY <4>3 DEF IsConcat
    <3>2. QED
      BY <3>1, <2>2
  <2>5. Held'
    <3>1. /\ opts' = opts /\ closing' = closing /\ failed' = failed /\ wav' = wav
          /\ offset' = offset /\ pushed' = pushed + n /\ pc' = "loop"
      BY <1>1 DEF Push, featureVars
    <3>2. offset \in 0 .. Len(buffer') /\ pushed + n \in Nat
      BY <1>0, <2>1, <2>4
    <3>3. opts \in Streams /\ closing \in BOOLEAN /\ failed \in BOOLEAN
      BY DEF Held
    <3>4. QED
      BY <1>0, <2>4, <3>1, <3>2, <3>3 DEF Held
  <2>6. ASSUME NEW i \in offset+1 .. Len(buffer) + n
        PROVE  buffer'[i] = Len(wav) + i - offset
    <3>1. CASE i <= Len(buffer)
      BY <3>1, <1>0, <2>4 DEF Held, Numbered
    <3>2. CASE i > Len(buffer)
      <4>1. i - Len(buffer) \in 1 .. n /\ i = Len(buffer) + (i - Len(buffer))
        BY <3>2, <1>0, <2>1 DEF Held
      <4>2. buffer'[i] = pushed + (i - Len(buffer))
        BY <4>1, <2>4
      <4>3. pushed + (i - Len(buffer)) = Len(wav) + i - offset
        <5>1. /\ Len(wav) \in Int /\ Len(buffer) \in Int /\ offset \in Int
              /\ pushed \in Int /\ i \in Int
          BY <1>0, <2>1
        <5>2. QED
          BY ONLY <5>1, <1>balance
      <4>4. QED
        BY <4>2, <4>3
    <3>3. QED
      BY <3>1, <3>2, <1>0, <2>1 DEF Held
  <2>7. Numbered'
    <3>1. wav' = wav /\ offset' = offset /\ pushed' = pushed + n
      BY <1>1 DEF Push, featureVars
    <3>2. Len(wav) + (Len(buffer) + n) - offset = pushed + n
      <4>1. Len(wav) \in Nat /\ Len(buffer) \in Nat /\ offset \in Nat /\ pushed \in Nat
        BY <1>0
      <4>2. QED
        BY <4>1, <2>1, <1>balance, SMT
    <3>3. QED
      BY <3>1, <3>2, <2>4, <2>6 DEF Numbered
  <2>8. ~closing
    BY <1>1 DEF Push, Closed, Held
  <2>9. QED
    BY <1>1, <2>5, <2>7, <2>8
       DEF Push, Closed, LessThanChunk, Answered, featureVars, textVars
<1>2. CASE NextChunk
  <2> DEFINE b == offset + opts.chunk
  <2>1. b \in Nat /\ offset <= b /\ b <= Len(buffer)
    BY <1>0, <1>2 DEF NextChunk, Held
  <2>2. wav' = wav \o SubSeq(buffer, offset+1, b) /\ offset' = b
    BY <1>2 DEF NextChunk, AppendSamples
  <2> HIDE DEF b
  <2>3. /\ wav' \in Seq(Nat)
        /\ Len(wav') = Len(wav) + b - offset
        /\ \A i \in 1 .. Len(wav') : wav'[i] = i
        /\ \A i \in b+1 .. Len(buffer) : buffer[i] = Len(wav') + i - b
    BY <2>1, <2>2, Consumed
  <2>4. ~closing
    BY <1>2 DEF NextChunk, Closed, Held
  <2>5. Held'
    <3>1. /\ opts' = opts /\ closing' = closing /\ failed' = failed
          /\ buffer' = buffer /\ pushed' = pushed /\ pc' = "audio"
      BY <1>2 DEF NextChunk
    <3>2. opts \in Streams /\ closing \in BOOLEAN /\ failed \in BOOLEAN
      BY DEF Held
    <3>3. b \in 0 .. Len(buffer)
      BY <1>0, <2>1
    <3>4. QED
      BY <1>0, <2>2, <2>3, <3>1, <3>2, <3>3 DEF Held
  <2>6. Numbered'
    <3>1. buffer' = buffer /\ pushed' = pushed
      BY <1>2 DEF NextChunk
    <3>2. Len(wav') + Len(buffer) - b = pushed
      <4>1. /\ Len(wav) \in Nat /\ Len(buffer) \in Nat /\ offset \in Nat /\ pushed \in Nat
            /\ Len(wav') = Len(wav) + b - offset
        BY <1>0, <2>3
      <4>2. QED
        BY <4>1, <2>1, <1>balance, SMT
    <3>3. QED
      BY <3>1, <3>2, <2>2, <2>3 DEF Numbered
  <2>7. QED
    BY <1>2, <2>4, <2>5, <2>6 DEF NextChunk, Closed, LessThanChunk, Answered
<1>3. CASE EndPush
  <2>0. /\ buffer' = SubSeq(buffer, offset+1, Len(buffer)) /\ offset' = 0
        /\ opts' = opts /\ closing' = closing /\ failed' = failed /\ wav' = wav
        /\ pushed' = pushed /\ pc' = "idle"
    BY <1>3 DEF EndPush, featureVars
  <2>1. /\ buffer' \in Seq(Nat)
        /\ Len(buffer') = Len(buffer) - offset
        /\ \A i \in 1 .. Len(buffer) - offset : buffer'[i] = buffer[offset + i]
    <3>1. IsPart(SubSeq(buffer, offset+1, Len(buffer)), buffer, offset, Len(buffer))
      BY <1>0, Cut
    <3>2. IsPart(buffer', buffer, offset, Len(buffer))
      BY <2>0, <3>1
    <3>3. QED
      BY <3>2 DEF IsPart
  <2>2. Held'
    <3>1. opts \in Streams /\ closing \in BOOLEAN /\ failed \in BOOLEAN
      BY DEF Held
    <3>2. 0 \in 0 .. Len(buffer')
      BY <1>0, <2>1
    <3>3. QED
      BY <1>0, <2>0, <2>1, <3>1, <3>2 DEF Held
  <2>3. ASSUME NEW i \in 1 .. Len(buffer') PROVE buffer'[i] = Len(wav) + i
    <3>1. offset + i \in offset+1 .. Len(buffer) /\ buffer'[i] = buffer[offset + i]
      BY <1>0, <2>1
    <3>2. Len(wav) + (offset + i) - offset = Len(wav) + i
      BY <1>0, <2>1
    <3>3. QED
      BY <3>1, <3>2 DEF Numbered
  <2>4. Numbered'
    <3>1. Len(wav) + Len(buffer') - 0 = pushed
      BY <1>0, <2>1, <1>balance
    <3>2. \A i \in 0+1 .. Len(buffer') : buffer'[i] = Len(wav) + i - 0
      BY <1>0, <2>1, <2>3
    <3>3. \A i \in 1 .. Len(wav) : wav[i] = i
      BY DEF Numbered
    <3>4. QED
      BY <2>0, <3>1, <3>2, <3>3 DEF Numbered
  <2>5. ~closing
    BY <1>3 DEF EndPush, Closed, Held
  <2>6. QED
    BY <1>0, <1>3, <2>1, <2>2, <2>4, <2>5
       DEF EndPush, Closed, LessThanChunk, Answered, featureVars, textVars, Held
<1>4. CASE FinishTail
  <2>1. wav' = wav \o SubSeq(buffer, offset+1, Len(buffer))
    BY <1>4 DEF FinishTail, AppendSamples
  <2>2. /\ wav' \in Seq(Nat)
        /\ Len(wav') = Len(wav) + Len(buffer) - offset
        /\ \A i \in 1 .. Len(wav') : wav'[i] = i
    <3>1. Len(buffer) <= Len(buffer) /\ Len(buffer) \in Nat /\ offset <= Len(buffer)
      BY <1>0
    <3>2. QED
      BY <3>1, <2>1, Consumed
  <2>3. buffer' = <<>> /\ offset' = 0
    BY <1>4 DEF FinishTail
  <2>x. /\ opts' = opts /\ failed' = failed /\ pushed' = pushed
        /\ closing' \in BOOLEAN /\ pc' = "audio"
    BY <1>4 DEF FinishTail
  <2>y. buffer' \in Seq(Nat) /\ Len(buffer') = 0 /\ 0 \in 0 .. Len(buffer')
    BY <2>3
  <2>4. Held'
    <3>1. opts \in Streams /\ failed \in BOOLEAN
      BY DEF Held
    <3>2. QED
      BY <1>0, <2>2, <2>3, <2>x, <2>y, <3>1 DEF Held
  <2>5. Numbered'
    <3>1. Len(wav') + Len(buffer') - 0 = pushed
      BY <1>0, <2>2, <2>y, <1>balance
    <3>2. \A i \in 0+1 .. Len(buffer') : buffer'[i] = Len(wav') + i - 0
      BY <2>y
    <3>3. QED
      BY <2>2, <2>3, <2>x, <3>1, <3>2 DEF Numbered
  <2>6. QED
    BY <1>4, <2>3, <2>4, <2>5 DEF FinishTail, Closed, LessThanChunk, Answered
<1>5. CASE FinishEmpty
  BY <1>5 DEF FinishEmpty, sampleVars, featureVars, textVars,
              Held, Numbered, Closed, LessThanChunk, Answered
<1>6. CASE ComputeAudio
  BY <1>6 DEF ComputeAudio, sampleVars, featureVars, textVars,
              Held, Numbered, Closed, LessThanChunk, Answered
<1>7. CASE Generate
  <2>1. last'.upTo = Len(wav)
    BY <1>7 DEF Generate, GenerateRaw, GenerateRolling
  <2>2. QED
    BY <1>7, <2>1 DEF Generate, AfterDecode, sampleVars, featureVars,
                      Held, Numbered, Closed, LessThanChunk, Answered
<1>8. CASE DecodeFails
  BY <1>8 DEF DecodeFails, sampleVars, featureVars, textVars,
              Held, Numbered, Closed, LessThanChunk, Answered
<1>9. CASE UNCHANGED vars
  BY <1>9 DEF vars, sampleVars, featureVars, textVars,
              Held, Numbered, Closed, LessThanChunk, Answered
<1>10. QED
  BY <1>1, <1>2, <1>3, <1>4, <1>5, <1>6, <1>7, <1>8, <1>9 DEF Next

\* The inductive invariant holds throughout.
LEMMA AlwaysInv == Spec => []IInv
<1>1. Init => IInv
  BY InitInv
<1>2. IInv /\ [Next]_vars => IInv'
  BY StepInv
<1>3. QED
  BY <1>1, <1>2, PTL DEF Spec

--------------------------------------------------------------------------------
\* Every sample pushed reaches the features once and in order, whatever chunks fail
\* (SamplesOnceInOrder of push_audio_chunk and finish).
THEOREM SamplesKept == Spec => []SamplesOnceInOrder
<1>1. ASSUME IInv PROVE SamplesOnceInOrder
  <2> DEFINE rest == SubSeq(buffer, offset+1, Len(buffer))
             all  == wav \o rest
             goal == [i \in 1 .. pushed |-> i]
  <2> USE <1>1 DEF IInv
  <2>1. /\ rest \in Seq(Nat)
        /\ Len(rest) = Len(buffer) - offset
        /\ \A i \in 1 .. Len(buffer) - offset : rest[i] = buffer[offset + i]
    <3>1. /\ buffer \in Seq(Nat) /\ offset \in Nat /\ Len(buffer) \in Nat
          /\ offset <= Len(buffer)
      BY DEF Held
    <3>2. IsPart(rest, buffer, offset, Len(buffer))
      BY <3>1, Cut
    <3>3. QED
      BY <3>2 DEF IsPart
  <2>2. \A i \in 1 .. Len(rest) : rest[i] = Len(wav) + i
    BY <2>1 DEF Held, Numbered
  <2> HIDE DEF rest
  <2>3. /\ all \in Seq(Nat)
        /\ Len(all) = pushed
        /\ \A i \in 1 .. Len(wav) : all[i] = wav[i]
        /\ \A i \in 1 .. Len(rest) : all[Len(wav) + i] = rest[i]
    <3>1. wav \in Seq(Nat) /\ all = wav \o rest
      BY DEF Held
    <3>2. /\ all \in Seq(Nat)
          /\ Len(all) = Len(wav) + Len(rest)
          /\ \A i \in 1 .. Len(wav) : all[i] = wav[i]
          /\ \A i \in 1 .. Len(rest) : all[Len(wav) + i] = rest[i]
      <4>1. IsConcat(wav \o rest, wav, rest)
        BY <3>1, <2>1, Concatenated
      <4>2. IsConcat(all, wav, rest)
        BY <3>1, <4>1
      <4>3. QED
        BY <4>2 DEF IsConcat
    <3>3. Len(wav) + Len(rest) = pushed
      BY <3>1, <2>1 DEF Held, Numbered
    <3>4. QED
      BY <3>2, <3>3
  <2> HIDE DEF all
  <2>4. ASSUME NEW i \in 1 .. pushed PROVE all[i] = i
    <3>1. CASE i <= Len(wav)
      BY <3>1, <2>3 DEF Held, Numbered
    <3>2. CASE i > Len(wav)
      <4>1. i - Len(wav) \in 1 .. Len(rest) /\ i = Len(wav) + (i - Len(wav))
        BY <3>2, <2>1 DEF Held, Numbered
      <4>2. QED
        BY <4>1, <2>2, <2>3 DEF Held
    <3>3. QED
      BY <3>1, <3>2 DEF Held
  <2>5. all = goal
    <3>1. DOMAIN all = 1 .. pushed /\ all = [i \in DOMAIN all |-> all[i]]
      BY <2>3
    <3>2. QED
      BY <3>1, <2>4
  <2>6. QED
    BY <2>5 DEF SamplesOnceInOrder, LessThanChunk, all, rest
<1>2. QED
  BY <1>1, AlwaysInv, PTL

\* The answer of a finish that succeeds was decoded from all samples pushed, unless the
\* last decoding failed (FinalAnswerCurrent of finish).
THEOREM AnswerCurrent == Spec => []FinalAnswerCurrent
<1>1. IInv => FinalAnswerCurrent
  BY DEF IInv, Held, Numbered, Closed, Answered, FinalAnswerCurrent
<1>2. QED
  BY <1>1, AlwaysInv, PTL

--------------------------------------------------------------------------------
\* The frames and the encoded audio, as they would be if all samples were taken at once.

\* What n samples whose loudest value is l make of the features.
Rendered(n, l) == [t \in 0 .. Frames(n) - 1 |-> <<Frame(t, n), l>>]

\* Encode for the segments of given options.
EncodeIn(segment, frame, from, total) ==
  [f \in from .. total - 1 |->
     [g \in {h \in from .. total - 1 :
               (h - from) \div (IF segment = 0 THEN total + 1 ELSE segment)
                 = (f - from) \div (IF segment = 0 THEN total + 1 ELSE segment)}
        |-> frame[g]]]

\* The frames are those of all samples, although only the last ones were computed again.
Current ==
  /\ raw = [t \in 0 .. Frames(Len(wav)) - 1 |-> Frame(t, Len(wav))]
  /\ features = Rendered(Len(wav), level)
  /\ level \in opts.levels \cup {-1}
  /\ Frames(Len(wav)) > 0 => level \in opts.levels

\* The cache is what the samples it was made of would be encoded to, then and now.
Cached ==
  \/ cache = NoCache
  \/ /\ opts.segment # 0
     /\ cache.wavLen \in 0 .. Len(wav)
     /\ cache.frames = Frames(cache.wavLen)
     /\ cache.frames # 0
     /\ cache.audio = EncodeIn(opts.segment, Rendered(cache.wavLen, cache.level), 0, cache.frames)

\* The model is given what the samples are encoded to.
Given ==
  pc = "generate" =>
    audio = EncodeIn(opts.segment, Rendered(Len(wav), level), WindowStart(Frames(Len(wav))),
                     Frames(Len(wav)))

Fresh == Current /\ Cached /\ Given /\ last.upTo \in 0 .. Len(wav)

\* The two are the same.
LEMMA EncodeIs ==
  ASSUME NEW frame, NEW from, NEW total
  PROVE  Encode(frame, from, total) = EncodeIn(opts.segment, frame, from, total)
BY DEF Encode, EncodeIn

\* Frames are counted in whole hops.
LEMMA FramesOf ==
  ASSUME NEW n \in Nat
  PROVE  /\ Frames(n) \in Nat
         /\ Frames(n) * Hop \in Nat
         /\ Frames(n) * Hop <= n /\ n < Frames(n) * Hop + Hop
<1>1. Hop \in Nat \ {0}
  BY StreamAssumption
<1>2. QED
  BY <1>1 DEF Frames

\* A multiple grows with its factor.
LEMMA TimesGrows ==
  ASSUME NEW a \in Nat, NEW b \in Nat, NEW h \in Nat, a <= b
  PROVE  a * h \in Nat /\ b * h \in Nat /\ a * h <= b * h
<1>1. b - a \in Nat /\ b = a + (b - a)
  OBVIOUS
<1>2. (b - a) * h \in Nat /\ a * h \in Nat
  BY <1>1
<1>3. b * h = a * h + (b - a) * h
  BY <1>1
<1>4. QED
  BY <1>2, <1>3

\* More samples make more frames.
LEMMA FramesGrow ==
  ASSUME NEW a \in Nat, NEW b \in Nat, a <= b
  PROVE  Frames(a) <= Frames(b)
<1> DEFINE x == Frames(a)
           y == Frames(b)
<1>1. /\ Hop \in Nat \ {0}
      /\ x \in Nat /\ x * Hop \in Nat /\ x * Hop <= a
      /\ y \in Nat /\ y * Hop \in Nat /\ b < y * Hop + Hop
  BY StreamAssumption, FramesOf
<1> HIDE DEF x, y
<1>2. ASSUME y < x
      PROVE  FALSE
  <2>1. y + 1 \in Nat /\ y + 1 <= x
    BY <1>1, <1>2
  <2>2. (y + 1) * Hop <= x * Hop
    BY <1>1, <2>1, TimesGrows
  <2>3. (y + 1) * Hop = y * Hop + Hop
    BY <1>1
  <2>4. QED
    BY <1>1, <2>2, <2>3
<1>3. x <= y
  BY <1>1, <1>2
<1>4. QED
  BY <1>3 DEF x, y

\* A frame that another one follows was computed without any padding.
LEMMA Settled ==
  ASSUME NEW t \in Nat, NEW n \in Nat, t + 2 <= Frames(n)
  PROVE  Frame(t, n) = 0
<1>1. /\ Hop \in Nat /\ HalfWindow \in Nat /\ HalfWindow <= 2 * Hop
  BY StreamAssumption
<1>2. Frames(n) \in Nat /\ Frames(n) * Hop \in Nat /\ Frames(n) * Hop <= n
  BY FramesOf
<1>3. (t + 2) * Hop <= Frames(n) * Hop /\ t + 2 \in Nat
  BY <1>1, <1>2, TimesGrows
<1>4. (t + 2) * Hop = t * Hop + 2 * Hop /\ t * Hop \in Nat
  BY <1>1
<1>5. t * Hop + HalfWindow <= n
  BY <1>1, <1>2, <1>3, <1>4
<1>6. QED
  BY <1>1, <1>4, <1>5 DEF Frame

\* There are as many features as there are frames in the samples.
LEMMA TotalIs ==
  ASSUME Current, wav \in Seq(Nat)
  PROVE  Total = Frames(Len(wav))
<1> DEFINE n == Frames(Len(wav))
<1>1. n \in Nat
  BY FramesOf
<1>2. DOMAIN features = 0 .. n - 1
  BY DEF Current, Rendered
<1> HIDE DEF n
<1>3. Cardinality(0 .. n - 1) = n
  <2>1. /\ 0 \in Int /\ n - 1 \in Int
        /\ (0 > n - 1) <=> n = 0
        /\ (n - 1) - 0 + 1 = n
    BY <1>1
  <2>2. QED
    BY <2>1, FS_Interval
<1>4. QED
  BY <1>2, <1>3 DEF Total, n

\* Computing the last frame and the new ones again, or normalising all of them again,
\* makes the frames of all samples.
LEMMA AppendKeepsCurrent ==
  ASSUME Current, wav \in Seq(Nat), NEW new \in Seq(Nat), AppendSamples(new), opts' = opts
  PROVE  Current'
<1> DEFINE a     == Len(wav)
           b     == Len(wav) + Len(new)
           n     == Frames(a)
           total == Frames(b)
           from  == LessOrZero(n, 1)
<1>1. a \in Nat /\ b \in Nat /\ a <= b
  OBVIOUS
<1>2. n \in Nat /\ total \in Nat /\ n <= total
  BY <1>1, FramesOf, FramesGrow
<1>3. Cardinality(DOMAIN features) = n
  BY TotalIs DEF Total
<1>4. wav' = wav \o new /\ Len(wav') = b
  BY DEF AppendSamples
<1>5. /\ raw' = [t \in 0 .. total - 1 |-> IF t < from THEN raw[t] ELSE Frame(t, b)]
      /\ IF total = 0 THEN level' = -1 ELSE level' \in opts.levels
      /\ features' = [t \in 0 .. total - 1 |->
                        IF t < from /\ level' = level THEN features[t]
                        ELSE <<raw'[t], level'>>]
  BY <1>3 DEF AppendSamples
<1>6. /\ raw = [t \in 0 .. n - 1 |-> Frame(t, a)]
      /\ features = [t \in 0 .. n - 1 |-> <<Frame(t, a), level>>]
  BY DEF Current, Rendered
<1>7. from \in Nat /\ from <= n /\ (from > 0 => from = n - 1)
  BY <1>2 DEF LessOrZero
<1> HIDE DEF a, b, n, total, from
<1>8. ASSUME NEW t \in 0 .. total - 1, t < from
      PROVE  t \in 0 .. n - 1 /\ Frame(t, a) = Frame(t, b)
  <2>1. t \in Nat /\ t + 2 <= n /\ t + 2 <= total
    BY <1>2, <1>7, <1>8
  <2>2. Frame(t, a) = 0
    BY <1>1, <2>1, Settled DEF n
  <2>3. Frame(t, b) = 0
    BY <1>1, <2>1, Settled DEF total
  <2>4. QED
    BY <1>2, <2>1, <2>2, <2>3
<1>9. raw' = [t \in 0 .. total - 1 |-> Frame(t, b)]
  BY <1>5, <1>6, <1>8
<1>10. features' = [t \in 0 .. total - 1 |-> <<Frame(t, b), level'>>]
  BY <1>5, <1>6, <1>8, <1>9
<1>11. level' \in opts.levels \cup {-1} /\ (total > 0 => level' \in opts.levels)
  BY <1>2, <1>5
<1>12. QED
  <2>1. Frames(Len(wav')) = total /\ Len(wav') = b
    BY <1>4 DEF total
  <2>2. QED
    BY <1>9, <1>10, <1>11, <2>1 DEF Current, Rendered

\* Numbers that far from a multiple of the segment are in the same segment as before.
LEMMA SegmentShift ==
  ASSUME NEW s \in Nat \ {0}, NEW k \in Nat, NEW a \in Nat
  PROVE  (a - k * s) \div s = (a \div s) - k
<1> DEFINE q == a \div s
           r == a % s
<1>1. q \in Nat /\ r \in 0 .. s - 1 /\ a = s * q + r
  OBVIOUS
<1> HIDE DEF q, r
<1>2. k * s \in Nat /\ a - k * s = s * (q - k) + r
  BY <1>1
<1>3. (s * (q - k) + r) \div s = q - k
  BY <1>1
<1>4. QED
  BY <1>2, <1>3 DEF q

\* A segment begins at a multiple of its size.
LEMMA SegmentStart ==
  ASSUME NEW s \in Nat \ {0}, NEW a \in Nat, NEW g \in Nat
  PROVE  /\ a \div s \in Nat /\ (a \div s) * s \in Nat /\ (a \div s) * s <= a
         /\ g >= (a \div s) * s <=> g \div s >= a \div s
<1> DEFINE q == a \div s
           p == g \div s
<1>1. q \in Nat /\ p \in Nat
      /\ q * s \in Nat /\ q * s <= a
      /\ p * s \in Nat /\ p * s <= g /\ g < p * s + s
  OBVIOUS
<1> HIDE DEF q, p
<1>2. p >= q => g >= q * s
  BY <1>1, TimesGrows
<1>3. ASSUME p < q
      PROVE  g < q * s
  <2>1. p + 1 \in Nat /\ p + 1 <= q /\ (p + 1) * s = p * s + s
    BY <1>1, <1>3
  <2>2. (p + 1) * s <= q * s
    BY <1>1, <2>1, TimesGrows
  <2>3. QED
    BY <1>1, <2>1, <2>2
<1>4. q \in Nat /\ q * s \in Nat /\ q * s <= a /\ (g >= q * s <=> p >= q)
  BY <1>1, <1>2, <1>3
<1>5. QED
  BY <1>4 DEF q, p

\* Where to start encoding again: a segment starts there, and no frame before it is the
\* last one that was cached.
LEMMA RecomputeWhere ==
  ASSUME opts.segment \in Nat \ {0}, cache.frames \in Nat \ {0}
  PROVE  /\ RecomputeFrom \in Nat /\ RecomputeFrom <= cache.frames - 1
         /\ RecomputeFrom = ((cache.frames - 1) \div opts.segment) * opts.segment
<1>1. LessOrZero(cache.frames, 1) = cache.frames - 1 /\ cache.frames - 1 \in Nat
  BY DEF LessOrZero
<1>2. QED
  BY <1>1, SegmentStart DEF RecomputeFrom

\* What was encoded of old frames and is cached, completed by encoding new ones.
Completed(old, new, total) ==
  [f \in 0 .. total - 1 |->
     IF f < RecomputeFrom THEN Encode(old, 0, cache.frames)[f]
     ELSE Encode(new, RecomputeFrom, total)[f]]

\* Cached segments before RecomputeFrom and encoding from there on are together what
\* encoding all frames would give, if the frames before RecomputeFrom are the same.
LEMMA ExtendingIsFresh ==
  ASSUME opts.segment \in Nat \ {0}, cache.frames \in Nat \ {0}, NEW total \in Nat,
         cache.frames <= total, NEW old, NEW new,
         \A t \in 0 .. RecomputeFrom - 1 : old[t] = new[t]
  PROVE  Completed(old, new, total) = Encode(new, 0, total)
<1> DEFINE s == opts.segment
           c == cache.frames
           q == (c - 1) \div s
           r == RecomputeFrom
<1>1. r \in Nat /\ r <= c - 1 /\ r = q * s
  BY RecomputeWhere
<1>2. s \in Nat \ {0} /\ c \in Nat \ {0} /\ c <= total /\ c - 1 \in Nat
  OBVIOUS
<1>3. q \in Nat /\ \A g \in Nat : g >= r <=> g \div s >= q
  BY <1>1, <1>2, SegmentStart
<1>4. \A g \in Nat : g \div s \in Nat /\ g - 0 = g
  <2>1. ASSUME NEW g \in Nat
        PROVE  g \div s \in Nat
    BY <1>2, SegmentStart
  <2>2. QED
    BY <2>1
<1>whole. opts.segment # 0
  OBVIOUS
<1>5. Encode(old, 0, c) =
        [f \in 0 .. c - 1 |-> [g \in {h \in 0 .. c - 1 : (h - 0) \div s = (f - 0) \div s}
                                 |-> old[g]]]
  BY <1>whole DEF Encode
<1>6. Encode(new, r, total) =
        [f \in r .. total - 1 |->
           [g \in {h \in r .. total - 1 : (h - r) \div s = (f - r) \div s} |-> new[g]]]
  BY <1>whole DEF Encode
<1>7. Encode(new, 0, total) =
        [f \in 0 .. total - 1 |->
           [g \in {h \in 0 .. total - 1 : (h - 0) \div s = (f - 0) \div s} |-> new[g]]]
  BY <1>whole DEF Encode
<1>8. \A t \in 0 .. r - 1 : old[t] = new[t]
  OBVIOUS
<1>9. \A g \in Nat : (g - r) \div s = (g \div s) - q
  BY <1>1, <1>2, <1>3, SegmentShift
<1> HIDE DEF s, c, q, r
<1>10. ASSUME NEW f \in 0 .. total - 1, f < r
       PROVE  Encode(old, 0, c)[f] = Encode(new, 0, total)[f]
  <2> DEFINE before == {h \in 0 .. c - 1 : (h - 0) \div s = (f - 0) \div s}
             now    == {h \in 0 .. total - 1 : (h - 0) \div s = (f - 0) \div s}
  <2>1. f \in 0 .. c - 1 /\ f \in Nat
    BY <1>1, <1>2, <1>10
  <2>2. ASSUME NEW h \in Nat, h \div s = f \div s
        PROVE  h < r
    BY <1>1, <1>3, <1>4, <1>10, <2>1, <2>2
  <2>3. before = now /\ \A h \in before : h \in 0 .. r - 1
    BY <1>1, <1>2, <1>4, <2>1, <2>2
  <2>4. Encode(old, 0, c)[f] = [g \in before |-> old[g]]
    BY <1>5, <2>1
  <2>5. Encode(new, 0, total)[f] = [g \in now |-> new[g]]
    BY <1>7
  <2> HIDE DEF before, now
  <2>6. [g \in before |-> old[g]] = [g \in now |-> new[g]]
    BY <1>8, <2>3
  <2>7. QED
    BY <2>4, <2>5, <2>6
<1>11. ASSUME NEW f \in 0 .. total - 1, ~(f < r)
       PROVE  Encode(new, r, total)[f] = Encode(new, 0, total)[f]
  <2> DEFINE part == {h \in r .. total - 1 : (h - r) \div s = (f - r) \div s}
             all  == {h \in 0 .. total - 1 : (h - 0) \div s = (f - 0) \div s}
  <2>1. f \in r .. total - 1 /\ f \in Nat
    BY <1>1, <1>2, <1>11
  <2>2. ASSUME NEW h \in Nat, h \div s = f \div s
        PROVE  h >= r
    BY <1>1, <1>3, <1>4, <2>1, <2>2
  <2>3. ASSUME NEW h \in Nat
        PROVE  (h - r) \div s = (f - r) \div s <=> h \div s = f \div s
    BY <1>3, <1>4, <1>9, <2>1
  <2>g. ASSUME NEW h
        PROVE  h \in part <=> h \in r .. total - 1 /\ h \div s = f \div s
    <3>1. h \in r .. total - 1 => h \in Nat
      BY <1>1, <1>4
    <3>2. QED
      BY <2>3, <3>1
  <2>h. ASSUME NEW h
        PROVE  h \in all <=> h \in r .. total - 1 /\ h \div s = f \div s
    <3>1. h \in 0 .. total - 1 => h \in Nat /\ h - 0 = h
      OBVIOUS
    <3>2. h \in r .. total - 1 <=> h \in 0 .. total - 1 /\ h >= r
      BY <1>1, <1>4
    <3>3. f - 0 = f
      BY <2>1
    <3>4. QED
      BY <2>2, <3>1, <3>2, <3>3
  <2>4. part = all
    <3>1. \A h : h \in part <=> h \in all
      BY <2>g, <2>h
    <3> HIDE DEF part, all
    <3> QED
      BY ONLY <3>1, Zenon
  <2>5. Encode(new, r, total)[f] = [g \in part |-> new[g]]
    BY <1>6, <2>1
  <2>6. Encode(new, 0, total)[f] = [g \in all |-> new[g]]
    BY <1>7
  <2> HIDE DEF part, all
  <2>7. QED
    BY <2>4, <2>5, <2>6
<1>12. Completed(old, new, total) = [f \in 0 .. total - 1 |-> Encode(new, 0, total)[f]]
  BY <1>10, <1>11 DEF Completed, c, r
<1>13. Encode(new, 0, total) = [f \in 0 .. total - 1 |-> Encode(new, 0, total)[f]]
  BY <1>7
<1>14. QED
  BY <1>12, <1>13

\* Whatever window, segments and cache there are, the encoder is asked for, and the cache
\* completed to, what encoding the frames of all samples would give.
LEMMA FeaturesAreFresh ==
  ASSUME Current, Cached, wav \in Seq(Nat), opts \in Streams, Total # 0
  PROVE  AudioFeatures
           = EncodeIn(opts.segment, Rendered(Len(wav), level), WindowStart(Total), Total)
<1>1. features = Rendered(Len(wav), level)
  BY DEF Current
<1>2. Total = Frames(Len(wav)) /\ Total \in Nat \ {0}
  BY TotalIs, FramesOf
<1>3. opts.segment \in Nat
  BY StreamAssumption DEF Options
<1>4. CASE WindowStart(Total) # 0
  BY <1>1, <1>4, EncodeIs DEF AudioFeatures
<1>5. CASE WindowStart(Total) = 0 /\ opts.segment = 0
  BY <1>1, <1>5, EncodeIs DEF AudioFeatures
<1>6. CASE WindowStart(Total) = 0 /\ opts.segment # 0 /\ CacheHit
  <2>1. cache.frames = Total /\ cache.wavLen = Len(wav) /\ cache.level = level
    BY <1>6 DEF CacheHit
  <2>2. cache # NoCache
    BY <1>2, <2>1 DEF NoCache
  <2>3. cache.audio
          = EncodeIn(opts.segment, Rendered(cache.wavLen, cache.level), 0, cache.frames)
    BY <2>2 DEF Cached
  <2>4. AudioFeatures = cache.audio
    BY <1>6 DEF AudioFeatures
  <2>5. QED
    BY <1>6, <2>1, <2>3, <2>4
<1>7. CASE WindowStart(Total) = 0 /\ opts.segment # 0 /\ ~CacheHit /\ CacheExtends
  <2> DEFINE old == Rendered(cache.wavLen, cache.level)
             r   == RecomputeFrom
             c   == cache.frames
  <2>1. c # 0 /\ cache.level = level /\ c <= Total
    BY <1>7 DEF CacheExtends
  <2>2. cache # NoCache
    BY <2>1 DEF NoCache
  <2>3. /\ cache.wavLen \in Nat /\ c = Frames(cache.wavLen)
        /\ cache.audio = Encode(old, 0, c)
    BY <2>2, EncodeIs DEF Cached
  <2>4. c \in Nat \ {0} /\ opts.segment \in Nat \ {0}
    BY <1>3, <1>7, <2>1, <2>3, FramesOf
  <2>5. r \in Nat /\ r <= c - 1
    BY <2>4, RecomputeWhere
  <2>6. ASSUME NEW t \in 0 .. r - 1
        PROVE  old[t] = features[t]
    <3>1. t \in Nat /\ t + 2 <= c /\ t + 2 <= Total
      BY <1>2, <2>1, <2>4, <2>5
    <3>2. t \in 0 .. Frames(cache.wavLen) - 1 /\ t \in 0 .. Frames(Len(wav)) - 1
      BY <1>2, <2>3, <2>4, <3>1
    <3>3. Frame(t, cache.wavLen) = 0
      BY <2>3, <3>1, Settled
    <3>4. Frame(t, Len(wav)) = 0
      BY <1>2, <3>1, Settled
    <3>5. old[t] = <<Frame(t, cache.wavLen), cache.level>>
      BY <3>2 DEF Rendered
    <3>6. features[t] = <<Frame(t, Len(wav)), level>>
      BY <1>1, <3>2 DEF Rendered
    <3>7. QED
      BY <2>1, <3>3, <3>4, <3>5, <3>6
  <2> HIDE DEF old
  <2>7. AudioFeatures = [f \in 0 .. Total - 1 |->
                           IF f < r THEN cache.audio[f] ELSE Encode(features, r, Total)[f]]
    BY <1>7 DEF AudioFeatures
  <2>8. AudioFeatures = Completed(old, features, Total)
    BY <2>3, <2>7 DEF Completed
  <2>9. Completed(old, features, Total) = Encode(features, 0, Total)
    BY <1>2, <2>1, <2>4, <2>6, ExtendingIsFresh
  <2>10. QED
    BY <1>1, <1>7, <2>8, <2>9, EncodeIs
<1>8. CASE WindowStart(Total) = 0 /\ opts.segment # 0 /\ ~CacheHit /\ ~CacheExtends
  BY <1>1, <1>8, EncodeIs DEF AudioFeatures
<1>9. QED
  BY <1>4, <1>5, <1>6, <1>7, <1>8

\* New samples leave what was cached for the samples before them.
LEMMA AppendKeepsFresh ==
  ASSUME Fresh, wav \in Seq(Nat), NEW new \in Seq(Nat), AppendSamples(new),
         opts' = opts, cache' = cache, last' = last, pc' # "generate"
  PROVE  Fresh'
<1>1. Current'
  BY AppendKeepsCurrent DEF Fresh
<1>2. Len(wav) \in Nat /\ Len(wav') \in Nat /\ Len(wav) <= Len(wav')
  BY DEF AppendSamples
<1>3. Cached'
  <2>1. 0 .. Len(wav) \subseteq 0 .. Len(wav')
    BY <1>2
  <2>2. CASE cache = NoCache
    BY <2>2 DEF Cached, NoCache
  <2>3. CASE cache # NoCache
    BY <2>1, <2>3 DEF Fresh, Cached
  <2>4. QED
    BY <2>2, <2>3
<1>4. last'.upTo \in 0 .. Len(wav')
  BY <1>2 DEF Fresh
<1>5. QED
  BY <1>1, <1>3, <1>4 DEF Fresh, Given

\* Before the first push there are no frames.
LEMMA InitFresh == Init => Fresh
<1> SUFFICES ASSUME Init PROVE Fresh
  OBVIOUS
<1>1. Len(wav) = 0 /\ raw = NoMap /\ features = NoMap /\ level = -1
  BY DEF Init
<1>2. Frames(0) = 0
  BY StreamAssumption DEF Frames
<1>3. 0 .. Frames(Len(wav)) - 1 = {}
  BY <1>1, <1>2
<1>4. Current
  BY <1>1, <1>2, <1>3 DEF Current, Rendered, NoMap
<1>5. Cached /\ Given /\ last.upTo \in 0 .. Len(wav)
  BY <1>1 DEF Init, Cached, Given
<1>6. QED
  BY <1>4, <1>5 DEF Fresh

\* Every step keeps the frames, the cache and what the model is given those of all samples.
LEMMA StepFresh == IInv /\ Fresh /\ [Next]_vars => Fresh'
<1> SUFFICES ASSUME IInv, Fresh, [Next]_vars PROVE Fresh'
  OBVIOUS
<1>0. /\ opts \in Streams /\ wav \in Seq(Nat) /\ buffer \in Seq(Nat)
      /\ offset \in Nat /\ offset <= Len(buffer)
      /\ opts.chunk \in Nat \ {0}
  BY ChunkPositive DEF IInv, Held
<1>1. ASSUME UNCHANGED <<opts, featureVars, cache>>, last'.upTo \in 0 .. Len(wav),
             pc' = "generate" => pc = "generate" /\ audio' = audio
      PROVE  Fresh'
  <2>1. /\ opts' = opts /\ wav' = wav /\ raw' = raw /\ features' = features /\ level' = level
        /\ cache' = cache
    BY <1>1 DEF featureVars
  <2>2. Current'
    BY <2>1 DEF Fresh, Current, Rendered
  <2>3. Cached'
    BY <2>1 DEF Fresh, Cached
  <2>4. Given'
    BY <1>1, <2>1 DEF Fresh, Given, WindowStart
  <2>5. QED
    BY <1>1, <2>1, <2>2, <2>3, <2>4 DEF Fresh
<1>2. last.upTo \in 0 .. Len(wav)
  BY DEF Fresh
<1>3. ASSUME NEW n \in 1 .. MaxPush, Push(n)
      PROVE  Fresh'
  BY <1>1, <1>2, <1>3 DEF Push, textVars
<1>4. CASE NextChunk
  <2>1. SubSeq(buffer, offset + 1, offset + opts.chunk) \in Seq(Nat)
    BY <1>0, <1>4 DEF NextChunk
  <2>2. QED
    BY <1>0, <1>4, <2>1, AppendKeepsFresh DEF NextChunk, ClearWhileWarming
<1>5. CASE EndPush
  BY <1>1, <1>2, <1>5 DEF EndPush, textVars
<1>6. CASE FinishTail
  <2>1. SubSeq(buffer, offset + 1, Len(buffer)) \in Seq(Nat)
    BY <1>0
  <2>2. QED
    BY <1>0, <1>6, <2>1, AppendKeepsFresh DEF FinishTail, ClearWhileWarming
<1>7. CASE FinishEmpty
  BY <1>1, <1>2, <1>7 DEF FinishEmpty, textVars
<1>8. CASE ComputeAudio
  <2>1. /\ opts' = opts /\ wav' = wav /\ raw' = raw /\ features' = features /\ level' = level
        /\ last' = last /\ audio' = AudioFeatures /\ Total # 0
        /\ cache' = IF WindowStart(Total) # 0 THEN NoCache
                    ELSE IF opts.segment = 0 THEN cache
                    ELSE [frames |-> Total, wavLen |-> Len(wav), level |-> level,
                          audio |-> AudioFeatures]
    BY <1>8 DEF ComputeAudio, featureVars, textVars
  <2>2. Total = Frames(Len(wav))
    BY <1>0, TotalIs DEF Fresh
  <2>3. AudioFeatures
          = EncodeIn(opts.segment, Rendered(Len(wav), level), WindowStart(Total), Total)
    BY <1>0, <2>1, FeaturesAreFresh DEF Fresh
  <2>4. Current'
    BY <2>1 DEF Fresh, Current, Rendered
  <2>5. Given'
    BY <2>1, <2>2, <2>3 DEF Given, WindowStart
  <2>6. Cached'
    <3>1. CASE cache' = NoCache
      BY <3>1 DEF Cached
    <3>2. CASE cache' = cache
      BY <2>1, <3>2 DEF Fresh, Cached
    <3>3. CASE WindowStart(Total) = 0 /\ opts.segment # 0
      <4>1. /\ cache'.frames = Total /\ cache'.wavLen = Len(wav) /\ cache'.level = level
            /\ cache'.audio = EncodeIn(opts.segment, Rendered(Len(wav), level), 0, Total)
        BY <2>1, <2>3, <3>3
      <4>2. Len(wav) \in 0 .. Len(wav')
        BY <1>0, <2>1
      <4>3. QED
        BY <2>1, <2>2, <3>3, <4>1, <4>2 DEF Cached
    <3>4. QED
      BY <2>1, <3>1, <3>2, <3>3
  <2>7. QED
    BY <1>2, <2>1, <2>4, <2>5, <2>6 DEF Fresh
<1>9. CASE Generate
  <2>1. last'.upTo = Len(wav) /\ pc' \in {"finished", "loop"}
    BY <1>9 DEF Generate, GenerateRaw, GenerateRolling, AfterDecode
  <2>2. UNCHANGED <<opts, featureVars, cache>>
    BY <1>9 DEF Generate
  <2>3. Len(wav) \in 0 .. Len(wav)
    BY <1>0
  <2>4. QED
    BY <1>1, <2>1, <2>2, <2>3
<1>10. CASE DecodeFails
  <2>1. /\ UNCHANGED <<opts, featureVars, last>> /\ pc' \in {"error", "idle"}
        /\ cache' \in {cache, NoCache}
    BY <1>10 DEF DecodeFails, textVars
  <2>2. CASE cache' = cache
    BY <1>1, <1>2, <2>1, <2>2
  <2>3. CASE cache' = NoCache
    <3>1. Current'
      BY <2>1 DEF Fresh, Current, Rendered, featureVars
    <3>2. Cached' /\ Given'
      BY <2>1, <2>3 DEF Cached, Given
    <3>3. QED
      BY <1>2, <2>1, <3>1, <3>2 DEF Fresh, featureVars
  <2>4. QED
    BY <2>1, <2>2, <2>3
<1>11. CASE UNCHANGED vars
  BY <1>1, <1>2, <1>11 DEF vars, textVars
<1>12. QED
  BY <1>3, <1>4, <1>5, <1>6, <1>7, <1>8, <1>9, <1>10, <1>11 DEF Next

\* The audio the model is given is what encoding all samples so far from scratch would
\* give, for every window, segment and loudest value, whatever failed before
\* (audio_features_for_step).
THEOREM AudioAlwaysFresh == Spec => []AudioIsFresh
<1>1. Spec => []Fresh
  <2>1. Init => Fresh
    BY InitFresh
  <2>2. IInv /\ Fresh /\ [Next]_vars => Fresh'
    BY StepFresh
  <2>3. QED
    BY <2>1, <2>2, AlwaysInv, PTL DEF Spec
<1>2. IInv /\ Fresh => AudioIsFresh
  <2> SUFFICES ASSUME IInv, Fresh PROVE AudioIsFresh
    OBVIOUS
  <2>1. wav \in Seq(Nat) /\ Total = Frames(Len(wav)) /\ Total \in Nat
    BY TotalIs, FramesOf DEF IInv, Held, Fresh
  <2>2. /\ DOMAIN raw = 0 .. Frames(Len(wav)) - 1 /\ DOMAIN features = DOMAIN raw
        /\ \A t \in DOMAIN features : features[t][1] = raw[t] /\ features[t][2] \in opts.levels
    <3>1. /\ raw = [t \in 0 .. Total - 1 |-> Frame(t, Len(wav))]
          /\ features = [t \in 0 .. Total - 1 |-> <<Frame(t, Len(wav)), level>>]
          /\ Total > 0 => level \in opts.levels
      BY <2>1 DEF Fresh, Current, Rendered
    <3>2. QED
      BY <2>1, <3>1
  <2>3. cache.frames \in 0 .. Total /\ DOMAIN cache.audio = 0 .. cache.frames - 1
    <3>1. CASE cache = NoCache
      BY <2>1, <3>1 DEF NoCache
    <3>2. CASE cache # NoCache
      <4>1. /\ cache.wavLen \in Nat /\ cache.wavLen <= Len(wav) /\ Len(wav) \in Nat
            /\ cache.frames = Frames(cache.wavLen)
            /\ cache.audio = EncodeIn(opts.segment, Rendered(cache.wavLen, cache.level), 0,
                                     cache.frames)
        BY <2>1, <3>2 DEF Fresh, Cached
      <4>2. cache.frames \in Nat /\ cache.frames <= Total
        BY <2>1, <4>1, FramesOf, FramesGrow
      <4>3. DOMAIN cache.audio = 0 .. cache.frames - 1
        BY <4>1 DEF EncodeIn
      <4>4. QED
        BY <2>1, <4>2, <4>3
    <3>3. QED
      BY <3>1, <3>2
  <2>4. AudioTyped
    BY <2>2, <2>3 DEF IInv, Held, Fresh, Current, AudioTyped
  <2>5. QED
    BY <2>4, EncodeIs DEF Fresh, Given, Rendered, AudioIsFresh
<1>3. QED
  BY <1>1, <1>2, AlwaysInv, PTL

--------------------------------------------------------------------------------
\* The text, place by place.

CharAt(ids, i) ==
  IF ids[i] = "whole" THEN "whole"
  ELSE IF ids[i] = "first" /\ i < Len(ids) /\ ids[i+1] = "second" THEN "joined"
  ELSE IF ids[i] = "second" /\ i > 1 /\ ids[i-1] = "first" THEN "rest"
  ELSE "bad"

\* A sequence is its elements.
LEMMA SameElements ==
  ASSUME NEW S, NEW s \in Seq(S), NEW t \in Seq(S), Len(s) = Len(t),
         \A i \in 1 .. Len(s) : s[i] = t[i]
  PROVE  s = t
<1>1. s = [i \in 1 .. Len(s) |-> s[i]] /\ t = [i \in 1 .. Len(s) |-> t[i]]
  OBVIOUS
<1>2. QED
  BY <1>1

\* What a concatenation of sequences holds, ...
LEMMA Joined ==
  ASSUME NEW S, NEW s \in Seq(S), NEW t \in Seq(S)
  PROVE  /\ s \o t \in Seq(S) /\ Len(s \o t) = Len(s) + Len(t)
         /\ Len(s) \in Nat /\ Len(t) \in Nat
         /\ \A i \in 1 .. Len(s) : (s \o t)[i] = s[i]
         /\ \A i \in Len(s) + 1 .. Len(s) + Len(t) : (s \o t)[i] = t[i - Len(s)]
OBVIOUS

\* ... its first elements, and those after them.
LEMMA FirstOnes ==
  ASSUME NEW S, NEW s \in Seq(S), NEW n \in 0 .. Len(s)
  PROVE  /\ First(s, n) \in Seq(S) /\ Len(First(s, n)) = n
         /\ \A i \in 1 .. n : First(s, n)[i] = s[i]
BY DEF First

LEMMA OtherOnes ==
  ASSUME NEW S, NEW s \in Seq(S), NEW n \in 0 .. Len(s)
  PROVE  /\ SubSeq(s, n + 1, Len(s)) \in Seq(S)
         /\ Len(SubSeq(s, n + 1, Len(s))) = Len(s) - n
         /\ \A i \in 1 .. Len(s) - n : SubSeq(s, n + 1, Len(s))[i] = s[n + i]
OBVIOUS

\* Together they are the sequence.
LEMMA CutInTwo ==
  ASSUME NEW S, NEW s \in Seq(S), NEW n \in 0 .. Len(s)
  PROVE  First(s, n) \o SubSeq(s, n + 1, Len(s)) = s
<1> DEFINE a == First(s, n)
           b == SubSeq(s, n + 1, Len(s))
           ab == a \o b
<1>1. /\ a \in Seq(S) /\ Len(a) = n /\ \A i \in 1 .. n : a[i] = s[i]
      /\ n \in Nat /\ Len(s) \in Nat /\ n <= Len(s)
  BY FirstOnes
<1>2. b \in Seq(S) /\ Len(b) = Len(s) - n /\ \A i \in 1 .. Len(s) - n : b[i] = s[n + i]
  BY OtherOnes
<1> HIDE DEF a, b
<1>3. /\ ab \in Seq(S) /\ Len(ab) = Len(a) + Len(b)
      /\ \A i \in 1 .. Len(a) : ab[i] = a[i]
      /\ \A i \in Len(a) + 1 .. Len(a) + Len(b) : ab[i] = b[i - Len(a)]
  <2>1. a \in Seq(S) /\ b \in Seq(S)
    BY <1>1, <1>2
  <2>2. QED
    BY ONLY <2>1, Joined
<1> HIDE DEF ab
<1>4. ASSUME NEW i \in 1 .. Len(s) PROVE ab[i] = s[i]
  <2>1. CASE i <= n
    <3>1. i \in 1 .. n /\ i \in 1 .. Len(a)
      BY <1>1, <2>1
    <3>2. QED
      BY <1>1, <1>3, <3>1
  <2>2. CASE i > n
    <3>1. i - n \in 1 .. Len(s) - n /\ n + (i - n) = i /\ i \in n + 1 .. n + (Len(s) - n)
      BY <1>1, <2>2
    <3>2. ab[i] = b[i - n] /\ b[i - n] = s[n + (i - n)]
      BY <1>1, <1>2, <1>3, <3>1
    <3>3. QED
      BY <3>1, <3>2
  <2>3. QED
    BY <1>1, <2>1, <2>2
<1>5. Len(ab) = Len(s)
  BY <1>1, <1>2, <1>3
<1>6. ab = s
  BY <1>3, <1>4, <1>5, SameElements
<1>7. QED
  BY <1>6 DEF a, b, ab

\* A concatenation of three.
LEMMA JoinedThrice ==
  ASSUME NEW S, NEW s \in Seq(S), NEW t \in Seq(S), NEW u \in Seq(S)
  PROVE  (s \o t) \o u = s \o (t \o u)
OBVIOUS

\* A text has a place for each token.
LEMMA DecodeIs ==
  ASSUME NEW ids \in Seq(Tokens)
  PROVE  /\ Decode(ids) \in Seq(Chars) /\ Len(Decode(ids)) = Len(ids) /\ Len(ids) \in Nat
         /\ \A i \in 1 .. Len(ids) : Decode(ids)[i] = CharAt(ids, i)
<1>1. DOMAIN ids = 1 .. Len(ids) /\ Len(ids) \in Nat
  BY LenProperties
<1>2. Decode(ids) = [i \in 1 .. Len(ids) |-> CharAt(ids, i)]
  BY <1>1 DEF Decode, CharAt
<1>3. \A i \in 1 .. Len(ids) : CharAt(ids, i) \in Chars
  BY DEF CharAt, Chars
<1> HIDE DEF CharAt
<1>4. QED
  BY <1>1, <1>2, <1>3

\* Encoding a text goes back to the tokens, except for those it has no character for.
LEMMA TokensOfIs ==
  ASSUME NEW text \in Seq(Chars)
  PROVE  /\ TokensOf(text) \in Seq(Tokens) /\ Len(TokensOf(text)) = Len(text)
         /\ Len(text) \in Nat
         /\ \A i \in 1 .. Len(text) :
              TokensOf(text)[i] = IF text[i] = "joined" THEN "first"
                                  ELSE IF text[i] = "rest" THEN "second" ELSE text[i]
<1>1. DOMAIN text = 1 .. Len(text) /\ Len(text) \in Nat
  BY LenProperties
<1> DEFINE token(i) == IF text[i] = "joined" THEN "first"
                       ELSE IF text[i] = "rest" THEN "second" ELSE text[i]
<1>2. TokensOf(text) = [i \in 1 .. Len(text) |-> token(i)]
  BY <1>1 DEF TokensOf
<1>3. \A i \in 1 .. Len(text) : token(i) \in Tokens
  BY <1>1 DEF Chars, Tokens
<1>4. \A i \in 1 .. Len(text) : TokensOf(text)[i] = token(i)
  BY <1>2
<1>5. TokensOf(text) \in Seq(Tokens) /\ Len(TokensOf(text)) = Len(text)
  <2> HIDE DEF token
  <2> QED
    BY <1>1, <1>2, <1>3
<1>6. QED
  BY <1>1, <1>4, <1>5

\* Between two tokens that are not halves of one character the text can be cut.
LEMMA DecodeJoined ==
  ASSUME NEW a \in Seq(Tokens), NEW b \in Seq(Tokens),
         a # <<>> => a[Len(a)] # "first"
  PROVE  Decode(a \o b) = Decode(a) \o Decode(b)
<1> DEFINE ab == a \o b
           left == Decode(a)
           right == Decode(b)
<1>1. /\ ab \in Seq(Tokens) /\ Len(ab) = Len(a) + Len(b)
      /\ Len(a) \in Nat /\ Len(b) \in Nat
      /\ \A i \in 1 .. Len(a) : ab[i] = a[i]
      /\ \A i \in Len(a) + 1 .. Len(a) + Len(b) : ab[i] = b[i - Len(a)]
  BY Joined
<1> HIDE DEF ab
<1>2. /\ Decode(ab) \in Seq(Chars) /\ Len(Decode(ab)) = Len(ab)
      /\ \A i \in 1 .. Len(ab) : Decode(ab)[i] = CharAt(ab, i)
  BY <1>1, DecodeIs
<1>3. /\ left \in Seq(Chars) /\ Len(left) = Len(a)
      /\ \A i \in 1 .. Len(a) : left[i] = CharAt(a, i)
  BY DecodeIs
<1>4. /\ right \in Seq(Chars) /\ Len(right) = Len(b)
      /\ \A i \in 1 .. Len(b) : right[i] = CharAt(b, i)
  BY DecodeIs
<1> HIDE DEF left, right
<1> DEFINE both == left \o right
<1>5. /\ both \in Seq(Chars) /\ Len(both) = Len(a) + Len(b)
      /\ \A i \in 1 .. Len(a) : both[i] = left[i]
      /\ \A i \in Len(a) + 1 .. Len(a) + Len(b) : both[i] = right[i - Len(a)]
  <2>1. left \in Seq(Chars) /\ right \in Seq(Chars)
    BY <1>3, <1>4
  <2>2. /\ both \in Seq(Chars) /\ Len(both) = Len(left) + Len(right)
        /\ \A i \in 1 .. Len(left) : both[i] = left[i]
        /\ \A i \in Len(left) + 1 .. Len(left) + Len(right) : both[i] = right[i - Len(left)]
    BY ONLY <2>1, Joined
  <2> HIDE DEF both
  <2>3. QED
    BY <1>3, <1>4, <2>2
<1> HIDE DEF both
<1>6. Len(a) > 0 => a[Len(a)] # "first"
  OBVIOUS
<1>7. ASSUME NEW i \in 1 .. Len(a) PROVE CharAt(ab, i) = CharAt(a, i)
  <2>1. ab[i] = a[i] /\ i \in Nat
    BY <1>1
  <2>2. i > 1 => ab[i-1] = a[i-1]
    <3>1. i > 1 => i - 1 \in 1 .. Len(a)
      BY <1>1
    <3>2. QED
      BY <1>1, <3>1
  <2>3. i < Len(a) => ab[i+1] = a[i+1]
    <3>1. i < Len(a) => i + 1 \in 1 .. Len(a)
      BY <1>1
    <3>2. QED
      BY <1>1, <3>1
  <2>4. i < Len(a) => i < Len(ab)
    BY <1>1
  <2>5. CASE i < Len(a)
    BY <2>1, <2>2, <2>3, <2>4, <2>5 DEF CharAt
  <2>6. CASE i = Len(a)
    <3>1. a[i] # "first" /\ ~(i < Len(a))
      BY <1>6, <2>1, <2>6
    <3>2. QED
      BY <2>1, <2>2, <3>1 DEF CharAt
  <2>7. QED
    BY <1>1, <2>5, <2>6
<1>8. ASSUME NEW i \in Len(a) + 1 .. Len(a) + Len(b) PROVE CharAt(ab, i) = CharAt(b, i - Len(a))
  <2> DEFINE j == i - Len(a)
  <2>1. j \in 1 .. Len(b) /\ j \in Nat /\ i = Len(a) + j /\ i \in Nat /\ (j > 1 => i > 1)
        /\ (i < Len(ab) <=> j < Len(b))
    BY <1>1
  <2>2. ab[i] = b[j]
    BY <1>1
  <2>3. j > 1 => ab[i-1] = b[j-1]
    <3>1. j > 1 => i - 1 \in Len(a) + 1 .. Len(a) + Len(b) /\ (i - 1) - Len(a) = j - 1
      BY <1>1, <2>1
    <3>2. QED
      BY <1>1, <3>1
  <2>4. j < Len(b) => ab[i+1] = b[j+1]
    <3>1. j < Len(b) => i + 1 \in Len(a) + 1 .. Len(a) + Len(b) /\ (i + 1) - Len(a) = j + 1
      BY <1>1, <2>1
    <3>2. QED
      BY <1>1, <3>1
  <2>5. j = 1 /\ i > 1 => ab[i-1] # "first"
    <3>1. j = 1 /\ i > 1 => i - 1 = Len(a) /\ Len(a) > 0 /\ Len(a) \in 1 .. Len(a)
      BY <1>1, <2>1
    <3>2. QED
      BY <1>1, <1>6, <3>1
  <2> HIDE DEF j
  <2>6. i > 1 /\ ab[i-1] = "first" <=> j > 1 /\ b[j-1] = "first"
    BY <2>1, <2>3, <2>5
  <2>7. i < Len(ab) /\ ab[i+1] = "second" <=> j < Len(b) /\ b[j+1] = "second"
    BY <2>1, <2>4
  <2>8. CharAt(ab, i) = CharAt(b, j)
    BY <2>2, <2>6, <2>7 DEF CharAt
  <2>9. QED
    BY <2>8 DEF j
<1>9. ASSUME NEW i \in 1 .. Len(ab) PROVE Decode(ab)[i] = both[i]
  <2>1. CASE i <= Len(a)
    <3>1. i \in 1 .. Len(a)
      BY <1>1, <2>1
    <3>2. QED
      BY <1>2, <1>3, <1>5, <1>7, <3>1
  <2>2. CASE i > Len(a)
    <3>1. i \in Len(a) + 1 .. Len(a) + Len(b) /\ i - Len(a) \in 1 .. Len(b)
      BY <1>1, <2>2
    <3>2. Decode(ab)[i] = CharAt(b, i - Len(a))
      BY <1>1, <1>2, <1>8, <3>1
    <3>3. both[i] = CharAt(b, i - Len(a))
      BY <1>4, <1>5, <3>1
    <3>4. QED
      BY <3>2, <3>3
  <2>3. QED
    BY <1>1, <2>1, <2>2
<1>10. Decode(ab) = both
  BY <1>1, <1>2, <1>5, <1>9, SameElements
<1>11. QED
  BY <1>10 DEF ab, left, right, both

--------------------------------------------------------------------------------
\* What is committed and what is kept.

\* The committed tokens do not end with the first half of a character, so their text stays
\* what it is whatever follows; during the warm-up there are none.
Texted ==
  /\ rawDecoded \in Seq(Chars) /\ tail \in Seq(Tokens) /\ committedIds \in Seq(Tokens)
  /\ committed = Decode(committedIds)
  /\ committedIds # <<>> => committedIds[Len(committedIds)] # "first"
  /\ Warming \/ ~Rolling => committedIds = <<>>

\* Each decoding is for more samples than the last.
Counted ==
  /\ pushed <= MaxSamples
  /\ chunkId \in Nat
  /\ IF pc \in {"audio", "generate"} THEN chunkId < Len(wav) ELSE chunkId <= Len(wav)

\* The options count their tokens and chunks.
LEMMA OptionsAre ==
  ASSUME NEW o \in Streams
  PROVE  /\ o.unfixedTokens \in Nat /\ o.unfixedChunks \in Nat /\ o.keep \in Nat
         /\ \A answer \in o.answers : answer \in Seq(Tokens)
BY StreamAssumption DEF Options, Tokens

\* A set of numbers up to a bound has a greatest one, which is its Max.
LEMMA GreatestOf ==
  ASSUME NEW n \in Nat, NEW S \in SUBSET (0 .. n), S # {}
  PROVE  Max(S) \in S /\ \A y \in S : Max(S) >= y
<1> DEFINE below == OpToRel(<, Nat)
           gaps == {n - x : x \in S}
<1>1. IsWellFoundedOn(below, Nat)
  BY NatLessThanWellFounded
<1>2. \A x, y \in Nat : y < x => <<y, x>> \in below
  BY DEF OpToRel
<1>3. gaps \in SUBSET Nat /\ gaps # {}
  <2>1. ASSUME NEW x \in S PROVE n - x \in Nat
    <3>1. x \in 0 .. n
      OBVIOUS
    <3>2. QED
      BY <3>1
  <2>2. QED
    BY <2>1
<1> HIDE DEF below
<1>4. PICK g \in gaps : \A h \in gaps : ~(<<h, g>> \in below)
  <2> HIDE DEF gaps
  <2> QED
    BY <1>1, <1>3, WFMin
<1>5. \A h \in gaps : ~(h < g)
  BY <1>2, <1>3, <1>4
<1>6. PICK x \in S : g = n - x
  BY <1>4
<1>7. \A y \in S : x >= y
  BY <1>5, <1>6
<1>8. QED
  BY <1>7 DEF Max

\* maybe_commit_windowed_text leaves the tail at least its tokens, ends at no first half,
\* and commits nothing during the warm-up.
LEMMA CommitLengthIs ==
  ASSUME NEW ids \in Seq(Tokens), NEW chunk \in Nat, opts \in Streams
  PROVE  /\ CommitLength(ids, chunk) \in 0 .. Len(ids)
         /\ chunk < opts.unfixedChunks => CommitLength(ids, chunk) = 0
         /\ CommitLength(ids, chunk) # 0 => ids[CommitLength(ids, chunk)] # "first"
<1>1. Len(ids) \in Nat /\ opts.keep \in Nat /\ opts.unfixedChunks \in Nat
  BY OptionsAre, LenProperties
<1>2. CASE chunk < opts.unfixedChunks
  BY <1>1, <1>2 DEF CommitLength
<1>3. CASE ~(chunk < opts.unfixedChunks)
  <2> DEFINE S == {0} \cup {n \in 1 .. LessOrZero(Len(ids), opts.keep) :
                              Last(Decode(First(ids, n))) # "bad"}
             c == Max(S)
  <2>1. CommitLength(ids, chunk) = c
    BY <1>3 DEF CommitLength
  <2>2. LessOrZero(Len(ids), opts.keep) \in 0 .. Len(ids)
    BY <1>1 DEF LessOrZero
  <2>3. S \in SUBSET (0 .. Len(ids)) /\ S # {}
    BY <1>1, <2>2
  <2>4. c \in S
    <3> HIDE DEF S
    <3> QED
      BY <1>1, <2>3, GreatestOf
  <2>5. ASSUME c # 0 PROVE ids[c] # "first"
    <3>1. c \in 1 .. LessOrZero(Len(ids), opts.keep) /\ Last(Decode(First(ids, c))) # "bad"
      BY <2>4, <2>5
    <3> HIDE DEF c
    <3>2. c \in 1 .. Len(ids) /\ c \in 0 .. Len(ids) /\ c \in Nat /\ c >= 1
      BY <1>1, <2>2, <3>1
    <3> DEFINE part == First(ids, c)
    <3>3. part \in Seq(Tokens) /\ Len(part) = c /\ part[c] = ids[c]
      BY <3>2, FirstOnes
    <3> HIDE DEF part
    <3>4. /\ Len(Decode(part)) = c
          /\ \A i \in 1 .. c : Decode(part)[i] = CharAt(part, i)
      BY <3>3, DecodeIs
    <3>5. CharAt(part, c) # "bad"
      BY <3>1, <3>2, <3>4 DEF Last, part
    <3>6. part[c] # "first"
      BY <3>2, <3>3, <3>5 DEF CharAt
    <3>7. QED
      BY <3>3, <3>6
  <2> HIDE DEF S, c
  <2>6. QED
    BY <1>3, <2>1, <2>3, <2>4, <2>5
<1>4. QED
  BY <1>2, <1>3

\* The prefix the model continues is the first of the ids, as many as leave
\* unfixed_token_num of them, and fewer only to leave no split character.
LEMMA WholePrefixIs ==
  ASSUME NEW ids \in Seq(Tokens), opts \in Streams
  PROVE  \E m \in 0 .. Len(ids) :
           /\ WholePrefix(ids) = First(ids, m)
           /\ ~Broken(First(ids, m))
           /\ ~Warming => \A n \in 0 .. LessOrZero(Len(ids), opts.unfixedTokens) :
                            ~Broken(First(ids, n)) => n <= m
<1>1. Len(ids) \in Nat /\ opts.unfixedTokens \in Nat
  BY OptionsAre, LenProperties
<1>2. ~Broken(First(ids, 0)) /\ First(ids, 0) = <<>> /\ 0 \in 0 .. Len(ids)
  <2>1. First(ids, 0) \in Seq(Tokens) /\ Len(First(ids, 0)) = 0
    BY <1>1, FirstOnes
  <2>2. First(ids, 0) = <<>>
    BY <2>1
  <2>3. Len(Decode(First(ids, 0))) = 0 /\ Decode(First(ids, 0)) \in Seq(Chars)
    BY <2>1, DecodeIs
  <2>4. Decode(First(ids, 0)) = <<>>
    BY <2>3
  <2>5. QED
    BY <1>1, <2>2, <2>4 DEF Broken, Range
<1>3. CASE Warming
  BY <1>2, <1>3 DEF WholePrefix
<1>4. CASE ~Warming
  <2> DEFINE S == {n \in 0 .. LessOrZero(Len(ids), opts.unfixedTokens) : ~Broken(First(ids, n))}
             m == Max(S)
  <2>1. WholePrefix(ids) = First(ids, m)
    BY <1>4 DEF WholePrefix
  <2>2. LessOrZero(Len(ids), opts.unfixedTokens) \in 0 .. Len(ids)
    BY <1>1 DEF LessOrZero
  <2>3. S \in SUBSET (0 .. Len(ids)) /\ S # {}
    BY <1>1, <1>2, <2>2
  <2>4. m \in S /\ \A y \in S : m >= y
    <3> HIDE DEF S
    <3> QED
      BY <1>1, <2>3, GreatestOf
  <2> HIDE DEF m
  <2>5. /\ m \in 0 .. Len(ids) /\ ~Broken(First(ids, m))
        /\ \A n \in 0 .. LessOrZero(Len(ids), opts.unfixedTokens) :
             ~Broken(First(ids, n)) => n <= m
    BY <1>1, <2>2, <2>3, <2>4
  <2>6. QED
    BY <2>1, <2>5
<1>5. QED
  BY <1>3, <1>4

LEMMA FinishPrefixIs ==
  ASSUME NEW ids \in Seq(Tokens), opts \in Streams
  PROVE  \E m \in 0 .. Len(ids) :
           /\ FinishPrefix(ids) = First(ids, m)
           /\ ~Warming => LessOrZero(Len(ids), opts.unfixedTokens) <= m
<1>1. Len(ids) \in Nat /\ opts.unfixedTokens \in Nat
  BY OptionsAre, LenProperties
<1>2. CASE Warming
  <2>1. First(ids, 0) \in Seq(Tokens) /\ Len(First(ids, 0)) = 0
    BY <1>1, FirstOnes
  <2>2. First(ids, 0) = <<>>
    BY <2>1
  <2>3. QED
    BY <1>1, <1>2, <2>2 DEF FinishPrefix
<1>3. CASE ~Warming
  <2> DEFINE least == Min({1, Len(ids)})
             S == {LessOrZero(Len(ids), opts.unfixedTokens), least}
             m == Max(S)
  <2>1. FinishPrefix(ids) = First(ids, m)
    BY <1>3 DEF FinishPrefix
  <2>2. LessOrZero(Len(ids), opts.unfixedTokens) \in 0 .. Len(ids)
    BY <1>1 DEF LessOrZero
  <2>3. least \in 0 .. Len(ids)
    <3>1. \E x \in {1, Len(ids)} : \A y \in {1, Len(ids)} : x <= y
      BY <1>1
    <3>2. least \in {1, Len(ids)} /\ least <= 1 /\ least <= Len(ids)
      BY <3>1 DEF Min
    <3>3. QED
      BY <1>1, <3>2
  <2>4. S \in SUBSET (0 .. Len(ids)) /\ S # {}
    BY <2>2, <2>3
  <2>5. m \in S /\ \A y \in S : m >= y
    <3> HIDE DEF S
    <3> QED
      BY <1>1, <2>4, GreatestOf
  <2>6. m \in 0 .. Len(ids) /\ LessOrZero(Len(ids), opts.unfixedTokens) <= m
    <3> HIDE DEF m, least
    <3> QED
      BY <1>1, <2>2, <2>4, <2>5
  <2> HIDE DEF m
  <2>7. QED
    BY <2>1, <2>6
<1>4. QED
  BY <1>2, <1>3

\* Either way the prefix is some of the first tokens.
LEMMA PrefixOfIs ==
  ASSUME NEW ids \in Seq(Tokens), opts \in Streams
  PROVE  \E m \in 0 .. Len(ids) : PrefixOf(ids) = First(ids, m) /\ PrefixOf(ids) \in Seq(Tokens)
<1>1. PICK m \in 0 .. Len(ids) : PrefixOf(ids) = First(ids, m)
  <2>1. CASE closing
    BY <2>1, FinishPrefixIs DEF PrefixOf
  <2>2. CASE ~closing
    BY <2>2, WholePrefixIs DEF PrefixOf
  <2>3. QED
    BY <2>1, <2>2
<1>2. First(ids, m) \in Seq(Tokens)
  BY FirstOnes
<1>3. QED
  BY <1>1, <1>2

\* A chunk in the rolling window commits the first of its tokens, and all tokens of the
\* chunk are committed or kept.
LEMMA RollingSplits ==
  ASSUME Texted, opts \in Streams, chunkId \in Nat, NEW answer \in Seq(Tokens),
         GenerateRolling(answer)
  PROVE  /\ committedIds' \in Seq(Tokens) /\ tail' \in Seq(Tokens)
         /\ committed' = Decode(committedIds')
         /\ committedIds' # <<>> => committedIds'[Len(committedIds')] # "first"
         /\ chunkId + 1 < opts.unfixedChunks => committedIds' = committedIds
         /\ committedIds' \o tail' = committedIds \o (PrefixOf(tail) \o answer)
         /\ rawDecoded' = rawDecoded
         /\ \E more \in Seq(Chars) : committed' = committed \o more
<1>1. /\ tail \in Seq(Tokens) /\ committedIds \in Seq(Tokens) /\ committed = Decode(committedIds)
      /\ committedIds # <<>> => committedIds[Len(committedIds)] # "first"
  BY DEF Texted
<1>2. PrefixOf(tail) \in Seq(Tokens)
  BY <1>1, PrefixOfIs
<1>3. PICK ids \in Seq(Tokens) : ids = PrefixOf(tail) \o answer
  <2>1. PrefixOf(tail) \o answer \in Seq(Tokens)
    BY ONLY <1>2, answer \in Seq(Tokens), Joined
  <2>2. QED
    BY <2>1
<1>4. PICK n \in 0 .. Len(ids) : n = CommitLength(ids, chunkId + 1)
  <2>1. chunkId + 1 \in Nat
    OBVIOUS
  <2>2. CommitLength(ids, chunkId + 1) \in 0 .. Len(ids)
    BY <2>1, CommitLengthIs
  <2>3. QED
    BY <2>2
<1>5. /\ n # 0 => ids[n] # "first"
      /\ chunkId + 1 < opts.unfixedChunks => n = 0
  <2>1. chunkId + 1 \in Nat
    OBVIOUS
  <2>2. QED
    BY <1>4, <2>1, CommitLengthIs
<1>6. /\ committed' = committed \o Decode(First(ids, n))
      /\ committedIds' = committedIds \o First(ids, n)
      /\ tail' = SubSeq(ids, n + 1, Len(ids))
      /\ rawDecoded' = rawDecoded
  BY <1>3, <1>4 DEF GenerateRolling
<1> DEFINE part == First(ids, n)
           rest == SubSeq(ids, n + 1, Len(ids))
<1>7. /\ part \in Seq(Tokens) /\ Len(part) = n /\ (\A i \in 1 .. n : part[i] = ids[i])
      /\ rest \in Seq(Tokens) /\ part \o rest = ids
  BY FirstOnes, OtherOnes, CutInTwo
<1>8. committed' = committed \o Decode(part) /\ committedIds' = committedIds \o part /\ tail' = rest
  BY <1>6
<1> HIDE DEF part, rest
<1>9. committed' = Decode(committedIds')
  BY <1>1, <1>7, <1>8, DecodeJoined
<1>10. committedIds' \in Seq(Tokens) /\ tail' \in Seq(Tokens)
  BY <1>1, <1>7, <1>8
<1>11. n = 0 => committedIds' = committedIds
  BY <1>1, <1>7, <1>8
<1>12. committedIds' # <<>> => committedIds'[Len(committedIds')] # "first"
  <2>1. CASE n = 0
    BY <1>1, <1>11, <2>1
  <2>2. CASE n # 0
    <3>1. /\ Len(committedIds \o part) = Len(committedIds) + n /\ Len(committedIds) \in Nat
          /\ \A i \in Len(committedIds) + 1 .. Len(committedIds) + n :
               (committedIds \o part)[i] = part[i - Len(committedIds)]
      <4>1. committedIds \in Seq(Tokens) /\ part \in Seq(Tokens) /\ Len(part) = n
        BY <1>1, <1>7
      <4>2. QED
        BY ONLY <4>1, Joined
    <3>2. n \in Nat /\ n \in 1 .. n
      BY <2>2
    <3>3. /\ Len(committedIds) + n \in Len(committedIds) + 1 .. Len(committedIds) + n
          /\ (Len(committedIds) + n) - Len(committedIds) = n
      BY <3>1, <3>2
    <3>4. committedIds'[Len(committedIds')] = part[n]
      BY <1>8, <3>1, <3>3
    <3>5. QED
      BY <1>5, <1>7, <2>2, <3>2, <3>4
  <2>3. QED
    BY <2>1, <2>2
<1>13. committedIds' \o tail' = committedIds \o ids
  <2>1. (committedIds \o part) \o rest = committedIds \o (part \o rest)
    <3>1. committedIds \in Seq(Tokens) /\ part \in Seq(Tokens) /\ rest \in Seq(Tokens)
      BY <1>1, <1>7
    <3>2. QED
      BY ONLY <3>1, SMTT(30)
  <2>2. QED
    BY <1>7, <1>8, <2>1
<1>14. \E more \in Seq(Chars) : committed' = committed \o more
  BY <1>7, <1>8, DecodeIs
<1>15. QED
  BY <1>3, <1>5, <1>6, <1>9, <1>10, <1>11, <1>12, <1>13, <1>14

\* Before the first push there is no text.
LEMMA InitText == Init => Texted /\ Counted
<1> SUFFICES ASSUME Init PROVE Texted /\ Counted
  OBVIOUS
<1>1. /\ rawDecoded = <<>> /\ committed = <<>> /\ tail = <<>> /\ committedIds = <<>>
      /\ chunkId = 0 /\ pushed = 0 /\ wav = <<>> /\ pc = "idle"
  BY DEF Init
<1>2. <<>> \in Seq(Tokens) /\ <<>> \in Seq(Chars)
  OBVIOUS
<1>3. Len(Decode(<<>>)) = 0 /\ Decode(<<>>) \in Seq(Chars)
  BY <1>2, DecodeIs
<1>4. Decode(<<>>) = <<>>
  BY <1>3
<1>5. Texted
  BY <1>1, <1>2, <1>4 DEF Texted
<1>6. Counted
  BY <1>1, StreamAssumption DEF Counted
<1>7. QED
  BY <1>5, <1>6

\* Taking a chunk from the buffer counts for the decoding it is for.
LEMMA ChunkCounted ==
  ASSUME IInv, Counted, pc \in {"idle", "loop"}, pc' = "audio",
         UNCHANGED <<chunkId, pushed>>, NEW b \in Nat, offset < b, b <= Len(buffer),
         wav' = wav \o SubSeq(buffer, offset + 1, b)
  PROVE  Counted'
<1>1. Held /\ Numbered /\ offset \in Nat /\ Len(wav) \in Nat
  BY LenProperties DEF IInv, Held
<1>2. Len(wav') = Len(wav) + b - offset
  BY <1>1, Consumed
<1>3. chunkId \in Nat /\ chunkId <= Len(wav) /\ pushed <= MaxSamples
  BY DEF Counted
<1>4. chunkId' = chunkId /\ pushed' = pushed
  OBVIOUS
<1>5. chunkId < Len(wav')
  BY <1>1, <1>2, <1>3
<1>6. QED
  BY <1>3, <1>4, <1>5 DEF Counted

\* During the warm-up the text is cleared, and it was empty where it could not be.
LEMMA ClearKeepsText ==
  ASSUME Texted, opts' = opts, ClearWhileWarming
  PROVE  Texted'
<1>1. rawDecoded' = rawDecoded /\ chunkId' = chunkId
  BY DEF ClearWhileWarming
<1>2. CASE Rolling /\ Warming
  <2>1. committed' = <<>> /\ tail' = <<>> /\ committedIds' = <<>>
    BY <1>2 DEF ClearWhileWarming
  <2>2. committed = Decode(committedIds) /\ committedIds = <<>>
    BY <1>2 DEF Texted
  <2>3. Decode(<<>>) = <<>>
    <3>1. <<>> \in Seq(Tokens)
      OBVIOUS
    <3>2. Len(Decode(<<>>)) = 0 /\ Decode(<<>>) \in Seq(Chars)
      BY <3>1, DecodeIs
    <3>3. QED
      BY <3>2
  <2>4. QED
    BY <1>1, <2>1, <2>3 DEF Texted
<1>3. CASE ~(Rolling /\ Warming)
  <2>1. committed' = committed /\ tail' = tail /\ committedIds' = committedIds
    BY <1>3 DEF ClearWhileWarming
  <2>2. QED
    BY <1>1, <2>1 DEF Texted, Warming, Rolling
<1>4. QED
  BY <1>2, <1>3

\* Every step keeps it.
LEMMA StepText == IInv /\ Texted /\ Counted /\ [Next]_vars => Texted' /\ Counted'
<1> SUFFICES ASSUME IInv, Texted, Counted, [Next]_vars PROVE Texted' /\ Counted'
  OBVIOUS
<1>0. /\ opts \in Streams /\ Len(wav) \in Nat /\ offset \in Nat /\ Len(buffer) \in Nat
      /\ opts.chunk \in Nat \ {0} /\ chunkId \in Nat /\ pushed \in Nat
  BY ChunkPositive, LenProperties DEF IInv, Held, Counted
<1>1. ASSUME UNCHANGED <<opts, rawDecoded, committed, tail, committedIds, chunkId>>
      PROVE  Texted'
  BY <1>1 DEF Texted, Warming, Rolling
<1>2. ASSUME NEW n \in 1 .. MaxPush, Push(n)
      PROVE  Texted' /\ Counted'
  <2>1. /\ UNCHANGED <<opts, rawDecoded, committed, tail, committedIds, chunkId, wav>>
        /\ pc = "idle" /\ pc' = "loop" /\ pushed + n <= MaxSamples /\ pushed' = pushed + n
    BY <1>2 DEF Push, textVars, featureVars
  <2>2. QED
    BY <1>1, <2>1 DEF Counted
<1>3. CASE NextChunk
  <2>1. /\ opts' = opts /\ ClearWhileWarming /\ UNCHANGED <<chunkId, pushed>>
        /\ pc = "loop" /\ pc' = "audio" /\ Len(buffer) - offset >= opts.chunk
        /\ wav' = wav \o SubSeq(buffer, offset + 1, offset + opts.chunk)
    BY <1>3 DEF NextChunk, ClearWhileWarming, AppendSamples
  <2>2. /\ offset + opts.chunk \in Nat /\ offset < offset + opts.chunk
        /\ offset + opts.chunk <= Len(buffer)
    <3>1. /\ Len(buffer) - offset >= opts.chunk
          /\ offset \in Nat /\ Len(buffer) \in Nat /\ opts.chunk \in Nat \ {0}
      BY <1>0, <2>1
    <3>2. QED
      BY ONLY <3>1
  <2>3. QED
    BY <2>1, <2>2, ClearKeepsText, ChunkCounted
<1>4. CASE EndPush
  <2>1. /\ UNCHANGED <<opts, rawDecoded, committed, tail, committedIds, chunkId, wav, pushed>>
        /\ pc = "loop" /\ pc' = "idle"
    BY <1>4 DEF EndPush, textVars, featureVars
  <2>2. QED
    BY <1>1, <2>1 DEF Counted
<1>5. CASE FinishTail
  <2>1. /\ opts' = opts /\ ClearWhileWarming /\ UNCHANGED <<chunkId, pushed>>
        /\ pc = "idle" /\ pc' = "audio" /\ Len(buffer) > offset
        /\ wav' = wav \o SubSeq(buffer, offset + 1, Len(buffer))
    BY <1>5 DEF FinishTail, ClearWhileWarming, AppendSamples
  <2>2. offset < Len(buffer) /\ Len(buffer) <= Len(buffer)
    BY <1>0, <2>1
  <2>3. QED
    BY <1>0, <2>1, <2>2, ClearKeepsText, ChunkCounted
<1>6. CASE FinishEmpty
  <2>1. /\ UNCHANGED <<opts, rawDecoded, committed, tail, committedIds, chunkId, wav, pushed>>
        /\ pc = "idle" /\ pc' = "finished"
    BY <1>6 DEF FinishEmpty, textVars, featureVars, sampleVars
  <2>2. QED
    BY <1>1, <2>1 DEF Counted
<1>7. CASE ComputeAudio
  <2>1. /\ UNCHANGED <<opts, rawDecoded, committed, tail, committedIds, chunkId, wav, pushed>>
        /\ pc = "audio" /\ pc' = "generate"
    BY <1>7 DEF ComputeAudio, textVars, featureVars, sampleVars
  <2>2. QED
    BY <1>1, <2>1 DEF Counted
<1>8. CASE Generate
  <2>1. /\ pc = "generate" /\ pc' \in {"finished", "loop"} /\ chunkId' = chunkId + 1
        /\ opts' = opts /\ wav' = wav /\ pushed' = pushed
    BY <1>8 DEF Generate, AfterDecode, featureVars, sampleVars
  <2>2. PICK answer \in opts.answers :
          IF Rolling THEN GenerateRolling(answer) ELSE GenerateRaw(answer)
    BY <1>8 DEF Generate
  <2>3. answer \in Seq(Tokens) /\ opts.unfixedChunks \in Nat
    BY <1>0, OptionsAre
  <2>4. Counted'
    BY <1>0, <2>1 DEF Counted
  <2>5. CASE Rolling
    <3>1. GenerateRolling(answer)
      BY <2>2, <2>5
    <3>2. /\ committedIds' \in Seq(Tokens) /\ tail' \in Seq(Tokens)
          /\ committed' = Decode(committedIds')
          /\ committedIds' # <<>> => committedIds'[Len(committedIds')] # "first"
          /\ chunkId + 1 < opts.unfixedChunks => committedIds' = committedIds
          /\ rawDecoded' = rawDecoded
      BY <1>0, <2>3, <3>1, RollingSplits
    <3>3. chunkId + 1 < opts.unfixedChunks => committedIds' = <<>>
      BY <1>0, <2>3, <3>2 DEF Texted, Warming
    <3>4. QED
      BY <2>1, <2>4, <2>5, <3>2, <3>3 DEF Texted, Warming, Rolling
  <2>6. CASE ~Rolling
    <3>1. /\ rawDecoded' = Decode(PrefixOf(TokensOf(rawDecoded))) \o Decode(answer)
          /\ UNCHANGED <<committed, tail, committedIds>>
      BY <2>2, <2>6 DEF GenerateRaw
    <3>2. TokensOf(rawDecoded) \in Seq(Tokens)
      BY TokensOfIs DEF Texted
    <3>3. PrefixOf(TokensOf(rawDecoded)) \in Seq(Tokens)
      BY <1>0, <3>2, PrefixOfIs
    <3>4. Decode(PrefixOf(TokensOf(rawDecoded))) \in Seq(Chars) /\ Decode(answer) \in Seq(Chars)
      BY <2>3, <3>3, DecodeIs
    <3>5. rawDecoded' \in Seq(Chars)
      BY <3>1, <3>4
    <3>6. committedIds' = <<>>
      BY <2>6, <3>1 DEF Texted
    <3>7. QED
      BY <2>4, <3>1, <3>5, <3>6 DEF Texted
  <2>7. QED
    BY <2>5, <2>6
<1>9. CASE DecodeFails
  <2>1. /\ UNCHANGED <<opts, rawDecoded, committed, tail, committedIds, chunkId, wav, pushed>>
        /\ pc \in {"audio", "generate"} /\ pc' \in {"error", "idle"}
    BY <1>9 DEF DecodeFails, textVars, featureVars, sampleVars
  <2>2. QED
    BY <1>0, <1>1, <2>1 DEF Counted
<1>10. CASE UNCHANGED vars
  <2>1. UNCHANGED <<opts, rawDecoded, committed, tail, committedIds, chunkId, wav, pushed, pc>>
    BY <1>10 DEF vars, textVars, featureVars, sampleVars
  <2>2. QED
    BY <1>1, <2>1 DEF Counted
<1>11. QED
  BY <1>2, <1>3, <1>4, <1>5, <1>6, <1>7, <1>8, <1>9, <1>10 DEF Next

\* It holds throughout.
LEMMA AlwaysText == Spec => [](Texted /\ Counted)
<1>1. Init => Texted /\ Counted
  BY InitText
<1>2. IInv /\ Texted /\ Counted /\ [Next]_vars => Texted' /\ Counted'
  BY StepText
<1>3. QED
  BY <1>1, <1>2, AlwaysInv, PTL DEF Spec

\* Cutting the tokens into committed text and tail changes no character, whatever the
\* model generates (SplitKeepsText of maybe_commit_windowed_text).
THEOREM TextKeptWhole == Spec => []SplitKeepsText
<1>1. ASSUME IInv, Texted, Counted PROVE SplitKeepsText
  <2>1. /\ tail \in Seq(Tokens) /\ committedIds \in Seq(Tokens) /\ committed = Decode(committedIds)
        /\ committedIds # <<>> => committedIds[Len(committedIds)] # "first"
    BY <1>1 DEF Texted
  <2>2. committed \o Decode(tail) = Decode(committedIds \o tail)
    BY <2>1, DecodeJoined
  <2>3. committed \in Seq(Chars) /\ rawDecoded \in Seq(Chars)
    BY <1>1, <2>1, DecodeIs DEF Texted
  <2>4. chunkId \in 0 .. MaxSamples
    <3>1. Len(wav) <= pushed /\ Len(wav) \in Nat /\ pushed \in Nat
      BY <1>1, LenProperties DEF IInv, Held, Numbered
    <3>2. QED
      BY <1>1, <3>1, StreamAssumption DEF Counted
  <2>5. QED
    BY <2>1, <2>2, <2>3, <2>4 DEF SplitKeepsText, TextTyped
<1>2. QED
  BY <1>1, AlwaysInv, AlwaysText, PTL

--------------------------------------------------------------------------------
\* What a step leaves of the transcript.

\* Sequences that agree on the first places share a prefix.
LEMMA Agreeing ==
  ASSUME NEW S, NEW s \in Seq(S), NEW t \in Seq(S), NEW n \in 0 .. Len(s), n <= Len(t),
         \A i \in 1 .. n : s[i] = t[i]
  PROVE  IsPrefix(First(s, n), t)
<1> DEFINE a == First(s, n)
<1>1. a \in Seq(S) /\ Len(a) = n /\ (\A i \in 1 .. n : a[i] = s[i]) /\ n \in Nat /\ n \in 0 .. Len(t)
  BY FirstOnes
<1> HIDE DEF a
<1>2. /\ SubSeq(t, 1, n) \in Seq(S) /\ Len(SubSeq(t, 1, n)) = n
      /\ \A i \in 1 .. n : SubSeq(t, 1, n)[i] = t[i]
  BY <1>1, FirstOnes DEF First
<1>3. n \in 0 .. Len(a)
  BY <1>1
<1>4. /\ SubSeq(a, 1, n) \in Seq(S) /\ Len(SubSeq(a, 1, n)) = n
      /\ \A i \in 1 .. n : SubSeq(a, 1, n)[i] = a[i]
  BY <1>1, <1>3, FirstOnes DEF First
<1> DEFINE u == SubSeq(t, 1, n)
           v == SubSeq(a, 1, n)
<1>5. u \in Seq(S) /\ v \in Seq(S) /\ Len(v) = Len(u) /\ \A i \in 1 .. Len(v) : v[i] = u[i]
  BY <1>1, <1>2, <1>4
<1> HIDE DEF u, v
<1>6. v = u
  BY <1>5, SameElements
<1>7. SubSeq(a, 1, Len(a)) = SubSeq(t, 1, Len(a)) /\ Len(a) <= Len(t)
  BY <1>1, <1>6 DEF u, v
<1>8. QED
  BY <1>7 DEF IsPrefix, a

\* A sequence begins with its own beginnings, and with all of itself.
LEMMA OwnPrefix ==
  ASSUME NEW S, NEW s \in Seq(S), NEW n \in 0 .. Len(s)
  PROVE  IsPrefix(First(s, n), s) /\ IsPrefix(s, s)
<1>1. IsPrefix(First(s, n), s)
  <2>1. n <= Len(s)
    BY LenProperties
  <2>2. QED
    BY <2>1, Agreeing
<1>2. IsPrefix(s, s)
  BY DEF IsPrefix
<1>3. QED
  BY <1>1, <1>2

LEMMA JoinedPrefix ==
  ASSUME NEW S, NEW s \in Seq(S), NEW t \in Seq(S)
  PROVE  IsPrefix(s, s \o t)
<1>1. /\ s \o t \in Seq(S) /\ Len(s \o t) = Len(s) + Len(t)
      /\ Len(s) \in Nat /\ Len(t) \in Nat
      /\ \A i \in 1 .. Len(s) : (s \o t)[i] = s[i]
  BY Joined
<1> DEFINE u == s \o t
<1>2. /\ u \in Seq(S) /\ Len(s) \in 0 .. Len(s) /\ Len(s) <= Len(u)
      /\ \A i \in 1 .. Len(s) : s[i] = u[i]
  BY <1>1
<1> HIDE DEF u
<1>3. IsPrefix(First(s, Len(s)), u)
  BY <1>2, Agreeing
<1>4. First(s, Len(s)) = s
  BY DEF First
<1>5. QED
  BY <1>3, <1>4 DEF u

\* A text is broken where one of its places is.
LEMMA BrokenIs ==
  ASSUME NEW ids \in Seq(Tokens)
  PROVE  Broken(ids) <=> \E i \in 1 .. Len(ids) : CharAt(ids, i) = "bad"
<1>1. /\ Decode(ids) \in Seq(Chars) /\ Len(Decode(ids)) = Len(ids)
      /\ \A i \in 1 .. Len(ids) : Decode(ids)[i] = CharAt(ids, i)
  BY DecodeIs
<1>2. DOMAIN Decode(ids) = 1 .. Len(ids)
  BY <1>1
<1>3. QED
  BY <1>1, <1>2 DEF Broken, Range

\* Only the last character of the first tokens can be another than in all of them.
LEMMA FirstChars ==
  ASSUME NEW ids \in Seq(Tokens), NEW m \in 0 .. Len(ids), NEW i \in 1 .. m, i < m
  PROVE  CharAt(First(ids, m), i) = CharAt(ids, i)
<1> DEFINE part == First(ids, m)
<1>1. /\ part \in Seq(Tokens) /\ Len(part) = m /\ (\A j \in 1 .. m : part[j] = ids[j])
      /\ Len(ids) \in Nat
  BY FirstOnes, LenProperties
<1> HIDE DEF part
<1>2. part[i] = ids[i] /\ part[i+1] = ids[i+1] /\ (i > 1 => part[i-1] = ids[i-1])
  <2>1. i \in 1 .. m /\ i + 1 \in 1 .. m /\ (i > 1 => i - 1 \in 1 .. m)
    OBVIOUS
  <2>2. QED
    BY <1>1, <2>1
<1>3. i < Len(part) /\ i < Len(ids)
  BY <1>1
<1>4. CharAt(part, i) = CharAt(ids, i)
  BY <1>2, <1>3 DEF CharAt
<1>5. QED
  BY <1>4 DEF part

\* Of a text that is not broken, the first tokens or all but the last of them are not.
LEMMA AlmostWhole ==
  ASSUME NEW ids \in Seq(Tokens), ~Broken(ids), NEW k \in 0 .. Len(ids), Broken(First(ids, k))
  PROVE  k >= 1 /\ ~Broken(First(ids, k - 1))
<1> DEFINE part == First(ids, k)
           less == First(ids, k - 1)
<1>0. Len(ids) \in Nat /\ k \in Nat /\ k <= Len(ids)
  BY LenProperties
<1>1. part \in Seq(Tokens) /\ Len(part) = k /\ \A j \in 1 .. k : part[j] = ids[j]
  BY FirstOnes
<1>2. PICK i \in 1 .. k : CharAt(part, i) = "bad"
  BY <1>1, BrokenIs
<1>3. \A j \in 1 .. Len(ids) : CharAt(ids, j) # "bad"
  BY BrokenIs
<1>4. k >= 1 /\ i \in 1 .. Len(ids)
  BY <1>0, <1>2
<1>5. ~(i < k)
  <2>1. ASSUME i < k PROVE FALSE
    <3>1. CharAt(part, i) = CharAt(ids, i)
      BY <2>1, FirstChars
    <3>2. QED
      BY <1>2, <1>3, <1>4, <3>1
  <2>2. QED
    BY <2>1
<1>6. i = k /\ part[k] = ids[k] /\ CharAt(ids, k) # "bad" /\ CharAt(part, k) = "bad"
  BY <1>0, <1>1, <1>2, <1>3, <1>4, <1>5
<1>7. k - 1 \in 0 .. Len(ids)
  BY <1>0, <1>4
<1>8. less \in Seq(Tokens) /\ Len(less) = k - 1 /\ \A j \in 1 .. k - 1 : less[j] = ids[j]
  BY <1>7, FirstOnes
<1> HIDE DEF part, less
<1>9. ids[k] = "first" /\ k < Len(ids) /\ ids[k+1] = "second"
  <2>1. k > 1 => part[k-1] = ids[k-1]
    <3>1. k > 1 => k - 1 \in 1 .. k
      BY <1>0
    <3>2. QED
      BY <1>1, <3>1
  <2>2. ~(k < Len(part))
    BY <1>0, <1>1
  <2>3. QED
    BY <1>6, <2>1, <2>2 DEF CharAt
<1>10. ASSUME NEW j \in 1 .. k - 1 PROVE CharAt(less, j) # "bad"
  <2>1. CASE j < k - 1
    <3>1. CharAt(less, j) = CharAt(ids, j) /\ j \in 1 .. Len(ids)
      BY <1>0, <1>7, <2>1, FirstChars DEF less
    <3>2. QED
      BY <1>3, <3>1
  <2>2. CASE j = k - 1
    <3>1. /\ less[j] = ids[j] /\ (j > 1 => less[j-1] = ids[j-1]) /\ j \in 1 .. Len(ids)
          /\ j \in Nat /\ j + 1 = k
      <4>1. j > 1 => j - 1 \in 1 .. k - 1
        BY <1>0, <2>2
      <4>2. QED
        BY <1>0, <1>8, <2>2, <4>1
    <3>2. ids[j+1] # "second"
      BY <1>9, <3>1
    <3>3. CharAt(ids, j) # "bad"
      BY <1>3, <3>1
    <3>4. QED
      BY <3>1, <3>2, <3>3 DEF CharAt
  <2>3. QED
    BY <1>0, <2>1, <2>2
<1>11. ~Broken(less)
  BY <1>8, <1>10, BrokenIs
<1>12. QED
  BY <1>4, <1>11 DEF less

\* After the warm-up the prefix has all but the last tokens, unfixed_token_num and at most
\* one more, and these are whole.
LEMMA PrefixLongEnough ==
  ASSUME NEW ids \in Seq(Tokens), opts \in Streams, ~Warming, ~Broken(ids)
  PROVE  \E m \in 0 .. Len(ids) :
           /\ PrefixOf(ids) = First(ids, m)
           /\ LessOrZero(Len(ids), opts.unfixedTokens + 1) <= m
           /\ \A i \in 1 .. LessOrZero(Len(ids), opts.unfixedTokens + 1) :
                CharAt(First(ids, m), i) # "bad"
<1> DEFINE few == LessOrZero(Len(ids), opts.unfixedTokens + 1)
           most == LessOrZero(Len(ids), opts.unfixedTokens)
<1>1. Len(ids) \in Nat /\ opts.unfixedTokens \in Nat
  BY OptionsAre, LenProperties
<1>2. /\ few \in Nat /\ most \in 0 .. Len(ids) /\ (few = 0 \/ few < most)
      /\ (few = most \/ few = most - 1)
  BY <1>1 DEF LessOrZero
<1> HIDE DEF few, most
<1>3. CASE closing
  <2>1. PICK m \in 0 .. Len(ids) : FinishPrefix(ids) = First(ids, m) /\ most <= m
    BY FinishPrefixIs DEF most
  <2>2. ASSUME NEW i \in 1 .. few PROVE CharAt(First(ids, m), i) # "bad"
    <3>1. i \in 1 .. m /\ i < m /\ i \in 1 .. Len(ids)
      BY <1>1, <1>2, <2>1
    <3>2. CharAt(First(ids, m), i) = CharAt(ids, i)
      BY <3>1, FirstChars
    <3>3. QED
      BY <3>1, <3>2, BrokenIs
  <2>3. few <= m
    BY <1>1, <1>2, <2>1
  <2>4. QED
    BY <1>3, <2>1, <2>2, <2>3 DEF PrefixOf, few
<1>4. CASE ~closing
  <2>1. PICK m \in 0 .. Len(ids) :
          /\ WholePrefix(ids) = First(ids, m) /\ ~Broken(First(ids, m))
          /\ \A n \in 0 .. most : ~Broken(First(ids, n)) => n <= m
    BY WholePrefixIs DEF most
  <2>2. few <= m
    <3>1. CASE ~Broken(First(ids, most))
      <4>1. most \in 0 .. most
        BY <1>2
      <4>2. QED
        BY <1>1, <1>2, <2>1, <3>1, <4>1
    <3>2. CASE Broken(First(ids, most))
      <4>1. most >= 1 /\ ~Broken(First(ids, most - 1))
        BY <1>2, <3>2, AlmostWhole
      <4>2. most - 1 \in 0 .. most
        BY <1>1, <1>2, <4>1
      <4>3. QED
        BY <1>1, <1>2, <2>1, <4>1, <4>2
    <3>3. QED
      BY <3>1, <3>2
  <2>3. First(ids, m) \in Seq(Tokens) /\ Len(First(ids, m)) = m
    BY FirstOnes
  <2>4. ASSUME NEW i \in 1 .. few PROVE CharAt(First(ids, m), i) # "bad"
    <3>1. i \in 1 .. m
      BY <1>1, <1>2, <2>2
    <3>2. QED
      BY <2>1, <2>3, <3>1, BrokenIs
  <2>5. QED
    BY <1>4, <2>1, <2>2, <2>4 DEF PrefixOf, few
<1>5. QED
  BY <1>3, <1>4

Kept(k) == IsPrefix(First(TranscriptIds, k), TranscriptIds')
Few     == LessOrZero(Len(TranscriptIds), opts.unfixedTokens + 1)

\* Without a rolling window: the prefix goes through text and back, and whole characters
\* come back as their tokens.
LEMMA RawKept ==
  ASSUME Texted, opts \in Streams, opts' = opts, ~Rolling, ~Warming, ~Broken(TranscriptIds),
         NEW answer \in Seq(Tokens), GenerateRaw(answer)
  PROVE  Kept(Few)
<1> DEFINE ids == TokensOf(rawDecoded)
           now == TokensOf(rawDecoded')
<1>1. /\ TranscriptIds = ids /\ TranscriptIds' = now
      /\ rawDecoded' = Decode(PrefixOf(ids)) \o Decode(answer)
  BY DEF GenerateRaw, TranscriptIds, Rolling
<1>2. ids \in Seq(Tokens) /\ Len(ids) \in Nat /\ opts.unfixedTokens \in Nat
  BY TokensOfIs, OptionsAre, LenProperties DEF Texted
<1> HIDE DEF ids
<1>3. Few = LessOrZero(Len(ids), opts.unfixedTokens + 1)
  BY <1>1 DEF Few
<1>4. PICK m \in 0 .. Len(ids) :
        /\ PrefixOf(ids) = First(ids, m) /\ Few <= m
        /\ \A i \in 1 .. Few : CharAt(First(ids, m), i) # "bad"
  BY <1>1, <1>2, <1>3, PrefixLongEnough
<1> DEFINE part == First(ids, m)
           left == Decode(part)
           right == Decode(answer)
           text == left \o right
<1>5. part \in Seq(Tokens) /\ Len(part) = m /\ \A i \in 1 .. m : part[i] = ids[i]
  BY <1>2, FirstOnes
<1> HIDE DEF part
<1>6. /\ left \in Seq(Chars) /\ Len(left) = m /\ right \in Seq(Chars) /\ Len(right) \in Nat
      /\ \A i \in 1 .. m : left[i] = CharAt(part, i)
  BY <1>5, DecodeIs
<1> HIDE DEF left, right
<1>7. /\ text \in Seq(Chars) /\ Len(text) = Len(left) + Len(right)
      /\ \A i \in 1 .. Len(left) : text[i] = left[i]
  BY ONLY <1>6, Joined
<1>8. rawDecoded' = text
  BY <1>1, <1>4 DEF text, left, right, part
<1> HIDE DEF text
<1>9. /\ now \in Seq(Tokens) /\ Len(now) = Len(text)
      /\ \A i \in 1 .. Len(text) :
           now[i] = IF text[i] = "joined" THEN "first"
                    ELSE IF text[i] = "rest" THEN "second" ELSE text[i]
  BY <1>7, <1>8, TokensOfIs
<1> HIDE DEF now
<1>10. /\ Few \in Nat /\ Few <= Len(ids) /\ m <= Len(now) /\ m \in Nat
  BY <1>2, <1>3, <1>6, <1>7, <1>9 DEF LessOrZero
<1>11. ASSUME NEW i \in 1 .. Few PROVE ids[i] = now[i]
  <2>1. i \in 1 .. m /\ i \in 1 .. Len(text)
    BY <1>4, <1>6, <1>7, <1>10
  <2>2. text[i] = CharAt(part, i) /\ CharAt(part, i) # "bad" /\ part[i] = ids[i]
    BY <1>4, <1>5, <1>6, <1>7, <2>1 DEF part
  <2>3. now[i] = IF text[i] = "joined" THEN "first"
                 ELSE IF text[i] = "rest" THEN "second" ELSE text[i]
    BY <1>9, <2>1
  <2>4. QED
    BY <2>2, <2>3 DEF CharAt
<1>12. IsPrefix(First(ids, Few), now)
  <2>1. Few \in 0 .. Len(ids) /\ Few <= Len(now)
    BY <1>2, <1>4, <1>9, <1>10
  <2>2. QED
    BY <1>2, <1>9, <1>11, <2>1, Agreeing
<1>13. QED
  BY <1>1, <1>12 DEF Kept

\* With one: committed tokens stay, and the tail keeps its first ones.
LEMMA RollingKept ==
  ASSUME Texted, opts \in Streams, opts' = opts, chunkId \in Nat, Rolling, ~Warming,
         ~Broken(tail), NEW answer \in Seq(Tokens), GenerateRolling(answer)
  PROVE  Kept(Few)
<1> DEFINE old == committedIds \o tail
           new == PrefixOf(tail) \o answer
           now == committedIds \o new
<1>1. /\ TranscriptIds = old /\ TranscriptIds' = now
  <2>1. committedIds' \o tail' = committedIds \o (PrefixOf(tail) \o answer)
    BY RollingSplits
  <2>2. QED
    BY <2>1 DEF TranscriptIds, Rolling
<1>2. /\ committedIds \in Seq(Tokens) /\ tail \in Seq(Tokens)
      /\ Len(tail) \in Nat /\ Len(committedIds) \in Nat /\ opts.unfixedTokens \in Nat
  BY OptionsAre, LenProperties DEF Texted
<1> DEFINE few == LessOrZero(Len(tail), opts.unfixedTokens + 1)
<1>3. PICK m \in 0 .. Len(tail) : PrefixOf(tail) = First(tail, m) /\ few <= m
  BY <1>2, PrefixLongEnough
<1>4. /\ PrefixOf(tail) \in Seq(Tokens) /\ Len(PrefixOf(tail)) = m
      /\ \A i \in 1 .. m : PrefixOf(tail)[i] = tail[i]
  BY <1>2, <1>3, FirstOnes
<1>5. /\ new \in Seq(Tokens) /\ Len(new) = m + Len(answer) /\ Len(answer) \in Nat
      /\ \A i \in 1 .. m : new[i] = PrefixOf(tail)[i]
  <2>1. /\ new \in Seq(Tokens) /\ Len(new) = Len(PrefixOf(tail)) + Len(answer) /\ Len(answer) \in Nat
        /\ \A i \in 1 .. Len(PrefixOf(tail)) : new[i] = PrefixOf(tail)[i]
    BY ONLY <1>4, answer \in Seq(Tokens), Joined
  <2> HIDE DEF new
  <2>2. QED
    BY <1>4, <2>1
<1> HIDE DEF new
<1>6. /\ old \in Seq(Tokens) /\ Len(old) = Len(committedIds) + Len(tail)
      /\ \A i \in 1 .. Len(committedIds) : old[i] = committedIds[i]
      /\ \A i \in Len(committedIds) + 1 .. Len(committedIds) + Len(tail) :
           old[i] = tail[i - Len(committedIds)]
  BY ONLY <1>2, Joined
<1>7. /\ now \in Seq(Tokens) /\ Len(now) = Len(committedIds) + Len(new)
      /\ \A i \in 1 .. Len(committedIds) : now[i] = committedIds[i]
      /\ \A i \in Len(committedIds) + 1 .. Len(committedIds) + Len(new) :
           now[i] = new[i - Len(committedIds)]
  <2>1. committedIds \in Seq(Tokens) /\ new \in Seq(Tokens)
    BY <1>2, <1>5
  <2>2. QED
    BY ONLY <2>1, Joined
<1> HIDE DEF old, now
<1>8. Few = LessOrZero(Len(old), opts.unfixedTokens + 1)
  BY <1>1 DEF Few
<1>9. /\ few \in Nat /\ m \in Nat /\ Few \in Nat /\ Few <= Len(old)
      /\ Few <= Len(committedIds) + few
  BY <1>2, <1>6, <1>8, SMTT(30) DEF LessOrZero
<1> HIDE DEF few
<1>10. ASSUME NEW i \in 1 .. Few PROVE old[i] = now[i]
  <2>1. CASE i <= Len(committedIds)
    <3>1. i \in 1 .. Len(committedIds)
      BY <1>2, <1>9, <2>1
    <3>2. QED
      BY <1>6, <1>7, <3>1
  <2>2. CASE i > Len(committedIds)
    <3> DEFINE j == i - Len(committedIds)
    <3>1. /\ j \in 1 .. m /\ j \in 1 .. Len(tail)
          /\ i \in Len(committedIds) + 1 .. Len(committedIds) + Len(tail)
          /\ i \in Len(committedIds) + 1 .. Len(committedIds) + Len(new)
      BY <1>2, <1>3, <1>5, <1>9, <2>2
    <3>2. old[i] = tail[j] /\ now[i] = new[j] /\ new[j] = tail[j]
      BY <1>4, <1>5, <1>6, <1>7, <3>1
    <3>3. QED
      BY <3>2
  <2>3. QED
    BY <1>2, <1>9, <2>1, <2>2
<1>11. Few \in 0 .. Len(old) /\ Few <= Len(now)
  BY <1>2, <1>3, <1>5, <1>6, <1>7, <1>9
<1>12. IsPrefix(First(old, Few), now)
  BY <1>6, <1>7, <1>10, <1>11, Agreeing
<1>13. QED
  BY <1>1, <1>12 DEF Kept

\* A step that leaves the tokens alone takes nothing back.
LEMMA NothingTaken ==
  ASSUME Texted, opts \in Streams, UNCHANGED <<opts, committed, committedIds, tail, rawDecoded>>
  PROVE  IsPrefix(committed, committed') /\ Kept(Few)
<1>1. committed \in Seq(Chars) /\ TranscriptIds \in Seq(Tokens)
  <2>1. committedIds \o tail \in Seq(Tokens) /\ TokensOf(rawDecoded) \in Seq(Tokens)
    BY TokensOfIs DEF Texted
  <2>2. QED
    BY <2>1, DecodeIs DEF Texted, TranscriptIds
<1>2. TranscriptIds' = TranscriptIds
  BY DEF TranscriptIds, Rolling
<1>3. Few \in 0 .. Len(TranscriptIds)
  BY <1>1, OptionsAre, LenProperties DEF Few, LessOrZero
<1>4. IsPrefix(First(TranscriptIds, Few), TranscriptIds)
  BY <1>1, <1>3, OwnPrefix
<1>5. IsPrefix(committed, committed')
  <2>1. 0 \in 0 .. Len(committed) /\ committed' = committed
    BY <1>1, LenProperties
  <2>2. QED
    BY <1>1, <2>1, OwnPrefix
<1>6. QED
  BY <1>2, <1>4, <1>5 DEF Kept

\* Committed text is never taken back, and after the warm-up a chunk changes at most the
\* last unfixed_token_num tokens and the other half of a split character
\* (decode_step_windowed, maybe_commit_windowed_text).
THEOREM TextAlwaysStable == Spec => TextIsStable
<1> DEFINE Stable == /\ IsPrefix(committed, committed')
                     /\ ~Warming /\ ~Broken(IF Rolling THEN tail ELSE TranscriptIds) => Kept(Few)
<1>1. ASSUME IInv, Texted, Counted, Next PROVE Stable
  <2>0. opts \in Streams /\ chunkId \in Nat
    BY <1>1 DEF IInv, Held, Counted
  <2>1. ASSUME UNCHANGED <<opts, textVars>> PROVE Stable
    <3>1. UNCHANGED <<opts, committed, committedIds, tail, rawDecoded>>
      BY <2>1 DEF textVars
    <3>2. QED
      BY <1>1, <2>0, <3>1, NothingTaken
  <2>2. ASSUME opts' = opts, ClearWhileWarming PROVE Stable
    <3>1. CASE Rolling /\ Warming
      <4>1. committed = <<>> /\ committed' = <<>>
        <5>1. committed = Decode(<<>>) /\ committed' = <<>>
          BY <1>1, <2>2, <3>1 DEF Texted, ClearWhileWarming
        <5>2. <<>> \in Seq(Tokens)
          OBVIOUS
        <5>3. Len(Decode(<<>>)) = 0 /\ Decode(<<>>) \in Seq(Chars)
          BY <5>2, DecodeIs
        <5>4. QED
          BY <5>1, <5>3
      <4>2. IsPrefix(committed, committed')
        BY <4>1 DEF IsPrefix
      <4>3. QED
        BY <3>1, <4>2
    <3>2. CASE ~(Rolling /\ Warming)
      <4>1. UNCHANGED <<opts, committed, committedIds, tail, rawDecoded>>
        BY <2>2, <3>2 DEF ClearWhileWarming
      <4>2. QED
        BY <1>1, <2>0, <4>1, NothingTaken
    <3>3. QED
      BY <3>1, <3>2
  <2>3. CASE Generate
    <3>1. PICK answer \in opts.answers :
            IF Rolling THEN GenerateRolling(answer) ELSE GenerateRaw(answer)
      BY <2>3 DEF Generate
    <3>2. answer \in Seq(Tokens) /\ opts' = opts
      BY <2>0, <2>3, OptionsAre DEF Generate
    <3>3. CASE Rolling
      <4>1. GenerateRolling(answer)
        BY <3>1, <3>3
      <4>2. PICK more \in Seq(Chars) : committed' = committed \o more
        BY <1>1, <2>0, <3>2, <4>1, RollingSplits
      <4>3. committed \in Seq(Chars)
        BY <1>1, DecodeIs DEF Texted
      <4>4. IsPrefix(committed, committed')
        BY <4>2, <4>3, JoinedPrefix
      <4>5. ASSUME ~Warming, ~Broken(tail) PROVE Kept(Few)
        BY <1>1, <2>0, <3>2, <3>3, <4>1, <4>5, RollingKept
      <4>6. QED
        BY <3>3, <4>4, <4>5
    <3>4. CASE ~Rolling
      <4>1. GenerateRaw(answer)
        BY <3>1, <3>4
      <4>2. committed' = committed
        BY <4>1 DEF GenerateRaw
      <4>3. committed \in Seq(Chars) /\ 0 \in 0 .. Len(committed)
        BY <1>1, DecodeIs, LenProperties DEF Texted
      <4>4. IsPrefix(committed, committed')
        BY <4>2, <4>3, OwnPrefix
      <4>5. ASSUME ~Warming, ~Broken(TranscriptIds) PROVE Kept(Few)
        BY <1>1, <2>0, <3>2, <3>4, <4>1, <4>5, RawKept
      <4>6. QED
        BY <3>4, <4>4, <4>5
    <3>5. QED
      BY <3>3, <3>4
  <2> HIDE DEF Stable
  <2>4. ASSUME NEW n \in 1 .. MaxPush, Push(n) PROVE Stable
    BY <2>1, <2>4 DEF Push
  <2>5. CASE NextChunk
    BY <2>2, <2>5 DEF NextChunk
  <2>6. CASE EndPush
    BY <2>1, <2>6 DEF EndPush
  <2>7. CASE FinishTail
    BY <2>2, <2>7 DEF FinishTail
  <2>8. CASE FinishEmpty
    BY <2>1, <2>8 DEF FinishEmpty
  <2>9. CASE ComputeAudio
    BY <2>1, <2>9 DEF ComputeAudio
  <2>10. CASE DecodeFails
    BY <2>1, <2>10 DEF DecodeFails
  <2>11. QED
    BY <1>1, <2>3, <2>4, <2>5, <2>6, <2>7, <2>8, <2>9, <2>10 DEF Next
<1>2. Stable <=> /\ IsPrefix(committed, committed')
                 /\ ~Warming /\ ~Broken(IF Rolling THEN tail ELSE TranscriptIds) =>
                      IsPrefix(First(TranscriptIds, LessOrZero(Len(TranscriptIds), opts.unfixedTokens + 1)),
                               TranscriptIds')
  BY DEF Kept, Few
<1> HIDE DEF Stable
<1>3. IInv /\ Texted /\ Counted /\ [Next]_vars => [Stable]_vars
  BY <1>1
<1>4. IInv /\ Texted /\ Counted /\ [Next]_vars =>
        [/\ IsPrefix(committed, committed')
         /\ ~Warming /\ ~Broken(IF Rolling THEN tail ELSE TranscriptIds) =>
              IsPrefix(First(TranscriptIds, LessOrZero(Len(TranscriptIds), opts.unfixedTokens + 1)),
                       TranscriptIds')]_vars
  BY <1>2, <1>3
<1>5. QED
  BY <1>4, AlwaysInv, AlwaysText, PTL DEF Spec, TextIsStable
================================================================================
