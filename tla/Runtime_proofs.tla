---------------------------- MODULE Runtime_proofs -----------------------------
(***************************************************************************)
(* Proofs about a realtime session (RealtimeSession), for every size of a  *)
(* chunk, every way to cut audio into appends and every answer of the      *)
(* models: the chunks are the audio, and the final text is sent once.      *)
(* And how inference is scheduled (InferenceScheduler), for any tasks.     *)
(*                                                                         *)
(* The invariants of the scheduler are not inductive alone: that a         *)
(* submission finds its task nowhere yet needs Accounted, and that the     *)
(* order is kept needs the sequence numbers of the tasks that were there   *)
(* before to be smaller (Numbered).                                        *)
(*                                                                         *)
(* And that the endpoint detector (E2EVad) returns segments in order, for  *)
(* all thresholds and sizes of chunks.  What keeps it is which of the      *)
(* detector's counters agree with each other while it waits for speech and *)
(* while it is in a segment (Waits, Speaks), frame after frame.            *)
(***************************************************************************)
EXTENDS RealtimeSession, InferenceScheduler, E2EVad, FiniteSetTheorems, SequenceTheorems,
        WellFoundedInduction, TLAPS

Chunks == [bytes : Seq(Nat), from : Nat, to : Nat, last : BOOLEAN]

\* Bytes of the client next to each other, the first of them after base.
Consecutive(bytes, base) == \A i \in DOMAIN bytes : bytes[i] = base + i

\* Whole samples of consecutive bytes, full but for the last of a finish.
Whole(chunk) ==
  /\ chunk.bytes # <<>>
  /\ \A i \in DOMAIN chunk.bytes : chunk.bytes[i] = First(chunk) + i - 1
  /\ Len(chunk.bytes) = ChunkBytes \/ chunk.last
  /\ 2 * (chunk.to - chunk.from) = Len(chunk.bytes)

\* Whole chunks one after the other, of bytes after low and up to high, the
\* first of them after so many samples.
InOrder(cs, earlier, low, high) ==
  /\ cs \in Seq(Chunks)
  /\ \A k \in 1 .. Len(cs) :
       /\ Whole(cs[k])
       /\ low < First(cs[k])
       /\ Last(cs[k]) <= high
       /\ cs[k].from = (IF k = 1 THEN earlier ELSE cs[k - 1].to)
       /\ k > 1 => Last(cs[k - 1]) < First(cs[k])

\* The elements of two sequences put together.
LEMMA Joined ==
  ASSUME NEW S, NEW a \in Seq(S), NEW b \in Seq(S)
  PROVE  /\ a \o b \in Seq(S)
         /\ Len(a \o b) = Len(a) + Len(b)
         /\ \A i \in 1 .. Len(a) : (a \o b)[i] = a[i]
         /\ \A i \in 1 .. Len(b) : (a \o b)[Len(a) + i] = b[i]
         /\ \A i \in Len(a) + 1 .. Len(a \o b) : (a \o b)[i] = b[i - Len(a)]
<1> DEFINE c == a \o b
<1>1. /\ c \in Seq(S) /\ Len(c) = Len(a) + Len(b)
      /\ Len(a) \in Nat /\ Len(b) \in Nat
      /\ \A i \in 1 .. Len(a) : c[i] = a[i]
      /\ \A i \in Len(a) + 1 .. Len(a) + Len(b) : c[i] = b[i - Len(a)]
  OBVIOUS
<1> HIDE DEF c
<1>2. ASSUME NEW i \in 1 .. Len(b)
      PROVE  c[Len(a) + i] = b[i]
  <2>1. Len(a) + i \in Len(a) + 1 .. Len(a) + Len(b) /\ (Len(a) + i) - Len(a) = i
    BY <1>1
  <2>2. QED
    BY <2>1, <1>1
<1>3. QED
  BY <1>1, <1>2 DEF c

\* Chunks of later bytes, counted on from the ones before, follow them.
LEMMA FollowInOrder ==
  ASSUME NEW a, NEW b, NEW low \in Nat, NEW mid \in Nat, NEW high \in Nat,
         NEW earlier \in Nat,
         low <= mid, mid <= high,
         InOrder(a, earlier, low, mid),
         InOrder(b, Samples(a, earlier), mid, high)
  PROVE  /\ InOrder(a \o b, earlier, low, high)
         /\ Samples(a \o b, earlier) = Samples(b, Samples(a, earlier))
<1> DEFINE ab == a \o b
<1>1. a \in Seq(Chunks) /\ b \in Seq(Chunks)
  BY DEF InOrder
<1>2. /\ ab \in Seq(Chunks)
      /\ Len(ab) = Len(a) + Len(b)
      /\ \A k \in 1 .. Len(a) : ab[k] = a[k]
      /\ \A k \in 1 .. Len(b) : ab[Len(a) + k] = b[k]
      /\ \A k \in Len(a) + 1 .. Len(ab) : ab[k] = b[k - Len(a)]
  BY ONLY <1>1, Joined
<1>3. Len(a) \in Nat /\ Len(b) \in Nat
  BY <1>1
<1>4. a = <<>> <=> Len(a) = 0
  BY <1>1
<1>5. b = <<>> <=> Len(b) = 0
  BY <1>1
<1>6. ab = <<>> <=> Len(ab) = 0
  BY <1>2
<1> HIDE DEF ab
<1>7. Samples(ab, earlier) = Samples(b, Samples(a, earlier))
  <2>1. CASE Len(b) = 0
    <3>1. CASE Len(a) = 0
      BY <2>1, <3>1, <1>2, <1>3, <1>4, <1>5, <1>6 DEF Samples
    <3>2. CASE Len(a) # 0
      <4>1. Len(ab) = Len(a) /\ ab[Len(a)] = a[Len(a)] /\ Len(ab) # 0
        BY <2>1, <3>2, <1>2, <1>3
      <4>2. QED
        BY <2>1, <3>2, <4>1, <1>4, <1>5, <1>6 DEF Samples
    <3>3. QED
      BY <3>1, <3>2
  <2>2. CASE Len(b) # 0
    <3>1. ab[Len(ab)] = b[Len(b)] /\ Len(ab) # 0
      BY <2>2, <1>2, <1>3
    <3>2. QED
      BY <2>2, <3>1, <1>5, <1>6 DEF Samples
  <2>3. QED
    BY <2>1, <2>2
<1>8. ASSUME NEW k \in 1 .. Len(ab)
      PROVE  /\ Whole(ab[k])
             /\ low < First(ab[k])
             /\ Last(ab[k]) <= high
             /\ ab[k].from = (IF k = 1 THEN earlier ELSE ab[k - 1].to)
             /\ k > 1 => Last(ab[k - 1]) < First(ab[k])
  <2>0. ab[k] \in Chunks
    BY <1>2
  <2>1. ASSUME NEW c \in Chunks, Whole(c)
        PROVE  First(c) \in Nat /\ Last(c) \in Nat
    <3>1. c.bytes \in Seq(Nat) /\ c.bytes # <<>>
      BY <2>1 DEF Whole, Chunks
    <3>2. Len(c.bytes) \in 1 .. Len(c.bytes) /\ 1 \in 1 .. Len(c.bytes)
      BY <3>1
    <3>3. c.bytes[1] \in Nat /\ c.bytes[Len(c.bytes)] \in Nat
      BY <3>1, <3>2
    <3>4. QED
      BY <3>3 DEF First, Last
  <2>2. CASE k <= Len(a)
    <3>1. ab[k] = a[k] /\ k \in 1 .. Len(a)
      BY <2>2, <1>2, <1>3
    <3>2. ASSUME k > 1
          PROVE  k - 1 \in 1 .. Len(a) /\ ab[k - 1] = a[k - 1]
      <4>1. k - 1 \in 1 .. Len(a)
        BY <2>2, <3>2, <1>2, <1>3
      <4>2. QED
        BY <4>1, <1>2
    <3>3. /\ Whole(a[k])
          /\ low < First(a[k])
          /\ Last(a[k]) <= mid
          /\ a[k].from = (IF k = 1 THEN earlier ELSE a[k - 1].to)
          /\ k > 1 => Last(a[k - 1]) < First(a[k])
      BY <3>1 DEF InOrder
    <3>4. Last(a[k]) <= high
      BY <3>1, <3>3, <2>0, <2>1
    <3>5. QED
      BY <3>1, <3>2, <3>3, <3>4
  <2>3. CASE k > Len(a)
    <3> DEFINE j == k - Len(a)
    <3>1. j \in 1 .. Len(b) /\ ab[k] = b[j]
      BY <2>3, <1>2, <1>3
    <3>2. ASSUME j > 1
          PROVE  k > 1 /\ ab[k - 1] = b[j - 1]
      <4>1. k > 1 /\ k - 1 \in Len(a) + 1 .. Len(ab) /\ (k - 1) - Len(a) = j - 1
        BY <2>3, <3>2, <1>2, <1>3
      <4>2. ab[k - 1] = b[(k - 1) - Len(a)]
        BY <4>1, <1>2
      <4>3. QED
        BY <4>1, <4>2
    <3>3. j = 1 /\ k > 1 => Len(a) \in 1 .. Len(a) /\ ab[k - 1] = a[Len(a)] /\ Len(a) # 0
      <4> SUFFICES ASSUME j = 1, k > 1
                   PROVE  Len(a) \in 1 .. Len(a) /\ ab[k - 1] = a[Len(a)] /\ Len(a) # 0
        OBVIOUS
      <4>1. k \in Nat /\ Len(a) \in Nat
        BY <1>2, <1>3
      <4>2. k - 1 = Len(a) /\ Len(a) \in 1 .. Len(a) /\ Len(a) # 0
        BY <4>1
      <4>3. QED
        BY <1>2, <4>2
    <3>4. j = 1 /\ k = 1 => Len(a) = 0
      BY <2>3, <1>3
    <3>5. k = 1 => j = 1
      BY <2>3, <1>3
    <3> HIDE DEF j
    <3>6. /\ Whole(b[j])
          /\ mid < First(b[j])
          /\ Last(b[j]) <= high
          /\ b[j].from = (IF j = 1 THEN Samples(a, earlier) ELSE b[j - 1].to)
          /\ j > 1 => Last(b[j - 1]) < First(b[j])
      BY <3>1 DEF InOrder
    <3>7. low < First(ab[k])
      BY <3>1, <3>6, <2>0, <2>1
    <3>8. ab[k].from = (IF k = 1 THEN earlier ELSE ab[k - 1].to)
      <4>1. CASE j = 1 /\ k = 1
        BY <4>1, <3>1, <3>4, <3>6, <1>4 DEF Samples
      <4>2. CASE j = 1 /\ k # 1
        BY <4>2, <3>1, <3>3, <3>6, <1>4 DEF Samples
      <4>3. CASE j # 1
        BY <4>3, <3>1, <3>2, <3>5, <3>6
      <4>4. QED
        BY <4>1, <4>2, <4>3
    <3>9. ASSUME k > 1
          PROVE  Last(ab[k - 1]) < First(ab[k])
      <4>1. CASE j = 1
        <5>1. Last(a[Len(a)]) <= mid /\ Whole(a[Len(a)]) /\ a[Len(a)] \in Chunks
          BY <4>1, <3>3, <3>9, <1>1 DEF InOrder
        <5>2. Last(a[Len(a)]) \in Nat /\ First(b[j]) \in Nat
          BY <5>1, <3>1, <3>6, <2>0, <2>1
        <5>3. QED
          BY <5>1, <5>2, <4>1, <3>9, <3>1, <3>3, <3>6
      <4>2. CASE j # 1
        BY <4>2, <3>1, <3>2, <3>6
      <4>3. QED
        BY <4>1, <4>2
    <3>10. QED
      BY <3>1, <3>6, <3>7, <3>8, <3>9
  <2>4. QED
    BY <2>2, <2>3, <1>3
<1>9. InOrder(ab, earlier, low, high)
  BY <1>2, <1>8 DEF InOrder
<1>10. QED
  BY <1>7, <1>9 DEF ab

\* Half a chunk is its samples.
LEMMA HalfChunk == ChunkBytes \div 2 \in Nat /\ 2 * (ChunkBytes \div 2) = ChunkBytes
BY ChunkAssumption

\* The chunks that fit: their number times their size, and less than one left.
LEMMA Fitting ==
  ASSUME NEW n \in Nat
  PROVE  /\ n \div ChunkBytes \in Nat
         /\ (n \div ChunkBytes) * ChunkBytes <= n
         /\ n - (n \div ChunkBytes) * ChunkBytes < ChunkBytes
         /\ (n \div ChunkBytes) * ChunkBytes \in Nat
<1>1. ChunkBytes \in Nat /\ ChunkBytes > 0
  BY ChunkAssumption
<1> DEFINE q == n \div ChunkBytes
<1>2. q \in Int /\ n = ChunkBytes * q + (n % ChunkBytes) /\ n % ChunkBytes \in 0 .. ChunkBytes - 1
  BY <1>1
<1>3. q \in Nat
  BY <1>1
<1>4. q * ChunkBytes \in Nat /\ q * ChunkBytes = ChunkBytes * q
  BY <1>1, <1>3
<1> HIDE DEF q
<1>5. q * ChunkBytes <= n /\ n - q * ChunkBytes < ChunkBytes
  BY <1>1, <1>2, <1>4
<1>6. QED
  BY <1>3, <1>4, <1>5 DEF q

\* The bytes of a sequence after the first m and up to the l-th.
LEMMA Slice ==
  ASSUME NEW s \in Seq(Nat), NEW m \in Nat, NEW l \in m .. Len(s)
  PROVE  /\ SubSeq(s, m + 1, l) \in Seq(Nat)
         /\ Len(SubSeq(s, m + 1, l)) = l - m
         /\ DOMAIN SubSeq(s, m + 1, l) = 1 .. l - m
         /\ \A i \in 1 .. l - m : SubSeq(s, m + 1, l)[i] = s[m + i]
<1>1. Len(s) \in Nat /\ l \in Nat /\ m <= l /\ l <= Len(s)
  OBVIOUS
<1> DEFINE t == SubSeq(s, m + 1, l)
<1>2. t = [i \in 1 .. (l - (m + 1)) + 1 |-> s[i + (m + 1) - 1]]
  OBVIOUS
<1>3. (l - (m + 1)) + 1 = l - m /\ l - m \in Nat
  BY <1>1
<1>4. t = [i \in 1 .. l - m |-> s[i + (m + 1) - 1]]
  BY <1>2, <1>3
<1> HIDE DEF t
<1>5. ASSUME NEW i \in 1 .. l - m
      PROVE  t[i] = s[m + i] /\ s[m + i] \in Nat
  <2>1. i + (m + 1) - 1 = m + i /\ m + i \in 1 .. Len(s)
    BY <1>1, <1>3
  <2>2. QED
    BY <1>4, <2>1
<1>6. t \in [1 .. l - m -> Nat]
  BY <1>4, <1>5
<1>7. t \in Seq(Nat) /\ Len(t) = l - m /\ DOMAIN t = 1 .. l - m
  <2> DEFINE n == l - m
  <2>1. n \in Nat /\ t \in [1 .. n -> Nat]
    BY <1>3, <1>6
  <2> HIDE DEF n
  <2>2. t \in Seq(Nat) /\ Len(t) = n /\ DOMAIN t = 1 .. n
    BY ONLY <2>1
  <2>3. QED
    BY <2>2 DEF n
<1>8. QED
  BY <1>5, <1>7 DEF t

\* push: the chunks it cuts are in order and the buffer goes on after them; all
\* bytes cut are samples.
LEMMA CutInOrder ==
  ASSUME NEW bytes \in Seq(Nat), NEW earlier \in Nat, NEW base \in Nat,
         Consecutive(bytes, base)
  PROVE  LET cs   == Cut(bytes, earlier)
             high == base + Len(bytes) - Len(Uncut(bytes))
         IN  /\ high \in Nat
             /\ base <= high
             /\ InOrder(cs, earlier, base, high)
             /\ Samples(cs, earlier) \in Nat
             /\ 2 * (Samples(cs, earlier) - earlier) = high - base
             /\ Uncut(bytes) \in Seq(Nat)
             /\ Consecutive(Uncut(bytes), high)
<1> DEFINE n    == Len(bytes) \div ChunkBytes
           half == ChunkBytes \div 2
           cs   == Cut(bytes, earlier)
           uncut == Uncut(bytes)
<1>1. ChunkBytes \in Nat /\ ChunkBytes > 0 /\ half \in Nat /\ 2 * half = ChunkBytes
  BY ChunkAssumption, HalfChunk
<1>2. Len(bytes) \in Nat /\ DOMAIN bytes = 1 .. Len(bytes)
  OBVIOUS
<1>3. /\ n \in Nat
      /\ n * ChunkBytes \in Nat
      /\ n * ChunkBytes <= Len(bytes)
      /\ Len(bytes) - n * ChunkBytes < ChunkBytes
  BY <1>2, Fitting
<1>4. /\ uncut \in Seq(Nat)
      /\ Len(uncut) = Len(bytes) - n * ChunkBytes
      /\ \A i \in DOMAIN uncut : uncut[i] = base + n * ChunkBytes + i
  <2> DEFINE m == n * ChunkBytes
  <2>1. uncut = SubSeq(bytes, m + 1, Len(bytes))
    BY DEF Uncut
  <2>2. m \in Nat /\ m <= Len(bytes)
    BY <1>3
  <2> HIDE DEF m, uncut
  <2>3. /\ uncut \in Seq(Nat)
        /\ Len(uncut) = Len(bytes) - m
        /\ DOMAIN uncut = 1 .. Len(uncut)
        /\ \A i \in 1 .. Len(uncut) : uncut[i] = bytes[m + i]
    <3>1. Len(bytes) \in m .. Len(bytes)
      BY <2>2, <1>2
    <3>2. QED
      BY <2>1, <2>2, <3>1, Slice, SMTT(30)
  <2>4. ASSUME NEW i \in 1 .. Len(uncut)
        PROVE  uncut[i] = base + m + i
    <3>1. m + i \in 1 .. Len(bytes)
      BY <2>2, <2>3, <1>2
    <3>2. bytes[m + i] = base + (m + i)
      BY <3>1, <1>2 DEF Consecutive
    <3>3. QED
      <4>1. base + (m + i) = base + m + i
        BY <2>2
      <4>2. uncut[i] = bytes[m + i]
        BY <2>3
      <4>3. QED
        BY <3>2, <4>1, <4>2
  <2>5. \A i \in DOMAIN uncut : uncut[i] = base + m + i
    BY <2>3, <2>4
  <2>6. /\ uncut \in Seq(Nat)
        /\ Len(uncut) = Len(bytes) - m
        /\ \A i \in DOMAIN uncut : uncut[i] = base + m + i
    BY <2>3, <2>5
  <2>7. QED
    BY <2>6 DEF m
<1> DEFINE high == base + Len(bytes) - Len(uncut)
<1>5. high \in Nat /\ base <= high /\ high = base + n * ChunkBytes
  BY <1>2, <1>3, <1>4
<1>6. ASSUME NEW k \in 1 .. n
      PROVE  /\ (k - 1) * ChunkBytes \in Nat
             /\ (k - 1) * ChunkBytes + ChunkBytes = k * ChunkBytes
             /\ k * ChunkBytes <= n * ChunkBytes
             /\ (k - 1) * half \in Nat
             /\ (k - 1) * half + half = k * half
  <2> HIDE DEF n, half
  <2>1. k \in Nat /\ k - 1 \in Nat /\ n - k \in Nat
    BY <1>3
  <2>2. ASSUME NEW x \in Nat
        PROVE  (k - 1) * x \in Nat /\ (k - 1) * x + x = k * x
    BY <2>1
  <2>3. k * ChunkBytes <= n * ChunkBytes
    <3>1. (n - k) * ChunkBytes \in Nat /\ k * ChunkBytes \in Nat
      BY <2>1, <1>1
    <3>2. n * ChunkBytes = k * ChunkBytes + (n - k) * ChunkBytes
      BY <2>1, <1>1, <1>3
    <3>3. QED
      BY <3>1, <3>2, <1>3
  <2>4. QED
    BY <2>2, <2>3, <1>1
<1>7. ASSUME NEW k \in 1 .. n
      PROVE  LET c == cs[k]
             IN  /\ c \in Chunks
                 /\ Len(c.bytes) = ChunkBytes
                 /\ DOMAIN c.bytes = 1 .. ChunkBytes
                 /\ \A i \in 1 .. ChunkBytes : c.bytes[i] = base + (k - 1) * ChunkBytes + i
                 /\ c.from = earlier + (k - 1) * half
                 /\ c.to = earlier + k * half
  <2> DEFINE p == (k - 1) * ChunkBytes
             piece == SubSeq(bytes, p + 1, k * ChunkBytes)
  <2>1. p \in Nat /\ k * ChunkBytes = p + ChunkBytes /\ p + ChunkBytes <= Len(bytes)
    BY <1>1, <1>2, <1>3, <1>6
  <2>2. piece = SubSeq(bytes, p + 1, p + ChunkBytes)
    BY <2>1
  <2>3. cs[k] = ChunkFrom(piece, earlier + (k - 1) * half, FALSE)
    BY DEF Cut
  <2> HIDE DEF p, piece, cs, n
  <2>4. /\ piece \in Seq(Nat)
        /\ Len(piece) = ChunkBytes
        /\ DOMAIN piece = 1 .. ChunkBytes
        /\ \A i \in 1 .. ChunkBytes : piece[i] = bytes[p + i]
    <3>1. p + ChunkBytes \in p .. Len(bytes) /\ (p + ChunkBytes) - p = ChunkBytes
      BY <2>1, <1>1, <1>2
    <3>2. QED
      BY <2>1, <2>2, <3>1, Slice
  <2>5. ASSUME NEW i \in 1 .. ChunkBytes
        PROVE  piece[i] = base + p + i
    <3>1. p + i \in 1 .. Len(bytes)
      BY <2>1, <1>1, <1>2
    <3>2. bytes[p + i] = base + (p + i)
      BY <3>1, <1>2 DEF Consecutive
    <3>3. base + (p + i) = base + p + i
      BY <2>1
    <3>4. piece[i] = bytes[p + i]
      BY <2>4
    <3>5. QED
      BY <3>2, <3>3, <3>4
  <2>6. cs[k] = [bytes |-> piece, from |-> earlier + (k - 1) * half,
                 to |-> earlier + (k - 1) * half + half, last |-> FALSE]
    BY <2>3, <2>4 DEF ChunkFrom
  <2>7. earlier + (k - 1) * half + half = earlier + k * half
    BY <1>1, <1>6, <1>3
  <2>8. earlier + (k - 1) * half \in Nat /\ earlier + k * half \in Nat
    <3>1. (k - 1) * half \in Nat /\ (k - 1) * half + half = k * half
      BY <1>6
    <3>2. k * half \in Nat
      BY <3>1, <1>1
    <3>3. QED
      BY <3>1, <3>2
  <2>9. QED
    BY <2>4, <2>5, <2>6, <2>7, <2>8 DEF Chunks, p
<1>8. cs \in Seq(Chunks) /\ Len(cs) = n /\ DOMAIN cs = 1 .. n
  <2>1. cs = [k \in 1 .. n |-> cs[k]]
    BY DEF Cut
  <2> HIDE DEF cs, n
  <2>2. \A k \in 1 .. n : cs[k] \in Chunks
    BY <1>7
  <2>3. cs \in [1 .. n -> Chunks]
    BY <2>1, <2>2
  <2>4. QED
    BY <2>3, <1>3
<1> HIDE DEF cs, uncut, high, n, half
<1>9. ASSUME NEW k \in 1 .. n
      PROVE  /\ Whole(cs[k])
             /\ First(cs[k]) = base + (k - 1) * ChunkBytes + 1
             /\ Last(cs[k]) = base + k * ChunkBytes
  <2> DEFINE p == (k - 1) * ChunkBytes
             c == cs[k]
  <2>1. p \in Nat /\ p + ChunkBytes = k * ChunkBytes
    BY <1>6
  <2>2. /\ c \in Chunks
        /\ Len(c.bytes) = ChunkBytes
        /\ DOMAIN c.bytes = 1 .. ChunkBytes
        /\ \A i \in 1 .. ChunkBytes : c.bytes[i] = base + p + i
        /\ c.from = earlier + (k - 1) * half
        /\ c.to = earlier + k * half
    BY <1>7
  <2> HIDE DEF p, c
  <2>3. 2 * (c.to - c.from) = ChunkBytes
    BY <2>2, <1>1, <1>6
  <2>4. First(c) = base + p + 1 /\ Last(c) = base + p + ChunkBytes
    <3>1. 1 \in 1 .. ChunkBytes /\ ChunkBytes \in 1 .. ChunkBytes
      BY <1>1
    <3>2. c.bytes[1] = base + p + 1 /\ c.bytes[ChunkBytes] = base + p + ChunkBytes
      BY <2>2, <3>1
    <3>3. QED
      BY <2>2, <3>2 DEF First, Last
  <2>5. \A i \in 1 .. ChunkBytes : c.bytes[i] = First(c) + i - 1
    BY <2>1, <2>2, <2>4, <1>1
  <2>6. c.bytes # <<>>
    BY <2>2, <1>1
  <2>7. Whole(c)
    BY <2>2, <2>3, <2>5, <2>6 DEF Whole
  <2>8. base + p + ChunkBytes = base + k * ChunkBytes
    BY <2>1, <1>1
  <2>9. QED
    BY <2>4, <2>7, <2>8 DEF c, p
<1>10. InOrder(cs, earlier, base, high)
  <2>1. ASSUME NEW k \in 1 .. Len(cs)
        PROVE  /\ Whole(cs[k])
               /\ base < First(cs[k])
               /\ Last(cs[k]) <= high
               /\ cs[k].from = (IF k = 1 THEN earlier ELSE cs[k - 1].to)
               /\ k > 1 => Last(cs[k - 1]) < First(cs[k])
    <3>0. k \in 1 .. n
      BY <1>8
    <3>1. Whole(cs[k])
      BY <1>9, <3>0
    <3>2. /\ First(cs[k]) = base + (k - 1) * ChunkBytes + 1
          /\ Last(cs[k]) = base + k * ChunkBytes
          /\ (k - 1) * ChunkBytes \in Nat
          /\ k * ChunkBytes <= n * ChunkBytes
          /\ k * ChunkBytes = (k - 1) * ChunkBytes + ChunkBytes
      BY <1>9, <1>6, <3>0
    <3>3. base < First(cs[k])
      BY <3>2
    <3>4. Last(cs[k]) <= high
      BY <3>2, <1>5, <1>3, <1>1
    <3>5. cs[k].from = (IF k = 1 THEN earlier ELSE cs[k - 1].to)
      <4>1. cs[k].from = earlier + (k - 1) * half
        BY <1>7, <3>0
      <4>2. CASE k = 1
        BY <4>1, <4>2, <1>1
      <4>3. CASE k # 1
        <5>1. k - 1 \in 1 .. n
          BY <4>3, <3>0, <1>3
        <5>2. cs[k - 1].to = earlier + (k - 1) * half
          BY <5>1, <1>7
        <5>3. QED
          BY <4>1, <4>3, <5>2
      <4>4. QED
        BY <4>2, <4>3
    <3>6. ASSUME k > 1 PROVE Last(cs[k - 1]) < First(cs[k])
      <4>1. k - 1 \in 1 .. n
        BY <3>6, <3>0, <1>3
      <4>2. Last(cs[k - 1]) = base + (k - 1) * ChunkBytes
        BY <4>1, <1>9
      <4>3. QED
        BY <4>2, <3>2
    <3>7. QED
      BY <3>1, <3>3, <3>4, <3>5, <3>6
  <2>2. QED
    BY <2>1, <1>8 DEF InOrder
<1>11. Samples(cs, earlier) = earlier + n * half
  <2>1. CASE n = 0
    <3>1. cs = <<>>
      BY <2>1, <1>8
    <3>2. n * half = 0
      BY <2>1, <1>1
    <3>3. QED
      BY <3>1, <3>2 DEF Samples
  <2>2. CASE n # 0
    <3>1. n \in 1 .. n /\ cs # <<>>
      BY <2>2, <1>3, <1>8
    <3>2. QED
      BY <3>1, <1>7, <1>8 DEF Samples
  <2>3. QED
    BY <2>1, <2>2
<1>12. n * half \in Nat /\ 2 * (n * half) = n * ChunkBytes
  <2>1. n * half \in Nat
    BY <1>1, <1>3
  <2>2. 2 * (n * half) = n * (2 * half)
    BY <1>1, <1>3
  <2>3. QED
    BY <2>1, <2>2, <1>1
<1>13. Samples(cs, earlier) \in Nat /\ 2 * (Samples(cs, earlier) - earlier) = high - base
  <2> DEFINE x == n * half
             y == n * ChunkBytes
             s == Samples(cs, earlier)
  <2>1. s = earlier + x /\ x \in Nat /\ 2 * x = y /\ high = base + y /\ y \in Nat
    BY <1>11, <1>12, <1>5, <1>3
  <2> HIDE DEF x, y, s
  <2>2. s \in Nat /\ 2 * (s - earlier) = high - base
    BY <2>1
  <2>3. QED
    BY <2>2 DEF s
<1>14. Consecutive(uncut, high)
  BY <1>4, <1>5 DEF Consecutive
<1>15. QED
  BY <1>4, <1>5, <1>10, <1>13, <1>14 DEF cs, uncut, high

\* Half a number, rounded down.
LEMMA Halves ==
  ASSUME NEW n \in Nat
  PROVE  /\ n \div 2 \in Nat
         /\ 2 * (n \div 2) \in 0 .. n
         /\ n - 2 * (n \div 2) \in {0, 1}
         /\ n >= 2 => n \div 2 > 0
         /\ (2 * n) \div 2 = n
OBVIOUS

\* flush: one chunk at most, of all bytes but that of half a sample.
LEMMA FlushInOrder ==
  ASSUME NEW bytes \in Seq(Nat), NEW earlier \in Nat, NEW base \in Nat,
         Consecutive(bytes, base)
  PROVE  LET cs == Flushed(bytes, earlier)
         IN  /\ InOrder(cs, earlier, base, base + Len(bytes))
             /\ Samples(cs, earlier) \in Nat
             /\ Len(bytes) - 2 * (Samples(cs, earlier) - earlier) \in {0, 1}
<1> DEFINE half == Len(bytes) \div 2
           cs   == Flushed(bytes, earlier)
           c    == ChunkFrom(SubSeq(bytes, 1, 2 * half), earlier, TRUE)
<1>1. Len(bytes) \in Nat /\ DOMAIN bytes = 1 .. Len(bytes)
  OBVIOUS
<1>2. half \in Nat /\ Len(bytes) - 2 * half \in {0, 1}
  BY <1>1, Halves
<1>3. CASE Len(bytes) < 2
  <2>1. cs = <<>>
    BY <1>3 DEF Flushed
  <2>2. Samples(cs, earlier) = earlier /\ Len(bytes) \in {0, 1}
    BY <1>1, <1>3, <2>1 DEF Samples
  <2>3. InOrder(cs, earlier, base, base + Len(bytes))
    BY <2>1 DEF InOrder
  <2>4. QED
    BY <2>2, <2>3
<1>4. CASE Len(bytes) >= 2
  <2>1. cs = <<c>> /\ half > 0
    <3>1. half > 0
      BY <1>1, <1>4, Halves
    <3>2. ~(Len(bytes) < 2)
      BY <1>1, <1>4
    <3>3. cs = <<c>>
      BY <3>2, Zenon DEF Flushed
    <3>4. QED
      BY <3>1, <3>3
  <2> DEFINE piece == SubSeq(bytes, 0 + 1, 2 * half)
  <2>2. 2 * half \in 0 .. Len(bytes) /\ 2 * half - 0 = 2 * half
    <3>1. 2 * half \in 0 .. Len(bytes)
      BY <1>1, Halves
    <3> HIDE DEF half
    <3>2. QED
      BY <3>1, <1>2
  <2>3. /\ piece \in Seq(Nat)
        /\ Len(piece) = 2 * half
        /\ DOMAIN piece = 1 .. 2 * half
        /\ \A i \in 1 .. 2 * half : piece[i] = bytes[0 + i]
    <3> HIDE DEF half
    <3> QED
      BY <2>2, Slice
  <2>4. \A i \in 1 .. 2 * half : piece[i] = base + i
    <3>1. \A i \in 1 .. 2 * half : 0 + i \in 1 .. Len(bytes) /\ 0 + i = i
      BY <1>1, <2>2
    <3>2. QED
      BY <3>1, <2>3, <1>1 DEF Consecutive
  <2>5. c = [bytes |-> piece, from |-> earlier, to |-> earlier + half, last |-> TRUE]
    <3>1. 0 + 1 = 1 /\ (2 * half) \div 2 = half
      <4> HIDE DEF half
      <4> QED
        BY <1>2, Halves
    <3>2. QED
      BY <3>1, <2>3 DEF ChunkFrom
  <2> HIDE DEF piece, c, half, cs
  <2>6. c \in Chunks
    BY <2>3, <2>5, <1>2 DEF Chunks
  <2>7. First(c) = base + 1 /\ Last(c) = base + 2 * half
    BY <2>1, <2>3, <2>4, <2>5, <1>2 DEF First, Last
  <2>8. Whole(c)
    BY <2>1, <2>3, <2>4, <2>5, <2>7, <1>2 DEF Whole
  <2>9. Len(cs) = 1 /\ cs[1] = c /\ cs \in Seq(Chunks) /\ cs # <<>>
    BY <2>1, <2>6
  <2>10. InOrder(cs, earlier, base, base + Len(bytes))
    <3>1. Last(c) <= base + Len(bytes) /\ base < First(c) /\ c.from = earlier
      <4>1. c.from = earlier
        BY <2>5
      <4>2. base < base + 1 /\ base + 2 * half <= base + Len(bytes)
        <5> DEFINE x == 2 * half
                   l == Len(bytes)
        <5>1. x \in Nat /\ l \in Nat /\ x <= l
          BY <2>2, <1>1
        <5> HIDE DEF x, l
        <5>2. base < base + 1 /\ base + x <= base + l
          BY <5>1
        <5>3. QED
          BY <5>2 DEF x, l
      <4>3. QED
        BY <4>1, <4>2, <2>7
    <3>2. ASSUME NEW k \in 1 .. Len(cs) PROVE k = 1
      BY <2>9
    <3>3. QED
      BY <3>1, <3>2, <2>8, <2>9 DEF InOrder
  <2>11. Samples(cs, earlier) = earlier + half
    BY <2>5, <2>9 DEF Samples
  <2>12. QED
    <3>1. Samples(cs, earlier) \in Nat /\ Len(bytes) - 2 * (Samples(cs, earlier) - earlier) \in {0, 1}
      <4>1. earlier + half \in Nat /\ (earlier + half) - earlier = half
        BY <1>2
      <4>2. QED
        BY <4>1, <2>11, <1>2
    <3>2. QED
      BY <2>10, <3>1 DEF cs
<1>5. QED
  BY <1>1, <1>3, <1>4

--------------------------------------------------------------------------------
(* What is sent. *)

EventNames == {"created", "text", "speech", "error", "completed", "finished"}

\* The events of appended audio: no text once the recogniser is taken.
AudioEvents == IF asr = "open" THEN {"text", "speech", "error"} ELSE {"speech", "error"}

\* The events of all chunks of a message are events of its chunks.
LEMMA EventsOfChunks ==
  ASSUME NEW outcomes, NEW failures, NEW S, Len(outcomes) \in Nat,
         \A k \in 1 .. Len(outcomes) : EventsOf(outcomes[k], failures) \in Seq(S)
  PROVE  EventsOfAll(outcomes, failures) \in Seq(S)
<1> DEFINE n       == Len(outcomes)
           E(k)    == EventsOf(outcomes[k], failures)
           R(f, m) == f = [k \in 0 .. m |-> IF k = 0 THEN <<>> ELSE f[k - 1] \o E(k)]
           upTo    == CHOOSE f : R(f, n)
<1>1. EventsOfAll(outcomes, failures) = upTo[n]
  BY Zenon DEF EventsOfAll
<1> DEFINE Bad == {m \in 0 .. n : ~ \E f \in [0 .. m -> Seq(S)] : R(f, m)}
<1>2. n \in Nat /\ (\A k \in 1 .. n : E(k) \in Seq(S))
  OBVIOUS
<1> HIDE DEF n, E
<1>3. ASSUME NEW m \in 0 .. n, NEW f \in [0 .. m -> Seq(S)], R(f, m), m < n
      PROVE  \E g \in [0 .. m + 1 -> Seq(S)] : R(g, m + 1)
  <2>0. m \in Nat /\ m + 1 \in 1 .. n
    BY <1>2, <1>3
  <2> DEFINE g == [k \in 0 .. m + 1 |-> IF k = m + 1 THEN f[m] \o E(m + 1) ELSE f[k]]
  <2>1. f[m] \o E(m + 1) \in Seq(S)
    <3>1. f[m] \in Seq(S) /\ E(m + 1) \in Seq(S)
      BY <2>0, <1>2
    <3>2. QED
      BY <3>1
  <2>2. \A k \in 0 .. m + 1 : k # m + 1 => k \in 0 .. m
    BY <2>0
  <2>3. g \in [0 .. m + 1 -> Seq(S)]
    BY <2>1, <2>2
  <2>4. ASSUME NEW k \in 0 .. m + 1
        PROVE  g[k] = IF k = 0 THEN <<>> ELSE g[k - 1] \o E(k)
    <3>1. CASE k = m + 1
      <4>1. k # 0 /\ k - 1 = m /\ m \in 0 .. m + 1 /\ m # m + 1
        BY <3>1, <2>0
      <4>2. g[k - 1] = f[m] /\ g[k] = f[m] \o E(k)
        BY <3>1, <4>1
      <4>3. QED
        BY <4>1, <4>2
    <3>2. CASE k # m + 1
      <4>1. k \in 0 .. m /\ g[k] = f[k]
        BY <3>2, <2>2
      <4>2. f[k] = IF k = 0 THEN <<>> ELSE f[k - 1] \o E(k)
        BY <4>1, <1>3
      <4>3. k # 0 => k - 1 \in 0 .. m + 1 /\ k - 1 # m + 1
        BY <4>1, <2>0
      <4>4. k # 0 => g[k - 1] = f[k - 1]
        BY <4>3
      <4>5. QED
        BY <4>1, <4>2, <4>4
    <3>3. QED
      BY <3>1, <3>2
  <2>5. R(g, m + 1)
    <3>1. g = [k \in 0 .. m + 1 |-> g[k]]
      OBVIOUS
    <3> HIDE DEF g
    <3>2. QED
      BY <3>1, <2>4
  <2>6. QED
    BY <2>3, <2>5
<1>4. Bad = {}
  <2> DEFINE below == OpToRel(<, Nat)
  <2> SUFFICES ASSUME Bad # {} PROVE FALSE
    OBVIOUS
  <2>1. IsWellFoundedOn(below, Nat)
    BY NatLessThanWellFounded
  <2>2. \A i, j \in Nat : i < j => <<i, j>> \in below
    BY DEF OpToRel
  <2>3. Bad \in SUBSET Nat
    BY <1>2
  <2> HIDE DEF below, Bad
  <2>4. PICK m \in Bad : \A i \in Bad : ~(<<i, m>> \in below)
    BY <2>1, <2>3, WFMin
  <2>5. m \in 0 .. n /\ ~ \E f \in [0 .. m -> Seq(S)] : R(f, m)
    BY <2>4 DEF Bad
  <2>6. CASE m = 0
    <3> DEFINE z == [k \in 0 .. 0 |-> <<>>]
    <3>1. z \in [0 .. 0 -> Seq(S)]
      OBVIOUS
    <3>2. R(z, 0)
      <4>1. \A k \in 0 .. 0 : k = 0
        OBVIOUS
      <4>2. [k \in 0 .. 0 |-> IF k = 0 THEN <<>> ELSE z[k - 1] \o E(k)] = [k \in 0 .. 0 |-> <<>>]
        BY <4>1, Zenon
      <4>3. QED
        BY <4>2
    <3> HIDE DEF z
    <3>3. QED
      BY <3>1, <3>2, <2>5, <2>6
  <2>7. CASE m # 0
    <3>1. m - 1 \in 0 .. n /\ m - 1 < m /\ m - 1 < n /\ (m - 1) + 1 = m
      BY <2>5, <2>7, <1>2
    <3>2. m - 1 \notin Bad
      BY <3>1, <2>2, <2>3, <2>4
    <3>3. PICK f \in [0 .. m - 1 -> Seq(S)] : R(f, m - 1)
      BY <3>1, <3>2 DEF Bad
    <3>4. \E g \in [0 .. (m - 1) + 1 -> Seq(S)] : R(g, (m - 1) + 1)
      <4> HIDE DEF R
      <4> QED
        BY <1>3, <3>1, <3>3
    <3>5. QED
      <4> HIDE DEF R
      <4> QED
        BY <3>1, <3>4, <2>5
  <2>8. QED
    BY <2>6, <2>7
<1>5. \E f : R(f, n)
  <2> HIDE DEF R
  <2>1. n \in 0 .. n
    BY <1>2
  <2>2. QED
    BY <2>1, <1>4
<1>6. R(upTo, n)
  <2> HIDE DEF R
  <2> QED
    BY <1>5
<1> HIDE DEF upTo
<1>7. \A k \in 0 .. n : upTo[k] = IF k = 0 THEN <<>> ELSE upTo[k - 1] \o E(k)
  BY <1>6
<1> DEFINE Wrong == {m \in 0 .. n : upTo[m] \notin Seq(S)}
<1>8. Wrong = {}
  <2> DEFINE below == OpToRel(<, Nat)
  <2> SUFFICES ASSUME Wrong # {} PROVE FALSE
    OBVIOUS
  <2>1. IsWellFoundedOn(below, Nat)
    BY NatLessThanWellFounded
  <2>2. \A i, j \in Nat : i < j => <<i, j>> \in below
    BY DEF OpToRel
  <2>3. Wrong \in SUBSET Nat
    BY <1>2
  <2> HIDE DEF below, Wrong
  <2>4. PICK m \in Wrong : \A i \in Wrong : ~(<<i, m>> \in below)
    BY <2>1, <2>3, WFMin
  <2>5. m \in 0 .. n /\ upTo[m] \notin Seq(S)
    BY <2>4 DEF Wrong
  <2>6. CASE m = 0
    <3>1. upTo[0] = <<>>
      BY <2>5, <2>6, <1>7
    <3>2. <<>> \in Seq(S)
      OBVIOUS
    <3>3. QED
      BY <3>1, <3>2, <2>5, <2>6
  <2>7. CASE m # 0
    <3>1. m - 1 \in 0 .. n /\ m - 1 < m /\ m \in 1 .. n
      BY <2>5, <2>7, <1>2
    <3>2. upTo[m - 1] \in Seq(S)
      BY <3>1, <2>2, <2>3, <2>4 DEF Wrong
    <3>3. E(m) \in Seq(S)
      BY <3>1, <1>2
    <3>4. upTo[m - 1] \o E(m) \in Seq(S)
      BY <3>2, <3>3
    <3>5. QED
      BY <3>4, <2>5, <2>7, <1>7
  <2>8. QED
    BY <2>6, <2>7
<1>9. n \in 0 .. n
  BY <1>2
<1>10. QED
  BY <1>1, <1>8, <1>9

\* n of the events are sent after those sent before.
Sent(events, n) ==
  /\ n \in 0 .. Len(events)
  /\ sent' \in Seq(EventNames)
  /\ Len(sent') = Len(sent) + n
  /\ \A i \in 1 .. Len(sent) : sent'[i] = sent[i]
  /\ \A i \in 1 .. n : sent'[Len(sent) + i] = events[i]

\* The events of a message are sent from the first on, all of them unless the
\* socket fails, which ends the session.
LEMMA SendsSome ==
  ASSUME NEW events \in Seq(EventNames), sent \in Seq(EventNames), Sends(events)
  PROVE  \E n \in 0 .. Len(events) :
           /\ Sent(events, n)
           /\ socket' = (IF n = Len(events) THEN "open" ELSE "closed")
<1>1. Len(events) \in Nat /\ Len(sent) \in Nat
  OBVIOUS
<1>2. ASSUME NEW part \in Seq(EventNames), Len(part) \in 0 .. Len(events),
             \A i \in 1 .. Len(part) : part[i] = events[i],
             sent' = sent \o part
      PROVE  Sent(events, Len(part))
  <2> DEFINE all == sent \o part
  <2>1. /\ all \in Seq(EventNames)
        /\ Len(all) = Len(sent) + Len(part)
        /\ \A i \in 1 .. Len(sent) : all[i] = sent[i]
        /\ \A i \in 1 .. Len(part) : all[Len(sent) + i] = part[i]
    <3>1. sent \in Seq(EventNames) /\ part \in Seq(EventNames)
      OBVIOUS
    <3>2. QED
      BY ONLY <3>1, Joined
  <2> HIDE DEF all
  <2>2. sent' = all
    BY <1>2 DEF all
  <2>3. QED
    BY <1>2, <2>1, <2>2 DEF Sent
<1>3. CASE sent' = sent \o events /\ socket' = "open"
  <2>1. Sent(events, Len(events))
    BY <1>1, <1>2, <1>3
  <2>2. Len(events) \in 0 .. Len(events)
    BY <1>1
  <2>3. QED
    BY <1>3, <2>1, <2>2
<1>4. ASSUME NEW n \in 0 .. (Len(events) - 1),
             sent' = sent \o SubSeq(events, 1, n), socket' = "closed"
      PROVE  Sent(events, n) /\ n # Len(events) /\ n \in 0 .. Len(events)
  <2> DEFINE part == SubSeq(events, 1, n)
  <2>1. n \in Nat /\ n < Len(events)
    BY <1>1
  <2>2. part = [i \in 1 .. (n - 1) + 1 |-> events[i + 1 - 1]]
    BY <2>1
  <2>3. \A i \in 1 .. n : i \in 1 .. Len(events) /\ i + 1 - 1 = i
    BY <1>1, <2>1
  <2>4. part = [i \in 1 .. n |-> events[i]]
    BY <2>1, <2>2, <2>3
  <2>5. part \in [1 .. n -> EventNames]
    <3>1. \A i \in 1 .. Len(events) : events[i] \in EventNames
      OBVIOUS
    <3>2. QED
      BY <3>1, <2>3, <2>4
  <2> HIDE DEF part
  <2>6. part \in Seq(EventNames) /\ Len(part) = n
    BY <2>1, <2>5
  <2>7. Sent(events, Len(part))
    <3>1. Len(part) \in 0 .. Len(events)
      BY <1>1, <2>1, <2>6
    <3>2. \A i \in 1 .. Len(part) : part[i] = events[i]
      BY <2>4, <2>6
    <3>3. sent' = sent \o part
      BY <1>4 DEF part
    <3>4. QED
      BY <1>2, <2>6, <3>1, <3>2, <3>3
  <2>8. QED
    BY <1>1, <2>1, <2>6, <2>7
<1>5. QED
  BY <1>3, <1>4 DEF Sends

\* The events of a chunk, when failures are reported as these events.
LEMMA OutcomeEvents ==
  ASSUME NEW outcome \in Outcomes, NEW failures \in Seq({"error"})
  PROVE  EventsOf(outcome, failures) \in Seq(AudioEvents)
<1>1. failures \in Seq(AudioEvents)
  <2>1. "error" \in AudioEvents
    BY DEF AudioEvents
  <2>2. QED
    BY <2>1
<1>2. outcome \in {"text", "speech and text"} => asr = "open"
  BY DEF Outcomes, Recognised
<1>3. asr = "open" => AudioEvents = {"text", "speech", "error"}
  BY DEF AudioEvents
<1>4. "speech" \in AudioEvents
  BY DEF AudioEvents
<1>5. CASE outcome = "text"
  <2>1. <<"text">> \in Seq(AudioEvents)
    BY <1>2, <1>3, <1>5
  <2>2. QED
    BY <1>5, <2>1 DEF EventsOf
<1>6. CASE outcome = "speech and text"
  <2>1. <<"speech", "text">> \in Seq(AudioEvents)
    <3>1. "text" \in AudioEvents
      BY <1>2, <1>3, <1>6
    <3>2. QED
      BY <3>1, <1>4
  <2>2. QED
    BY <1>6, <2>1 DEF EventsOf
<1>7. CASE outcome = "speech"
  <2>1. <<"speech">> \in Seq(AudioEvents)
    BY <1>4
  <2>2. QED
    BY <1>7, <2>1 DEF EventsOf
<1>8. CASE outcome = "nothing"
  <2>1. <<>> \in Seq(AudioEvents)
    OBVIOUS
  <2>2. QED
    BY <1>8, <2>1 DEF EventsOf
<1>9. CASE outcome \notin {"text", "speech and text", "speech", "nothing"}
  <2>1. EventsOf(outcome, failures) = failures
    BY <1>9 DEF EventsOf
  <2>2. QED
    BY <1>1, <2>1
<1>10. QED
  BY <1>5, <1>6, <1>7, <1>8, <1>9

\* The events of the chunks of a message.
LEMMA MessageEvents ==
  ASSUME NEW cs \in Seq(Chunks), NEW outcomes \in [DOMAIN cs -> Outcomes],
         NEW failures \in Seq({"error"})
  PROVE  /\ EventsOfAll(outcomes, failures) \in Seq(AudioEvents)
         /\ EventsOfAll(outcomes, failures) \in Seq(EventNames)
<1>1. Len(cs) \in Nat /\ outcomes \in [1 .. Len(cs) -> Outcomes]
  OBVIOUS
<1>2. Len(outcomes) = Len(cs) /\ Len(outcomes) \in Nat
  BY <1>1
<1>3. \A k \in 1 .. Len(outcomes) : EventsOf(outcomes[k], failures) \in Seq(AudioEvents)
  BY <1>1, <1>2, OutcomeEvents
<1>4. EventsOfAll(outcomes, failures) \in Seq(AudioEvents)
  BY <1>2, <1>3, EventsOfChunks
<1>5. AudioEvents \subseteq EventNames
  BY DEF AudioEvents, EventNames
<1>6. QED
  <2> DEFINE e == EventsOfAll(outcomes, failures)
  <2> HIDE DEF e
  <2>1. e \in Seq(AudioEvents)
    BY <1>4 DEF e
  <2>2. e \in Seq(EventNames)
    BY <2>1, <1>5
  <2>3. QED
    BY <2>1, <2>2 DEF e

\* The events of a finish: those of the chunk flushed and of the detector, the
\* final text if there is one, and that the session is finished.
LEMMA LastEvents ==
  ASSUME NEW audio \in Seq(AudioEvents), NEW result \in FinishResults
  PROVE  LET events == audio \o FinishEvents(result)
             c      == Len(events) - 1
         IN  /\ events \in Seq(EventNames)
             /\ c \in Nat
             /\ events[c + 1] = "finished"
             /\ \A i \in 1 .. c - 1 : events[i] \in AudioEvents
             /\ result \in {"completed", "speech and completed"}
                  => c > 0 /\ events[c] = "completed"
             /\ result \notin {"completed", "speech and completed"} /\ c > 0
                  => events[c] \in AudioEvents
<1> DEFINE last   == FinishEvents(result)
           events == audio \o last
           c      == Len(events) - 1
<1>1. Len(audio) \in Nat
  OBVIOUS
<1>2. AudioEvents \subseteq EventNames /\ "speech" \in AudioEvents
  BY DEF AudioEvents, EventNames
<1>3. audio \in Seq(EventNames)
  BY <1>2
<1>4. /\ last \in Seq(EventNames)
      /\ events \in Seq(EventNames)
      /\ Len(events) = Len(audio) + Len(last)
      /\ \A i \in 1 .. Len(audio) : events[i] = audio[i]
      /\ \A i \in 1 .. Len(last) : events[Len(audio) + i] = last[i]
  <2>1. last \in Seq(EventNames)
    <3>1. <<"completed", "finished">> \in Seq(EventNames)
      BY DEF EventNames
    <3>2. <<"speech", "completed", "finished">> \in Seq(EventNames)
      BY DEF EventNames
    <3>3. <<"finished">> \in Seq(EventNames)
      BY DEF EventNames
    <3>4. QED
      BY <3>1, <3>2, <3>3 DEF FinishEvents
  <2> HIDE DEF last
  <2>2. QED
    BY ONLY <1>3, <2>1, Joined
<1>5. \A i \in 1 .. Len(audio) : audio[i] \in AudioEvents
  OBVIOUS
<1>6. CASE result = "completed"
  <2>1. last = <<"completed", "finished">>
    BY <1>6 DEF FinishEvents
  <2>2. Len(last) = 2 /\ last[1] = "completed" /\ last[2] = "finished"
    BY <2>1
  <2> HIDE DEF last, events
  <2>3. /\ Len(events) = Len(audio) + 2
        /\ \A i \in 1 .. Len(audio) : events[i] = audio[i]
        /\ \A i \in 1 .. 2 : events[Len(audio) + i] = last[i]
    BY <2>2, <1>4
  <2>4. c = Len(audio) + 1 /\ c + 1 = Len(audio) + 2 /\ c \in Nat /\ c > 0 /\ c - 1 = Len(audio)
    BY <2>3, <1>1
  <2> HIDE DEF c
  <2>5. /\ events[c + 1] = "finished"
        /\ \A i \in 1 .. c - 1 : events[i] \in AudioEvents
        /\ c > 0 /\ events[c] = "completed"
    BY <2>2, <2>3, <2>4, <1>5, <1>6
  <2>6. QED
    BY <2>4, <2>5, <1>4, <1>6 DEF events, c, last
<1>7. CASE result = "speech and completed"
  <2>1. last = <<"speech", "completed", "finished">>
    BY <1>7 DEF FinishEvents
  <2>2. /\ Len(last) = 3
        /\ last[1] = "speech"
        /\ last[2] = "completed"
        /\ last[3] = "finished"
    BY <2>1
  <2> HIDE DEF last, events
  <2>3. /\ Len(events) = Len(audio) + 3
        /\ \A i \in 1 .. Len(audio) : events[i] = audio[i]
        /\ \A i \in 1 .. 3 : events[Len(audio) + i] = last[i]
    BY <2>2, <1>4
  <2>4. c = Len(audio) + 2 /\ c + 1 = Len(audio) + 3 /\ c \in Nat /\ c > 0 /\ c - 1 = Len(audio) + 1
    BY <2>3, <1>1
  <2> HIDE DEF c
  <2>5. \A i \in 1 .. c - 1 : events[i] \in AudioEvents
    <3>1. \A i \in 1 .. c - 1 : i \in 1 .. Len(audio) \/ i = Len(audio) + 1
      BY <2>4, <1>1
    <3>2. events[Len(audio) + 1] = "speech"
      BY <2>2, <2>3
    <3>3. QED
      BY <3>1, <3>2, <2>3, <1>2, <1>5
  <2>6. /\ events[c + 1] = "finished"
        /\ \A i \in 1 .. c - 1 : events[i] \in AudioEvents
        /\ c > 0 /\ events[c] = "completed"
    <3>1. 2 \in 1 .. 3 /\ 3 \in 1 .. 3
      OBVIOUS
    <3>2. events[c] = last[2] /\ events[c + 1] = last[3]
      BY <3>1, <2>3, <2>4
    <3>3. QED
      BY <3>2, <2>2, <2>4, <2>5
  <2>7. QED
    BY <2>4, <2>6, <1>4, <1>7 DEF events, c, last
<1>8. CASE result \notin {"completed", "speech and completed"}
  <2>1. last = <<"finished">>
    BY <1>8 DEF FinishEvents
  <2>2. Len(last) = 1 /\ last[1] = "finished"
    BY <2>1
  <2> HIDE DEF last, events
  <2>3. /\ Len(events) = Len(audio) + 1
        /\ \A i \in 1 .. Len(audio) : events[i] = audio[i]
        /\ \A i \in 1 .. 1 : events[Len(audio) + i] = last[i]
    BY <2>2, <1>4
  <2>4. c = Len(audio) /\ c + 1 = Len(audio) + 1 /\ c \in Nat
    BY <2>3, <1>1
  <2>5. \A i \in 1 .. c : events[i] \in AudioEvents
    BY <2>3, <2>4, <1>5
  <2>6. (\A i \in 1 .. c - 1 : i \in 1 .. c) /\ (c > 0 => c \in 1 .. c)
    BY <2>4
  <2> HIDE DEF c
  <2>7. /\ events[c + 1] = "finished"
        /\ \A i \in 1 .. c - 1 : events[i] \in AudioEvents
        /\ c > 0 => events[c] \in AudioEvents
    <3>1. 1 \in 1 .. 1
      OBVIOUS
    <3>2. events[c + 1] = last[1]
      BY <3>1, <2>3, <2>4
    <3>3. QED
      BY <3>2, <2>2, <2>5, <2>6
  <2>8. QED
    BY <2>4, <2>7, <1>4, <1>8 DEF events, c, last
<1>9. QED
  BY <1>6, <1>7, <1>8

--------------------------------------------------------------------------------
(* The chunks are the audio. *)

\* The bytes a finish has cut off as half a sample.
LostBytes == received - Len(buffer) - 2 * emitted

\* The chunks hold the audio up to the buffer, and no more bytes are lost than
\* finishes have been reported, or were about to be when the socket failed.
AudioInv ==
  /\ sent \in Seq(EventNames)
  /\ socket \in {"open", "closed"}
  /\ received \in Nat
  /\ emitted \in Nat
  /\ buffer \in Seq(Nat)
  /\ Len(buffer) <= received
  /\ Consecutive(buffer, received - Len(buffer))
  /\ InOrder(chunks, 0, 0, received - Len(buffer))
  /\ emitted = Samples(chunks, 0)
  /\ LostBytes <= Cardinality(SentFinished) + (IF socket = "open" THEN 0 ELSE 1)

\* What has been sent stays sent, so the finishes reported do.
LEMMA FinishedGrows ==
  ASSUME NEW events \in Seq(EventNames), NEW n, sent \in Seq(EventNames), Sent(events, n)
  PROVE  /\ IsFiniteSet(SentFinished) /\ Cardinality(SentFinished) \in Nat
         /\ IsFiniteSet(SentFinished') /\ Cardinality(SentFinished') \in Nat
         /\ Cardinality(SentFinished) <= Cardinality(SentFinished')
         /\ n > 0 /\ events[n] = "finished"
              => Cardinality(SentFinished) + 1 <= Cardinality(SentFinished')
<1>1. /\ n \in 0 .. Len(events)
      /\ sent' \in Seq(EventNames)
      /\ Len(sent') = Len(sent) + n
      /\ \A i \in 1 .. Len(sent) : sent'[i] = sent[i]
      /\ \A i \in 1 .. n : sent'[Len(sent) + i] = events[i]
  BY DEF Sent
<1>2. Len(sent) \in Nat /\ n \in Nat /\ DOMAIN sent = 1 .. Len(sent) /\ DOMAIN sent' = 1 .. Len(sent')
  <2>1. Len(events) \in Nat /\ Len(sent) \in Nat
    OBVIOUS
  <2>2. QED
    BY <2>1, <1>1
<1>3. SentFinished = {i \in 1 .. Len(sent) : sent[i] = "finished"}
  BY <1>2 DEF SentFinished
<1>4. SentFinished' = {i \in 1 .. Len(sent) + n : sent'[i] = "finished"}
  BY <1>1, <1>2 DEF SentFinished
<1>5. IsFiniteSet(1 .. Len(sent)) /\ IsFiniteSet(1 .. Len(sent) + n)
  <2>1. Len(sent) + n \in Int /\ Len(sent) \in Int /\ 1 \in Int
    BY <1>2
  <2>2. QED
    BY <2>1, FS_Interval
<1> DEFINE old == SentFinished
<1>6. PICK new : new = SentFinished'
  OBVIOUS
<1>7. old \subseteq 1 .. Len(sent) /\ new \subseteq 1 .. Len(sent) + n
  BY <1>3, <1>4, <1>6
<1>8. old \subseteq new
  BY <1>1, <1>2, <1>3, <1>4, <1>6
<1>9. n > 0 /\ events[n] = "finished" => Len(sent) + n \in new /\ Len(sent) + n \notin old
  BY <1>1, <1>2, <1>3, <1>4, <1>6
<1> HIDE DEF old
<1>10. IsFiniteSet(old) /\ Cardinality(old) \in Nat /\ IsFiniteSet(new) /\ Cardinality(new) \in Nat
  <2>1. IsFiniteSet(old) /\ IsFiniteSet(new)
    BY <1>5, <1>7, FS_Subset
  <2>2. QED
    BY <2>1, FS_CardinalityType
<1>11. Cardinality(old) <= Cardinality(new)
  BY <1>8, <1>10, FS_Subset
<1>12. ASSUME n > 0, events[n] = "finished"
       PROVE  Cardinality(old) + 1 <= Cardinality(new)
  <2>1. Len(sent) + n \in new /\ Len(sent) + n \notin old
    BY <1>9, <1>12
  <2>2. /\ IsFiniteSet(old \cup {Len(sent) + n})
        /\ Cardinality(old \cup {Len(sent) + n}) = Cardinality(old) + 1
    BY <2>1, <1>10, FS_AddElement
  <2>3. old \cup {Len(sent) + n} \subseteq new
    BY <2>1, <1>8
  <2>4. Cardinality(old \cup {Len(sent) + n}) <= Cardinality(new)
    BY <2>2, <2>3, <1>10, FS_Subset
  <2>5. QED
    BY <2>2, <2>4
<1>13. QED
  BY <1>6, <1>10, <1>11, <1>12 DEF old

\* A message that has no audio and no finish leaves the audio as it is.
LEMMA NoAudio ==
  ASSUME AudioInv, socket = "open", NEW events \in Seq(EventNames), NEW n, Sent(events, n),
         socket' \in {"open", "closed"},
         UNCHANGED <<buffer, emitted, received, chunks>>
  PROVE  AudioInv'
<1>1. sent \in Seq(EventNames)
  BY DEF AudioInv
<1>2. /\ Cardinality(SentFinished) \in Nat
      /\ Cardinality(SentFinished') \in Nat
      /\ Cardinality(SentFinished) <= Cardinality(SentFinished')
  BY <1>1, FinishedGrows
<1>3. LostBytes \in Int
  BY DEF AudioInv, LostBytes
<1>4. LostBytes' <= Cardinality(SentFinished') + (IF socket' = "open" THEN 0 ELSE 1)
  <2>1. LostBytes' = LostBytes
    BY DEF LostBytes
  <2>2. LostBytes <= Cardinality(SentFinished)
    BY <1>2 DEF AudioInv
  <2>3. QED
    BY <2>1, <2>2, <1>2, <1>3
<1>5. sent' \in Seq(EventNames)
  BY DEF Sent
<1>6. QED
  BY <1>4, <1>5 DEF AudioInv, Samples

\* The bytes of an append go on after those in the buffer.
LEMMA AppendedBytes ==
  ASSUME AudioInv, NEW n \in AppendSizes
  PROVE  LET bytes == buffer \o [i \in 1 .. n |-> received + i]
         IN  /\ bytes \in Seq(Nat)
             /\ Len(bytes) = Len(buffer) + n
             /\ Consecutive(bytes, received - Len(buffer))
<1> DEFINE base  == received - Len(buffer)
           more  == [i \in 1 .. n |-> received + i]
           bytes == buffer \o more
<1>1. /\ received \in Nat
      /\ buffer \in Seq(Nat)
      /\ Len(buffer) <= received
      /\ Consecutive(buffer, base)
      /\ n \in Nat
  BY AppendAssumption DEF AudioInv
<1>2. Len(buffer) \in Nat /\ base \in Nat
  BY <1>1
<1>3. more \in Seq(Nat) /\ Len(more) = n /\ \A i \in 1 .. n : more[i] = received + i
  <2>1. more \in [1 .. n -> Nat]
    BY <1>1
  <2>2. QED
    BY <2>1, <1>1
<1> HIDE DEF more
<1>4. /\ bytes \in Seq(Nat)
      /\ Len(bytes) = Len(buffer) + n
      /\ \A i \in 1 .. Len(buffer) : bytes[i] = buffer[i]
      /\ \A i \in Len(buffer) + 1 .. Len(bytes) : bytes[i] = more[i - Len(buffer)]
  <2>1. buffer \in Seq(Nat) /\ more \in Seq(Nat)
    BY <1>1, <1>3
  <2>2. /\ bytes \in Seq(Nat)
        /\ Len(bytes) = Len(buffer) + Len(more)
        /\ \A i \in 1 .. Len(buffer) : bytes[i] = buffer[i]
        /\ \A i \in Len(buffer) + 1 .. Len(bytes) : bytes[i] = more[i - Len(buffer)]
    BY ONLY <2>1, Joined
  <2>3. QED
    BY <2>2, <1>3
<1>5. Consecutive(bytes, base)
  <2>1. DOMAIN bytes = 1 .. Len(bytes) /\ DOMAIN buffer = 1 .. Len(buffer)
    BY <1>4, <1>1
  <2> HIDE DEF bytes
  <2>2. ASSUME NEW i \in 1 .. Len(bytes)
        PROVE  bytes[i] = base + i
    <3>1. CASE i <= Len(buffer)
      <4>1. i \in 1 .. Len(buffer)
        BY <3>1, <1>2
      <4>2. bytes[i] = buffer[i] /\ buffer[i] = base + i
        BY <4>1, <2>1, <1>1, <1>4 DEF Consecutive
      <4>3. QED
        BY <4>2
    <3>2. CASE i > Len(buffer)
      <4>1. i \in Len(buffer) + 1 .. Len(bytes) /\ i - Len(buffer) \in 1 .. n
        BY <3>2, <1>1, <1>2, <1>4
      <4>2. bytes[i] = received + (i - Len(buffer))
        BY <4>1, <1>3, <1>4
      <4>3. QED
        BY <4>2, <1>1, <1>2
    <3>3. QED
      BY <3>1, <3>2, <1>2
  <2>3. QED
    BY <2>1, <2>2 DEF Consecutive
<1>6. QED
  BY <1>4, <1>5 DEF more

\* The appended audio goes into chunks and the buffer without a byte lost.
LEMMA AppendKeepsAudio ==
  ASSUME AudioInv, NEW n \in AppendSizes, Append64(n)
  PROVE  AudioInv'
<1> DEFINE base  == received - Len(buffer)
           more  == [i \in 1 .. n |-> received + i]
           bytes == buffer \o more
           cs    == Cut(bytes, emitted)
           uncut  == Uncut(bytes)
           high  == base + Len(bytes) - Len(uncut)
<1>1. /\ sent \in Seq(EventNames)
      /\ received \in Nat
      /\ emitted \in Nat
      /\ buffer \in Seq(Nat)
      /\ Len(buffer) <= received
      /\ Consecutive(buffer, base)
      /\ InOrder(chunks, 0, 0, base)
      /\ emitted = Samples(chunks, 0)
      /\ n \in Nat
  BY AppendAssumption DEF AudioInv
<1>2. Len(buffer) \in Nat /\ base \in Nat
  BY <1>1
<1>4. /\ bytes \in Seq(Nat)
      /\ Len(bytes) = Len(buffer) + n
  BY AppendedBytes
<1>5. Consecutive(bytes, base)
  BY AppendedBytes
<1>6. /\ buffer' = uncut
      /\ emitted' = Samples(cs, emitted)
      /\ chunks' = chunks \o cs
      /\ received' = received + n
      /\ socket = "open"
  BY DEF Append64, Reads, more
<1>7. PICK outcomes \in [DOMAIN cs -> Outcomes] : Sends(EventsOfAll(outcomes, <<"error">>))
  BY DEF Append64, more
<1> HIDE DEF bytes, cs, uncut
<1>8. /\ high \in Nat
      /\ base <= high
      /\ InOrder(cs, emitted, base, high)
      /\ Samples(cs, emitted) \in Nat
      /\ 2 * (Samples(cs, emitted) - emitted) = high - base
      /\ uncut \in Seq(Nat)
      /\ Consecutive(uncut, high)
  BY <1>1, <1>2, <1>4, <1>5, CutInOrder DEF cs, uncut
<1> HIDE DEF base, high
<1>9. /\ InOrder(chunks \o cs, 0, 0, high)
      /\ Samples(chunks \o cs, 0) = Samples(cs, emitted)
  <2>1. 0 <= base /\ 0 \in Nat
    BY <1>2
  <2>2. QED
    <3>1. InOrder(chunks, 0, 0, base) /\ emitted = Samples(chunks, 0)
      BY <1>1
    <3>2. InOrder(cs, Samples(chunks, 0), base, high)
      BY <3>1, <1>8
    <3>3. base \in Nat /\ high \in Nat /\ base <= high
      BY <1>1, <1>2, <1>8
    <3>4. QED
      BY ONLY <2>1, <3>1, <3>2, <3>3, FollowInOrder
<1>10. Len(uncut) \in Nat /\ Len(bytes) \in Nat
  BY <1>4, <1>8
<1>11. received' - Len(buffer') = high /\ Len(buffer') <= received' /\ received' \in Nat
  <2>1. high = base + Len(bytes) - Len(uncut) /\ base = received - Len(buffer)
    BY DEF high, base
  <2>2. QED
    BY <2>1, <1>1, <1>2, <1>4, <1>6, <1>8, <1>10
<1> DEFINE events == EventsOfAll(outcomes, <<"error">>)
<1>12. events \in Seq(EventNames)
  <2>1. cs \in Seq(Chunks)
    BY <1>8 DEF InOrder
  <2>2. <<"error">> \in Seq({"error"})
    OBVIOUS
  <2>3. QED
    BY <2>1, <2>2, <1>7, MessageEvents
<1> HIDE DEF events
<1>13. PICK k \in 0 .. Len(events) :
         /\ Sent(events, k)
         /\ socket' = (IF k = Len(events) THEN "open" ELSE "closed")
  <2>1. Sends(events)
    BY <1>7 DEF events
  <2>2. QED
    BY <2>1, <1>1, <1>12, SendsSome
<1>14. /\ Cardinality(SentFinished) \in Nat
       /\ Cardinality(SentFinished') \in Nat
       /\ Cardinality(SentFinished) <= Cardinality(SentFinished')
  BY <1>1, <1>12, <1>13, FinishedGrows
<1>15. LostBytes' = LostBytes /\ LostBytes \in Int
  <2>1. LostBytes' = high - 2 * Samples(cs, emitted)
    BY <1>6, <1>11 DEF LostBytes
  <2>2. LostBytes = base - 2 * emitted
    BY DEF LostBytes, base
  <2>3. QED
    <3> DEFINE s == Samples(cs, emitted)
    <3>1. s \in Nat /\ 2 * (s - emitted) = high - base /\ high \in Nat /\ base \in Nat /\ emitted \in Nat
      BY <1>1, <1>2, <1>8 DEF base
    <3> HIDE DEF s
    <3>2. high - 2 * s = base - 2 * emitted /\ base - 2 * emitted \in Int
      BY <3>1
    <3>3. QED
      BY <2>1, <2>2, <3>2 DEF s
<1>16. LostBytes <= Cardinality(SentFinished)
  BY <1>6, <1>14 DEF AudioInv
<1>17. LostBytes' <= Cardinality(SentFinished') + (IF socket' = "open" THEN 0 ELSE 1)
  BY <1>14, <1>15, <1>16
<1>18. sent' \in Seq(EventNames) /\ socket' \in {"open", "closed"}
  BY <1>13 DEF Sent
<1>19. Samples(chunks, 0)' = Samples(chunks', 0)
  BY DEF Samples
<1>20. InOrder(chunks, 0, 0, received - Len(buffer))' /\ Consecutive(buffer, received - Len(buffer))'
  <2>1. InOrder(chunks', 0, 0, received' - Len(buffer'))
    BY <1>6, <1>9, <1>11
  <2>2. Consecutive(buffer', received' - Len(buffer'))
    BY <1>6, <1>8, <1>11
  <2>3. QED
    BY <2>1, <2>2
<1>21. QED
  BY <1>6, <1>8, <1>9, <1>11, <1>17, <1>18, <1>19, <1>20 DEF AudioInv

\* A finish puts what is left into a chunk but for half a sample.
LEMMA FinishKeepsAudio ==
  ASSUME AudioInv, Finish
  PROVE  AudioInv'
<1> DEFINE base == received - Len(buffer)
           cs   == Flushed(buffer, emitted)
<1>1. /\ sent \in Seq(EventNames)
      /\ received \in Nat
      /\ emitted \in Nat
      /\ buffer \in Seq(Nat)
      /\ Len(buffer) <= received
      /\ Consecutive(buffer, base)
      /\ InOrder(chunks, 0, 0, base)
      /\ emitted = Samples(chunks, 0)
  BY DEF AudioInv
<1>2. Len(buffer) \in Nat /\ base \in Nat /\ base + Len(buffer) = received /\ base <= received
  BY <1>1
<1>3. PICK outcomes \in [DOMAIN cs -> Outcomes], result \in FinishResults :
        /\ emitted' = Samples(cs, emitted)
        /\ chunks' = chunks \o cs
        /\ Sends(EventsOfAll(outcomes, <<>>) \o FinishEvents(result))
  BY DEF Finish
<1>4. socket = "open" /\ buffer' = <<>> /\ received' = received
  BY DEF Finish, Reads
<1> HIDE DEF base, cs
<1>5. /\ InOrder(cs, emitted, base, received)
      /\ Samples(cs, emitted) \in Nat
      /\ Len(buffer) - 2 * (Samples(cs, emitted) - emitted) \in {0, 1}
  BY <1>1, <1>2, FlushInOrder DEF cs
<1>6. /\ InOrder(chunks \o cs, 0, 0, received)
      /\ Samples(chunks \o cs, 0) = Samples(cs, emitted)
  <2>1. 0 <= base /\ 0 \in Nat
    BY <1>2
  <2>2. QED
    <3>1. InOrder(chunks, 0, 0, base) /\ emitted = Samples(chunks, 0)
      BY <1>1
    <3>2. InOrder(cs, Samples(chunks, 0), base, received)
      BY <3>1, <1>5
    <3>3. base \in Nat /\ received \in Nat /\ base <= received
      BY <1>1, <1>2, <1>5
    <3>4. QED
      BY ONLY <2>1, <3>1, <3>2, <3>3, FollowInOrder
<1> DEFINE audio  == EventsOfAll(outcomes, <<>>)
           events == audio \o FinishEvents(result)
<1>7. audio \in Seq(AudioEvents)
  <2>1. cs \in Seq(Chunks)
    BY <1>5 DEF InOrder
  <2>2. <<>> \in Seq({"error"})
    OBVIOUS
  <2>3. QED
    BY <2>1, <2>2, <1>3, MessageEvents
<1> HIDE DEF audio
<1>8. /\ events \in Seq(EventNames)
      /\ Len(events) - 1 \in Nat
      /\ events[(Len(events) - 1) + 1] = "finished"
  BY <1>3, <1>7, LastEvents
<1>9. Sends(events)
  BY <1>3 DEF audio
<1> HIDE DEF events
<1>10. PICK k \in 0 .. Len(events) :
         /\ Sent(events, k)
         /\ socket' = (IF k = Len(events) THEN "open" ELSE "closed")
  BY <1>9, <1>1, <1>8, SendsSome
<1>11. Len(events) \in Nat /\ Len(events) > 0 /\ (Len(events) - 1) + 1 = Len(events)
  BY <1>8
<1>12. /\ Cardinality(SentFinished) \in Nat
       /\ Cardinality(SentFinished') \in Nat
       /\ Cardinality(SentFinished) <= Cardinality(SentFinished')
       /\ k = Len(events) => Cardinality(SentFinished) + 1 <= Cardinality(SentFinished')
  <2>1. k > 0 /\ events[k] = "finished"
          => Cardinality(SentFinished) + 1 <= Cardinality(SentFinished')
    BY <1>1, <1>8, <1>10, FinishedGrows
  <2>2. k = Len(events) => k > 0 /\ events[k] = "finished"
    BY <1>8, <1>11
  <2>3. /\ Cardinality(SentFinished) \in Nat
        /\ Cardinality(SentFinished') \in Nat
        /\ Cardinality(SentFinished) <= Cardinality(SentFinished')
    BY <1>1, <1>8, <1>10, FinishedGrows
  <2>4. QED
    BY <2>1, <2>2, <2>3
<1>13. Len(buffer') = 0 /\ buffer' \in Seq(Nat) /\ received' - Len(buffer') = received
  BY <1>1, <1>4
<1>14. LostBytes \in Int /\ LostBytes' <= LostBytes + 1 /\ LostBytes' \in Int
  <2>1. LostBytes' = received - 2 * Samples(cs, emitted)
    BY <1>3, <1>13 DEF LostBytes
  <2>2. LostBytes = base - 2 * emitted
    BY DEF LostBytes, base
  <2> DEFINE s == Samples(cs, emitted)
             l == Len(buffer)
  <2>3. /\ s \in Nat /\ l \in Nat /\ l - 2 * (s - emitted) \in {0, 1}
        /\ base + l = received /\ base \in Nat /\ emitted \in Nat
    BY <1>1, <1>2, <1>5
  <2> HIDE DEF s, l
  <2>4. received - 2 * s <= (base - 2 * emitted) + 1 /\ received - 2 * s \in Int /\ base - 2 * emitted \in Int
    BY <2>3
  <2>5. QED
    BY <2>1, <2>2, <2>4 DEF s
<1>15. LostBytes <= Cardinality(SentFinished)
  BY <1>4, <1>12 DEF AudioInv
<1>16. LostBytes' <= Cardinality(SentFinished') + (IF socket' = "open" THEN 0 ELSE 1)
  <2>1. CASE k = Len(events)
    BY <2>1, <1>10, <1>12, <1>14, <1>15
  <2>2. CASE k # Len(events)
    <3>1. socket' = "closed"
      BY <2>2, <1>10
    <3>2. QED
      BY <3>1, <1>12, <1>14, <1>15
  <2>3. QED
    BY <2>1, <2>2
<1>17. sent' \in Seq(EventNames) /\ socket' \in {"open", "closed"}
  BY <1>10 DEF Sent
<1>18. InOrder(chunks, 0, 0, received - Len(buffer))' /\ Consecutive(buffer, received - Len(buffer))'
  <2>1. InOrder(chunks', 0, 0, received' - Len(buffer'))
    BY <1>3, <1>6, <1>13
  <2>2. Consecutive(buffer', received' - Len(buffer'))
    BY <1>4 DEF Consecutive
  <2>3. QED
    BY <2>1, <2>2
<1>19. Samples(chunks, 0)' = Samples(chunks', 0)
  BY DEF Samples
<1>20. QED
  BY <1>1, <1>3, <1>4, <1>5, <1>6, <1>13, <1>16, <1>17, <1>18, <1>19 DEF AudioInv

\* The events of a message that is no event, and of one that is ignored.
LEMMA InvalidSends ==
  ASSUME Invalid \/ Ignored, sent \in Seq(EventNames)
  PROVE  /\ socket = "open" /\ socket' \in {"open", "closed"}
         /\ \E events \in Seq({"error"}) : \E n \in 0 .. Len(events) :
              events \in Seq(EventNames) /\ Sent(events, n)
<1> DEFINE e == <<"error">>
           none == <<>>
<1>1. socket = "open"
  BY DEF Invalid, Ignored, Reads
<1>2. e \in Seq({"error"}) /\ e \in Seq(EventNames) /\ Len(e) = 1
  BY DEF EventNames
<1>3. none \in Seq({"error"}) /\ none \in Seq(EventNames) /\ Len(none) = 0
  OBVIOUS
<1> HIDE DEF e, none
<1>4. CASE sent' = sent /\ socket' = socket
  <2>1. Sent(none, 0)
    <3>1. Len(sent) + 0 = Len(sent) /\ 0 \in 0 .. Len(none)
      BY <1>3
    <3>2. QED
      BY <3>1, <1>4 DEF Sent
  <2>2. 0 \in 0 .. Len(none)
    BY <1>3
  <2>3. QED
    BY <2>1, <2>2, <1>1, <1>3, <1>4
<1>5. CASE sent' = Append(sent, "error") /\ socket' = socket
  <2>1. sent' = sent \o e
    BY <1>5 DEF e
  <2>2. Sends(e)
    BY <2>1, <1>1, <1>5 DEF Sends
  <2>3. PICK n \in 0 .. Len(e) :
          Sent(e, n) /\ socket' = (IF n = Len(e) THEN "open" ELSE "closed")
    BY <2>2, <1>2, SendsSome
  <2>4. QED
    BY <2>3, <1>1, <1>2
<1>6. CASE Sends(e)
  <2>1. PICK n \in 0 .. Len(e) :
          Sent(e, n) /\ socket' = (IF n = Len(e) THEN "open" ELSE "closed")
    BY <1>6, <1>2, SendsSome
  <2>2. QED
    BY <2>1, <1>1, <1>2
<1>7. QED
  BY <1>4, <1>5, <1>6 DEF Invalid, Ignored, e

\* No step loses a byte but a finish, and that no more than half a sample.
LEMMA AudioKept ==
  ASSUME AudioInv, [Next]_vars
  PROVE  AudioInv'
<1>1. ASSUME NEW n \in AppendSizes, Append64(n)
      PROVE  AudioInv'
  BY <1>1, AppendKeepsAudio
<1>2. CASE Invalid \/ Ignored
  <2>1. sent \in Seq(EventNames)
    BY DEF AudioInv
  <2>2. PICK events \in Seq({"error"}) :
          \E n \in 0 .. Len(events) : events \in Seq(EventNames) /\ Sent(events, n)
    BY <2>1, <1>2, InvalidSends
  <2>3. PICK n \in 0 .. Len(events) : events \in Seq(EventNames) /\ Sent(events, n)
    BY <2>2
  <2>4. socket = "open" /\ socket' \in {"open", "closed"}
    BY <2>1, <1>2, InvalidSends
  <2>5. UNCHANGED <<buffer, emitted, received, chunks>>
    BY <1>2 DEF Invalid, Ignored
  <2>6. QED
    BY <2>3, <2>4, <2>5, NoAudio
<1>3. CASE Finish
  BY <1>3, FinishKeepsAudio
<1>4. CASE Close
  <2>1. /\ socket = "open" /\ socket' = "closed"
        /\ UNCHANGED <<sent, buffer, emitted, received, chunks>>
    BY <1>4 DEF Close
  <2>2. LostBytes' = LostBytes /\ SentFinished' = SentFinished
    BY <2>1 DEF LostBytes, SentFinished
  <2>3. IsFiniteSet(SentFinished) /\ Cardinality(SentFinished) \in Nat
    <3>1. DOMAIN sent = 1 .. Len(sent) /\ Len(sent) \in Int /\ 1 \in Int
      BY DEF AudioInv
    <3>2. IsFiniteSet(1 .. Len(sent)) /\ SentFinished \subseteq 1 .. Len(sent)
      BY <3>1, FS_Interval DEF SentFinished
    <3>3. IsFiniteSet(SentFinished)
      BY <3>2, FS_Subset
    <3>4. QED
      BY <3>3, FS_CardinalityType
  <2>4. LostBytes \in Int /\ LostBytes <= Cardinality(SentFinished)
    BY <2>1, <2>3 DEF AudioInv, LostBytes
  <2>5. LostBytes' <= Cardinality(SentFinished') + 1
    BY <2>2, <2>3, <2>4
  <2>6. QED
    BY <2>1, <2>5 DEF AudioInv, Samples
<1>5. CASE UNCHANGED vars
  BY <1>5 DEF vars, AudioInv, Samples, LostBytes, SentFinished
<1>6. QED
  BY <1>1, <1>2, <1>3, <1>4, <1>5 DEF Next

\* A session begins without audio.
LEMMA AudioInit == Init => AudioInv
<1> SUFFICES ASSUME Init PROVE AudioInv
  OBVIOUS
<1>1. /\ buffer = <<>> /\ emitted = 0 /\ received = 0 /\ chunks = <<>> /\ socket = "open"
      /\ sent \in {<<>>, <<"created">>}
  BY DEF Init
<1>2. sent \in Seq(EventNames)
  <2>1. <<>> \in Seq(EventNames) /\ <<"created">> \in Seq(EventNames)
    BY DEF EventNames
  <2>2. QED
    BY <2>1, <1>1
<1>3. SentFinished = {}
  BY <1>1 DEF SentFinished
<1>4. Len(buffer) = 0 /\ buffer \in Seq(Nat) /\ received - Len(buffer) = 0
  <2>1. <<>> \in Seq(Nat) /\ Len(<<>>) = 0
    OBVIOUS
  <2>2. buffer \in Seq(Nat) /\ Len(buffer) = 0
    BY <2>1, <1>1
  <2>3. received = 0
    BY <1>1
  <2>4. QED
    BY <2>2, <2>3
<1>5. LostBytes = 0 /\ Cardinality(SentFinished) = 0
  BY <1>1, <1>3, <1>4, FS_EmptySet DEF LostBytes
<1>6. Consecutive(buffer, 0) /\ InOrder(chunks, 0, 0, 0) /\ Samples(chunks, 0) = 0
  BY <1>1 DEF Consecutive, InOrder, Samples
<1>7. QED
  BY <1>1, <1>2, <1>4, <1>5, <1>6 DEF AudioInv

\* The chunks are the audio, whatever fails and however appends, finishes and
\* samples are aligned.
THEOREM AudioIsKept == Spec => []ChunksAreTheAudio
<1>1. Init => AudioInv
  BY AudioInit
<1>2. AudioInv => ChunksAreTheAudio
  <2> SUFFICES ASSUME AudioInv PROVE ChunksAreTheAudio
    OBVIOUS
  <2>1. chunks \in Seq(Chunks) /\ DOMAIN chunks = 1 .. Len(chunks) /\ Len(chunks) \in Nat
    BY DEF AudioInv, InOrder
  <2>2. \A k \in 1 .. Len(chunks) :
          /\ Whole(chunks[k])
          /\ 0 < First(chunks[k])
          /\ Last(chunks[k]) <= received - Len(buffer)
          /\ chunks[k].from = (IF k = 1 THEN 0 ELSE chunks[k - 1].to)
          /\ k > 1 => Last(chunks[k - 1]) < First(chunks[k])
    BY DEF AudioInv, InOrder
  <2>3. \A k \in DOMAIN chunks :
          /\ chunks[k].bytes # <<>>
          /\ \A i \in DOMAIN chunks[k].bytes : chunks[k].bytes[i] = First(chunks[k]) + i - 1
          /\ Len(chunks[k].bytes) = ChunkBytes \/ chunks[k].last
          /\ chunks[k].from = (IF k = 1 THEN 0 ELSE chunks[k - 1].to)
          /\ 2 * (chunks[k].to - chunks[k].from) = Len(chunks[k].bytes)
    BY <2>1, <2>2 DEF Whole
  <2>4. \A k \in 2 .. Len(chunks) : Last(chunks[k - 1]) < First(chunks[k])
    <3>1. \A k \in 2 .. Len(chunks) : k \in 1 .. Len(chunks) /\ k > 1
      BY <2>1
    <3>2. QED
      BY <3>1, <2>2
  <2>5. chunks # <<>> => 1 <= First(chunks[1]) /\ Last(chunks[Len(chunks)]) <= received - Len(buffer)
    <3> SUFFICES ASSUME chunks # <<>>
                 PROVE  1 <= First(chunks[1]) /\ Last(chunks[Len(chunks)]) <= received - Len(buffer)
      OBVIOUS
    <3>1. 1 \in 1 .. Len(chunks) /\ Len(chunks) \in 1 .. Len(chunks)
      BY <2>1
    <3>2. First(chunks[1]) \in Nat
      <4>1. chunks[1].bytes \in Seq(Nat) /\ chunks[1].bytes # <<>>
        <5>1. chunks[1] \in Chunks
          BY <3>1, <2>1
        <5>2. Whole(chunks[1])
          BY <3>1, <2>2
        <5>3. QED
          BY <5>1, <5>2 DEF Whole, Chunks
      <4>2. 1 \in DOMAIN chunks[1].bytes
        BY <4>1
      <4>3. QED
        BY <4>1, <4>2 DEF First
    <3>3. QED
      BY <3>1, <3>2, <2>2
  <2>6. /\ emitted = Samples(chunks, 0)
        /\ \A i \in DOMAIN buffer : buffer[i] = received - Len(buffer) + i
        /\ received - Len(buffer) - 2 * emitted
             <= Cardinality(SentFinished) + (IF socket = "open" THEN 0 ELSE 1)
    BY DEF AudioInv, Consecutive, LostBytes
  <2>7. QED
    BY <2>3, <2>4, <2>5, <2>6 DEF ChunksAreTheAudio
<1>3. QED
  BY <1>1, <1>2, AudioKept, PTL DEF Spec

--------------------------------------------------------------------------------
(* The final text is sent once. *)

\* The recogniser is taken by the finish that sends the final text, and then
\* no text follows; a session reported finished, or a recogniser that is taken,
\* without a final text is due to a failure.
FinalInv ==
  /\ sent \in Seq(EventNames)
  /\ socket \in {"open", "closed"}
  /\ asr \in {"open", "taken"}
  /\ unsure \in BOOLEAN
  /\ asr = "open" => Completions = {}
  /\ \A i, j \in Completions : i = j
  /\ \A i \in Completions, j \in DOMAIN sent : j > i => sent[j] # "text"
  /\ socket = "open" => \A i \in Completions : i < Len(sent) /\ sent[i + 1] = "finished"
  /\ SentFinished # {} /\ ~unsure => Completions # {}
  /\ socket = "open" /\ asr = "taken" /\ ~unsure => Completions # {}

\* What is known of the places of the events after some more are sent.
LEMMA SentPlaces ==
  ASSUME NEW events \in Seq(EventNames), NEW n, sent \in Seq(EventNames), Sent(events, n)
  PROVE  /\ sent' \in Seq(EventNames)
         /\ n \in 0 .. Len(events) /\ n \in Nat /\ Len(sent) \in Nat
         /\ DOMAIN sent = 1 .. Len(sent)
         /\ DOMAIN sent' = 1 .. Len(sent) + n
         /\ Len(sent') = Len(sent) + n
         /\ \A i \in 1 .. Len(sent) : sent'[i] = sent[i]
         /\ \A i \in 1 .. n : i \in 1 .. Len(events) /\ sent'[Len(sent) + i] = events[i]
         /\ \A j \in DOMAIN sent' : \/ j \in 1 .. Len(sent)
                                    \/ \E i \in 1 .. n : j = Len(sent) + i
<1>1. /\ n \in 0 .. Len(events)
      /\ sent' \in Seq(EventNames)
      /\ Len(sent') = Len(sent) + n
      /\ \A i \in 1 .. Len(sent) : sent'[i] = sent[i]
      /\ \A i \in 1 .. n : sent'[Len(sent) + i] = events[i]
  BY DEF Sent
<1>2. Len(events) \in Nat /\ Len(sent) \in Nat /\ DOMAIN sent = 1 .. Len(sent)
  OBVIOUS
<1>3. n \in Nat /\ n <= Len(events)
  BY <1>1, <1>2
<1>4. DOMAIN sent' = 1 .. Len(sent')
  BY <1>1
<1>5. \A i \in 1 .. n : i \in 1 .. Len(events)
  BY <1>2, <1>3
<1>6. ASSUME NEW j \in 1 .. Len(sent) + n, j \notin 1 .. Len(sent)
      PROVE  \E i \in 1 .. n : j = Len(sent) + i
  <2>1. j - Len(sent) \in 1 .. n /\ j = Len(sent) + (j - Len(sent))
    BY <1>2, <1>3, <1>6
  <2>2. QED
    BY <2>1
<1>7. QED
  BY <1>1, <1>2, <1>3, <1>4, <1>5, <1>6

\* Events of audio leave the final text where it is and bring no text after it.
LEMMA AudioEventsKeep ==
  ASSUME FinalInv, socket = "open", NEW events \in Seq(EventNames), NEW n, Sent(events, n),
         \A i \in 1 .. n : events[i] \in AudioEvents,
         socket' \in {"open", "closed"}, asr' = asr, unsure' = unsure
  PROVE  FinalInv'
<1>1. /\ sent' \in Seq(EventNames)
      /\ n \in 0 .. Len(events) /\ n \in Nat /\ Len(sent) \in Nat
      /\ DOMAIN sent = 1 .. Len(sent)
      /\ DOMAIN sent' = 1 .. Len(sent) + n
      /\ Len(sent') = Len(sent) + n
      /\ \A i \in 1 .. Len(sent) : sent'[i] = sent[i]
      /\ \A i \in 1 .. n : i \in 1 .. Len(events) /\ sent'[Len(sent) + i] = events[i]
      /\ \A j \in DOMAIN sent' : \/ j \in 1 .. Len(sent)
                                 \/ \E i \in 1 .. n : j = Len(sent) + i
  <2>1. sent \in Seq(EventNames)
    BY DEF FinalInv
  <2>2. QED
    BY ONLY <2>1, Sent(events, n), events \in Seq(EventNames), SentPlaces
<1>2. ASSUME NEW j \in DOMAIN sent', j \notin DOMAIN sent
      PROVE  sent'[j] \in AudioEvents
  <2>1. PICK i \in 1 .. n : j = Len(sent) + i
    BY <1>1, <1>2
  <2>2. QED
    BY <2>1, <1>1
<1>3. DOMAIN sent \subseteq DOMAIN sent'
  BY <1>1
<1>4. ASSUME NEW x \in {"completed", "finished"}
      PROVE  {i \in DOMAIN sent' : sent'[i] = x} = {i \in DOMAIN sent : sent[i] = x}
  <2>1. x \notin AudioEvents
    BY DEF AudioEvents
  <2>2. QED
    BY <2>1, <1>1, <1>2, <1>3
<1>5. Completions' = Completions /\ SentFinished' = SentFinished
  BY <1>4 DEF Completions, SentFinished
<1>6. ASSUME NEW i \in Completions, NEW j \in DOMAIN sent', j > i
      PROVE  sent'[j] # "text"
  <2>1. CASE j \in DOMAIN sent
    BY <2>1, <1>1, <1>6 DEF FinalInv
  <2>2. CASE j \notin DOMAIN sent
    <3>1. asr # "open"
      BY DEF FinalInv
    <3>2. sent'[j] \in {"speech", "error"}
      BY <2>2, <3>1, <1>2 DEF AudioEvents
    <3>3. QED
      BY <3>2
  <2>3. QED
    BY <2>1, <2>2
<1>7. ASSUME NEW i \in Completions
      PROVE  i < Len(sent') /\ sent'[i + 1] = "finished"
  <2>1. i \in 1 .. Len(sent) /\ i < Len(sent) /\ sent[i + 1] = "finished"
    BY <1>1 DEF FinalInv, Completions
  <2>2. i + 1 \in 1 .. Len(sent) /\ i < Len(sent) + n
    BY <2>1, <1>1
  <2>3. QED
    BY <2>1, <2>2, <1>1
<1>8. SentFinished' # {} /\ ~unsure' => Completions' # {}
  BY <1>5 DEF FinalInv
<1>9. socket' = "open" /\ asr' = "taken" /\ ~unsure' => Completions' # {}
  BY <1>5 DEF FinalInv
<1>10. /\ \A i \in Completions', j \in DOMAIN sent' : j > i => sent'[j] # "text"
       /\ \A i \in Completions' : i < Len(sent') /\ sent'[i + 1] = "finished"
       /\ \A i, j \in Completions' : i = j
  BY <1>5, <1>6, <1>7 DEF FinalInv
<1>11. asr' \in {"open", "taken"} /\ unsure' \in BOOLEAN /\ (asr' = "open" => Completions' = {})
  BY <1>5 DEF FinalInv
<1>12. QED
  BY <1>1, <1>8, <1>9, <1>10, <1>11 DEF FinalInv

\* A finish whose failure is not reported.
Doubts(result) == unsure' = (unsure \/ result \in {"vad fails", "asr fails"})

\* A finish sends the final text only if the recogniser was not taken, and takes it.
LEMMA FinishKeepsFinal ==
  ASSUME FinalInv, NEW audio \in Seq(AudioEvents), NEW result \in FinishResults,
         socket = "open", Finishes(result), Sends(audio \o FinishEvents(result)),
         Doubts(result)
  PROVE  FinalInv'
<1> DEFINE events == audio \o FinishEvents(result)
           c      == Len(events) - 1
<1>1. /\ events \in Seq(EventNames)
      /\ c \in Nat
      /\ events[c + 1] = "finished"
      /\ \A i \in 1 .. c - 1 : events[i] \in AudioEvents
      /\ result \in {"completed", "speech and completed"}
           => c > 0 /\ events[c] = "completed"
      /\ result \notin {"completed", "speech and completed"} /\ c > 0
           => events[c] \in AudioEvents
  BY LastEvents
<1>2. /\ sent \in Seq(EventNames)
      /\ asr \in {"open", "taken"}
      /\ unsure \in BOOLEAN
      /\ asr = "open" => Completions = {}
      /\ \A i, j \in Completions : i = j
      /\ \A i \in Completions, j \in DOMAIN sent : j > i => sent[j] # "text"
      /\ \A i \in Completions : i < Len(sent) /\ sent[i + 1] = "finished"
      /\ SentFinished # {} /\ ~unsure => Completions # {}
      /\ asr = "taken" /\ ~unsure => Completions # {}
  BY DEF FinalInv
<1>3. Sends(events)
  OBVIOUS
<1> HIDE DEF events
<1>3a. c \in Nat /\ Len(events) - 1 = c
  <2>1. c \in Nat
    BY <1>1, Zenon
  <2>2. QED
    BY <2>1
<1> HIDE DEF c
<1>4. Len(events) \in Nat /\ Len(events) = c + 1 /\ c # c + 1
  <2>1. Len(events) \in Nat
    <3>1. events \in Seq(EventNames)
      BY <1>1, Zenon
    <3>2. QED
      BY <3>1
  <2>2. QED
    BY <2>1, <1>3a
<1>5. PICK n \in 0 .. Len(events) :
        /\ Sent(events, n)
        /\ socket' = (IF n = Len(events) THEN "open" ELSE "closed")
  BY <1>1, <1>2, <1>3, SendsSome
<1>6. /\ sent' \in Seq(EventNames)
      /\ n \in 0 .. Len(events) /\ n \in Nat /\ Len(sent) \in Nat
      /\ DOMAIN sent = 1 .. Len(sent)
      /\ DOMAIN sent' = 1 .. Len(sent) + n
      /\ Len(sent') = Len(sent) + n
      /\ \A i \in 1 .. Len(sent) : sent'[i] = sent[i]
      /\ \A i \in 1 .. n : i \in 1 .. Len(events) /\ sent'[Len(sent) + i] = events[i]
      /\ \A j \in DOMAIN sent' : \/ j \in 1 .. Len(sent)
                                 \/ \E i \in 1 .. n : j = Len(sent) + i
  <2>1. events \in Seq(EventNames) /\ sent \in Seq(EventNames) /\ Sent(events, n)
    BY <1>1, <1>2, <1>5
  <2>2. QED
    BY ONLY <2>1, SentPlaces
<1>7. socket' \in {"open", "closed"} /\ unsure' \in BOOLEAN /\ asr' \in {"open", "taken"}
  <2>1. unsure' \in BOOLEAN
    BY <1>2 DEF Doubts
  <2>2. QED
    BY <2>1, <1>2, <1>5 DEF Finishes
<1>8. AudioEvents \cap {"completed", "finished"} = {}
  BY DEF AudioEvents
<1>9. "finished" # "completed" /\ "finished" # "text" /\ "completed" # "text"
  OBVIOUS
<1>10. CASE result \in {"completed", "speech and completed"}
  <2> DEFINE p == Len(sent) + c
  <2>1. asr = "open" /\ Completions = {}
    BY <1>2, <1>10 DEF FinishResults
  <2>2. asr' = "taken" /\ unsure' = unsure
    <3>1. result \notin {"vad fails", "asr fails"} /\ result # "vad fails"
      BY <1>10
    <3>2. asr' = "taken"
      BY <3>1 DEF Finishes
    <3>3. unsure' = unsure
      BY <3>1, <1>2, Zenon DEF Doubts
    <3>4. QED
      BY <3>2, <3>3
  <2>3. events[c] = "completed" /\ c > 0 /\ events[c + 1] = "finished"
    BY <1>1, <1>10
  <2>4. ASSUME NEW j \in Completions'
        PROVE  j = p /\ n >= c
    <3>1. j \in DOMAIN sent' /\ sent'[j] = "completed"
      BY DEF Completions
    <3>2. j \notin DOMAIN sent
      BY <2>1, <3>1, <1>6 DEF Completions
    <3>3. PICK i \in 1 .. n : j = Len(sent) + i
      BY <3>1, <3>2, <1>6
    <3>4. events[i] = "completed"
      BY <3>1, <3>3, <1>6
    <3>5. i \notin 1 .. c - 1 /\ i # c + 1
      BY <3>4, <1>1, <1>8, <1>9
    <3>6. i = c
      <4>1. i \in 1 .. c + 1
        BY <1>4, <1>6
      <4>2. QED
        BY <4>1, <3>5, <1>3a
    <3>7. QED
      BY <3>3, <3>6, <1>6, <1>3a
  <2>5. ASSUME n >= c
        PROVE  p \in DOMAIN sent' /\ sent'[p] = "completed"
    <3>1. c \in 1 .. n
      BY <2>3, <2>5, <1>3a, <1>6
    <3>2. QED
      BY <3>1, <2>3, <1>6
  <2>6. ASSUME n = c + 1
        PROVE  p < Len(sent') /\ sent'[p + 1] = "finished"
    <3>1. c + 1 \in 1 .. n /\ p + 1 = Len(sent) + (c + 1) /\ p < Len(sent')
      BY <2>6, <1>3a, <1>6
    <3>2. QED
      BY <3>1, <2>3, <1>6
  <2>7. ASSUME NEW j \in DOMAIN sent', j > p
        PROVE  sent'[j] # "text"
    <3>1. j \notin DOMAIN sent
      BY <2>7, <1>3a, <1>6
    <3>2. PICK i \in 1 .. n : j = Len(sent) + i
      BY <3>1, <1>6
    <3>3. i = c + 1
      BY <3>2, <2>7, <1>3a, <1>4, <1>6
    <3>4. QED
      BY <3>2, <3>3, <2>3, <1>6
  <2>8. socket' = "open" => n = c + 1
    BY <1>4, <1>5
  <2>9. SentFinished' # {} /\ ~unsure' => Completions' # {}
    <3> SUFFICES ASSUME NEW j \in SentFinished', ~unsure' PROVE Completions' # {}
      OBVIOUS
    <3>1. j \in DOMAIN sent' /\ sent'[j] = "finished"
      BY DEF SentFinished
    <3>2. j \notin DOMAIN sent
      <4>1. SentFinished = {}
        BY <2>1, <2>2, <1>2
      <4>2. QED
        BY <4>1, <3>1, <1>6 DEF SentFinished
    <3>3. PICK i \in 1 .. n : j = Len(sent) + i
      BY <3>1, <3>2, <1>6
    <3>4. i \notin 1 .. c - 1 /\ i # c
      BY <3>1, <3>3, <2>3, <1>1, <1>6, <1>8, <1>9
    <3>5. i = c + 1
      <4>1. i \in 1 .. c + 1
        BY <1>4, <1>6
      <4>2. QED
        BY <4>1, <3>4, <1>3a
    <3>6. n >= c
      BY <3>5, <1>3a, <1>6
    <3>7. QED
      BY <3>6, <2>5 DEF Completions
  <2>10. socket' = "open" => Completions' # {}
    <3> SUFFICES ASSUME socket' = "open" PROVE Completions' # {}
      OBVIOUS
    <3>1. n >= c
      BY <2>8, <1>3a
    <3>2. QED
      BY <3>1, <2>5 DEF Completions
  <2>11. \A i, j \in Completions' : i = j
    BY <2>4
  <2>12. \A i \in Completions', j \in DOMAIN sent' : j > i => sent'[j] # "text"
    BY <2>4, <2>7
  <2>13. socket' = "open" => \A i \in Completions' : i < Len(sent') /\ sent'[i + 1] = "finished"
    BY <2>4, <2>6, <2>8
  <2>14. QED
    BY <1>6, <1>7, <2>2, <2>9, <2>10, <2>11, <2>12, <2>13 DEF FinalInv
<1>11. CASE result \notin {"completed", "speech and completed"}
  <2>1. ASSUME NEW i \in 1 .. n
        PROVE  events[i] = "finished" \/ events[i] \in AudioEvents
    <3>1. i \in 1 .. c + 1
      BY <1>4, <1>6
    <3>2. CASE i = c + 1
      BY <3>2, <1>1
    <3>3. CASE i = c
      <4>1. c > 0
        BY <3>1, <3>3, <1>3a
      <4>2. events[c] \in AudioEvents
        BY <4>1, <1>1, <1>11, Zenon
      <4>3. QED
        BY <3>3, <4>2
    <3>4. CASE i # c /\ i # c + 1
      <4>1. i \in 1 .. c - 1
        BY <3>1, <3>4, <1>3a
      <4>2. QED
        BY <4>1, <3>4, <1>1
    <3>5. c # c + 1
      BY <1>4
    <3>6. QED
      BY <3>2, <3>3, <3>4, <3>5
  <2>2. ASSUME NEW j \in DOMAIN sent', j \notin DOMAIN sent
        PROVE  sent'[j] = "finished" \/ sent'[j] \in AudioEvents
    <3>1. PICK i \in 1 .. n : j = Len(sent) + i
      BY <2>2, <1>6
    <3>2. QED
      BY <3>1, <2>1, <1>6
  <2>3. Completions' = Completions
    <3>1. \A j \in DOMAIN sent' : j \notin DOMAIN sent => sent'[j] # "completed"
      BY <2>2, <1>8, <1>9
    <3>2. DOMAIN sent \subseteq DOMAIN sent'
      BY <1>6
    <3>3. QED
      BY <3>1, <3>2, <1>6 DEF Completions
  <2>4. ASSUME NEW i \in Completions, NEW j \in DOMAIN sent', j > i
        PROVE  sent'[j] # "text"
    <3>1. CASE j \in DOMAIN sent
      BY <3>1, <2>4, <1>2, <1>6
    <3>2. CASE j \notin DOMAIN sent
      <4>1. asr # "open"
        BY <1>2
      <4>2. "text" \notin AudioEvents
        BY <4>1 DEF AudioEvents
      <4>3. QED
        BY <3>2, <4>2, <2>2, <1>9
    <3>3. QED
      BY <3>1, <3>2
  <2>5. ASSUME NEW i \in Completions
        PROVE  i < Len(sent') /\ sent'[i + 1] = "finished"
    <3>1. i \in 1 .. Len(sent) /\ i < Len(sent) /\ sent[i + 1] = "finished"
      BY <1>2, <1>6 DEF Completions
    <3>2. i + 1 \in 1 .. Len(sent) /\ i < Len(sent) + n
      BY <3>1, <1>6
    <3>3. QED
      BY <3>1, <3>2, <1>6
  <2>6. unsure' \/ (asr = "taken" /\ ~unsure)
    <3>1. \/ result \in {"vad fails", "asr fails"}
          \/ asr # "open"
      BY <1>11 DEF FinishResults
    <3>2. result \in {"vad fails", "asr fails"} => unsure'
      BY <1>2, Zenon DEF Doubts
    <3>3. unsure => unsure'
      BY <1>2, Zenon DEF Doubts
    <3>4. QED
      BY <3>1, <3>2, <3>3, <1>2
  <2>7. ~unsure' => Completions' # {}
    BY <2>3, <2>6, <1>2
  <2>8. asr' = "open" => Completions' = {}
    BY <2>3, <1>2 DEF Finishes
  <2>9. /\ \A i, j \in Completions' : i = j
        /\ \A i \in Completions', j \in DOMAIN sent' : j > i => sent'[j] # "text"
        /\ \A i \in Completions' : i < Len(sent') /\ sent'[i + 1] = "finished"
    BY <2>3, <2>4, <2>5, <1>2
  <2>10. QED
    BY <1>6, <1>7, <2>7, <2>8, <2>9 DEF FinalInv
<1>12. QED
  BY <1>10, <1>11

\* The chunks an append cuts.
LEMMA AppendedChunks ==
  ASSUME AudioInv, NEW n \in AppendSizes
  PROVE  Cut(buffer \o [i \in 1 .. n |-> received + i], emitted) \in Seq(Chunks)
<1> DEFINE base  == received - Len(buffer)
           bytes == buffer \o [i \in 1 .. n |-> received + i]
<1>1. base \in Nat /\ emitted \in Nat
  <2>1. /\ buffer \in Seq(Nat) /\ emitted \in Nat
        /\ received \in Nat /\ Len(buffer) <= received
    BY DEF AudioInv
  <2>2. Len(buffer) \in Nat
    BY <2>1
  <2>3. QED
    BY <2>1, <2>2
<1>2. bytes \in Seq(Nat) /\ Consecutive(bytes, base)
  BY AppendedBytes
<1> HIDE DEF base, bytes
<1>3. InOrder(Cut(bytes, emitted), emitted, base, base + Len(bytes) - Len(Uncut(bytes)))
  BY <1>1, <1>2, CutInOrder
<1>4. QED
  BY <1>3 DEF InOrder, bytes

\* Every step keeps what is known of the final text.
LEMMA FinalKept ==
  ASSUME FinalInv, AudioInv, [Next]_vars
  PROVE  FinalInv'
<1>0. sent \in Seq(EventNames)
  BY DEF FinalInv
<1>1. ASSUME NEW n \in AppendSizes, Append64(n)
      PROVE  FinalInv'
  <2> DEFINE bytes == buffer \o [i \in 1 .. n |-> received + i]
             cs    == Cut(bytes, emitted)
  <2>1. PICK outcomes \in [DOMAIN cs -> Outcomes] : Sends(EventsOfAll(outcomes, <<"error">>))
    BY <1>1 DEF Append64
  <2>2. socket = "open" /\ asr' = asr /\ unsure' = unsure
    BY <1>1 DEF Append64, Reads
  <2>3. cs \in Seq(Chunks)
    BY <1>1, AppendedChunks
  <2> HIDE DEF cs
  <2> DEFINE events == EventsOfAll(outcomes, <<"error">>)
  <2>4. events \in Seq(AudioEvents) /\ events \in Seq(EventNames)
    <3>1. <<"error">> \in Seq({"error"})
      OBVIOUS
    <3>2. QED
      BY <2>1, <2>3, <3>1, MessageEvents
  <2> HIDE DEF events
  <2>5. PICK k \in 0 .. Len(events) :
          Sent(events, k) /\ socket' = (IF k = Len(events) THEN "open" ELSE "closed")
    <3>1. Sends(events)
      BY <2>1 DEF events
    <3>2. QED
      BY <3>1, <1>0, <2>4, SendsSome
  <2>6. socket' \in {"open", "closed"}
    BY <2>5
  <2>7. \A i \in 1 .. k : events[i] \in AudioEvents
    <3>1. \A i \in 1 .. Len(events) : events[i] \in AudioEvents
      BY <2>4
    <3>2. \A i \in 1 .. k : i \in 1 .. Len(events)
      BY <2>4, <2>5
    <3>3. QED
      BY <3>1, <3>2
  <2>8. QED
    BY <2>2, <2>4, <2>5, <2>6, <2>7, AudioEventsKeep
<1>2. CASE Invalid \/ Ignored
  <2>1. socket = "open" /\ socket' \in {"open", "closed"}
    BY <1>0, <1>2, InvalidSends
  <2>2. PICK events \in Seq({"error"}) :
          \E n \in 0 .. Len(events) : events \in Seq(EventNames) /\ Sent(events, n)
    BY <1>0, <1>2, InvalidSends
  <2>3. PICK n \in 0 .. Len(events) : events \in Seq(EventNames) /\ Sent(events, n)
    BY <2>2
  <2>4. \A i \in 1 .. n : events[i] \in AudioEvents
    <3>1. \A i \in 1 .. n : i \in 1 .. Len(events)
      BY <2>2, <2>3
    <3>2. \A i \in 1 .. Len(events) : events[i] = "error"
      BY <2>2
    <3>3. "error" \in AudioEvents
      BY DEF AudioEvents
    <3>4. QED
      BY <3>1, <3>2, <3>3
  <2>5. asr' = asr /\ unsure' = unsure
    BY <1>2 DEF Invalid, Ignored
  <2>6. QED
    BY <2>1, <2>3, <2>4, <2>5, AudioEventsKeep
<1>3. CASE Finish
  <2> DEFINE cs == Flushed(buffer, emitted)
  <2>1. PICK outcomes \in [DOMAIN cs -> Outcomes], result \in FinishResults :
          /\ Finishes(result)
          /\ Sends(EventsOfAll(outcomes, <<>>) \o FinishEvents(result))
          /\ Doubts(result)
    BY <1>3, Zenon DEF Finish, Doubts
  <2>2. socket = "open"
    BY <1>3 DEF Finish, Reads
  <2>3. cs \in Seq(Chunks)
    <3> DEFINE base == received - Len(buffer)
    <3>1. buffer \in Seq(Nat) /\ emitted \in Nat /\ base \in Nat /\ Consecutive(buffer, base)
      <4>1. /\ buffer \in Seq(Nat) /\ emitted \in Nat /\ Consecutive(buffer, base)
            /\ received \in Nat /\ Len(buffer) <= received
        BY DEF AudioInv
      <4>2. Len(buffer) \in Nat
        BY <4>1
      <4>3. QED
        BY <4>1, <4>2
    <3> HIDE DEF base
    <3>2. InOrder(cs, emitted, base, base + Len(buffer))
      BY <3>1, FlushInOrder
    <3>3. QED
      BY <3>2 DEF InOrder
  <2> HIDE DEF cs
  <2> DEFINE audio == EventsOfAll(outcomes, <<>>)
  <2>4. audio \in Seq(AudioEvents)
    <3>1. <<>> \in Seq({"error"})
      OBVIOUS
    <3>2. QED
      BY <2>1, <2>3, <3>1, MessageEvents
  <2>5. Sends(audio \o FinishEvents(result))
    BY <2>1
  <2> HIDE DEF audio
  <2>6. QED
    BY <2>1, <2>2, <2>4, <2>5, FinishKeepsFinal
<1>4. CASE Close
  <2>1. socket' = "closed" /\ sent' = sent /\ asr' = asr /\ unsure' = unsure
    BY <1>4 DEF Close
  <2>2. Completions' = Completions /\ SentFinished' = SentFinished
    BY <2>1 DEF Completions, SentFinished
  <2>3. socket' # "open" /\ socket' \in {"open", "closed"}
    BY <2>1
  <2>4. QED
    BY <2>1, <2>2, <2>3 DEF FinalInv
<1>5. CASE UNCHANGED vars
  <2>1. socket' = socket /\ sent' = sent /\ asr' = asr /\ unsure' = unsure
    BY <1>5 DEF vars
  <2>2. Completions' = Completions /\ SentFinished' = SentFinished
    BY <2>1 DEF Completions, SentFinished
  <2>3. QED
    BY <2>1, <2>2 DEF FinalInv
<1>6. QED
  BY <1>1, <1>2, <1>3, <1>4, <1>5 DEF Next

\* The final text is sent at most once, no text follows it, and a session that is
\* reported finished without it has had a finish that failed.
THEOREM FinalOnce == Spec => []FinalTextOnce
<1>1. Init => AudioInv
  BY AudioInit
<1>2. Init => FinalInv
  <2> SUFFICES ASSUME Init PROVE FinalInv
    OBVIOUS
  <2>1. /\ socket = "open" /\ asr = "open" /\ unsure = FALSE
        /\ sent \in {<<>>, <<"created">>}
    BY DEF Init
  <2>2. sent \in Seq(EventNames)
    BY <1>1 DEF AudioInv
  <2>3. Completions = {} /\ SentFinished = {}
    BY <2>1 DEF Completions, SentFinished
  <2>4. QED
    BY <2>1, <2>2, <2>3 DEF FinalInv
<1>3. FinalInv => FinalTextOnce
  <2> SUFFICES ASSUME FinalInv PROVE FinalTextOnce
    OBVIOUS
  <2>1. \A i \in Completions : asr = "taken"
    BY DEF FinalInv
  <2>2. QED
    BY <2>1 DEF FinalInv, FinalTextOnce
<1>4. QED
  BY <1>1, <1>2, <1>3, AudioKept, FinalKept, PTL DEF Spec

--------------------------------------------------------------------------------
\* The scheduler.

\* The tasks that were pushed are those in the queue and those that were started.
Accounted == \A t \in Tasks : caller[t] \in Enqueued <=> t \in queue \cup Range(started)

\* Numbers are given out in order, and the tasks queued before a submission began have
\* smaller ones than it.
Numbered ==
  \A t \in Tasks :
    /\ caller[t] # "idle" => number[t] < sequence
    /\ caller[t] = "idle" => before[t] = {}
    /\ \A u \in before[t] : caller[u] \in Enqueued /\ number[u] < number[t]

IInv == TypeOK /\ Accounted /\ Numbered /\ SubmissionOrder /\ NoLostWakeup

--------------------------------------------------------------------------------
\* Appending a task to the started ones adds it to their range.
LEMMA AppendRange ==
  ASSUME NEW S, NEW s \in Seq(S), NEW x \in S
  PROVE  /\ Append(s, x) \in Seq(S)
         /\ Append(s, x) # <<>>
         /\ DOMAIN Append(s, x) = 1 .. Len(s) + 1
         /\ DOMAIN s = 1 .. Len(s)
         /\ Len(s) \in Nat
         /\ \A i \in 1 .. Len(s) : Append(s, x)[i] = s[i]
         /\ Append(s, x)[Len(s) + 1] = x
         /\ Range(Append(s, x)) = Range(s) \cup {x}
<1>1. /\ Append(s, x) \in Seq(S)
      /\ DOMAIN Append(s, x) = 1 .. Len(s) + 1
      /\ DOMAIN s = 1 .. Len(s)
      /\ Len(s) \in Nat
      /\ \A i \in 1 .. Len(s) : Append(s, x)[i] = s[i]
      /\ Append(s, x)[Len(s) + 1] = x
      /\ Append(s, x) # <<>>
  OBVIOUS
<1>2. Range(Append(s, x)) = Range(s) \cup {x}
  <2> DEFINE a == Append(s, x)
  <2>1. DOMAIN a = DOMAIN s \cup {Len(s) + 1}
    BY <1>1
  <2>2. /\ \A i \in DOMAIN s : a[i] = s[i]
        /\ a[Len(s) + 1] = x
    BY <1>1
  <2> HIDE DEF a
  <2>3. QED
    BY <2>1, <2>2 DEF Range
<1>3. QED
  BY <1>1, <1>2

--------------------------------------------------------------------------------
\* What a caller's step does to each part.
LEMMA CallerKeeps ==
  ASSUME IInv, NEW t \in Tasks, Caller(t)
  PROVE  IInv'
<1> USE DEF TypeOK, CallerStates, WorkerStates, Enqueued
<1>1. CASE TakeNumber(t)
  <2>1. TypeOK'
    BY <1>1 DEF TakeNumber, IInv
  <2>2. Accounted'
    BY <1>1 DEF TakeNumber, IInv, Accounted
  <2>3. Numbered'
    BY <1>1 DEF TakeNumber, IInv, Numbered
  <2>4. SubmissionOrder'
    <3>1. \A i \in DOMAIN started : started[i] \in Tasks /\ started[i] # t
      BY <1>1 DEF TakeNumber, IInv, Accounted, Range
    <3>2. QED
      BY <3>1, <1>1 DEF TakeNumber, IInv, SubmissionOrder
  <2>5. NoLostWakeup'
    BY <1>1 DEF TakeNumber, IInv, NoLostWakeup
  <2>6. QED
    BY <2>1, <2>2, <2>3, <2>4, <2>5 DEF IInv
<1>2. CASE Push(t)
  <2>1. t \notin Range(started)
    BY <1>2 DEF Push, IInv, Accounted
  <2>2. TypeOK'
    BY <1>2, <2>1 DEF Push, IInv
  <2>3. Accounted'
    BY <1>2 DEF Push, IInv, Accounted
  <2>4. Numbered'
    BY <1>2 DEF Push, IInv, Numbered
  <2>5. SubmissionOrder'
    BY <1>2 DEF Push, IInv, SubmissionOrder
  <2>6. NoLostWakeup'
    BY <1>2 DEF Push, IInv, NoLostWakeup
  <2>7. QED
    BY <2>2, <2>3, <2>4, <2>5, <2>6 DEF IInv
<1>3. CASE Notify(t)
  <2>1. TypeOK' /\ Accounted' /\ Numbered' /\ SubmissionOrder'
    BY <1>3 DEF Notify, IInv, Accounted, Numbered, SubmissionOrder
  <2>2. NoLostWakeup'
    BY <1>3 DEF Notify, IInv, NoLostWakeup
  <2>3. QED
    BY <2>1, <2>2 DEF IInv
<1>4. CASE DropFuture(t)
  BY <1>4 DEF DropFuture, IInv, Accounted, Numbered, SubmissionOrder, NoLostWakeup
<1>5. CASE Receive(t)
  BY <1>5 DEF Receive, IInv, Accounted, Numbered, SubmissionOrder, NoLostWakeup
<1>6. QED
  BY <1>1, <1>2, <1>3, <1>4, <1>5 DEF Caller

\* The worker takes the first task: every task that had to come before it is started.
LEMMA PopKeeps ==
  ASSUME IInv, Pop
  PROVE  IInv'
<1>1. PICK t \in queue : /\ FirstInQueue(t)
                         /\ queue' = queue \ {t}
                         /\ started' = Append(started, t)
  BY DEF Pop
<1>2. /\ t \in Tasks
      /\ started \in Seq(Tasks)
  BY <1>1 DEF IInv, TypeOK
<1> DEFINE n == Len(started) + 1
<1>3. /\ started' \in Seq(Tasks)
      /\ started' # <<>>
      /\ DOMAIN started' = 1 .. n
      /\ DOMAIN started = 1 .. n-1
      /\ n \in Nat \ {0}
      /\ \A i \in 1 .. n-1 : started'[i] = started[i]
      /\ started'[n] = t
      /\ Range(started') = Range(started) \cup {t}
  BY <1>1, <1>2, AppendRange
<1> HIDE DEF n
<1>4. UNCHANGED <<caller, sequence, number, answer, before>> /\ worker' = "running"
  BY DEF Pop
<1>5. TypeOK'
  BY <1>1, <1>2, <1>3, <1>4 DEF IInv, TypeOK, WorkerStates
<1>6. Accounted'
  BY <1>1, <1>2, <1>3, <1>4 DEF IInv, Accounted
<1>7. Numbered'
  BY <1>4 DEF IInv, Numbered
<1>8. SubmissionOrder'
  <2> SUFFICES ASSUME NEW i \in 1 .. n, NEW u \in before[started'[i]],
                      started'[i] \in Realtime => u \in Realtime
               PROVE  \E j \in 1 .. i-1 : started'[j] = u
    BY <1>3, <1>4 DEF SubmissionOrder
  <2>1. CASE i # n
    <3>1. i \in 1 .. n-1 /\ started'[i] = started[i]
      BY <1>3, <2>1
    <3>2. \E j \in 1 .. i-1 : started[j] = u
      BY <3>1, <1>3 DEF IInv, SubmissionOrder
    <3>3. QED
      BY <3>1, <3>2, <1>3
  <2>2. CASE i = n
    <3>1. u \in before[t] /\ (t \in Realtime => u \in Realtime)
      BY <2>2, <1>3
    <3>2. /\ u \in Tasks
          /\ u \in queue \cup Range(started)
          /\ number[u] < number[t]
      BY <3>1, <1>2 DEF IInv, TypeOK, Accounted, Numbered
    <3>3. u \notin queue
      <4> SUFFICES ASSUME u \in queue
                   PROVE  FALSE
        OBVIOUS
      <4>1. number[u] \in Nat /\ number[t] \in Nat
        BY <3>2, <1>2 DEF IInv, TypeOK
      <4>2. Ahead(t, u)
        BY <3>2, <4>1, <1>1 DEF FirstInQueue
      <4>3. QED
        BY <3>1, <3>2, <4>1, <4>2 DEF Ahead
    <3>4. PICK j \in 1 .. n-1 : started[j] = u
      BY <3>2, <3>3, <1>3 DEF Range
    <3>5. QED
      BY <3>4, <1>3, <2>2
  <2>3. QED
    BY <2>1, <2>2
<1>9. NoLostWakeup'
  BY <1>4 DEF NoLostWakeup
<1>10. QED
  BY <1>5, <1>6, <1>7, <1>8, <1>9 DEF IInv

LEMMA StepKeeps == IInv /\ [SchedulerNext]_schedulerVars => IInv'
<1> SUFFICES ASSUME IInv, [SchedulerNext]_schedulerVars
             PROVE  IInv'
  OBVIOUS
<1>1. ASSUME NEW t \in Tasks, Caller(t)
      PROVE  IInv'
  BY <1>1, CallerKeeps
<1>2. CASE Pop
  BY <1>2, PopKeeps
<1>3. CASE Sleep
  BY <1>3 DEF Sleep, IInv, TypeOK, WorkerStates, Accounted, Numbered, SubmissionOrder,
              NoLostWakeup
<1>4. CASE Complete \/ Panic
  <2>1. worker' \in {"looking", "dead"}
        /\ UNCHANGED <<caller, sequence, number, queue, started, before>>
    BY <1>4 DEF Complete, Panic
  <2>2. answer' \in [Tasks -> {"none", "value", "closed"}]
    BY <1>4 DEF Complete, Panic, IInv, TypeOK
  <2>3. QED
    BY <2>1, <2>2 DEF IInv, TypeOK, WorkerStates, Accounted, Numbered, SubmissionOrder,
                      NoLostWakeup
<1>5. CASE SpuriousWakeup
  BY <1>5 DEF SpuriousWakeup, IInv, TypeOK, WorkerStates, Accounted, Numbered,
              SubmissionOrder, NoLostWakeup
<1>6. CASE UNCHANGED schedulerVars
  BY <1>6 DEF schedulerVars, IInv, TypeOK, Accounted, Numbered, SubmissionOrder, NoLostWakeup
<1>7. QED
  BY <1>1, <1>2, <1>3, <1>4, <1>5, <1>6 DEF SchedulerNext, Worker

LEMMA InitKeeps == SchedulerInit => IInv
<1> SUFFICES ASSUME SchedulerInit
             PROVE  IInv
  OBVIOUS
<1>1. TypeOK /\ Accounted
  BY DEF SchedulerInit, TypeOK, CallerStates, WorkerStates, Enqueued, Accounted, Range
<1>2. Numbered /\ SubmissionOrder /\ NoLostWakeup
  BY DEF SchedulerInit, Numbered, SubmissionOrder, NoLostWakeup
<1>3. QED
  BY <1>1, <1>2 DEF IInv

--------------------------------------------------------------------------------
THEOREM SchedulerInvariant == SchedulerSpec => []IInv
  BY InitKeeps, StepKeeps, PTL DEF SchedulerSpec

\* The types of the scheduler's state; a queued task has not been started.
THEOREM TypeCorrect == SchedulerSpec => []TypeOK
<1>1. IInv => TypeOK
  BY DEF IInv
<1>2. QED
  BY <1>1, SchedulerInvariant, PTL

\* No wakeup is lost: the worker sleeps on a queue that is not empty only until the
\* caller that filled it notifies.
THEOREM WakeupNotLost == SchedulerSpec => []NoLostWakeup
<1>1. IInv => NoLostWakeup
  BY DEF IInv
<1>2. QED
  BY <1>1, SchedulerInvariant, PTL

\* A task queued before another's submission began, and at least as urgent, is started
\* first, for any number of callers.
THEOREM OrderKept == SchedulerSpec => []SubmissionOrder
<1>1. IInv => SubmissionOrder
  BY DEF IInv
<1>2. QED
  BY <1>1, SchedulerInvariant, PTL

\* A transcription is started only when no realtime task is queued.
THEOREM RealtimeGoesFirst == SchedulerSpec => RealtimeFirst
<1>1. IInv /\ [SchedulerNext]_schedulerVars =>
        [started' # started /\ started'[Len(started')] \notin Realtime
           => queue \cap Realtime = {}]_schedulerVars
  <2> SUFFICES ASSUME IInv, [SchedulerNext]_schedulerVars, started' # started,
                      started'[Len(started')] \notin Realtime
               PROVE  queue \cap Realtime = {}
    OBVIOUS
  <2>1. Pop
    BY DEF SchedulerNext, Caller, TakeNumber, Push, Notify, DropFuture, Receive, Worker, Sleep,
           Complete, Panic, SpuriousWakeup, schedulerVars
  <2>2. PICK t \in queue : FirstInQueue(t) /\ started' = Append(started, t)
    BY <2>1 DEF Pop
  <2>3. t \in Tasks /\ started \in Seq(Tasks)
    BY <2>2 DEF IInv, TypeOK
  <2>4. started'[Len(started')] = t
    BY <2>2, <2>3
  <2>5. QED
    BY <2>2, <2>4 DEF FirstInQueue, Ahead
<1>2. QED
  BY <1>1, SchedulerInvariant, PTL DEF SchedulerSpec, RealtimeFirst

--------------------------------------------------------------------------------
\* Recursion.

\* Induction over 0 .. n, on the set of the numbers a claim holds of.
LEMMA UpTo ==
  ASSUME NEW n \in Nat, NEW S, 0 \in S,
         \A k \in 1 .. n : k - 1 \in S => k \in S
  PROVE  \A k \in 0 .. n : k \in S
<1> DEFINE Bad   == {k \in 0 .. n : k \notin S}
           below == OpToRel(<, Nat)
<1> SUFFICES ASSUME Bad # {} PROVE FALSE
  OBVIOUS
<1>1. IsWellFoundedOn(below, Nat)
  BY NatLessThanWellFounded
<1>2. \A i, j \in Nat : i < j => <<i, j>> \in below
  BY DEF OpToRel
<1>3. Bad \in SUBSET Nat
  OBVIOUS
<1> HIDE DEF below, Bad
<1>4. PICK k \in Bad : \A i \in Bad : ~(<<i, k>> \in below)
  BY <1>1, <1>3, WFMin
<1>5. k \in 1 .. n /\ k \notin S
  BY <1>4 DEF Bad
<1>6. k - 1 \in 0 .. n /\ k - 1 < k
  BY <1>5
<1>7. k - 1 \in S
  BY <1>2, <1>3, <1>4, <1>6 DEF Bad
<1>8. QED
  BY <1>5, <1>7

\* Results of step k are in V[k], and so is what next makes of those of the step before.
Steps(n, V, start, next) ==
  /\ n \in Nat /\ start \in V[0]
  /\ \A k \in 1 .. n : \A v \in V[k-1] : next[<<k, v>>] \in V[k]

RunThrough(f, n, V, start, next) ==
  /\ f = [k \in 0 .. n |-> f[k]] /\ f[0] = start
  /\ \A k \in 1 .. n : f[k-1] \in V[k-1] /\ f[k] = next[<<k, f[k-1]>>]

Follows(f, n, V, start, next) ==
  /\ f[0] = start
  /\ \A k \in 1 .. n : f[k-1] \in V[k-1] => f[k] = next[<<k, f[k-1]>>]

\* There is a function of the results of steps, and all of its values are where
\* the steps keep them.
LEMMA Recursion ==
  ASSUME NEW n, NEW V, NEW start, NEW next, Steps(n, V, start, next)
  PROVE  /\ \E f : RunThrough(f, n, V, start, next)
         /\ \A f : Follows(f, n, V, start, next) => \A k \in 0 .. n : f[k] \in V[k]
<1> USE DEF Steps
<1>1. ASSUME NEW f, f[0] = start,
             \A k \in 1 .. n : f[k-1] \in V[k-1] => f[k] = next[<<k, f[k-1]>>]
      PROVE  \A k \in 0 .. n : f[k] \in V[k]
  <2> DEFINE S == {k \in 0 .. n : f[k] \in V[k]}
  <2>1. 0 \in S
    BY <1>1
  <2>2. ASSUME NEW k \in 1 .. n, k - 1 \in S PROVE k \in S
    <3>1. f[k-1] \in V[k-1]
      BY <2>2
    <3>2. f[k] = next[<<k, f[k-1]>>]
      BY <1>1, <3>1
    <3>3. next[<<k, f[k-1]>>] \in V[k]
      BY <3>1
    <3>4. QED
      BY <3>2, <3>3
  <2> HIDE DEF S
  <2>3. \A k \in 0 .. n : k \in S
    BY <2>1, <2>2, UpTo
  <2>4. QED
    BY <2>3 DEF S
<1> DEFINE Is(f, m) == /\ f = [k \in 0 .. m |-> f[k]] /\ f[0] = start
                       /\ \A k \in 1 .. m : f[k] = next[<<k, f[k-1]>>]
           S == {m \in 0 .. n : \E f : Is(f, m)}
<1>2. 0 \in S
  <2> DEFINE f == [k \in 0 .. 0 |-> start]
  <2>1. Is(f, 0)
    OBVIOUS
  <2> HIDE DEF f, Is
  <2>2. QED
    BY <2>1
<1>3. ASSUME NEW m \in 1 .. n, m - 1 \in S PROVE m \in S
  <2>1. PICK f : Is(f, m - 1)
    BY <1>3
  <2> DEFINE g == [k \in 0 .. m |-> IF k = m THEN next[<<m, f[m-1]>>] ELSE f[k]]
  <2>2. ASSUME NEW k \in 1 .. m PROVE g[k] = next[<<k, g[k-1]>>]
    <3>1. k - 1 \in 0 .. m /\ k - 1 # m /\ k \in 0 .. m
      OBVIOUS
    <3>2. g[k-1] = f[k-1]
      BY <3>1
    <3>3. CASE k = m
      BY <3>1, <3>2, <3>3
    <3>4. CASE k # m
      <4>1. k \in 1 .. m - 1 /\ g[k] = f[k]
        BY <3>1, <3>4
      <4>2. QED
        BY <4>1, <3>2, <2>1
    <3>5. QED
      BY <3>3, <3>4
  <2>3. g[0] = start /\ g = [k \in 0 .. m |-> g[k]]
    BY <2>1
  <2> HIDE DEF g
  <2>4. Is(g, m)
    BY <2>2, <2>3
  <2> HIDE DEF Is
  <2>5. \E h : Is(h, m)
    BY <2>4
  <2>6. QED
    BY <2>5
<1>4. n \in S
  <2> HIDE DEF S
  <2>1. QED
    BY <1>2, <1>3, UpTo
<1>5. PICK f : Is(f, n)
  BY <1>4
<1>6. \A k \in 1 .. n : f[k-1] \in V[k-1]
  <2>1. \A k \in 0 .. n : f[k] \in V[k]
    BY <1>1, <1>5
  <2>2. \A k \in 1 .. n : k - 1 \in 0 .. n
    OBVIOUS
  <2>3. QED
    BY <2>1, <2>2
<1>7. RunThrough(f, n, V, start, next)
  BY <1>5, <1>6 DEF RunThrough
<1>8. QED
  BY <1>1, <1>7 DEF Follows
--------------------------------------------------------------------------------
\* The endpoint detector.

Pieces == [from : Nat, to : Nat, opened : BOOLEAN, closed : BOOLEAN]

Windows == {w \in Seq(BOOLEAN) : Len(w) = Window}

Detectors ==
  [ win : Windows, talk : BOOLEAN, start : Nat, cnt : Nat, voice : Nat,
    quiet : Int, run : Nat, state : {"waiting", "speech", "ended"},
    begin : Int, ends : Nat, out : Seq(Pieces), given : Nat, prev : Nat,
    size : Int, all : Nat ]

\* There are samples for every frame counted, and for a frame after the start.
InStock(v) == v.cnt * Shift <= v.all /\ (v.all > 0 => v.size >= Shift)

\* The first k pieces are complete, none is too long, and none begins before one
\* ahead of it has ended.
Laid(out, k) ==
  \A i \in 1 .. k :
    /\ Completed(out[i])
    /\ out[i].from < out[i].to
    /\ out[i].to - out[i].from <= MaxSegment + 1
    /\ \A j \in 1 .. i - 1 : out[j].to <= out[i].from

\* The last piece is open and reaches from where speech began to the start of
\* what is still buffered.
Open(v) ==
  /\ Len(v.out) > 0
  /\ Laid(v.out, Len(v.out) - 1)
  /\ v.out[Len(v.out)] = [from |-> v.begin, to |-> v.start, opened |-> TRUE, closed |-> FALSE]
  /\ v.begin < v.start
  /\ \A j \in 1 .. Len(v.out) - 1 : v.out[j].to <= v.begin

\* What the loops over frames leave alone.
Kept(w, v) ==
  /\ w.win = v.win /\ w.talk = v.talk /\ w.cnt = v.cnt
  /\ w.run = v.run /\ w.begin = v.begin /\ w.given = v.given
  /\ w.prev = v.prev /\ w.all = v.all

\* And only the last piece may have grown.
Grown(w, v) ==
  /\ Kept(w, v)
  /\ Len(w.out) = Len(v.out)
  /\ \A i \in 1 .. Len(v.out) - 1 : w.out[i] = v.out[i]

\* A detector is given by its fields.
LEMMA DetectorsHave ==
  ASSUME NEW v \in Detectors
  PROVE  /\ v.win \in Seq(BOOLEAN) /\ Len(v.win) = Window
         /\ v.talk \in BOOLEAN /\ v.start \in Nat /\ v.cnt \in Nat
         /\ v.voice \in Nat /\ v.quiet \in Int /\ v.run \in Nat
         /\ v.state \in {"waiting", "speech", "ended"} /\ v.begin \in Int
         /\ v.ends \in Nat /\ v.out \in Seq(Pieces) /\ Len(v.out) \in Nat
         /\ v.given \in Nat /\ v.prev \in Nat /\ v.size \in Int /\ v.all \in Nat
BY DEF Detectors, Windows

\* As many frames as there are samples for are below their quotient.
LEMMA FramesBelow ==
  ASSUME NEW n \in Nat, NEW all \in Nat, n * Shift <= all
  PROVE  all \div Shift \in Nat /\ n <= all \div Shift
<1> USE VadAssumption
<1>1. PICK q : q = all \div Shift
  OBVIOUS
<1>2. Shift \in Nat /\ Shift > 0
  OBVIOUS
<1>3. q \in Nat /\ all < (q + 1) * Shift
  BY ONLY <1>1, <1>2, all \in Nat
<1>4. CASE n > q
  <2>1. n * Shift >= (q + 1) * Shift
    <3>1. n - (q + 1) \in Nat
      BY <1>3, <1>4
    <3>2. (n - (q + 1)) * Shift >= 0
      BY ONLY <3>1, <1>2
    <3>3. n * Shift = (n - (q + 1)) * Shift + (q + 1) * Shift
      BY ONLY <1>2, <1>3, n \in Nat
    <3>4. PICK a, b, c \in Int : a = n * Shift /\ b = (n - (q + 1)) * Shift /\ c = (q + 1) * Shift
      BY <1>2, <1>3
    <3>5. QED
      BY ONLY <3>2, <3>3, <3>4
  <2>2. QED
    BY <1>3, <2>1
<1>5. QED
  BY ONLY <1>1, <1>3, <1>4, n \in Nat

\* Dropping what comes before a frame that is there moves the start up to it.
LEMMA PopTillIs ==
  ASSUME NEW v \in Detectors, InStock(v), NEW frame \in Int, frame < v.cnt
  PROVE  LET w == PopTill(v, frame) IN
         /\ w \in Detectors /\ InStock(w)
         /\ w.start = Larger(v.start, frame)
         /\ Kept(w, v) /\ w.voice = v.voice /\ w.state = v.state /\ w.quiet = v.quiet
         /\ w.out = v.out /\ w.ends = v.ends
<1> USE VadAssumption
<1>0. /\ v.start \in Nat /\ v.cnt \in Nat /\ v.all \in Nat /\ v.size \in Int
      /\ Shift \in Nat /\ Shift > 0
  BY DEF Detectors
<1>1. CASE frame <= v.start
  <2>1. Larger(v.start, frame) = v.start
    BY <1>0, <1>1 DEF Larger
  <2>2. PopTill(v, frame) = v
    BY <1>0, <1>1 DEF PopTill
  <2>3. QED
    BY <2>1, <2>2 DEF Kept
<1>2. CASE v.start < frame
  <2>1. v.cnt <= v.all \div Shift /\ v.all \div Shift \in Nat
    BY <1>0, FramesBelow DEF InStock
  <2>2. PICK c, f, s, a, q \in Int :
          c = v.cnt /\ f = frame /\ s = Shift /\ a = v.all /\ q = v.all \div Shift
    BY <1>0, <2>1
  <2>3. a - f * s >= s /\ a > 0
    <3>1. c * s <= a
      BY <2>2 DEF InStock
    <3>2. c - (f + 1) \in Nat /\ s \in Nat
      BY <1>0, <2>2
    <3>3. (c - (f + 1)) * s >= 0
      BY ONLY <3>2
    <3>4. c * s = (c - (f + 1)) * s + f * s + s
      BY ONLY <2>2
    <3>5. f * s >= 0 /\ f * s \in Int /\ (c - (f + 1)) * s \in Int /\ c * s \in Int
      BY <1>0, <1>2, <2>2
    <3>6. s > 0
      BY <1>0, <2>2
    <3>7. PICK x, y, z \in Int : x = f * s /\ y = (c - (f + 1)) * s /\ z = c * s
      BY <3>5
    <3>8. QED
      BY ONLY <3>1, <3>3, <3>4, <3>5, <3>6, <3>7, a \in Int, s \in Int
  <2>4. v.size >= Shift
    BY <2>2, <2>3 DEF InStock
  <2>5. Smaller(frame, Larger(v.start + 1, v.all \div Shift)) = frame
    BY <1>0, <1>2, <2>1 DEF Smaller, Larger
  <2>6. PopTill(v, frame) = [v EXCEPT !.start = frame, !.size = v.all - frame * Shift]
    BY <1>2, <2>4, <2>5 DEF PopTill
  <2>7. Larger(v.start, frame) = frame /\ frame \in Nat
    BY <1>0, <1>2 DEF Larger
  <2>8. PICK z \in Int : z = v.all - frame * Shift
    BY <1>0
  <2>9. z >= Shift
    BY <2>2, <2>3, <2>8
  <2> DEFINE w == [v EXCEPT !.start = frame, !.size = z]
  <2>10. /\ w \in Detectors /\ w.start = frame /\ w.size = z /\ w.all = v.all /\ w.cnt = v.cnt
         /\ Kept(w, v) /\ w.voice = v.voice /\ w.state = v.state
         /\ w.quiet = v.quiet /\ w.out = v.out /\ w.ends = v.ends
    BY <2>7 DEF Detectors, Kept
  <2>11. PopTill(v, frame) = w
    BY <2>6, <2>8
  <2> HIDE DEF w
  <2>12. InStock(w)
    BY <2>9, <2>10 DEF InStock
  <2>13. QED
    BY <2>7, <2>10, <2>11, <2>12
<1>3. QED
  BY <1>0, <1>1, <1>2

\* A frame at the start of the buffer, or the one taken last, is put to the end
\* of the open piece.
LEMMA PopOutIs ==
  ASSUME NEW v \in Detectors, Open(v), NEW frame \in Nat,
         frame <= v.start, v.start <= frame + 1, NEW closes \in BOOLEAN
  PROVE  LET w == PopOut(v, frame, FALSE, closes)
             k == Len(v.out)
         IN  /\ w \in Detectors /\ Len(w.out) = k
             /\ w.start = v.start + 1
             /\ \A i \in 1 .. k - 1 : w.out[i] = v.out[i]
             /\ w.out[k] = [from |-> v.begin, to |-> frame + 1, opened |-> TRUE, closed |-> closes]
             /\ Kept(w, v) /\ w.voice = v.voice /\ w.state = v.state
             /\ w.size = v.size /\ w.ends = v.ends
<1> DEFINE k == Len(v.out)
           e == [from |-> v.begin, to |-> frame + 1, opened |-> TRUE, closed |-> closes]
           out == [v.out EXCEPT ![k] = e]
<1>1. k \in Nat /\ k > 0 /\ v.out \in Seq(Pieces) /\ v.start \in Nat
  BY DEF Open, Detectors
<1>2. v.out[k] = [from |-> v.begin, to |-> v.start, opened |-> TRUE, closed |-> FALSE]
  BY DEF Open
<1>3. v.out[k] \in Pieces
  BY <1>1
<1>4. v.begin \in Nat
  BY <1>2, <1>3 DEF Pieces
<1>5. e \in Pieces
  BY <1>4 DEF Pieces
<1>6. PICK last : last = v.out[k]
  OBVIOUS
<1>15. [from |-> last.from, to |-> frame + 1, opened |-> last.opened \/ FALSE,
        closed |-> last.closed \/ closes] = e
  <2>1. last.from = v.begin /\ last.opened = TRUE /\ last.closed = FALSE
    BY <1>2, <1>6
  <2>2. (last.opened \/ FALSE) = TRUE /\ (last.closed \/ closes) = closes
    <3>1. CASE closes = TRUE
      BY <2>1, <3>1
    <3>2. CASE closes = FALSE
      BY <2>1, <3>2
    <3>3. QED
      BY <3>1, <3>2
  <2>3. QED
    BY Zenon, <2>1, <2>2
<1>7. PopTill(v, frame) = v
  BY <1>1 DEF PopTill
<1>8. v.out # <<>>
  BY <1>1
<1>9. PopOut(v, frame, FALSE, closes) = [v EXCEPT !.start = @ + 1, !.out = out]
  <2>1. (IF v.out = <<>> \/ FALSE
         THEN Append(v.out, [from |-> frame, to |-> frame, opened |-> FALSE, closed |-> FALSE])
         ELSE v.out) = v.out
    BY <1>8
  <2> HIDE DEF e
  <2>2. QED
    BY Zenon, <1>6, <1>7, <1>15, <2>1 DEF PopOut, WithFrame
<1>10. out \in Seq(Pieces) /\ Len(out) = k /\ out[k] = e /\ \A i \in 1 .. k - 1 : out[i] = v.out[i]
  <2> HIDE DEF e
  <2>1. QED
    BY <1>1, <1>5
<1> HIDE DEF e, out
<1>11. PICK w : w = [v EXCEPT !.start = v.start + 1, !.out = out]
  OBVIOUS
<1>12. PopOut(v, frame, FALSE, closes) = w
  BY <1>9, <1>11
<1>13. /\ w \in Detectors /\ w.start = v.start + 1 /\ w.out = out
       /\ Kept(w, v) /\ w.voice = v.voice /\ w.state = v.state /\ w.size = v.size
       /\ w.ends = v.ends
  <2>1. out \in Seq(Pieces) /\ v.start + 1 \in Nat
    BY <1>1, <1>10
  <2>2. QED
    BY <1>11, <2>1 DEF Detectors, Kept
<1>14. QED
  BY <1>10, <1>12, <1>13 DEF e

\* The pieces ahead of the last one are as they were.
LEMMA StillLaid ==
  ASSUME NEW out \in Seq(Pieces), NEW new \in Seq(Pieces), NEW k \in Nat,
         Laid(out, k), \A i \in 1 .. k : new[i] = out[i]
  PROVE  Laid(new, k)
<1>1. ASSUME NEW i \in 1 .. k
      PROVE  /\ Completed(new[i])
             /\ new[i].from < new[i].to
             /\ new[i].to - new[i].from <= MaxSegment + 1
             /\ \A j \in 1 .. i - 1 : new[j].to <= new[i].from
  <2>1. new[i] = out[i] /\ \A j \in 1 .. i - 1 : j \in 1 .. k /\ new[j] = out[j]
    OBVIOUS
  <2>2. /\ Completed(out[i]) /\ out[i].from < out[i].to
        /\ out[i].to - out[i].from <= MaxSegment + 1
        /\ \A j \in 1 .. i - 1 : out[j].to <= out[i].from
    BY DEF Laid
  <2>3. Completed(new[i])
    BY <2>1, <2>2
  <2>4. \A j \in 1 .. i - 1 : new[j].to <= new[i].from
    BY <2>1, <2>2
  <2>5. QED
    BY <2>1, <2>2, <2>3, <2>4
<1>2. QED
  BY <1>1 DEF Laid

\* What is kept of a detector whose open piece has grown by a frame.
LEMMA VoiceIs ==
  ASSUME NEW v \in Detectors, InStock(v), Open(v), NEW frame \in Nat, frame = v.start
  PROVE  LET w == Voice(v, frame) IN
         /\ w \in Detectors /\ InStock(w) /\ Open(w)
         /\ w.start = frame + 1 /\ w.voice = frame
         /\ Grown(w, v) /\ w.state = v.state
<1> DEFINE k == Len(v.out)
<1>1. PICK u : u = [v EXCEPT !.voice = frame]
  OBVIOUS
<1>2. /\ u \in Detectors /\ u.out = v.out /\ u.start = v.start /\ u.begin = v.begin
      /\ u.voice = frame /\ u.size = v.size /\ u.state = v.state /\ Kept(u, v)
  BY <1>1 DEF Detectors, Kept
<1>3. Open(u)
  BY <1>2 DEF Open
<1>4. v.start \in Nat /\ v.out \in Seq(Pieces) /\ k \in Nat /\ k > 0
  BY DEF Detectors, Open
<1>5. PICK w : w = Voice(v, frame)
  OBVIOUS
<1>6. w = PopOut(u, frame, FALSE, FALSE)
  BY <1>1, <1>5 DEF Voice
<1>7. /\ w \in Detectors /\ Len(w.out) = k /\ w.start = v.start + 1
      /\ \A i \in 1 .. k - 1 : w.out[i] = v.out[i]
      /\ w.out[k] = [from |-> v.begin, to |-> frame + 1, opened |-> TRUE, closed |-> FALSE]
      /\ Kept(w, u) /\ w.voice = frame /\ w.state = v.state /\ w.size = v.size
  <2>1. frame \in Nat /\ frame <= u.start /\ u.start <= frame + 1 /\ FALSE \in BOOLEAN
    BY <1>2, <1>4
  <2>2. /\ w \in Detectors /\ Len(w.out) = Len(u.out) /\ w.start = u.start + 1
        /\ \A i \in 1 .. Len(u.out) - 1 : w.out[i] = u.out[i]
        /\ w.out[Len(u.out)] = [from |-> u.begin, to |-> frame + 1, opened |-> TRUE, closed |-> FALSE]
        /\ Kept(w, u) /\ w.voice = u.voice /\ w.state = u.state /\ w.size = u.size
    BY ONLY <1>2, <1>3, <1>6, <2>1, PopOutIs
  <2>3. QED
    BY <1>2, <2>2
<1>8. Kept(w, v)
  BY <1>2, <1>7 DEF Kept
<1>9. InStock(w)
  BY <1>7, <1>8 DEF InStock, Kept
<1>10. Open(w)
  <2>1. w.begin = v.begin /\ w.out \in Seq(Pieces)
    BY <1>7, <1>8 DEF Kept, Detectors
  <2>2. Laid(v.out, k - 1) /\ v.begin < v.start /\ \A j \in 1 .. k - 1 : v.out[j].to <= v.begin
    BY DEF Open
  <2>3. Laid(w.out, k - 1)
    <3>1. PICK l \in Nat : l = k - 1
      <4>1. k - 1 \in Nat
        <5>1. k \in Nat /\ k > 0
          BY <1>4
        <5> HIDE DEF k
        <5>2. QED
          BY ONLY <5>1
      <4>2. QED
        BY ONLY <4>1
    <3>2. PICK old \in Seq(Pieces), new \in Seq(Pieces) : old = v.out /\ new = w.out
      BY <1>4, <2>1
    <3>3. Laid(old, l) /\ \A i \in 1 .. l : new[i] = old[i]
      <4>1. \A i \in 1 .. k - 1 : new[i] = old[i]
        BY ONLY <1>7, <3>2
      <4>2. Laid(old, k - 1)
        BY ONLY <2>2, <3>2
      <4>3. QED
        BY ONLY <3>1, <4>1, <4>2
    <3>4. Laid(new, l)
      BY ONLY <3>3, l \in Nat, old \in Seq(Pieces), new \in Seq(Pieces), StillLaid
    <3>5. QED
      BY <3>1, <3>2, <3>4
  <2>5. \A j \in 1 .. k - 1 : w.out[j].to <= v.begin
    BY <1>7, <2>2
  <2>6. v.begin \in Int
    BY DEF Detectors
  <2>4. QED
    BY <1>4, <1>7, <2>1, <2>2, <2>3, <2>5, <2>6 DEF Open
<1>11. Grown(w, v)
  BY <1>7, <1>8 DEF Grown
<1>12. QED
  BY <1>4, <1>5, <1>7, <1>9, <1>10, <1>11

\* What a segment in its course has after so many more frames of speech.
Spoke(w, v, first, k) ==
  /\ InStock(w) /\ Open(w)
  /\ w.start = first + k
  /\ w.voice = (IF k = 0 THEN v.voice ELSE first + k - 1)
  /\ Grown(w, v) /\ w.state = v.state

\* Frames of speech one after the other, as many as there are, which may be none.
LEMMA VoiceFromIs ==
  ASSUME NEW v \in Detectors, InStock(v), Open(v), NEW first \in Nat, first = v.start,
         NEW last \in Int
  PROVE  /\ VoiceFrom(v, first, last) \in Detectors
         /\ Larger(0, last - first + 1) \in Nat
         /\ Spoke(VoiceFrom(v, first, last), v, first, Larger(0, last - first + 1))
<1> DEFINE n == Larger(0, last - first + 1)
           F(f) == f = [i \in 0 .. n |-> IF i = 0 THEN v ELSE Voice(f[i-1], first + i - 1)]
           after == CHOOSE f : F(f)
           Part(k) == {w \in Detectors : Spoke(w, v, first, k)}
           W == [k \in 0 .. n |-> Part(k)]
           next == [p \in (1 .. n) \X Detectors |-> Voice(p[2], first + p[1] - 1)]
<1>0. n \in Nat
  BY DEF Larger
<1>4. VoiceFrom(v, first, last) = after[n]
  BY Zenon DEF VoiceFrom
<1> HIDE DEF n
<1>1. \A k \in 1 .. n : k \in 0 .. n /\ k - 1 \in 0 .. n
  BY <1>0
<1>2. \A k \in 0 .. n : W[k] = Part(k)
  OBVIOUS
<1>3. \A k \in 1 .. n, w \in Detectors : next[<<k, w>>] = Voice(w, first + k - 1)
  OBVIOUS
<1> HIDE DEF F, after, W, next
<1>5. v \in W[0]
  <2>1. Spoke(v, v, first, 0)
    BY DEF Spoke, Grown, Kept
  <2>2. 0 \in 0 .. n
    BY <1>0
  <2>3. QED
    BY <1>2, <2>1, <2>2
<1>6. ASSUME NEW k \in 1 .. n, NEW w \in W[k-1]
      PROVE  /\ w \in Detectors /\ next[<<k, w>>] = Voice(w, first + k - 1)
             /\ next[<<k, w>>] \in W[k]
  <2>1. w \in Detectors /\ Spoke(w, v, first, k - 1)
    BY <1>1, <1>2
  <2>2. PICK u : u = Voice(w, first + k - 1)
    OBVIOUS
  <2>3. first + k - 1 \in Nat /\ first + k - 1 = w.start
    BY <1>0, <2>1 DEF Spoke
  <2>4. /\ u \in Detectors /\ InStock(u) /\ Open(u)
        /\ u.start = (first + k - 1) + 1 /\ u.voice = first + k - 1
        /\ Grown(u, w) /\ u.state = w.state
    BY <2>1, <2>2, <2>3, VoiceIs DEF Spoke
  <2>5. Grown(u, v)
    BY <2>1, <2>4 DEF Spoke, Grown, Kept
  <2>6. Spoke(u, v, first, k)
    BY <1>0, <2>1, <2>4, <2>5 DEF Spoke
  <2>7. QED
    BY <1>1, <1>2, <1>3, <2>1, <2>2, <2>4, <2>6
<1>7. Steps(n, W, v, next)
  BY <1>0, <1>5, <1>6 DEF Steps
<1>8. \E f : F(f)
  <2>1. PICK f : RunThrough(f, n, W, v, next)
    BY <1>7, Recursion
  <2>2. ASSUME NEW k \in 0 .. n PROVE f[k] = IF k = 0 THEN v ELSE Voice(f[k-1], first + k - 1)
    <3>1. CASE k = 0
      BY <2>1, <3>1 DEF RunThrough
    <3>2. CASE k # 0
      <4>1. k \in 1 .. n
        BY <3>2
      <4>2. f[k-1] \in W[k-1] /\ f[k] = next[<<k, f[k-1]>>]
        BY <2>1, <4>1 DEF RunThrough
      <4>3. QED
        BY <1>6, <3>2, <4>1, <4>2
    <3>3. QED
      BY <3>1, <3>2
  <2>3. f = [k \in 0 .. n |-> f[k]]
    BY <2>1 DEF RunThrough
  <2>4. F(f)
    BY <2>2, <2>3 DEF F
  <2>5. QED
    BY <2>4
<1>9. F(after)
  BY <1>8 DEF after
<1>10. Follows(after, n, W, v, next)
  <2>1. \A k \in 0 .. n : after[k] = IF k = 0 THEN v ELSE Voice(after[k-1], first + k - 1)
    BY <1>9 DEF F
  <2>2. after[0] = v
    BY <1>0, <2>1
  <2>3. ASSUME NEW k \in 1 .. n, after[k-1] \in W[k-1] PROVE after[k] = next[<<k, after[k-1]>>]
    <3>1. after[k] = Voice(after[k-1], first + k - 1)
      BY <1>1, <2>1
    <3>2. QED
      BY <1>6, <2>3, <3>1
  <2>4. QED
    BY <2>2, <2>3 DEF Follows
<1>11. n \in 0 .. n /\ \A k \in 0 .. n : after[k] \in W[k]
  BY <1>0, <1>7, <1>10, Recursion
<1>12. after[n] \in Part(n)
  BY <1>2, <1>11
<1>13. QED
  BY <1>0, <1>4, <1>12 DEF n

\* A segment that has come to its end: all pieces are complete.
Closed(w, v, end) ==
  /\ w \in Detectors /\ InStock(w) /\ w.state = "ended"
  /\ Laid(w.out, Len(w.out))
  /\ \A j \in 1 .. Len(w.out) : w.out[j].to <= end
  /\ Grown(w, v)

\* A segment ends with a frame that is not before the last one of speech.
LEMMA VoiceEndIs ==
  ASSUME NEW v \in Detectors, InStock(v), Open(v), v.start = v.voice + 1,
         NEW frame \in Nat, v.voice <= frame, frame - v.begin <= MaxSegment
  PROVE  /\ Closed(VoiceEnd(v, frame), v, frame + 1)
         /\ v.voice < frame => VoiceEnd(v, frame).start = frame + 1
<1> USE VadAssumption
<1> DEFINE n == Larger(0, (frame - 1) - (v.voice + 1) + 1)
           k == Len(v.out)
<1>1. /\ v.voice \in Nat /\ v.start \in Nat /\ v.begin \in Int /\ v.begin <= v.voice
      /\ v.out \in Seq(Pieces) /\ k \in Nat /\ k > 0 /\ v.begin < v.start
  <2>1. /\ v.voice \in Nat /\ v.start \in Nat /\ v.begin \in Int
        /\ v.out \in Seq(Pieces) /\ k \in Nat
    BY DetectorsHave
  <2>2. k > 0 /\ v.begin < v.start
    BY DEF Open
  <2>3. QED
    BY <2>1, <2>2
<1>2. PICK u : u = VoiceFrom(v, v.voice + 1, frame - 1)
  OBVIOUS
<1>3. u \in Detectors /\ n \in Nat /\ Spoke(u, v, v.voice + 1, n)
  <2>1. PICK first \in Nat, last \in Int : first = v.voice + 1 /\ last = frame - 1
    BY <1>1
  <2>2. first = v.start
    BY <2>1
  <2>3. /\ VoiceFrom(v, first, last) \in Detectors
        /\ Larger(0, last - first + 1) \in Nat
        /\ Spoke(VoiceFrom(v, first, last), v, first, Larger(0, last - first + 1))
    BY <2>2, VoiceFromIs
  <2>4. QED
    BY <1>2, <2>1, <2>3
<1>4. /\ v.voice = frame => n = 0
      /\ v.voice < frame => n = frame - 1 - v.voice
  BY <1>1 DEF Larger
<1> HIDE DEF n
<1>5. /\ u.start = v.voice + 1 + n /\ Open(u) /\ InStock(u) /\ Grown(u, v)
  BY <1>3 DEF Spoke
<1>6. frame <= u.start /\ u.start <= frame + 1 /\ (v.voice < frame => u.start = frame)
  BY <1>1, <1>3, <1>4, <1>5
<1>7. PICK p : p = PopOut(u, frame, FALSE, TRUE)
  OBVIOUS
<1>8. /\ p \in Detectors /\ Len(p.out) = Len(u.out)
      /\ p.start = u.start + 1
      /\ \A i \in 1 .. Len(u.out) - 1 : p.out[i] = u.out[i]
      /\ p.out[Len(u.out)] = [from |-> u.begin, to |-> frame + 1, opened |-> TRUE, closed |-> TRUE]
      /\ Kept(p, u) /\ p.size = u.size
  <2>1. TRUE \in BOOLEAN /\ u \in Detectors
    BY <1>3
  <2>2. QED
    BY ONLY <1>5, <1>6, <1>7, <2>1, frame \in Nat, PopOutIs
<1>9. /\ u.begin = v.begin /\ Len(u.out) = k /\ \A i \in 1 .. k - 1 : u.out[i] = v.out[i]
  BY <1>5 DEF Grown, Kept
<1>10. Grown(p, v)
  <2>1. Kept(p, v)
    BY <1>5, <1>8 DEF Grown, Kept
  <2>2. QED
    BY <1>8, <1>9, <2>1 DEF Grown
<1>11. Laid(p.out, k) /\ \A j \in 1 .. k : p.out[j].to <= frame + 1
  <2>1. Laid(v.out, k - 1) /\ \A j \in 1 .. k - 1 : v.out[j].to <= v.begin
    BY DEF Open
  <2>2. \A i \in 1 .. k - 1 : p.out[i] = v.out[i]
    BY <1>8, <1>9
  <2>3. p.out \in Seq(Pieces)
    BY <1>8 DEF Detectors
  <2>4. Laid(p.out, k - 1)
    <3>1. k - 1 \in Nat /\ v.out \in Seq(Pieces)
      BY <1>1
    <3>2. PICK m \in Nat : m = k - 1
      BY <3>1
    <3>3. QED
      BY ONLY <2>1, <2>2, <2>3, <3>1, <3>2, StillLaid
  <2>5. PICK e : e = p.out[k]
    OBVIOUS
  <2>6. e.from = v.begin /\ e.to = frame + 1 /\ Completed(e)
    BY <1>8, <1>9, <2>5 DEF Completed
  <2>7. e.from < e.to /\ e.to - e.from <= MaxSegment + 1
    BY <1>1, <2>6
  <2>8. \A j \in 1 .. k - 1 : p.out[j].to <= e.from
    BY <2>1, <2>2, <2>6
  <2>9. Laid(p.out, k)
    <3>1. ASSUME NEW i \in 1 .. k
          PROVE  /\ Completed(p.out[i])
                 /\ p.out[i].from < p.out[i].to
                 /\ p.out[i].to - p.out[i].from <= MaxSegment + 1
                 /\ \A j \in 1 .. i - 1 : p.out[j].to <= p.out[i].from
      <4>1. CASE i = k
        BY <4>1, <2>5, <2>6, <2>7, <2>8
      <4>2. CASE i # k
        <5>1. i \in 1 .. k - 1
          BY <1>1, <4>2
        <5>2. QED
          BY <2>4, <5>1 DEF Laid
      <4>3. QED
        BY <4>1, <4>2
    <3>2. QED
      BY <3>1 DEF Laid
  <2>10. ASSUME NEW j \in 1 .. k PROVE p.out[j].to <= frame + 1
    <3>1. CASE j = k
      BY <3>1, <2>5, <2>6
    <3>2. CASE j # k
      <4>1. j \in 1 .. k - 1
        BY <1>1, <3>2
      <4>2. p.out[j].to <= v.begin /\ p.out[j].to \in Nat
        <5>1. p.out[j] \in Pieces
          BY <2>3, <1>8, <1>9, <4>1
        <5>2. QED
          BY <2>1, <2>2, <4>1, <5>1 DEF Pieces
      <4>3. QED
        BY <4>2, <1>1, SMTT(30)
    <3>3. QED
      BY <3>1, <3>2
  <2>11. QED
    BY <2>9, <2>10
<1>12. InStock(p)
  BY <1>5, <1>8 DEF InStock, Kept
<1>13. PICK w : w = VoiceEnd(v, frame)
  OBVIOUS
<1>14. w = [p EXCEPT !.ends = @ + 1, !.state = "ended"]
  BY <1>2, <1>7, <1>13 DEF VoiceEnd
<1>15. /\ w \in Detectors /\ w.state = "ended" /\ w.out = p.out /\ w.start = p.start
       /\ Kept(w, p) /\ w.size = p.size
  <2>1. p \in Detectors /\ p.ends + 1 \in Nat
    <3>1. p \in Detectors
      BY <1>8
    <3>2. QED
      BY ONLY <3>1, DetectorsHave
  <2>2. PICK z \in Nat : z = p.ends + 1
    BY <2>1
  <2>3. w = [p EXCEPT !.ends = z, !.state = "ended"]
    BY <1>14, <2>2
  <2>4. w \in Detectors
    BY <2>1, <2>2, <2>3 DEF Detectors
  <2>5. w.state = "ended" /\ w.out = p.out /\ w.start = p.start /\ w.size = p.size
    BY <2>1, <2>3 DEF Detectors
  <2>6. Kept(w, p)
    BY <2>1, <2>3 DEF Detectors, Kept
  <2>7. QED
    BY <2>4, <2>5, <2>6
<1>16. InStock(w)
  BY <1>12, <1>15 DEF InStock, Kept
<1>17. Grown(w, v)
  <2>1. Kept(w, v)
    BY <1>10, <1>15 DEF Grown, Kept
  <2>2. QED
    BY <1>10, <1>15, <2>1 DEF Grown
<1>18. Len(w.out) = k
  BY <1>17 DEF Grown
<1>19. Closed(w, v, frame + 1)
  BY <1>11, <1>15, <1>16, <1>17, <1>18 DEF Closed
<1>20. v.voice < frame => w.start = frame + 1
  BY <1>6, <1>8, <1>15
<1>21. QED
  BY <1>13, <1>19, <1>20

\* A segment that goes on: this frame is its last one, or one of speech.
WentOn(w, v, cur) ==
  /\ w \in Detectors /\ w.start = cur + 1
  /\ \/ Closed(w, v, cur + 1)
     \/ /\ InStock(w) /\ Open(w) /\ Grown(w, v) /\ w.state = v.state
        /\ w.voice = cur /\ cur + 1 - w.begin <= MaxSegment

LEMMA ContinueIs ==
  ASSUME NEW v \in Detectors, InStock(v), Open(v), NEW cur \in Nat,
         v.start = cur, cur = v.voice + 1, cur - v.begin <= MaxSegment,
         NEW final \in BOOLEAN
  PROVE  WentOn(Continue(v, cur, final), v, cur)
<1> USE VadAssumption
<1>1. v.voice \in Nat /\ v.begin \in Int
  BY DEF Detectors
<1>2. CASE TooLong(v, cur) \/ final
  <2>1. Continue(v, cur, final) = VoiceEnd(v, cur)
    BY <1>2 DEF Continue
  <2>2. v.voice <= cur /\ v.voice < cur
    BY <1>1
  <2>3. Closed(VoiceEnd(v, cur), v, cur + 1) /\ VoiceEnd(v, cur).start = cur + 1
    BY <2>2, VoiceEndIs
  <2>4. QED
    BY <2>1, <2>3 DEF WentOn, Closed
<1>3. CASE ~(TooLong(v, cur) \/ final)
  <2>1. Continue(v, cur, final) = Voice(v, cur)
    BY <1>3 DEF Continue
  <2>2. PICK w : w = Voice(v, cur)
    OBVIOUS
  <2>3. /\ w \in Detectors /\ InStock(w) /\ Open(w) /\ w.start = cur + 1 /\ w.voice = cur
        /\ Grown(w, v) /\ w.state = v.state
    BY <2>2, VoiceIs
  <2>4. w.begin = v.begin
    BY <2>3 DEF Grown, Kept
  <2>5. cur + 1 - w.begin <= MaxSegment
    BY <1>1, <1>3, <2>4 DEF TooLong
  <2>6. QED
    BY <2>1, <2>2, <2>3, <2>5 DEF WentOn
<1>4. QED
  BY <1>2, <1>3

\* All pieces are complete and end before what is still buffered.
AllComplete(v) ==
  /\ Laid(v.out, Len(v.out))
  /\ \A j \in 1 .. Len(v.out) : v.out[j].to <= v.start

\* The first frame of a segment opens a piece of its own.
LEMMA OpensIs ==
  ASSUME NEW v \in Detectors, InStock(v), AllComplete(v),
         v.begin \in Nat, v.start <= v.begin, v.begin < v.cnt
  PROVE  LET w == PopOut(v, v.begin, TRUE, FALSE) IN
         /\ w \in Detectors /\ InStock(w) /\ Open(w)
         /\ w.start = v.begin + 1
         /\ Kept(w, v) /\ w.state = v.state
         /\ Len(w.out) = Len(v.out) + 1
         /\ \A i \in 1 .. Len(v.out) : w.out[i] = v.out[i]
<1> DEFINE k == Len(v.out)
           s == v.begin
           empty == [from |-> s, to |-> s, opened |-> FALSE, closed |-> FALSE]
           e == [from |-> s, to |-> s + 1, opened |-> TRUE, closed |-> FALSE]
           longer == Append(v.out, empty)
           out == [longer EXCEPT ![k + 1] = e]
<1>1. /\ k \in Nat /\ v.out \in Seq(Pieces) /\ v.start \in Nat /\ s \in Nat
      /\ v.begin \in Int /\ v.cnt \in Nat
  BY DetectorsHave
<1>2. empty \in Pieces /\ e \in Pieces
  BY <1>1 DEF Pieces
<1>3. PICK p : p = PopTill(v, s)
  OBVIOUS
<1>4. p \in Detectors /\ InStock(p) /\ Kept(p, v) /\ p.state = v.state /\ p.out = v.out
      /\ p.start = s
  <2>1. Larger(v.start, s) = s
    BY <1>1 DEF Larger
  <2>2. QED
    BY <1>1, <1>3, <2>1, PopTillIs
<1> HIDE DEF k
<1>5. /\ longer \in Seq(Pieces) /\ Len(longer) = k + 1 /\ longer[k + 1] = empty
      /\ \A i \in 1 .. k : longer[i] = v.out[i]
  <2> HIDE DEF empty, e
  <2>1. QED
    BY <1>1, <1>2 DEF k
<1>6. PopOut(v, s, TRUE, FALSE) = [p EXCEPT !.start = @ + 1, !.out = out]
  <2>1. (IF v.out = <<>> \/ TRUE THEN longer ELSE v.out) = longer
    OBVIOUS
  <2>2. PICK last : last = longer[k + 1]
    OBVIOUS
  <2>3. [from |-> last.from, to |-> s + 1, opened |-> last.opened \/ TRUE,
         closed |-> last.closed \/ FALSE] = e
    <3>1. last.from = s /\ last.closed = FALSE
      BY <1>5, <2>2
    <3>2. (last.opened \/ TRUE) = TRUE /\ (last.closed \/ FALSE) = FALSE
      BY <3>1
    <3>3. QED
      BY Zenon, <3>1, <3>2
  <2>4. k + 1 = Len(longer)
    BY <1>5
  <2> HIDE DEF e
  <2>5. QED
    BY Zenon, <1>3, <2>1, <2>2, <2>3, <2>4 DEF PopOut, WithFrame
<1> HIDE DEF empty, longer
<1>7. /\ out \in Seq(Pieces) /\ Len(out) = k + 1 /\ out[k + 1] = e
      /\ \A i \in 1 .. k : out[i] = v.out[i]
  <2> HIDE DEF e
  <2>1. QED
    BY <1>1, <1>2, <1>5
<1> HIDE DEF out
<1>8. PICK w : w = PopOut(v, s, TRUE, FALSE)
  OBVIOUS
<1>9. w \in Detectors /\ w.start = s + 1 /\ w.out = out /\ w.size = p.size /\ w.state = p.state
      /\ Kept(w, p)
  <2>1. PICK z \in Nat : z = s + 1
    BY <1>1
  <2>2. out \in Seq(Pieces)
    BY <1>7
  <2>3. w = [p EXCEPT !.start = z, !.out = out]
    BY <1>4, <1>6, <1>8, <2>1
  <2>4. p \in Detectors
    BY <1>4
  <2>5. w \in Detectors
    BY ONLY <2>1, <2>2, <2>3, <2>4 DEF Detectors
  <2>6. w.start = z /\ w.out = out /\ w.size = p.size /\ w.state = p.state
    BY ONLY <2>3, <2>4 DEF Detectors
  <2>7. Kept(w, p)
    BY ONLY <2>3, <2>4 DEF Detectors, Kept
  <2>8. QED
    BY <2>1, <2>5, <2>6, <2>7
<1>10. InStock(w)
  BY <1>4, <1>9 DEF InStock, Kept
<1>11. Kept(w, v)
  BY <1>4, <1>9 DEF Kept
<1>12. Open(w)
  <2>1. Laid(v.out, k) /\ \A j \in 1 .. k : v.out[j].to <= v.start
    BY DEF AllComplete, k
  <2>2. Laid(w.out, k)
    BY <1>1, <1>7, <1>9, <2>1, StillLaid
  <2>3. w.begin = s
    BY <1>11 DEF Kept
  <2>4. \A j \in 1 .. k : w.out[j].to <= s
    <3>1. ASSUME NEW j \in 1 .. k PROVE w.out[j].to <= s
      <4>1. w.out[j] = v.out[j] /\ v.out[j] \in Pieces
        BY <1>1, <1>7, <1>9 DEF k
      <4>2. v.out[j].to <= v.start /\ v.out[j].to \in Nat
        BY <2>1, <4>1 DEF Pieces
      <4>3. QED
        BY <1>1, <4>1, <4>2
    <3>2. QED
      BY <3>1
  <2>5. Len(w.out) = k + 1 /\ Len(w.out) - 1 = k
    BY <1>1, <1>7, <1>9
  <2>6. w.out[k + 1] = [from |-> w.begin, to |-> w.start, opened |-> TRUE, closed |-> FALSE]
    BY <1>7, <1>9, <2>3
  <2>7. QED
    BY <1>1, <1>9, <2>2, <2>3, <2>4, <2>5, <2>6 DEF Open
<1>13. QED
  BY <1>4, <1>7, <1>8, <1>9, <1>10, <1>11, <1>12 DEF k

\* A segment begins before this frame, which is of speech as all since then.
LEMMA VoiceStartIs ==
  ASSUME NEW v \in Detectors, InStock(v), AllComplete(v), NEW s \in Nat, NEW cur \in Nat,
         v.start <= s, s < cur, cur < v.cnt
  PROVE  LET w == VoiceStart(v, s, cur) IN
         /\ w \in Detectors /\ InStock(w) /\ Open(w)
         /\ w.state = "speech" /\ w.begin = s /\ w.start = cur + 1 /\ w.voice = cur
         /\ Len(w.out) = Len(v.out) + 1
         /\ \A i \in 1 .. Len(v.out) : w.out[i] = v.out[i]
         /\ w.talk = v.talk /\ w.run = v.run /\ w.win = v.win /\ w.cnt = v.cnt
         /\ w.given = v.given /\ w.prev = v.prev /\ w.all = v.all
<1>1. PICK a : a = [v EXCEPT !.begin = s]
  OBVIOUS
<1>2. /\ a \in Detectors /\ a.begin = s /\ a.start = v.start /\ a.out = v.out /\ a.cnt = v.cnt
      /\ a.all = v.all /\ a.size = v.size
  <2>1. s \in Int
    OBVIOUS
  <2>2. a \in Detectors
    BY ONLY <1>1, <2>1, v \in Detectors DEF Detectors
  <2>3. /\ a.begin = s /\ a.start = v.start /\ a.out = v.out /\ a.cnt = v.cnt
        /\ a.all = v.all /\ a.size = v.size
    BY ONLY <1>1, v \in Detectors DEF Detectors
  <2>4. QED
    BY <2>2, <2>3
<1>3. a.talk = v.talk /\ a.run = v.run /\ a.win = v.win /\ a.given = v.given /\ a.prev = v.prev
  BY <1>1 DEF Detectors
<1>4. InStock(a) /\ AllComplete(a)
  BY <1>2 DEF InStock, AllComplete
<1>0. v.cnt \in Nat /\ v.out \in Seq(Pieces) /\ Len(v.out) \in Nat
  BY DetectorsHave
<1>5. PICK b : b = PopOut(a, s, TRUE, FALSE)
  OBVIOUS
<1>6. /\ b \in Detectors /\ InStock(b) /\ Open(b) /\ b.start = s + 1
      /\ Kept(b, a) /\ Len(b.out) = Len(v.out) + 1
      /\ \A i \in 1 .. Len(v.out) : b.out[i] = v.out[i]
  <2>1. a.begin \in Nat /\ a.start <= a.begin /\ a.begin < a.cnt
    BY <1>0, <1>2
  <2>2. b = PopOut(a, a.begin, TRUE, FALSE)
    BY <1>2, <1>5
  <2>3. /\ b \in Detectors /\ InStock(b) /\ Open(b) /\ b.start = a.begin + 1
        /\ Kept(b, a) /\ Len(b.out) = Len(a.out) + 1
        /\ \A i \in 1 .. Len(a.out) : b.out[i] = a.out[i]
    BY ONLY <1>2, <1>4, <2>1, <2>2, OpensIs
  <2>4. QED
    BY <1>2, <2>3
<1>7. PICK c : c = [b EXCEPT !.state = "speech"]
  OBVIOUS
<1>8. c \in Detectors /\ c.state = "speech" /\ c.start = s + 1 /\ c.out = b.out
      /\ c.size = b.size /\ Kept(c, b)
  <2>1. b \in Detectors /\ b.start = s + 1
    BY <1>6
  <2>2. c \in Detectors
    BY ONLY <1>7, <2>1 DEF Detectors
  <2>3. c.state = "speech" /\ c.start = s + 1 /\ c.out = b.out /\ c.size = b.size
    BY ONLY <1>7, <2>1 DEF Detectors
  <2>4. Kept(c, b)
    BY ONLY <1>7, <2>1 DEF Detectors, Kept
  <2>5. QED
    BY <2>2, <2>3, <2>4
<1>9. InStock(c) /\ Open(c)
  <2>1. InStock(c)
    BY <1>6, <1>8 DEF InStock, Kept
  <2>2. c.begin = b.begin /\ c.start = b.start
    BY <1>6, <1>8 DEF Kept
  <2>3. Open(c)
    BY <1>6, <1>8, <2>2 DEF Open
  <2>4. QED
    BY <2>1, <2>3
<1>10. PICK w : w = VoiceStart(v, s, cur)
  OBVIOUS
<1>11. PICK first \in Nat : first = s + 1
  OBVIOUS
<1>12. w = VoiceFrom(c, first, cur)
  BY Zenon, <1>1, <1>5, <1>7, <1>10, <1>11 DEF VoiceStart
<1>13. PICK n \in Nat : n = Larger(0, cur - first + 1)
  <2>1. Larger(0, cur - first + 1) \in Nat
    BY ONLY first \in Nat, cur \in Nat DEF Larger
  <2>2. QED
    BY <2>1
<1>14. n = cur - s /\ n > 0
  BY <1>11, <1>13 DEF Larger
<1>15. w \in Detectors /\ Spoke(w, c, first, n)
  <2>1. first = c.start /\ cur \in Int
    BY <1>8, <1>11
  <2>2. QED
    BY <1>8, <1>9, <1>12, <1>13, <2>1, VoiceFromIs
<1>16. /\ InStock(w) /\ Open(w) /\ w.start = cur + 1 /\ w.voice = cur /\ w.state = "speech"
       /\ Grown(w, c)
  BY <1>8, <1>11, <1>14, <1>15 DEF Spoke
<1>17. Kept(w, a)
  BY <1>6, <1>8, <1>16 DEF Grown, Kept
<1>18. w.begin = s /\ w.talk = v.talk /\ w.run = v.run /\ w.win = v.win /\ w.cnt = v.cnt
       /\ w.given = v.given /\ w.prev = v.prev /\ w.all = v.all
  BY <1>2, <1>3, <1>17 DEF Kept
<1>19. Len(w.out) = Len(v.out) + 1 /\ \A i \in 1 .. Len(v.out) : w.out[i] = v.out[i]
  <2>1. Len(w.out) = Len(c.out) /\ \A i \in 1 .. Len(c.out) - 1 : w.out[i] = c.out[i]
    BY <1>16 DEF Grown
  <2>2. Len(c.out) = Len(v.out) + 1 /\ Len(c.out) - 1 = Len(v.out)
    BY <1>0, <1>6, <1>8
  <2>3. QED
    BY <1>6, <1>8, <2>1, <2>2
<1>20. QED
  BY <1>10, <1>15, <1>16, <1>18, <1>19

\* What the window, the silence counted and the last opinion do not touch.
Same(a, v) ==
  /\ a.start = v.start /\ a.cnt = v.cnt /\ a.voice = v.voice /\ a.state = v.state
  /\ a.begin = v.begin /\ a.ends = v.ends /\ a.out = v.out /\ a.given = v.given
  /\ a.prev = v.prev /\ a.size = v.size /\ a.all = v.all

LEMMA SameHolds ==
  ASSUME NEW a, NEW v, Same(a, v)
  PROVE  /\ InStock(v) => InStock(a)
         /\ Open(v) => Open(a)
         /\ AllComplete(v) => AllComplete(a)
<1>1. InStock(v) => InStock(a)
  BY DEF Same, InStock
<1>2. Open(v) => Open(a)
  BY DEF Same, Open
<1>3. AllComplete(v) => AllComplete(a)
  BY DEF Same, AllComplete
<1>4. QED
  BY <1>1, <1>2, <1>3

LEMMA SlidIs ==
  ASSUME NEW v \in Detectors, NEW speech \in BOOLEAN
  PROVE  /\ Slid(v, speech) \in Detectors /\ Same(Slid(v, speech), v)
         /\ Slid(v, speech).run = v.run /\ Slid(v, speech).talk = v.talk
         /\ Slid(v, speech).quiet = v.quiet
         /\ Slid(v, speech).win = Append(Tail(v.win), speech)
<1> USE VadAssumption
<1>1. PICK x : x = Append(Tail(v.win), speech)
  OBVIOUS
<1>2. x \in Windows
  <2>1. v.win \in Seq(BOOLEAN) /\ Len(v.win) = Window /\ Window \in Nat /\ Window > 0
    BY DetectorsHave
  <2>6. PICK z : z = v.win
    OBVIOUS
  <2>7. z \in Seq(BOOLEAN) /\ Len(z) = Window /\ Window \in Nat /\ Window > 0
    BY <2>1, <2>6
  <2>2. PICK y : y = Tail(v.win)
    OBVIOUS
  <2>8. y = Tail(z)
    BY <2>2, <2>6
  <2>3. y \in Seq(BOOLEAN) /\ Len(y) = Window - 1
    BY ONLY <2>7, <2>8
  <2>4. x \in Seq(BOOLEAN) /\ Len(x) = Window
    <3>1. PICK m \in Nat : m = Len(y)
      BY <2>3
    <3>2. x = Append(y, speech)
      BY <1>1, <2>2
    <3>3. x \in Seq(BOOLEAN) /\ Len(x) = m + 1
      BY ONLY <2>3, <3>1, <3>2, speech \in BOOLEAN
    <3>4. m + 1 = Window
      BY <2>1, <2>3, <3>1
    <3>5. QED
      BY <3>3, <3>4
  <2>5. QED
    BY <2>4 DEF Windows
<1>3. PICK s : s = Slid(v, speech)
  OBVIOUS
<1>4. s = [v EXCEPT !.win = x]
  BY <1>1, <1>3 DEF Slid
<1>5. s \in Detectors
  BY ONLY <1>2, <1>4, v \in Detectors DEF Detectors
<1>6. Same(s, v) /\ s.run = v.run /\ s.talk = v.talk /\ s.quiet = v.quiet /\ s.win = x
  BY ONLY <1>4, v \in Detectors DEF Detectors, Same
<1>7. QED
  BY <1>1, <1>3, <1>5, <1>6

\* One frame of speech in a window is not enough.
LEMMA OneIsNotEnough ==
  ASSUME NEW win \in Windows, \A i \in 1 .. Window : ~win[i], NEW speech \in BOOLEAN
  PROVE  Spoken(Append(Tail(win), speech)) < ToSpeech
<1> USE VadAssumption
<1>1. win \in Seq(BOOLEAN) /\ Len(win) = Window /\ Window \in Nat /\ Window > 0
  BY DEF Windows
<1>2. PICK y : y = Tail(win)
  OBVIOUS
<1>3. y \in Seq(BOOLEAN) /\ Len(y) = Window - 1 /\ \A i \in 1 .. Window - 1 : y[i] = win[i + 1]
  BY <1>1, <1>2
<1>4. PICK x : x = Append(y, speech)
  OBVIOUS
<1>5. /\ x \in Seq(BOOLEAN) /\ DOMAIN x = 1 .. Window
      /\ \A i \in 1 .. Window - 1 : x[i] = y[i]
  BY <1>1, <1>3, <1>4
<1>6. ASSUME NEW i \in 1 .. Window, x[i] PROVE i = Window
  <2>1. CASE i \in 1 .. Window - 1
    <3>1. x[i] = win[i + 1] /\ i + 1 \in 1 .. Window
      BY <1>1, <1>3, <1>5, <2>1
    <3>2. QED
      BY <1>6, <3>1
  <2>2. CASE i \notin 1 .. Window - 1
    BY <1>1, <2>2
  <2>3. QED
    BY <2>1, <2>2
<1>7. PICK T : T = {i \in DOMAIN x : x[i]}
  OBVIOUS
<1>8. T \subseteq {Window}
  BY <1>5, <1>6, <1>7
<1>9. Cardinality({Window}) = 1 /\ IsFiniteSet({Window})
  BY FS_Singleton
<1>10. Cardinality(T) <= 1 /\ Cardinality(T) \in Nat
  BY <1>8, <1>9, FS_Subset, FS_CardinalityType
<1>11. Spoken(x) = Cardinality(T)
  BY <1>7 DEF Spoken
<1>12. QED
  BY <1>2, <1>4, <1>10, <1>11

\* What a detector is after c frames: it waits for speech, all it has found
\* being complete, or it is in a segment with the frames up to the last one of
\* speech, which lags behind by the silence that is more than the lookahead.
Waits(v, c) ==
  /\ v.state = "waiting" /\ ~v.talk /\ AllComplete(v)
  /\ v.start <= c
  /\ v.start = c => \A i \in 1 .. Window : ~v.win[i]
  /\ v.given <= Len(v.out)

Speaks(v, c) ==
  /\ v.state = "speech" /\ Open(v)
  /\ v.start = v.voice + 1 /\ v.begin < v.voice
  /\ c - v.begin <= MaxSegment
  /\ v.run <= Lookahead => v.voice = c - 1
  /\ v.run > Lookahead => v.voice = c - 1 - (v.run - Lookahead)
  /\ v.talk => v.run = 0
  /\ v.run > 0 => v.run < EndSilence
  /\ v.given < Len(v.out)

Detecting(v, c) ==
  /\ v \in Detectors /\ InStock(v) /\ c <= v.cnt
  /\ Waits(v, c) \/ Speaks(v, c)

\* What is counted and returned by whole chunks.
Past(w, v) ==
  /\ w.cnt = v.cnt /\ w.given = v.given /\ w.prev = v.prev /\ w.all = v.all
  /\ \A i \in 1 .. v.given : w.out[i] = v.out[i]

\* A detector that has done with frame cur, but for making ready after an end.
Turned(w, v, cur) ==
  /\ w \in Detectors /\ InStock(w) /\ Past(w, v)
  /\ \/ Speaks(w, cur + 1)
     \/ /\ w.state = "waiting" /\ ~w.talk /\ AllComplete(w)
        /\ w.start <= cur /\ w.given <= Len(w.out)
     \/ /\ w.state = "ended" /\ AllComplete(w)
        /\ w.start <= cur + 1 /\ w.given <= Len(w.out)

LEMMA RearmedIs ==
  ASSUME NEW v, NEW w, NEW cur \in Nat, cur < v.cnt, v.cnt \in Nat, Turned(w, v, cur)
  PROVE  LET u == IF w.state = "ended" THEN Rearmed(w) ELSE w IN
         Detecting(u, cur + 1) /\ Past(u, v)
<1> USE VadAssumption
<1>1. w \in Detectors /\ InStock(w) /\ Past(w, v) /\ w.cnt = v.cnt
  BY DEF Turned, Past
<1>0. w.start \in Nat
  BY <1>1, DetectorsHave
<1>2. CASE w.state = "ended"
  <2>1. PICK win : win = [i \in 1 .. Window |-> FALSE]
    OBVIOUS
  <2>2. win \in Windows /\ \A i \in 1 .. Window : ~win[i]
    <3>1. win \in Seq(BOOLEAN) /\ Len(win) = Window
      BY <2>1
    <3>2. QED
      BY <2>1, <3>1 DEF Windows
  <2>3. PICK u : u = Rearmed(w)
    OBVIOUS
  <2>12. PICK none \in Int : none = -1
    OBVIOUS
  <2>4. u = [w EXCEPT !.win = win, !.talk = FALSE, !.voice = 0, !.quiet = none,
                      !.run = 0, !.state = "waiting", !.begin = none]
    BY <2>1, <2>3, <2>12 DEF Rearmed, Fresh
  <2>5. u \in Detectors
    BY ONLY <1>1, <2>2, <2>4, none \in Int DEF Detectors
  <2>6. /\ u.win = win /\ ~u.talk /\ u.state = "waiting" /\ u.start = w.start /\ u.out = w.out
        /\ u.cnt = w.cnt /\ u.size = w.size /\ u.all = w.all /\ u.given = w.given
        /\ u.prev = w.prev
    BY ONLY <1>1, <2>4 DEF Detectors
  <2>7. AllComplete(w) /\ w.start <= cur + 1 /\ w.given <= Len(w.out)
    BY <1>2 DEF Turned, Speaks
  <2>8. InStock(u) /\ AllComplete(u) /\ Past(u, v)
    <3>1. InStock(u)
      BY <1>1, <2>6 DEF InStock
    <3>2. AllComplete(u)
      BY <2>6, <2>7 DEF AllComplete
    <3>3. Past(u, v)
      BY <1>1, <2>6 DEF Past
    <3>4. QED
      BY <3>1, <3>2, <3>3
  <2>9. Waits(u, cur + 1)
    BY <2>2, <2>6, <2>7, <2>8 DEF Waits
  <2>10. cur + 1 <= u.cnt
    BY <1>1, <2>6
  <2>11. QED
    BY <1>2, <2>3, <2>5, <2>8, <2>9, <2>10 DEF Detecting
<1>3. CASE w.state # "ended"
  <2>1. Speaks(w, cur + 1) \/ Waits(w, cur + 1)
    <3>1. CASE Speaks(w, cur + 1)
      BY <3>1
    <3>2. CASE ~Speaks(w, cur + 1)
      <4>1. /\ w.state = "waiting" /\ ~w.talk /\ AllComplete(w)
            /\ w.start <= cur /\ w.given <= Len(w.out)
        BY <1>3, <3>2 DEF Turned
      <4>2. w.start <= cur + 1 /\ w.start # cur + 1
        BY <1>0, <4>1
      <4>3. QED
        BY <4>1, <4>2 DEF Waits
    <3>3. QED
      BY <3>1, <3>2
  <2>2. cur + 1 <= w.cnt
    BY <1>1
  <2>3. QED
    BY <1>1, <1>3, <2>1, <2>2 DEF Detecting
<1>4. QED
  BY <1>2, <1>3

\* A silent frame before any speech moves the start of the buffer at most.
LEMMA SilenceIs ==
  ASSUME NEW v \in Detectors, InStock(v), v.state = "waiting", NEW frame \in Int, frame < v.cnt
  PROVE  LET w == Silence(v, frame) IN
         /\ w \in Detectors /\ InStock(w)
         /\ w.start = Larger(v.start, frame)
         /\ Kept(w, v) /\ w.state = v.state /\ w.out = v.out /\ w.ends = v.ends
<1>1. PICK a : a = [v EXCEPT !.quiet = frame]
  OBVIOUS
<1>2. a \in Detectors
  BY ONLY <1>1, v \in Detectors, frame \in Int DEF Detectors
<1>3. Same(a, v) /\ a.win = v.win /\ a.talk = v.talk /\ a.run = v.run
  BY ONLY <1>1, v \in Detectors DEF Detectors, Same
<1>4. InStock(a) /\ frame < a.cnt /\ a.start = v.start /\ a.state = v.state
  BY <1>3, SameHolds DEF Same
<1>5. PICK w : w = PopTill(a, frame)
  OBVIOUS
<1>6. /\ w \in Detectors /\ InStock(w) /\ w.start = Larger(v.start, frame)
      /\ Kept(w, a) /\ w.state = v.state /\ w.out = a.out /\ w.ends = a.ends
  BY <1>2, <1>4, <1>5, PopTillIs
<1>7. Silence(v, frame) = w
  BY <1>1, <1>5 DEF Silence
<1>8. Kept(w, v) /\ w.out = v.out /\ w.ends = v.ends
  BY <1>3, <1>6 DEF Kept, Same
<1>9. QED
  BY <1>4, <1>6, <1>7, <1>8

\* What is left of a detector by silent frames that go no further than last.
Hushed(w, v, last) ==
  /\ InStock(w) /\ Kept(w, v) /\ w.state = v.state /\ w.out = v.out
  /\ v.start <= w.start /\ w.start <= Larger(v.start, last)

LEMMA SilenceFromIs ==
  ASSUME NEW v \in Detectors, InStock(v), v.state = "waiting", NEW first \in Int,
         NEW last \in Int, last < v.cnt
  PROVE  /\ SilenceFrom(v, first, last) \in Detectors
         /\ Hushed(SilenceFrom(v, first, last), v, last)
<1> DEFINE n == Larger(0, last - first + 1)
           F(f) == f = [i \in 0 .. n |-> IF i = 0 THEN v ELSE Silence(f[i-1], first + i - 1)]
           after == CHOOSE f : F(f)
           Part(k) == {w \in Detectors : Hushed(w, v, last)}
           W == [k \in 0 .. n |-> Part(k)]
           next == [p \in (1 .. n) \X Detectors |-> Silence(p[2], first + p[1] - 1)]
<1>0. n \in Nat
  BY DEF Larger
<1>4. SilenceFrom(v, first, last) = after[n]
  BY Zenon DEF SilenceFrom
<1> HIDE DEF n
<1>1. \A k \in 1 .. n : k \in 0 .. n /\ k - 1 \in 0 .. n
  BY <1>0
<1>2. \A k \in 0 .. n : W[k] = Part(k)
  OBVIOUS
<1>3. \A k \in 1 .. n, w \in Detectors : next[<<k, w>>] = Silence(w, first + k - 1)
  OBVIOUS
<1> HIDE DEF F, after, W, next
<1>14. v.start \in Nat /\ v.cnt \in Nat
  BY DetectorsHave
<1>5. v \in W[0]
  <2>1. Hushed(v, v, last)
    BY <1>14 DEF Hushed, Kept, Larger
  <2>2. 0 \in 0 .. n
    BY <1>0
  <2>3. QED
    BY <1>2, <2>1, <2>2
<1>6. ASSUME NEW k \in 1 .. n, NEW w \in W[k-1]
      PROVE  /\ w \in Detectors /\ next[<<k, w>>] = Silence(w, first + k - 1)
             /\ next[<<k, w>>] \in W[k]
  <2>1. w \in Detectors /\ Hushed(w, v, last)
    BY <1>1, <1>2
  <2>2. PICK u : u = Silence(w, first + k - 1)
    OBVIOUS
  <2>3. PICK f \in Int : f = first + k - 1
    BY <1>0
  <2>4. f <= last
    BY <1>0, <2>3 DEF n, Larger
  <2>5. f < w.cnt /\ w.state = "waiting" /\ InStock(w)
    BY <1>14, <2>1, <2>4 DEF Hushed, Kept
  <2>6. /\ u \in Detectors /\ InStock(u) /\ u.start = Larger(w.start, f)
        /\ Kept(u, w) /\ u.state = w.state /\ u.out = w.out
    BY <2>1, <2>2, <2>3, <2>5, SilenceIs
  <2>7. w.start \in Nat
    BY <2>1, DetectorsHave
  <2>8. v.start <= u.start /\ u.start <= Larger(v.start, last)
    BY <1>14, <2>1, <2>4, <2>6, <2>7 DEF Hushed, Larger
  <2>9. Hushed(u, v, last)
    BY <2>1, <2>6, <2>8 DEF Hushed, Kept
  <2>10. QED
    BY <1>1, <1>2, <1>3, <2>1, <2>2, <2>6, <2>9
<1>7. Steps(n, W, v, next)
  BY <1>0, <1>5, <1>6 DEF Steps
<1>8. \E f : F(f)
  <2>1. PICK f : RunThrough(f, n, W, v, next)
    BY <1>7, Recursion
  <2>2. ASSUME NEW k \in 0 .. n PROVE f[k] = IF k = 0 THEN v ELSE Silence(f[k-1], first + k - 1)
    <3>1. CASE k = 0
      BY <2>1, <3>1 DEF RunThrough
    <3>2. CASE k # 0
      <4>1. k \in 1 .. n
        BY <3>2
      <4>2. f[k-1] \in W[k-1] /\ f[k] = next[<<k, f[k-1]>>]
        BY <2>1, <4>1 DEF RunThrough
      <4>3. QED
        BY <1>6, <3>2, <4>1, <4>2
    <3>3. QED
      BY <3>1, <3>2
  <2>3. f = [k \in 0 .. n |-> f[k]]
    BY <2>1 DEF RunThrough
  <2>4. F(f)
    BY <2>2, <2>3 DEF F
  <2>5. QED
    BY <2>4
<1>9. F(after)
  BY <1>8 DEF after
<1>10. Follows(after, n, W, v, next)
  <2>1. \A k \in 0 .. n : after[k] = IF k = 0 THEN v ELSE Silence(after[k-1], first + k - 1)
    BY <1>9 DEF F
  <2>2. after[0] = v
    BY <1>0, <2>1
  <2>3. ASSUME NEW k \in 1 .. n, after[k-1] \in W[k-1] PROVE after[k] = next[<<k, after[k-1]>>]
    <3>1. after[k] = Silence(after[k-1], first + k - 1)
      BY <1>1, <2>1
    <3>2. QED
      BY <1>6, <2>3, <3>1
  <2>4. QED
    BY <2>2, <2>3 DEF Follows
<1>11. n \in 0 .. n /\ \A k \in 0 .. n : after[k] \in W[k]
  BY <1>0, <1>7, <1>10, Recursion
<1>12. after[n] \in Part(n)
  BY <1>2, <1>11
<1>13. QED
  BY <1>0, <1>4, <1>12 DEF n

\* A frame while no segment is open.
LEMMA MatchedWaiting ==
  ASSUME NEW s \in Detectors, InStock(s), NEW cur \in Nat, cur < s.cnt,
         s.state = "waiting", ~s.talk, AllComplete(s), s.start <= cur, s.given <= Len(s.out),
         Spoken(s.win) >= ToSpeech => s.start < cur,
         Spoken(s.win) \in Nat, NEW final \in BOOLEAN
  PROVE  Turned(Matched(s, Change(s), cur, final), s, cur)
<1> USE VadAssumption
<1>0. /\ s.start \in Nat /\ s.cnt \in Nat /\ s.run \in Nat /\ s.given \in Nat
      /\ s.out \in Seq(Pieces) /\ Len(s.out) \in Nat /\ s.quiet \in Int
      /\ Window \in Nat /\ Window > 0 /\ Lookback \in Nat /\ Lookback > 0
      /\ MaxSegment \in Nat /\ Window + Lookback < MaxSegment /\ ToSpeech \in Nat
      /\ Lookahead \in Nat
  BY DetectorsHave
<1>1. CASE Spoken(s.win) >= ToSpeech
  <2>1. Change(s) = "Sil2Speech"
    <3>1. ~(Spoken(s.win) < ToSpeech)
      BY <1>0, <1>1
    <3>2. QED
      BY Zenon, <1>1, <3>1 DEF Change
  <2>2. PICK a : a = [s EXCEPT !.run = 0, !.talk = TRUE]
    OBVIOUS
  <2>3. a \in Detectors
    BY ONLY <2>2, s \in Detectors DEF Detectors
  <2>4. Same(a, s) /\ a.run = 0 /\ a.talk
    BY ONLY <2>2, s \in Detectors DEF Detectors, Same
  <2>5. /\ InStock(a) /\ AllComplete(a) /\ a.state = "waiting" /\ a.start = s.start /\ a.cnt = s.cnt
        /\ a.given = s.given /\ a.out = s.out /\ a.prev = s.prev /\ a.all = s.all
    BY <2>4, SameHolds DEF Same
  <2>6. PICK b : b = Larger(a.start, cur - Latency)
    OBVIOUS
  <2>7. b \in Nat /\ a.start <= b /\ b < cur /\ cur - b <= Window + Lookback
    BY <1>0, <1>1, <2>5, <2>6 DEF Larger, Latency
  <2>8. PICK w : w = VoiceStart(a, b, cur)
    OBVIOUS
  <2>9. Matched(s, Change(s), cur, final) = w
    BY <2>1, <2>2, <2>5, <2>6, <2>8 DEF Matched, Sil2Speech
  <2>10. /\ w \in Detectors /\ InStock(w) /\ Open(w)
         /\ w.state = "speech" /\ w.begin = b /\ w.start = cur + 1 /\ w.voice = cur
         /\ Len(w.out) = Len(a.out) + 1
         /\ \A i \in 1 .. Len(a.out) : w.out[i] = a.out[i]
         /\ w.talk = a.talk /\ w.run = a.run /\ w.win = a.win /\ w.cnt = a.cnt
         /\ w.given = a.given /\ w.prev = a.prev /\ w.all = a.all
    <3>1. cur < a.cnt
      BY <2>5
    <3>2. QED
      BY ONLY <2>3, <2>5, <2>7, <2>8, <3>1, cur \in Nat, VoiceStartIs
  <2>11. Past(w, s)
    <3>1. \A i \in 1 .. s.given : i \in 1 .. Len(a.out)
      BY <1>0, <2>5
    <3>2. \A i \in 1 .. s.given : w.out[i] = s.out[i]
      BY <2>5, <2>10, <3>1
    <3>3. QED
      BY <2>5, <2>10, <3>2 DEF Past
  <2>12. Speaks(w, cur + 1)
    <3>1. (cur + 1) - w.begin <= MaxSegment /\ w.begin < w.voice
      BY <1>0, <2>7, <2>10
    <3>2. w.start = w.voice + 1 /\ w.voice = (cur + 1) - 1 /\ w.run = 0
      BY <2>4, <2>10
    <3>3. w.given < Len(w.out)
      BY <1>0, <2>5, <2>10
    <3>4. w.run <= Lookahead /\ ~(w.run > Lookahead) /\ ~(w.run > 0)
      BY <1>0, <3>2
    <3>5. QED
      BY <2>10, <3>1, <3>2, <3>3, <3>4 DEF Speaks
  <2>13. QED
    BY <2>9, <2>10, <2>11, <2>12 DEF Turned
<1>2. CASE ~(Spoken(s.win) >= ToSpeech)
  <2>1. Change(s) = "Sil2Sil"
    BY <1>2, <1>0 DEF Change
  <2>2. PICK r \in Nat : r = s.run + 1
    BY <1>0
  <2>3. PICK a : a = [s EXCEPT !.run = r]
    OBVIOUS
  <2>4. a \in Detectors
    BY ONLY <2>3, r \in Nat, s \in Detectors DEF Detectors
  <2>5. Same(a, s) /\ a.talk = s.talk /\ a.quiet = s.quiet
    BY ONLY <2>3, s \in Detectors DEF Detectors, Same
  <2>6. /\ InStock(a) /\ AllComplete(a) /\ a.state = "waiting" /\ a.start = s.start /\ a.cnt = s.cnt
        /\ a.given = s.given /\ a.out = s.out /\ a.prev = s.prev /\ a.all = s.all /\ ~a.talk
    BY <2>5, SameHolds DEF Same
  <2>7. a = [s EXCEPT !.run = s.run + 1]
    BY <2>2, <2>3
  <2>8. Matched(s, Change(s), cur, final) = Sil2SilWaiting(a, cur, final)
    BY <2>1, <2>7, <2>6 DEF Matched, Sil2Sil
  <2>9. CASE final /\ a.ends = 0
    <3>1. PICK q \in Int : q = a.quiet + 1
      BY <1>0, <2>5
    <3>2. PICK l \in Int : l = cur - 1
      OBVIOUS
    <3>3. PICK h : h = SilenceFrom(a, q, l)
      OBVIOUS
    <3>4. h \in Detectors /\ Hushed(h, a, l)
      <4>1. l < a.cnt
        BY <1>0, <2>6, <3>2
      <4>2. QED
        BY ONLY <2>4, <2>6, <3>3, <4>1, q \in Int, l \in Int, SilenceFromIs
    <3>5. PICK e \in Nat : e = h.ends + 1
      BY <3>4, DetectorsHave
    <3>6. PICK w : w = [h EXCEPT !.begin = 0, !.ends = e, !.state = "ended"]
      OBVIOUS
    <3>7. Sil2SilWaiting(a, cur, final) = w
      <4>1. w = [SilenceFrom(a, a.quiet + 1, cur - 1)
                    EXCEPT !.begin = 0, !.ends = @ + 1, !.state = "ended"]
        BY <3>1, <3>2, <3>3, <3>5, <3>6
      <4>2. QED
        BY <2>9, <4>1 DEF Sil2SilWaiting
    <3>8. w \in Detectors
      <4>1. PICK zero \in Int : zero = 0
        OBVIOUS
      <4>2. h \in Detectors /\ w = [h EXCEPT !.begin = zero, !.ends = e, !.state = "ended"]
        BY <3>4, <3>6, <4>1
      <4>3. QED
        BY ONLY <4>2, e \in Nat, zero \in Int DEF Detectors
    <3>9. /\ w.state = "ended" /\ w.start = h.start /\ w.out = h.out /\ w.cnt = h.cnt
          /\ w.given = h.given /\ w.prev = h.prev /\ w.all = h.all /\ w.size = h.size
      BY ONLY <3>4, <3>6 DEF Detectors
    <3>10. /\ InStock(h) /\ h.out = a.out /\ a.start <= h.start /\ h.start <= Larger(a.start, l)
           /\ h.cnt = a.cnt /\ h.given = a.given /\ h.prev = a.prev /\ h.all = a.all
      BY <3>4 DEF Hushed, Kept
    <3>11. InStock(w)
      BY <3>9, <3>10 DEF InStock
    <3>12. w.out = s.out /\ s.start <= w.start
      BY <2>6, <3>9, <3>10
    <3>13. Past(w, s)
      BY <2>6, <3>9, <3>10, <3>12 DEF Past
    <3>14. w.start \in Nat
      BY <3>8, DetectorsHave
    <3>15. w.start <= cur + 1
      BY <1>0, <2>6, <3>2, <3>9, <3>10, <3>14 DEF Larger
    <3>16. AllComplete(w)
      <4>1. ASSUME NEW j \in 1 .. Len(s.out) PROVE s.out[j].to <= w.start
        <5>1. s.out[j] \in Pieces
          BY <1>0
        <5>2. s.out[j].to <= s.start /\ s.out[j].to \in Nat
          BY <5>1 DEF AllComplete, Pieces
        <5>3. QED
          BY <1>0, <3>12, <3>14, <5>2
      <4>2. Laid(s.out, Len(s.out))
        BY DEF AllComplete
      <4>3. QED
        BY <3>12, <4>1, <4>2 DEF AllComplete
    <3>17. w.given <= Len(w.out)
      BY <2>6, <3>9, <3>10
    <3>18. QED
      BY <2>8, <3>7, <3>8, <3>9, <3>11, <3>13, <3>15, <3>16, <3>17 DEF Turned
  <2>10. CASE ~(final /\ a.ends = 0) /\ cur >= Latency
    <3>1. PICK f \in Int : f = cur - Latency
      BY <1>0 DEF Latency
    <3>2. f < a.cnt /\ f < cur
      BY <1>0, <2>6, <3>1 DEF Latency
    <3>3. PICK w : w = Silence(a, f)
      OBVIOUS
    <3>4. /\ w \in Detectors /\ InStock(w) /\ w.start = Larger(a.start, f)
          /\ Kept(w, a) /\ w.state = a.state /\ w.out = a.out
      BY ONLY <2>4, <2>6, <3>2, <3>3, f \in Int, SilenceIs
    <3>5. Sil2SilWaiting(a, cur, final) = w
      BY <2>10, <3>1, <3>3 DEF Sil2SilWaiting
    <3>6. w.out = s.out /\ w.given = s.given /\ w.cnt = s.cnt /\ w.prev = s.prev
          /\ w.all = s.all /\ ~w.talk /\ w.state = "waiting"
      BY <2>6, <3>4 DEF Kept
    <3>7. Past(w, s)
      BY <3>6 DEF Past
    <3>8. s.start <= w.start /\ w.start <= cur /\ w.start \in Nat
      BY <1>0, <2>6, <3>2, <3>4, DetectorsHave DEF Larger
    <3>9. AllComplete(w)
      <4>1. ASSUME NEW j \in 1 .. Len(s.out) PROVE s.out[j].to <= w.start
        <5>1. s.out[j] \in Pieces
          BY <1>0
        <5>2. s.out[j].to <= s.start /\ s.out[j].to \in Nat
          BY <5>1 DEF AllComplete, Pieces
        <5>3. QED
          BY <1>0, <3>8, <5>2
      <4>2. Laid(s.out, Len(s.out))
        BY DEF AllComplete
      <4>3. QED
        BY <3>6, <4>1, <4>2 DEF AllComplete
    <3>10. QED
      BY <2>8, <3>4, <3>5, <3>6, <3>7, <3>8, <3>9 DEF Turned
  <2>11. CASE ~(final /\ a.ends = 0) /\ ~(cur >= Latency)
    <3>1. Sil2SilWaiting(a, cur, final) = a
      BY <2>11 DEF Sil2SilWaiting
    <3>2. Past(a, s)
      BY <2>6 DEF Past
    <3>3. QED
      BY <2>4, <2>6, <2>8, <3>1, <3>2 DEF Turned
  <2>12. QED
    BY <2>9, <2>10, <2>11
<1>3. QED
  BY <1>1, <1>2

\* A segment some frames later: it may have grown, and nothing else was found.
Later(b, s) ==
  /\ b.cnt = s.cnt /\ b.given = s.given /\ b.prev = s.prev /\ b.all = s.all
  /\ b.begin = s.begin /\ Len(b.out) = Len(s.out)
  /\ \A i \in 1 .. Len(s.out) - 1 : b.out[i] = s.out[i]

LEMMA LaterGrown ==
  ASSUME NEW a, NEW b, NEW s, Later(a, s), Grown(b, a)
  PROVE  Later(b, s)
<1>1. /\ b.cnt = s.cnt /\ b.given = s.given /\ b.prev = s.prev /\ b.all = s.all
      /\ b.begin = s.begin /\ Len(b.out) = Len(s.out)
  BY DEF Later, Grown, Kept
<1>2. ASSUME NEW i \in 1 .. Len(s.out) - 1 PROVE b.out[i] = s.out[i]
  BY DEF Later, Grown
<1>3. QED
  BY <1>1, <1>2 DEF Later

LEMMA LaterPast ==
  ASSUME NEW s \in Detectors, s.given < Len(s.out), NEW w, Later(w, s)
  PROVE  Past(w, s) /\ w.given < Len(w.out)
<1>1. s.given \in Nat /\ Len(s.out) \in Nat
  BY DetectorsHave
<1>2. \A i \in 1 .. s.given : i \in 1 .. Len(s.out) - 1
  BY <1>1
<1>3. \A i \in 1 .. s.given : w.out[i] = s.out[i]
  BY <1>2 DEF Later
<1>4. QED
  BY <1>3 DEF Past, Later

\* The end of a segment.
LEMMA ClosedTurns ==
  ASSUME NEW s \in Detectors, s.given < Len(s.out), NEW b, Later(b, s),
         NEW cur \in Nat, NEW w, NEW end \in Nat, end <= cur + 1,
         Closed(w, b, end), w.start = end
  PROVE  Turned(w, s, cur)
<1>1. Later(w, s)
  <2>1. Grown(w, b)
    BY DEF Closed
  <2>2. QED
    BY <2>1, LaterGrown
<1>2. Past(w, s) /\ w.given < Len(w.out)
  BY <1>1, LaterPast
<1>3. w \in Detectors /\ InStock(w) /\ w.state = "ended" /\ AllComplete(w)
  BY DEF Closed, AllComplete
<1>4. w.given <= Len(w.out) /\ w.start <= cur + 1
  BY <1>2, <1>3, DetectorsHave
<1>5. QED
  BY <1>2, <1>3, <1>4 DEF Turned

\* A frame that ends the silence, if there was one, and may be the last.
LEMMA WentOnTurns ==
  ASSUME NEW s \in Detectors, s.given < Len(s.out), NEW b \in Detectors, Later(b, s),
         NEW cur \in Nat, b.run = 0, b.state = "speech", b.begin < cur, NEW w, WentOn(w, b, cur)
  PROVE  Turned(w, s, cur)
<1> USE VadAssumption
<1>1. CASE Closed(w, b, cur + 1)
  <2>1. cur + 1 \in Nat /\ w.start = cur + 1
    BY DEF WentOn
  <2>2. QED
    BY <1>1, <2>1, ClosedTurns
<1>2. CASE ~Closed(w, b, cur + 1)
  <2>1. /\ w \in Detectors /\ w.start = cur + 1 /\ InStock(w) /\ Open(w) /\ Grown(w, b)
        /\ w.state = "speech" /\ w.voice = cur /\ cur + 1 - w.begin <= MaxSegment
    BY <1>2 DEF WentOn
  <2>2. Past(w, s) /\ w.given < Len(w.out)
    BY <2>1, LaterGrown, LaterPast
  <2>3. w.run = 0 /\ w.begin = b.begin
    BY <2>1 DEF Grown, Kept
  <2>4. w.run <= Lookahead /\ ~(w.run > Lookahead) /\ ~(w.run > 0) /\ w.voice = (cur + 1) - 1
    BY <2>1, <2>3
  <2>5. w.start = w.voice + 1 /\ w.begin < w.voice /\ (cur + 1) - w.begin <= MaxSegment
    <3>1. b.begin \in Int
      BY DetectorsHave
    <3>2. QED
      BY <2>1, <2>3, <3>1
  <2>6. Speaks(w, cur + 1)
    BY <2>1, <2>2, <2>3, <2>4, <2>5 DEF Speaks
  <2>7. QED
    BY <2>1, <2>2, <2>6 DEF Turned
<1>3. QED
  BY <1>1, <1>2

\* A silent frame in a segment.
LEMMA SilentTurns ==
  ASSUME NEW s \in Detectors, InStock(s), NEW cur \in Nat, cur < s.cnt,
         Speaks(s, cur), ~s.talk, NEW final \in BOOLEAN,
         NEW a \in Detectors, Same(a, s), a.run = s.run + 1, ~a.talk
  PROVE  Turned(Sil2SilSpeech(a, cur, final), s, cur)
<1> USE VadAssumption
<1>0. /\ s.run \in Nat /\ s.begin \in Int /\ s.voice \in Nat /\ s.start \in Nat
      /\ Lookahead \in Nat /\ EndSilence \in Int /\ MaxSegment \in Nat
  BY DetectorsHave
<1>1. /\ s.state = "speech" /\ Open(s) /\ s.start = s.voice + 1 /\ s.begin < s.voice
      /\ cur - s.begin <= MaxSegment
      /\ s.given < Len(s.out)
  BY DEF Speaks
<1>2. /\ s.run <= Lookahead => s.voice = cur - 1
      /\ s.run > Lookahead => s.voice = cur - 1 - (s.run - Lookahead)
      /\ s.run > 0 => s.run < EndSilence
  BY DEF Speaks
<1>3. /\ InStock(a) /\ Open(a) /\ a.state = "speech" /\ a.start = s.start /\ a.voice = s.voice
      /\ a.begin = s.begin /\ a.cnt = s.cnt /\ a.out = s.out /\ a.given = s.given
  BY <1>1, SameHolds DEF Same
<1>4. Later(a, s)
  BY DEF Same, Later
<1>5. s.voice < cur
  BY <1>0, <1>2
<1>6. CASE a.run >= EndSilence
  <2>1. PICK f : f = cur - Larger(0, EndSilence - Lookahead - 1)
    OBVIOUS
  <2>2. PICK r, e, l, v \in Int : r = s.run /\ e = EndSilence /\ l = Lookahead /\ v = s.voice
    BY <1>0
  <2>3. f \in Int /\ f <= cur /\ v < f
    <3>1. r + 1 >= e /\ r >= 0 /\ l >= 0
      BY <1>0, <1>6, <2>2
    <3>2. /\ r <= l => v = cur - 1
          /\ r > l => v = cur - 1 - (r - l)
          /\ r > 0 => r < e
      BY <1>2, <2>2
    <3>3. f = cur - (IF 0 > e - l - 1 THEN 0 ELSE e - l - 1)
      BY <2>1, <2>2 DEF Larger
    <3>4. QED
      BY ONLY <3>1, <3>2, <3>3, r \in Int, e \in Int, l \in Int, v \in Int, cur \in Nat
  <2>4. f \in Nat /\ f <= cur /\ a.voice < f /\ a.voice <= f /\ f - a.begin <= MaxSegment
    BY <1>0, <1>1, <1>3, <2>2, <2>3
  <2>5. Sil2SilSpeech(a, cur, final) = VoiceEnd(a, f)
    <3>1. a.run \in Int
      BY DetectorsHave
    <3>2. ~(a.run < EndSilence)
      BY <1>0, <1>6, <3>1
    <3>3. QED
      BY Zenon, <1>6, <2>1, <3>2 DEF Sil2SilSpeech
  <2>6. PICK w : w = VoiceEnd(a, f)
    OBVIOUS
  <2>7. Closed(w, a, f + 1) /\ w.start = f + 1
    <3>1. a.start = a.voice + 1
      BY <1>1, <1>3
    <3>2. QED
      BY ONLY <1>3, <2>4, <2>6, <3>1, a \in Detectors, VoiceEndIs
  <2>8. f + 1 \in Nat /\ f + 1 <= cur + 1
    BY <2>4
  <2>9. QED
    BY <1>1, <1>4, <2>5, <2>6, <2>7, <2>8, ClosedTurns
<1>7. CASE a.run < EndSilence /\ (TooLong(a, cur) \/ final)
  <2>1. ~(a.run >= EndSilence)
    BY <1>0, <1>7
  <2>2. Sil2SilSpeech(a, cur, final) = VoiceEnd(a, cur)
    BY <1>7, <2>1 DEF Sil2SilSpeech
  <2>3. PICK w : w = VoiceEnd(a, cur)
    OBVIOUS
  <2>4. Closed(w, a, cur + 1) /\ w.start = cur + 1
    <3>1. /\ a.start = a.voice + 1 /\ a.voice <= cur /\ a.voice < cur
          /\ cur - a.begin <= MaxSegment
      BY <1>0, <1>1, <1>3, <1>5
    <3>2. QED
      BY ONLY <1>3, <2>3, <3>1, a \in Detectors, cur \in Nat, VoiceEndIs
  <2>5. cur + 1 \in Nat /\ cur + 1 <= cur + 1
    OBVIOUS
  <2>6. QED
    BY <1>1, <1>4, <2>2, <2>3, <2>4, <2>5, ClosedTurns
<1>8. CASE a.run < EndSilence /\ ~(TooLong(a, cur) \/ final)
  <2>1. ~(a.run >= EndSilence)
    BY <1>0, <1>8
  <2>2. (cur + 1) - s.begin <= MaxSegment
    BY <1>0, <1>3, <1>8 DEF TooLong
  <2>3. CASE a.run <= Lookahead
    <3>1. Sil2SilSpeech(a, cur, final) = Voice(a, cur)
      BY <1>8, <2>1, <2>3 DEF Sil2SilSpeech
    <3>2. s.voice = cur - 1 /\ cur = a.start
      BY <1>0, <1>1, <1>2, <1>3, <2>3
    <3>3. PICK w : w = Voice(a, cur)
      OBVIOUS
    <3>4. /\ w \in Detectors /\ InStock(w) /\ Open(w)
          /\ w.start = cur + 1 /\ w.voice = cur /\ Grown(w, a) /\ w.state = a.state
      BY ONLY <1>3, <3>2, <3>3, a \in Detectors, cur \in Nat, VoiceIs
    <3>5. Past(w, s) /\ w.given < Len(w.out)
      BY <1>1, <1>4, <3>4, LaterGrown, LaterPast
    <3>6. w.run = a.run /\ w.begin = s.begin /\ ~w.talk
      BY <1>3, <3>4 DEF Grown, Kept
    <3>7. /\ w.run <= Lookahead => w.voice = (cur + 1) - 1
          /\ w.run > Lookahead => w.voice = (cur + 1) - 1 - (w.run - Lookahead)
          /\ w.run > 0 => w.run < EndSilence
          /\ w.talk => w.run = 0
      BY <1>0, <1>8, <2>3, <3>4, <3>6
    <3>8. w.start = w.voice + 1 /\ w.begin < w.voice /\ (cur + 1) - w.begin <= MaxSegment
      BY <1>0, <1>1, <1>5, <2>2, <3>4, <3>6
    <3>9. Speaks(w, cur + 1)
      BY <1>3, <3>4, <3>5, <3>7, <3>8 DEF Speaks
    <3>10. QED
      BY <3>1, <3>3, <3>4, <3>5, <3>9 DEF Turned
  <2>4. CASE ~(a.run <= Lookahead)
    <3>1. Sil2SilSpeech(a, cur, final) = a
      BY <1>8, <2>1, <2>4 DEF Sil2SilSpeech
    <3>2. Past(a, s) /\ a.given < Len(a.out)
      BY <1>1, <1>4, LaterPast
    <3>3. a.voice = (cur + 1) - 1 - (a.run - Lookahead)
      <4>1. CASE s.run <= Lookahead
        BY <1>0, <1>2, <1>3, <2>4, <4>1
      <4>2. CASE s.run > Lookahead
        BY <1>0, <1>2, <1>3, <4>2
      <4>3. QED
        BY <1>0, <4>1, <4>2
    <3>4. Speaks(a, cur + 1)
      BY <1>1, <1>3, <1>8, <2>2, <2>4, <3>2, <3>3 DEF Speaks
    <3>5. QED
      BY <1>3, <3>1, <3>2, <3>4 DEF Turned
  <2>5. QED
    BY <2>3, <2>4
<1>9. QED
  <2>1. a.run \in Int
    BY DetectorsHave
  <2>2. QED
    BY <1>0, <1>6, <1>7, <1>8, <2>1

\* The silence is counted anew, and the window has changed its mind or not.
LEMMA SetIs ==
  ASSUME NEW s \in Detectors, NEW t \in BOOLEAN
  PROVE  LET a == [s EXCEPT !.run = 0, !.talk = t] IN
         a \in Detectors /\ Same(a, s) /\ a.run = 0 /\ a.talk = t
<1>1. PICK a : a = [s EXCEPT !.run = 0, !.talk = t]
  OBVIOUS
<1>2. a \in Detectors
  BY ONLY <1>1, s \in Detectors, t \in BOOLEAN DEF Detectors
<1>3. Same(a, s) /\ a.run = 0 /\ a.talk = t
  BY ONLY <1>1, s \in Detectors, t \in BOOLEAN DEF Detectors, Same
<1>4. QED
  BY <1>1, <1>2, <1>3

\* A frame while a segment is open.
LEMMA MatchedSpeaking ==
  ASSUME NEW s \in Detectors, InStock(s), NEW cur \in Nat, cur < s.cnt,
         Speaks(s, cur), Spoken(s.win) \in Nat, NEW final \in BOOLEAN
  PROVE  Turned(Matched(s, Change(s), cur, final), s, cur)
<1> USE VadAssumption
<1>0. /\ s.run \in Nat /\ s.begin \in Int /\ s.voice \in Nat /\ s.start \in Nat
      /\ s.talk \in BOOLEAN /\ Lookahead \in Nat /\ EndSilence \in Int /\ MaxSegment \in Nat
      /\ ToSpeech \in Nat /\ ToSilence \in Nat
  BY DetectorsHave
<1>1. /\ s.state = "speech" /\ Open(s) /\ s.start = s.voice + 1 /\ s.begin < s.voice
      /\ cur - s.begin <= MaxSegment
      /\ s.given < Len(s.out)
  BY DEF Speaks
<1>2. /\ s.run <= Lookahead => s.voice = cur - 1
      /\ s.run > Lookahead => s.voice = cur - 1 - (s.run - Lookahead)
      /\ s.talk => s.run = 0
  BY DEF Speaks
<1>3. s.voice < cur
  BY <1>0, <1>2
<1>4. CASE s.talk
  <2>1. Change(s) # "Sil2Sil" /\ Change(s) # "Sil2Speech"
    <3>1. CASE Spoken(s.win) <= ToSilence
      <4>1. Change(s) = "Speech2Sil"
        BY Zenon, <1>4, <3>1 DEF Change
      <4>2. QED
        BY <4>1
    <3>2. CASE ~(Spoken(s.win) <= ToSilence)
      <4>1. Change(s) = "Speech2Speech"
        BY Zenon, <1>4, <3>2 DEF Change
      <4>2. QED
        BY <4>1
    <3>3. QED
      BY <3>1, <3>2
  <2>2. PICK t \in BOOLEAN : t = (Change(s) = "Speech2Speech")
    OBVIOUS
  <2>3. PICK a : a = [s EXCEPT !.run = 0, !.talk = t]
    OBVIOUS
  <2>4. a \in Detectors /\ Same(a, s) /\ a.run = 0
    BY <2>3, SetIs
  <2>5. Matched(s, Change(s), cur, final) = Continue(a, cur, final)
    BY Zenon, <1>1, <2>1, <2>2, <2>3 DEF Matched
  <2>6. /\ InStock(a) /\ Open(a) /\ a.state = "speech" /\ a.start = s.start /\ a.voice = s.voice
        /\ a.begin = s.begin
    BY <1>1, <2>4, SameHolds DEF Same
  <2>7. s.voice = cur - 1
    BY <1>0, <1>2, <1>4
  <2>8. a.start = cur /\ cur = a.voice + 1 /\ cur - a.begin <= MaxSegment /\ a.begin < cur
    BY <1>0, <1>1, <1>3, <2>6, <2>7
  <2>9. PICK w : w = Continue(a, cur, final)
    OBVIOUS
  <2>10. WentOn(w, a, cur)
    BY ONLY <2>4, <2>6, <2>8, <2>9, cur \in Nat, final \in BOOLEAN, ContinueIs
  <2>11. Later(a, s)
    BY <2>4 DEF Same, Later
  <2>12. QED
    BY <1>1, <2>4, <2>5, <2>6, <2>8, <2>9, <2>10, <2>11, WentOnTurns
<1>5. CASE ~s.talk /\ Spoken(s.win) >= ToSpeech
  <2>1. Change(s) = "Sil2Speech"
    <3>1. ~(Spoken(s.win) < ToSpeech)
      BY <1>0, <1>5
    <3>2. QED
      BY Zenon, <1>5, <3>1 DEF Change
  <2>3. PICK a : a = [s EXCEPT !.run = 0, !.talk = TRUE]
    OBVIOUS
  <2>4. a \in Detectors /\ Same(a, s) /\ a.run = 0
    BY <2>3, SetIs
  <2>6. /\ InStock(a) /\ Open(a) /\ a.state = "speech" /\ a.start = s.start /\ a.voice = s.voice
        /\ a.begin = s.begin
    BY <1>1, <2>4, SameHolds DEF Same
  <2>7. PICK first \in Nat, last \in Int : first = a.voice + 1 /\ last = cur - 1
    BY <1>0, <2>6
  <2>8. PICK b : b = VoiceFrom(a, first, last)
    OBVIOUS
  <2>5. Matched(s, Change(s), cur, final) = Continue(b, cur, final)
    <3>1. Matched(s, Change(s), cur, final) = Sil2Speech(a, cur, final)
      BY <2>1, <2>3 DEF Matched
    <3>2. "speech" # "waiting"
      OBVIOUS
    <3>3. Sil2Speech(a, cur, final)
            = Continue(VoiceFrom(a, a.voice + 1, cur - 1), cur, final)
      BY Zenon, <2>6, <3>2 DEF Sil2Speech
    <3>4. QED
      BY <2>7, <2>8, <3>1, <3>3
  <2>9. PICK n : n = Larger(0, last - first + 1)
    OBVIOUS
  <2>10. b \in Detectors /\ n \in Nat /\ Spoke(b, a, first, n)
    <3>1. first = a.start
      BY <1>1, <2>6, <2>7
    <3>2. QED
      BY ONLY <2>4, <2>6, <2>8, <2>9, <3>1, first \in Nat, last \in Int, VoiceFromIs
  <2>11. n = cur - 1 - s.voice /\ (n = 0 => s.voice = cur - 1)
    BY <1>0, <1>3, <2>6, <2>7, <2>9 DEF Larger
  <2>12. InStock(b) /\ Open(b) /\ Grown(b, a) /\ b.state = "speech" /\ b.start = cur
    BY <1>0, <2>6, <2>7, <2>10, <2>11 DEF Spoke
  <2>13. b.voice = cur - 1
    BY <1>0, <2>6, <2>7, <2>10, <2>11 DEF Spoke
  <2>14. b.run = 0 /\ b.begin = s.begin
    BY <2>4, <2>6, <2>12 DEF Grown, Kept
  <2>15. cur = b.voice + 1 /\ cur - b.begin <= MaxSegment /\ b.begin < cur
    BY <1>0, <1>1, <1>3, <2>13, <2>14
  <2>16. PICK w : w = Continue(b, cur, final)
    OBVIOUS
  <2>17. WentOn(w, b, cur)
    BY ONLY <2>10, <2>12, <2>15, <2>16, cur \in Nat, final \in BOOLEAN, ContinueIs
  <2>18. Later(a, s)
    BY <2>4 DEF Same, Later
  <2>19. Later(b, s)
    BY <2>12, <2>18, LaterGrown
  <2>20. QED
    BY <1>1, <2>5, <2>10, <2>12, <2>14, <2>15, <2>16, <2>17, <2>19, WentOnTurns
<1>6. CASE ~s.talk /\ ~(Spoken(s.win) >= ToSpeech)
  <2>1. Change(s) = "Sil2Sil"
    <3>1. Spoken(s.win) < ToSpeech
      BY <1>0, <1>6
    <3>2. QED
      BY Zenon, <1>6, <3>1 DEF Change
  <2>2. PICK r \in Nat : r = s.run + 1
    BY <1>0
  <2>3. PICK a : a = [s EXCEPT !.run = r]
    OBVIOUS
  <2>4. a \in Detectors
    BY ONLY <2>3, r \in Nat, s \in Detectors DEF Detectors
  <2>5. Same(a, s) /\ a.talk = s.talk /\ a.run = r
    BY ONLY <2>3, r \in Nat, s \in Detectors DEF Detectors, Same
  <2>6. a = [s EXCEPT !.run = s.run + 1]
    BY <2>2, <2>3
  <2>7. a.state = "speech"
    BY <1>1, <2>5 DEF Same
  <2>8. Matched(s, Change(s), cur, final) = Sil2SilSpeech(a, cur, final)
    BY <2>1, <2>6, <2>7 DEF Matched, Sil2Sil
  <2>9. a.run = s.run + 1 /\ ~a.talk
    BY <1>6, <2>2, <2>5
  <2>10. Turned(Sil2SilSpeech(a, cur, final), s, cur)
    BY <1>6, <2>4, <2>5, <2>9, SilentTurns
  <2>11. QED
    BY <2>8, <2>10
<1>7. QED
  BY <1>4, <1>5, <1>6

\* A frame is detected.
LEMMA OneFrameIs ==
  ASSUME NEW v, NEW cur \in Nat, Detecting(v, cur), cur < v.cnt,
         NEW speech \in BOOLEAN, NEW final \in BOOLEAN
  PROVE  LET w == OneFrame(v, speech, cur, final) IN Detecting(w, cur + 1) /\ Past(w, v)
<1> USE VadAssumption
<1>1. v \in Detectors /\ InStock(v) /\ (Waits(v, cur) \/ Speaks(v, cur))
  BY DEF Detecting
<1>2. PICK s : s = Slid(v, speech)
  OBVIOUS
<1>3. s \in Detectors /\ Same(s, v) /\ s.run = v.run /\ s.talk = v.talk
      /\ s.win = Append(Tail(v.win), speech)
  BY <1>1, <1>2, SlidIs
<1>4. InStock(s) /\ cur < s.cnt
  BY <1>1, <1>3, SameHolds DEF Same
<1>5. Spoken(s.win) \in Nat
  <2>1. s.win \in Seq(BOOLEAN)
    BY <1>3, DetectorsHave
  <2>2. IsFiniteSet(1 .. Len(s.win)) /\ DOMAIN s.win = 1 .. Len(s.win)
    <3>1. Len(s.win) \in Int /\ DOMAIN s.win = 1 .. Len(s.win)
      BY <2>1
    <3>2. PICK n \in Int : n = Len(s.win)
      BY <3>1
    <3>3. IsFiniteSet(1 .. n)
      BY ONLY n \in Int, FS_Interval
    <3>4. QED
      BY <3>1, <3>2, <3>3
  <2>3. PICK T : T = {i \in DOMAIN s.win : s.win[i]}
    OBVIOUS
  <2>4. IsFiniteSet(T)
    BY <2>2, <2>3, FS_Subset
  <2>5. QED
    BY <2>3, <2>4, FS_CardinalityType DEF Spoken
<1>6. PICK m : m = Matched(s, Change(s), cur, final)
  OBVIOUS
<1>7. Turned(m, s, cur)
  <2>1. CASE Waits(v, cur)
    <3>1. /\ s.state = "waiting" /\ ~s.talk /\ s.start <= cur /\ s.given <= Len(s.out)
          /\ s.start = v.start
      BY <1>3, <2>1 DEF Waits, Same
    <3>2. AllComplete(s)
      BY <1>3, <2>1, SameHolds DEF Waits
    <3>3. ASSUME Spoken(s.win) >= ToSpeech PROVE s.start < cur
      <4>1. CASE v.start = cur
        <5>1. v.win \in Windows /\ \A i \in 1 .. Window : ~v.win[i]
          BY <1>1, <2>1, <4>1 DEF Waits, Detectors
        <5>2. Spoken(s.win) < ToSpeech
          BY <1>3, <5>1, OneIsNotEnough
        <5>3. QED
          BY <1>5, <3>3, <5>2
      <4>2. CASE v.start # cur
        <5>1. s.start \in Nat
          BY <1>3, DetectorsHave
        <5>2. QED
          BY <3>1, <4>2, <5>1
      <4>3. QED
        BY <4>1, <4>2
    <3>4. QED
      BY <1>3, <1>4, <1>5, <1>6, <3>1, <3>2, <3>3, MatchedWaiting
  <2>2. CASE Speaks(v, cur)
    <3>1. Open(s)
      BY <1>3, <2>2, SameHolds DEF Speaks
    <3>2. Speaks(s, cur)
      BY <1>3, <2>2, <3>1 DEF Speaks, Same
    <3>3. QED
      BY <1>3, <1>4, <1>5, <1>6, <3>2, MatchedSpeaking
  <2>3. QED
    BY <1>1, <2>1, <2>2
<1>8. PICK u : u = IF m.state = "ended" THEN Rearmed(m) ELSE m
  OBVIOUS
<1>9. Detecting(u, cur + 1) /\ Past(u, s)
  <2>1. s.cnt \in Nat
    BY <1>3, DetectorsHave
  <2>2. QED
    BY <1>4, <1>7, <1>8, <2>1, RearmedIs
<1>10. Past(u, v)
  BY <1>3, <1>9 DEF Past, Same
<1>11. OneFrame(v, speech, cur, final) = u
  BY Zenon, <1>2, <1>6, <1>8 DEF OneFrame
<1>12. QED
  BY <1>9, <1>10, <1>11

\* The frames of a chunk are counted, and its samples.
LEMMA CountedIs ==
  ASSUME NEW v, Detecting(v, v.cnt), NEW scores \in Seq(BOOLEAN), NEW samples \in Nat,
         Len(scores) * Shift <= samples, Shift <= samples
  PROVE  LET w == Counted(v, scores, samples) IN
         /\ Detecting(w, v.cnt)
         /\ w.cnt = v.cnt + Len(scores) /\ w.given = v.given /\ w.out = v.out
<1> USE VadAssumption
<1>0. v \in Detectors /\ InStock(v) /\ (Waits(v, v.cnt) \/ Speaks(v, v.cnt))
  BY DEF Detecting
<1>1. v.all \in Nat /\ v.cnt \in Nat /\ v.size \in Int /\ Len(scores) \in Nat
      /\ Shift \in Nat /\ Shift > 0
  BY <1>0, DetectorsHave
<1>2. PICK all \in Nat, size \in Int, cnt \in Nat :
        /\ all = v.all + samples /\ cnt = v.cnt + Len(scores)
        /\ size = (IF v.all = 0 THEN samples ELSE v.size)
  BY <1>1
<1>3. PICK w : w = Counted(v, scores, samples)
  OBVIOUS
<1>4. w = [v EXCEPT !.all = all, !.size = size, !.cnt = cnt]
  BY <1>2, <1>3 DEF Counted
<1>5. w \in Detectors
  BY ONLY <1>0, <1>4, all \in Nat, size \in Int, cnt \in Nat DEF Detectors
<1>6. /\ w.all = all /\ w.size = size /\ w.cnt = cnt /\ w.win = v.win /\ w.talk = v.talk
      /\ w.start = v.start /\ w.voice = v.voice /\ w.run = v.run /\ w.state = v.state
      /\ w.begin = v.begin /\ w.out = v.out /\ w.given = v.given
  BY ONLY <1>0, <1>4 DEF Detectors
<1>7. InStock(w)
  <2>1. PICK c, n, s, a \in Nat : c = v.cnt /\ n = Len(scores) /\ s = Shift /\ a = v.all
    BY <1>1
  <2>2. c * s <= a /\ n * s <= samples
    BY <1>0, <2>1 DEF InStock
  <2>3. (c + n) * s = c * s + n * s
    BY ONLY c \in Nat, n \in Nat, s \in Nat
  <2>4. PICK x, y \in Int : x = c * s /\ y = n * s
    OBVIOUS
  <2>5. (c + n) * s <= a + samples
    BY ONLY <2>2, <2>3, <2>4, a \in Nat, samples \in Nat
  <2>6. size >= Shift
    BY <1>0, <1>1, <1>2 DEF InStock
  <2>7. w.cnt * Shift <= w.all
    BY <1>2, <1>6, <2>1, <2>5
  <2>8. QED
    BY <1>6, <2>6, <2>7 DEF InStock
<1>8. Waits(v, v.cnt) => Waits(w, v.cnt)
  BY <1>6 DEF Waits, AllComplete
<1>9. Speaks(v, v.cnt) => Speaks(w, v.cnt)
  <2>1. Open(v) => Open(w)
    BY <1>6 DEF Open
  <2>2. QED
    BY <1>6, <2>1 DEF Speaks
<1>10. v.cnt <= w.cnt
  BY <1>1, <1>2, <1>6
<1>11. QED
  BY <1>0, <1>2, <1>3, <1>5, <1>6, <1>7, <1>8, <1>9, <1>10 DEF Detecting

\* The loop over the frames of a chunk.
LEMMA EachFrameIs ==
  ASSUME NEW v, NEW scores \in Seq(BOOLEAN), NEW c \in Nat, Detecting(v, c),
         v.cnt = c + Len(scores), NEW final \in BOOLEAN
  PROVE  Detecting(EachFrame(v, scores, final), v.cnt) /\ Past(EachFrame(v, scores, final), v)
<1> DEFINE n == Len(scores)
           Body(w, i) == OneFrame(w, FrameState(v, scores, v.cnt - n + i - 1),
                                  v.cnt - n + i - 1, final /\ i = n)
           F(f) == f = [i \in 0 .. n |-> IF i = 0 THEN v ELSE Body(f[i-1], i)]
           after == CHOOSE f : F(f)
           Part(k) == {w \in Detectors : Detecting(w, c + k) /\ Past(w, v)}
           W == [k \in 0 .. n |-> Part(k)]
           next == [p \in (1 .. n) \X Detectors |-> Body(p[2], p[1])]
<1>0. n \in Nat
  OBVIOUS
<1>4. EachFrame(v, scores, final) = after[n]
  BY Zenon DEF EachFrame
<1> HIDE DEF n, Body
<1>1. \A k \in 1 .. n : k \in 0 .. n /\ k - 1 \in 0 .. n
  BY <1>0
<1>2. \A k \in 0 .. n : W[k] = Part(k)
  OBVIOUS
<1>3. \A k \in 1 .. n, w \in Detectors : next[<<k, w>>] = Body(w, k)
  OBVIOUS
<1> HIDE DEF F, after, W, next
<1>5. v \in W[0]
  <2>1. Detecting(v, c + 0) /\ Past(v, v) /\ v \in Detectors
    BY DEF Past, Detecting
  <2>2. 0 \in 0 .. n
    BY <1>0
  <2>3. QED
    BY <1>2, <2>1, <2>2
<1>6. ASSUME NEW k \in 1 .. n, NEW w \in W[k-1]
      PROVE  /\ w \in Detectors /\ next[<<k, w>>] = Body(w, k)
             /\ next[<<k, w>>] \in W[k]
  <2>1. w \in Detectors /\ Detecting(w, c + (k - 1)) /\ Past(w, v)
    BY <1>1, <1>2
  <2>2. PICK u : u = Body(w, k)
    OBVIOUS
  <2>3. PICK cur \in Nat : cur = c + (k - 1)
    BY <1>0
  <2>4. v.cnt - n + k - 1 = cur /\ cur < w.cnt
    BY <1>0, <2>1, <2>3 DEF n, Past
  <2>5. PICK speech \in BOOLEAN : speech = FrameState(v, scores, cur)
    BY DEF FrameState
  <2>6. PICK last \in BOOLEAN : last = (final /\ k = n)
    OBVIOUS
  <2>7. u = OneFrame(w, speech, cur, last)
    BY <2>2, <2>4, <2>5, <2>6 DEF Body
  <2>8. Detecting(u, cur + 1) /\ Past(u, w)
    BY <2>1, <2>3, <2>4, <2>7, OneFrameIs
  <2>9. Past(u, v)
    BY <2>1, <2>8 DEF Past
  <2>10. cur + 1 = c + k
    BY <1>0, <2>3
  <2>11. u \in Detectors /\ Detecting(u, c + k)
    BY <2>8, <2>10 DEF Detecting
  <2>12. QED
    BY <1>1, <1>2, <1>3, <2>1, <2>2, <2>9, <2>11
<1>7. Steps(n, W, v, next)
  BY <1>0, <1>5, <1>6 DEF Steps
<1>8. \E f : F(f)
  <2>1. PICK f : RunThrough(f, n, W, v, next)
    BY <1>7, Recursion
  <2>2. ASSUME NEW k \in 0 .. n PROVE f[k] = IF k = 0 THEN v ELSE Body(f[k-1], k)
    <3>1. CASE k = 0
      BY <2>1, <3>1 DEF RunThrough
    <3>2. CASE k # 0
      <4>1. k \in 1 .. n
        BY <3>2
      <4>2. f[k-1] \in W[k-1] /\ f[k] = next[<<k, f[k-1]>>]
        BY <2>1, <4>1 DEF RunThrough
      <4>3. QED
        BY <1>6, <3>2, <4>1, <4>2
    <3>3. QED
      BY <3>1, <3>2
  <2>3. f = [k \in 0 .. n |-> f[k]]
    BY <2>1 DEF RunThrough
  <2>4. F(f)
    BY <2>2, <2>3 DEF F
  <2>5. QED
    BY <2>4
<1>9. F(after)
  BY <1>8 DEF after
<1>10. Follows(after, n, W, v, next)
  <2>1. \A k \in 0 .. n : after[k] = IF k = 0 THEN v ELSE Body(after[k-1], k)
    BY <1>9 DEF F
  <2>2. after[0] = v
    BY <1>0, <2>1
  <2>3. ASSUME NEW k \in 1 .. n, after[k-1] \in W[k-1] PROVE after[k] = next[<<k, after[k-1]>>]
    <3>1. after[k] = Body(after[k-1], k)
      BY <1>1, <2>1
    <3>2. QED
      BY <1>6, <2>3, <3>1
  <2>4. QED
    BY <2>2, <2>3 DEF Follows
<1>11. n \in 0 .. n /\ \A k \in 0 .. n : after[k] \in W[k]
  BY <1>0, <1>7, <1>10, Recursion
<1>12. after[n] \in Part(n)
  BY <1>2, <1>11
<1>13. QED
  BY <1>4, <1>12 DEF n

\* A chunk of scores with its samples.
LEMMA ChunkIs ==
  ASSUME NEW v, Detecting(v, v.cnt), NEW scores \in Seq(BOOLEAN), NEW samples \in Nat,
         Len(scores) * Shift <= samples, Shift <= samples, NEW final \in BOOLEAN
  PROVE  LET w == Chunk(v, scores, samples, final) IN
         /\ Detecting(w, w.cnt) /\ w.cnt = v.cnt + Len(scores)
         /\ w.given = v.given
         /\ \A i \in 1 .. v.given : w.out[i] = v.out[i]
<1>1. PICK a : a = Counted(v, scores, samples)
  OBVIOUS
<1>2. /\ Detecting(a, v.cnt) /\ a.cnt = v.cnt + Len(scores) /\ a.given = v.given
      /\ a.out = v.out
  BY <1>1, CountedIs
<1>3. v.cnt \in Nat
  BY DetectorsHave DEF Detecting
<1>4. PICK b : b = EachFrame(a, scores, final)
  OBVIOUS
<1>5. Detecting(b, a.cnt) /\ Past(b, a)
  BY <1>2, <1>3, <1>4, EachFrameIs
<1>6. PICK w : w = Chunk(v, scores, samples, final)
  OBVIOUS
<1>7. /\ Detecting(w, a.cnt) /\ w.cnt = b.cnt /\ w.given = b.given /\ w.out = b.out
  <2>1. CASE final
    <3>1. w = b
      BY <1>1, <1>4, <1>6, <2>1 DEF Chunk, Frames
    <3>2. QED
      BY <1>5, <3>1
  <2>2. CASE ~final
    <3>0. b \in Detectors
      BY <1>5 DEF Detecting
    <3>1. PICK z \in Nat : z = b.prev + Len(scores)
      <4>1. b.prev \in Nat
        BY <3>0, DetectorsHave
      <4>2. PICK x \in Nat, y \in Nat : x = b.prev /\ y = Len(scores)
        BY <4>1
      <4>3. x + y \in Nat
        BY <4>2
      <4>4. QED
        BY <4>2, <4>3
    <3>2. w = [b EXCEPT !.prev = z]
      BY <1>1, <1>4, <1>6, <2>2, <3>1 DEF Chunk, Frames
    <3>3. w \in Detectors
      BY ONLY <3>0, <3>2, z \in Nat DEF Detectors
    <3>4. /\ w.all = b.all /\ w.size = b.size /\ w.cnt = b.cnt /\ w.win = b.win /\ w.talk = b.talk
          /\ w.start = b.start /\ w.voice = b.voice /\ w.run = b.run /\ w.state = b.state
          /\ w.begin = b.begin /\ w.out = b.out /\ w.given = b.given
      BY ONLY <3>0, <3>2 DEF Detectors
    <3>5. InStock(b) => InStock(w)
      BY <3>4 DEF InStock
    <3>6. Waits(b, a.cnt) => Waits(w, a.cnt)
      BY <3>4 DEF Waits, AllComplete
    <3>7. Speaks(b, a.cnt) => Speaks(w, a.cnt)
      <4>1. Open(b) => Open(w)
        BY <3>4 DEF Open
      <4>2. QED
        BY <3>4, <4>1 DEF Speaks
    <3>8. QED
      BY <1>5, <3>3, <3>4, <3>5, <3>6, <3>7 DEF Detecting
  <2>3. QED
    BY <2>1, <2>2
<1>8. QED
  BY <1>2, <1>5, <1>6, <1>7 DEF Past

\* The pieces returned are those that were completed since the last time, when
\* the first k are complete and none after them is.
LEMMA NewSegmentsIs ==
  ASSUME NEW v \in Detectors, NEW k \in Nat, v.given <= k, k <= Len(v.out),
         Laid(v.out, k), \A i \in k + 1 .. Len(v.out) : ~Completed(v.out[i])
  PROVE  /\ NewSegments(v) \in Seq(Pieces)
         /\ Len(NewSegments(v)) = k - v.given
         /\ \A i \in 1 .. k - v.given : NewSegments(v)[i] = v.out[v.given + i]
<1> DEFINE n == Len(v.out) - v.given
           Body(x, i) == IF Completed(v.out[v.given + i])
                         THEN Append(x, v.out[v.given + i])
                         ELSE x
           F(f) == f = [i \in 0 .. n |-> IF i = 0 THEN <<>> ELSE Body(f[i-1], i)]
           after == CHOOSE f : F(f)
           Is(x, i) == /\ x \in Seq(Pieces) /\ Len(x) = Smaller(i, k - v.given)
                       /\ \A j \in 1 .. Len(x) : x[j] = v.out[v.given + j]
           Part(i) == {x \in Seq(Pieces) : Is(x, i)}
           W == [i \in 0 .. n |-> Part(i)]
           next == [p \in (1 .. n) \X Seq(Pieces) |-> Body(p[2], p[1])]
<1>14. v.given \in Nat /\ v.out \in Seq(Pieces) /\ Len(v.out) \in Nat
  BY DetectorsHave
<1>0. n \in Nat /\ k - v.given \in Nat /\ k - v.given <= n
  BY <1>14
<1>4. NewSegments(v) = after[n]
  BY Zenon DEF NewSegments
<1>15. n = Len(v.out) - v.given
  OBVIOUS
<1> HIDE DEF n, Body
<1>1. \A i \in 1 .. n : i \in 0 .. n /\ i - 1 \in 0 .. n
  BY <1>0
<1>2. \A i \in 0 .. n : W[i] = Part(i)
  OBVIOUS
<1>3. \A i \in 1 .. n, x \in Seq(Pieces) : next[<<i, x>>] = Body(x, i)
  OBVIOUS
<1> HIDE DEF F, after, W, next
<1>5. <<>> \in W[0]
  <2>1. Is(<<>>, 0)
    BY <1>0 DEF Smaller
  <2>2. 0 \in 0 .. n
    BY <1>0
  <2>3. QED
    BY <1>2, <2>1, <2>2
<1>6. ASSUME NEW i \in 1 .. n, NEW x \in W[i-1]
      PROVE  /\ x \in Seq(Pieces) /\ next[<<i, x>>] = Body(x, i)
             /\ next[<<i, x>>] \in W[i]
  <2>1. x \in Seq(Pieces) /\ Is(x, i - 1)
    BY <1>1, <1>2
  <2>2. PICK e : e = v.out[v.given + i]
    OBVIOUS
  <2>3. v.given + i \in 1 .. Len(v.out) /\ e \in Pieces
    BY <1>0, <1>14, <1>15, <2>2
  <2>4. PICK u : u = Body(x, i)
    OBVIOUS
  <2>5. PICK m \in Nat : m = Len(x)
    BY <2>1
  <2>6. m = Smaller(i - 1, k - v.given) /\ \A j \in 1 .. m : x[j] = v.out[v.given + j]
    BY <2>1, <2>5
  <2> HIDE DEF Is
  <2>7. CASE i <= k - v.given
    <3>1. v.given + i \in 1 .. k
      BY <1>0, <1>14, <2>7
    <3>2. Completed(e)
      BY <2>2, <3>1 DEF Laid
    <3>3. u = Append(x, e)
      BY Zenon, <2>2, <2>4, <3>2 DEF Body
    <3>4. u \in Seq(Pieces) /\ Len(u) = m + 1 /\ u[m + 1] = e /\ \A j \in 1 .. m : u[j] = x[j]
      BY <2>1, <2>3, <2>5, <3>3
    <3>5. m = i - 1 /\ m + 1 = i
      BY <1>0, <2>6, <2>7 DEF Smaller
    <3>6. Len(u) = Smaller(i, k - v.given)
      BY <1>0, <2>7, <3>4, <3>5 DEF Smaller
    <3>7. ASSUME NEW j \in 1 .. Len(u) PROVE u[j] = v.out[v.given + j]
      <4>1. CASE j = i
        BY <2>2, <3>4, <3>5, <4>1
      <4>2. CASE j # i
        <5>1. j \in 1 .. m
          BY <3>4, <3>5, <4>2
        <5>2. QED
          BY <2>6, <3>4, <5>1
      <4>3. QED
        BY <4>1, <4>2
    <3>8. Is(u, i)
      BY <3>4, <3>6, <3>7 DEF Is
    <3>9. QED
      BY <1>1, <1>2, <1>3, <2>1, <2>4, <3>4, <3>8
  <2>8. CASE ~(i <= k - v.given)
    <3>1. v.given + i \in k + 1 .. Len(v.out)
      BY <1>0, <1>14, <1>15, <2>8
    <3>2. ~Completed(e)
      BY <2>2, <3>1
    <3>3. u = x
      BY Zenon, <2>2, <2>4, <3>2 DEF Body
    <3>4. m = k - v.given /\ Smaller(i, k - v.given) = m
      BY <1>0, <2>6, <2>8 DEF Smaller
    <3>5. Is(u, i)
      BY <2>1, <2>5, <2>6, <3>3, <3>4 DEF Is
    <3>6. u \in Seq(Pieces)
      BY <2>1, <3>3
    <3>7. QED
      BY <1>1, <1>2, <1>3, <2>1, <2>4, <3>5, <3>6
  <2>9. QED
    BY <2>7, <2>8
<1>7. Steps(n, W, <<>>, next)
  BY <1>0, <1>5, <1>6 DEF Steps
<1>8. \E f : F(f)
  <2>1. PICK f : RunThrough(f, n, W, <<>>, next)
    BY <1>7, Recursion
  <2>2. ASSUME NEW i \in 0 .. n PROVE f[i] = IF i = 0 THEN <<>> ELSE Body(f[i-1], i)
    <3>1. CASE i = 0
      BY <2>1, <3>1 DEF RunThrough
    <3>2. CASE i # 0
      <4>1. i \in 1 .. n
        BY <3>2
      <4>2. f[i-1] \in W[i-1] /\ f[i] = next[<<i, f[i-1]>>]
        BY <2>1, <4>1 DEF RunThrough
      <4>3. QED
        BY <1>6, <3>2, <4>1, <4>2
    <3>3. QED
      BY <3>1, <3>2
  <2>3. f = [i \in 0 .. n |-> f[i]]
    BY <2>1 DEF RunThrough
  <2>4. F(f)
    BY <2>2, <2>3 DEF F
  <2>5. QED
    BY <2>4
<1>9. F(after)
  BY <1>8 DEF after
<1>10. Follows(after, n, W, <<>>, next)
  <2>1. \A i \in 0 .. n : after[i] = IF i = 0 THEN <<>> ELSE Body(after[i-1], i)
    BY <1>9 DEF F
  <2>2. after[0] = <<>>
    BY <1>0, <2>1
  <2>3. ASSUME NEW i \in 1 .. n, after[i-1] \in W[i-1] PROVE after[i] = next[<<i, after[i-1]>>]
    <3>1. after[i] = Body(after[i-1], i)
      BY <1>1, <2>1
    <3>2. QED
      BY <1>6, <2>3, <3>1
  <2>4. QED
    BY <2>2, <2>3 DEF Follows
<1>11. n \in 0 .. n /\ \A i \in 0 .. n : after[i] \in W[i]
  BY <1>0, <1>7, <1>10, Recursion
<1>12. after[n] \in Part(n)
  BY <1>2, <1>11
<1>16. Smaller(n, k - v.given) = k - v.given
  BY <1>0 DEF Smaller
<1>13. QED
  BY <1>4, <1>12, <1>16

\* How many pieces are complete: all but the one of an open segment.
Done(v) == IF v.state = "speech" THEN Len(v.out) - 1 ELSE Len(v.out)

LEMMA DoneIs ==
  ASSUME NEW v, NEW c \in Nat, Detecting(v, c)
  PROVE  /\ v \in Detectors /\ Done(v) \in Nat
         /\ v.given <= Done(v) /\ Done(v) <= Len(v.out)
         /\ Laid(v.out, Done(v))
         /\ \A i \in Done(v) + 1 .. Len(v.out) : ~Completed(v.out[i])
         /\ \A i \in 1 .. Done(v) : v.out[i].to <= c
<1>1. v \in Detectors
  BY DEF Detecting
<1>2. /\ Len(v.out) \in Nat /\ v.out \in Seq(Pieces) /\ v.given \in Nat /\ v.start \in Nat
      /\ v.voice \in Nat /\ v.begin \in Int /\ v.run \in Nat
      /\ \A i \in 1 .. Len(v.out) : v.out[i] \in Pieces
  BY <1>1, DetectorsHave
<1>3. CASE Waits(v, c)
  <2>1. v.state # "speech" /\ AllComplete(v) /\ v.start <= c /\ v.given <= Len(v.out)
    BY <1>3 DEF Waits
  <2>2. Done(v) = Len(v.out)
    BY <2>1 DEF Done
  <2>3. ASSUME NEW i \in 1 .. Len(v.out) PROVE v.out[i].to <= c
    <3>1. v.out[i].to <= v.start /\ v.out[i].to \in Nat
      BY <1>2, <2>1 DEF AllComplete, Pieces
    <3>2. QED
      BY <1>2, <2>1, <3>1
  <2>4. Laid(v.out, Len(v.out))
    BY <2>1 DEF AllComplete
  <2>5. \A i \in Len(v.out) + 1 .. Len(v.out) : FALSE
    BY <1>2
  <2>6. QED
    BY <1>1, <1>2, <2>1, <2>2, <2>3, <2>4, <2>5
<1>4. CASE Speaks(v, c)
  <2>1. PICK k \in Nat : k = Len(v.out) /\ k > 0
    BY <1>2, <1>4 DEF Speaks, Open
  <2>2. Done(v) = k - 1 /\ v.given <= k - 1 /\ k - 1 \in Nat
    BY <1>2, <1>4, <2>1 DEF Speaks, Done
  <2>3. Laid(v.out, k - 1) /\ \A j \in 1 .. k - 1 : v.out[j].to <= v.begin
    BY <1>4, <2>1 DEF Speaks, Open
  <2>4. ~Completed(v.out[k])
    <3>1. v.out[k] = [from |-> v.begin, to |-> v.start, opened |-> TRUE, closed |-> FALSE]
      BY <1>4, <2>1 DEF Speaks, Open
    <3>2. QED
      BY <3>1 DEF Completed
  <2>5. v.begin <= c
    <3>1. v.begin < v.voice
      BY <1>4 DEF Speaks
    <3>2. v.voice <= c
      <4>1. Lookahead \in Nat
        BY VadAssumption
      <4>2. CASE v.run <= Lookahead
        BY <1>2, <1>4, <4>1, <4>2 DEF Speaks
      <4>3. CASE v.run > Lookahead
        BY <1>2, <1>4, <4>1, <4>3 DEF Speaks
      <4>4. QED
        BY <1>2, <4>1, <4>2, <4>3
    <3>3. QED
      BY <1>2, <3>1, <3>2
  <2>6. ASSUME NEW i \in 1 .. k - 1 PROVE v.out[i].to <= c
    <3>1. v.out[i] \in Pieces
      BY <1>2, <2>1
    <3>2. v.out[i].to <= v.begin /\ v.out[i].to \in Nat
      BY <2>3, <3>1 DEF Pieces
    <3>3. QED
      BY <1>2, <2>5, <3>2
  <2>7. \A i \in (k - 1) + 1 .. k : i = k
    OBVIOUS
  <2>8. QED
    BY <1>1, <2>1, <2>2, <2>3, <2>4, <2>6, <2>7
<1>5. QED
  BY <1>3, <1>4 DEF Detecting

\* Segments that are in order, within the first n frames, and not too long.
Listed(ss, n) ==
  /\ ss \in Seq(Nat \X Nat)
  /\ \A i \in 1 .. Len(ss) :
       /\ ss[i][1] >= (IF i = 1 THEN 0 ELSE ss[i - 1][2])
       /\ ss[i][1] < ss[i][2]
       /\ ss[i][2] <= n
       /\ ss[i][2] - ss[i][1] <= MaxSegment + 1

\* They end before any piece of out that comes after the first k.
Before(ss, out, k) == ss # <<>> => k > 0 /\ ss[Len(ss)][2] <= out[k].to

\* The intervals of the pieces from g + 1 to k can be put behind the segments.
LEMMA ListedOn ==
  ASSUME NEW n \in Nat, NEW m \in Nat, n <= m, NEW ss, Listed(ss, n),
         NEW out \in Seq(Pieces), NEW g \in Nat, NEW k \in Nat, g <= k, k <= Len(out),
         Laid(out, k), \A i \in 1 .. k : out[i].to <= m, Before(ss, out, g),
         NEW new \in Seq(Pieces), Len(new) = k - g, \A i \in 1 .. k - g : new[i] = out[g + i]
  PROVE  /\ Listed(ss \o Intervals(new), m) /\ Before(ss \o Intervals(new), out, k)
         /\ Listed(ss, m) /\ Before(ss, out, k)
<1> USE VadAssumption
<1> DEFINE P == Nat \X Nat
           iv == Intervals(new)
           r == ss \o iv
<1>1. ss \in Seq(P) /\ Len(ss) \in Nat /\ MaxSegment \in Nat
  BY DEF Listed
<1>2. \A i \in 1 .. k : out[i] \in Pieces
  OBVIOUS
<1>3. iv \in Seq(P) /\ Len(iv) = k - g
      /\ \A i \in 1 .. k - g : iv[i] = <<out[g + i].from, out[g + i].to>>
  <2>1. DOMAIN new = 1 .. k - g
    OBVIOUS
  <2>2. iv = [i \in 1 .. k - g |-> <<new[i].from, new[i].to>>]
    BY <2>1 DEF Intervals
  <2>3. ASSUME NEW i \in 1 .. k - g PROVE <<new[i].from, new[i].to>> \in P
    <3>1. new[i] \in Pieces
      OBVIOUS
    <3>2. QED
      BY <3>1 DEF Pieces
  <2>4. k - g \in Nat
    OBVIOUS
  <2> HIDE DEF iv, P
  <2>5. \A i \in 1 .. k - g : iv[i] = <<new[i].from, new[i].to>> /\ iv[i] \in P
    BY <2>2, <2>3
  <2>6. iv \in Seq(P) /\ Len(iv) = k - g
    <3>1. PICK l \in Nat : l = k - g
      BY <2>4
    <3>2. iv = [i \in 1 .. l |-> iv[i]] /\ \A i \in 1 .. l : iv[i] \in P
      BY <2>2, <2>5, <3>1
    <3>3. iv \in [1 .. l -> P]
      BY ONLY <3>2
    <3>4. iv \in Seq(P) /\ Len(iv) = l
      BY ONLY <3>3, l \in Nat
    <3>5. QED
      BY <3>1, <3>4
  <2>7. QED
    BY <2>5, <2>6
<1> HIDE DEF iv, P
<1>4. /\ r \in Seq(P)
      /\ Len(r) = Len(ss) + (k - g)
      /\ \A i \in 1 .. Len(ss) : r[i] = ss[i]
      /\ \A i \in 1 .. k - g : r[Len(ss) + i] = iv[i]
  <2>1. /\ r \in Seq(P)
        /\ Len(r) = Len(ss) + Len(iv)
        /\ \A i \in 1 .. Len(ss) : r[i] = ss[i]
        /\ \A i \in 1 .. Len(iv) : r[Len(ss) + i] = iv[i]
    <3>1. ss \in Seq(P) /\ iv \in Seq(P)
      BY <1>1, <1>3
    <3>2. QED
      BY ONLY <3>1, Joined
  <2>2. QED
    BY <1>3, <2>1
<1> HIDE DEF r
<1>5. PICK s \in Nat : s = Len(ss)
  BY <1>1
<1>6. \A i \in 1 .. s : ss[i][1] \in Nat /\ ss[i][2] \in Nat
  <2>1. \A i \in 1 .. s : ss[i] \in P
    BY <1>1, <1>5
  <2>2. QED
    BY <2>1 DEF P
<1>7. \A i \in 1 .. s : /\ ss[i][1] >= (IF i = 1 THEN 0 ELSE ss[i - 1][2])
                        /\ ss[i][1] < ss[i][2]
                        /\ ss[i][2] <= n
                        /\ ss[i][2] - ss[i][1] <= MaxSegment + 1
  BY <1>5 DEF Listed
<1>8. \A i \in 1 .. k : out[i].from \in Nat /\ out[i].to \in Nat
  BY <1>2 DEF Pieces
<1>9. \A i \in 1 .. k : /\ out[i].from < out[i].to
                        /\ out[i].to - out[i].from <= MaxSegment + 1
                        /\ \A j \in 1 .. i - 1 : out[j].to <= out[i].from
  BY DEF Laid
<1>10. ss = <<>> <=> s = 0
  BY <1>1, <1>5
<1>11. r = <<>> <=> Len(r) = 0
  BY <1>4
<1>12. ASSUME NEW i \in 1 .. Len(r)
       PROVE  /\ r[i][1] >= (IF i = 1 THEN 0 ELSE r[i - 1][2])
              /\ r[i][1] < r[i][2]
              /\ r[i][2] <= m
              /\ r[i][2] - r[i][1] <= MaxSegment + 1
  <2>1. CASE i \in 1 .. s
    <3>1. r[i] = ss[i] /\ (i # 1 => r[i - 1] = ss[i - 1])
      BY ONLY <1>4, <1>5, <2>1
    <3>2. ss[i][2] <= m
      BY <1>6, <1>7, <2>1
    <3>3. QED
      BY <1>7, <2>1, <3>1, <3>2
  <2>2. CASE i \notin 1 .. s
    <3>1. PICK j \in 1 .. k - g : i = s + j
      <4>1. i - s \in 1 .. k - g /\ i = s + (i - s)
        BY <1>4, <1>5, <2>2
      <4>2. QED
        BY <4>1
    <3>2. PICK x \in 1 .. k : x = g + j
      OBVIOUS
    <3>3. r[i][1] = out[x].from /\ r[i][2] = out[x].to
      <4>1. r[s + j] = iv[j] /\ iv[j] = <<out[g + j].from, out[g + j].to>>
        BY <1>3, <1>4, <1>5
      <4>2. r[i] = <<out[x].from, out[x].to>>
        BY <3>1, <3>2, <4>1
      <4>3. QED
        BY <4>2
    <3>4. out[x].from >= (IF i = 1 THEN 0 ELSE r[i - 1][2])
      <4>1. CASE i = 1
        BY <1>8, <4>1
      <4>2. CASE i # 1 /\ j = 1
        <5>1. i - 1 = s /\ s > 0 /\ s \in 1 .. s
          BY <3>1, <4>2
        <5>2. r[i - 1] = ss[s] /\ g > 0 /\ ss[s][2] <= out[g].to
          BY <1>4, <1>5, <1>10, <5>1 DEF Before
        <5>3. g \in 1 .. x - 1 /\ g \in 1 .. k
          BY <3>2, <4>2, <5>2
        <5>4. out[g].to <= out[x].from
          BY <1>9, <5>3
        <5>5. PICK a, b, c \in Nat : a = ss[s][2] /\ b = out[g].to /\ c = out[x].from
          <6>1. ss[s][2] \in Nat
            BY ONLY <1>6, <5>1
          <6>2. out[g].to \in Nat /\ out[x].from \in Nat
            BY ONLY <1>8, <5>3, x \in 1 .. k
          <6>3. QED
            BY ONLY <6>1, <6>2
        <5>6. c >= a
          <6>1. a <= b /\ b <= c
            BY ONLY <5>2, <5>4, <5>5
          <6>2. QED
            BY ONLY <6>1, a \in Nat, b \in Nat, c \in Nat
        <5>7. r[i - 1][2] = a
          BY <5>2, <5>5
        <5>8. QED
          BY <4>2, <5>5, <5>6, <5>7
      <4>3. CASE j # 1
        <5>1. j - 1 \in 1 .. k - g /\ i - 1 = s + (j - 1) /\ i # 1
          BY <3>1, <4>3
        <5>2. r[i - 1] = <<out[g + (j - 1)].from, out[g + (j - 1)].to>>
          BY <1>3, <1>4, <1>5, <5>1
        <5>3. PICK y \in 1 .. x - 1 : y = g + (j - 1)
          BY <3>2, <5>1, SMTT(30)
        <5>4. out[y].to <= out[x].from
          BY <1>9
        <5>5. QED
          BY <1>8, <5>1, <5>2, <5>3, <5>4
      <4>4. QED
        BY <4>1, <4>2, <4>3
    <3>5. QED
      BY <1>9, <3>3, <3>4
  <2>3. QED
    BY <2>1, <2>2
<1>13. Listed(r, m)
  BY <1>4, <1>12 DEF Listed, P
<1>14. Listed(ss, m)
  <2>1. \A i \in 1 .. s : ss[i][2] <= m
    BY <1>6, <1>7
  <2>2. QED
    BY <1>1, <1>5, <1>7, <2>1 DEF Listed, P
<1>15. Before(ss, out, k)
  <2>1. CASE s = 0
    BY <1>10, <2>1 DEF Before
  <2>2. CASE s # 0
    <3>1. g > 0 /\ ss[s][2] <= out[g].to /\ ss[s][2] \in Nat
      BY <1>5, <1>6, <1>10, <2>2 DEF Before
    <3>2. out[g].to <= out[k].to
      <4>1. CASE g = k
        BY <1>8, <3>1, <4>1
      <4>2. CASE g # k
        <5>1. k \in 1 .. k /\ g \in 1 .. k - 1
          BY <3>1, <4>2
        <5>2. out[g].to <= out[k].from /\ out[k].from < out[k].to
          BY <1>9, <5>1
        <5>3. QED
          BY <1>8, <5>1, <5>2
      <4>3. QED
        BY <4>1, <4>2
    <3>3. g \in 1 .. k /\ k \in 1 .. k
      BY <3>1
    <3>4. ss[s][2] <= out[k].to /\ k > 0
      BY ONLY <1>8, <3>1, <3>2, <3>3
    <3>5. QED
      BY <1>5, <3>4 DEF Before
  <2>3. QED
    BY <2>1, <2>2
<1>16. Before(r, out, k)
  <2>1. CASE k = g
    <3>1. Len(r) = s /\ (s > 0 => r[s] = ss[s])
      BY <1>4, <1>5, <2>1
    <3>2. CASE s = 0
      BY <1>11, <3>1, <3>2 DEF Before
    <3>3. CASE s # 0
      <4>1. k > 0 /\ ss[s][2] <= out[k].to
        BY <1>5, <1>10, <1>15, <3>3 DEF Before
      <4>2. QED
        BY <3>1, <3>3, <4>1 DEF Before
    <3>4. QED
      BY <3>2, <3>3
  <2>2. CASE k # g
    <3>1. k - g \in 1 .. k - g /\ k \in 1 .. k
      BY <2>2
    <3>2. r[Len(r)] = <<out[g + (k - g)].from, out[g + (k - g)].to>> /\ g + (k - g) = k
      <4>1. PICK j \in 1 .. k - g : j = k - g
        BY <3>1
      <4>2. r[s + j] = iv[j] /\ iv[j] = <<out[g + j].from, out[g + j].to>>
        BY <1>3, <1>4, <1>5
      <4>3. Len(r) = s + j
        BY <1>4, <1>5, <4>1
      <4>4. QED
        BY <4>1, <4>2, <4>3
    <3>3. r[Len(r)][2] <= out[k].to /\ k > 0
      BY <1>8, <3>1, <3>2
    <3>4. QED
      BY <3>3 DEF Before
  <2>3. QED
    BY <2>1, <2>2
<1>17. QED
  BY <1>13, <1>14, <1>15, <1>16 DEF r, iv

\* The segments returned for the first n frames, and the detector after them.
Segmented(v, ss, n) ==
  /\ n \in Nat /\ Detecting(v, n) /\ v.cnt = n
  /\ Listed(ss, n) /\ Before(ss, v.out, v.given)

\* A call of detect_chunk keeps the order, and so does losing what it returns.
LEMMA CallIs ==
  ASSUME NEW v, NEW ss, NEW n, Segmented(v, ss, n), NEW scores \in Seq(BOOLEAN),
         NEW samples \in Nat, Len(scores) * Shift <= samples, Shift <= samples,
         NEW final \in BOOLEAN
  PROVE  LET w == Chunk(v, scores, samples, final)
             more == ss \o Intervals(NewSegments(w))
             m == n + Len(scores)
         IN  /\ Listed(more, m)
             /\ Segmented(Returned(w, FALSE), more, m)
             /\ Segmented(Returned(w, FALSE), ss, m)
<1>1. n \in Nat /\ Detecting(v, n) /\ v.cnt = n /\ Listed(ss, n) /\ Before(ss, v.out, v.given)
  BY DEF Segmented
<1>2. PICK m \in Nat : m = n + Len(scores)
  BY <1>1
<1>3. PICK w : w = Chunk(v, scores, samples, final)
  OBVIOUS
<1>4. /\ Detecting(w, m) /\ w.cnt = m /\ w.given = v.given
      /\ \A i \in 1 .. v.given : w.out[i] = v.out[i]
  <2>1. Detecting(v, v.cnt)
    BY <1>1
  <2>2. /\ Detecting(w, w.cnt) /\ w.cnt = v.cnt + Len(scores)
        /\ w.given = v.given /\ \A i \in 1 .. v.given : w.out[i] = v.out[i]
    BY <1>3, <2>1, ChunkIs
  <2>3. QED
    BY <1>1, <1>2, <2>2
<1>5. PICK k : k = Done(w)
  OBVIOUS
<1>6. /\ w \in Detectors /\ k \in Nat /\ w.given <= k /\ k <= Len(w.out) /\ Laid(w.out, k)
      /\ \A i \in k + 1 .. Len(w.out) : ~Completed(w.out[i])
      /\ \A i \in 1 .. k : w.out[i].to <= m
  BY <1>4, <1>5, DoneIs
<1>7. PICK new : new = NewSegments(w)
  OBVIOUS
<1>8. /\ new \in Seq(Pieces) /\ Len(new) = k - w.given
      /\ \A i \in 1 .. k - w.given : new[i] = w.out[w.given + i]
  BY <1>6, <1>7, NewSegmentsIs
<1>9. w.given \in Nat /\ w.out \in Seq(Pieces) /\ Len(w.out) \in Nat
  BY <1>6, DetectorsHave
<1>10. Before(ss, w.out, w.given)
  <2>1. CASE ss = <<>>
    BY <2>1 DEF Before
  <2>2. CASE ss # <<>>
    <3>1. v.given > 0 /\ ss[Len(ss)][2] <= v.out[v.given].to
      BY <1>1, <2>2 DEF Before
    <3>2. v.given \in 1 .. v.given
      BY <1>4, <1>9, <3>1
    <3>3. w.out[w.given] = v.out[v.given]
      BY <1>4, <3>2
    <3>4. QED
      BY <1>4, <3>1, <3>3 DEF Before
  <2>3. QED
    BY <2>1, <2>2
<1>11. PICK more : more = ss \o Intervals(new)
  OBVIOUS
<1>12. /\ Listed(more, m) /\ Before(more, w.out, k)
       /\ Listed(ss, m) /\ Before(ss, w.out, k)
  <2>1. PICK out \in Seq(Pieces), g \in Nat : out = w.out /\ g = w.given
    BY <1>9
  <2>2. /\ g <= k /\ k <= Len(out) /\ Laid(out, k) /\ \A i \in 1 .. k : out[i].to <= m
        /\ Before(ss, out, g) /\ Len(new) = k - g /\ \A i \in 1 .. k - g : new[i] = out[g + i]
    BY <1>6, <1>8, <1>10, <2>1
  <2>3. n <= m
    BY <1>1, <1>2
  <2>4. /\ Listed(more, m) /\ Before(more, out, k) /\ Listed(ss, m) /\ Before(ss, out, k)
    <3>1. n \in Nat /\ Listed(ss, n)
      BY <1>1
    <3>2. k \in Nat /\ new \in Seq(Pieces) /\ Len(new) = k - g
      BY <1>6, <1>8, <2>2
    <3>3. \A i \in 1 .. k - g : new[i] = out[g + i]
      BY <2>2
    <3>4. \A i \in 1 .. k : out[i].to <= m
      BY <2>2
    <3>5. g <= k /\ k <= Len(out) /\ Laid(out, k) /\ Before(ss, out, g)
      BY <2>2
    <3>6. /\ Listed(ss \o Intervals(new), m) /\ Before(ss \o Intervals(new), out, k)
          /\ Listed(ss, m) /\ Before(ss, out, k)
      BY ONLY <2>3, <3>1, <3>2, <3>3, <3>4, <3>5, m \in Nat, out \in Seq(Pieces), g \in Nat, ListedOn
    <3>7. QED
      BY <1>11, <3>6
  <2>5. QED
    BY <2>1, <2>4
<1>13. PICK u : u = Returned(w, FALSE)
  OBVIOUS
<1>14. u = [w EXCEPT !.given = k]
  <2>1. w.given + Len(new) = k
    BY <1>6, <1>8, <1>9
  <2>2. QED
    BY <1>7, <1>13, <2>1 DEF Returned
<1>15. u \in Detectors
  BY ONLY <1>6, <1>14 DEF Detectors
<1>16. /\ u.all = w.all /\ u.size = w.size /\ u.cnt = w.cnt /\ u.win = w.win /\ u.talk = w.talk
       /\ u.start = w.start /\ u.voice = w.voice /\ u.run = w.run /\ u.state = w.state
       /\ u.begin = w.begin /\ u.out = w.out /\ u.given = k
  BY ONLY <1>6, <1>14 DEF Detectors
<1>17. Detecting(u, m)
  <2>1. InStock(w) => InStock(u)
    BY <1>16 DEF InStock
  <2>2. Waits(w, m) => Waits(u, m)
    BY <1>6, <1>16 DEF Waits, AllComplete
  <2>3. ASSUME Speaks(w, m) PROVE Speaks(u, m)
    <3>1. Open(u)
      BY <1>16, <2>3 DEF Speaks, Open
    <3>2. u.given < Len(u.out)
      BY <1>5, <1>9, <1>16, <2>3 DEF Speaks, Done
    <3>3. QED
      BY <1>16, <2>3, <3>1, <3>2 DEF Speaks
  <2>4. QED
    BY <1>4, <1>15, <1>16, <2>1, <2>2, <2>3 DEF Detecting
<1>18. Segmented(u, more, m) /\ Segmented(u, ss, m)
  BY <1>4, <1>12, <1>16, <1>17 DEF Segmented
<1>19. QED
  BY <1>2, <1>3, <1>7, <1>11, <1>12, <1>13, <1>18

\* The frames of samples, which there is room for.
LEMMA FrameStatesAre ==
  ASSUME NEW samples \in Seq(BOOLEAN), Len(samples) = ChunkSize
  PROVE  /\ FrameStates(samples) \in Seq(BOOLEAN)
         /\ Len(FrameStates(samples)) * Shift <= ChunkSize
         /\ Shift <= ChunkSize
<1> USE VadAssumption
<1>1. PICK l, s, z \in Nat : l = Length /\ s = Shift /\ z = ChunkSize
  OBVIOUS
<1>2. s <= l /\ l <= z /\ s > 0
  BY <1>1
<1>3. PICK q : q = (z - l) \div s
  OBVIOUS
<1>4. q \in Nat /\ q * s <= z - l
  <2>1. z - l \in Nat
    BY <1>2
  <2>2. QED
    BY ONLY <1>2, <1>3, <2>1, s \in Nat
<1>5. FramesIn(Len(samples)) = q + 1
  BY <1>1, <1>2, <1>3 DEF FramesIn
<1>6. PICK f : f = FrameStates(samples)
  OBVIOUS
<1>7. f = [i \in 1 .. q + 1 |-> samples[(i - 1) * Shift + 1]]
  BY <1>5, <1>6 DEF FrameStates
<1>8. ASSUME NEW i \in 1 .. q + 1 PROVE samples[(i - 1) * Shift + 1] \in BOOLEAN
  <2>1. (i - 1) * s >= 0 /\ (i - 1) * s <= q * s /\ (i - 1) * s \in Int
    <3>1. i - 1 \in Nat /\ q - (i - 1) \in Nat
      BY <1>4
    <3>2. PICK a, b \in Nat : a = i - 1 /\ b = q - (i - 1)
      BY <3>1
    <3>3. a * s >= 0 /\ b * s >= 0 /\ a * s \in Int /\ b * s \in Int
      BY ONLY a \in Nat, b \in Nat, s \in Nat
    <3>4. q = a + b
      BY <1>4, <3>2
    <3>5. (a + b) * s = a * s + b * s
      BY ONLY a \in Nat, b \in Nat, s \in Nat
    <3>6. PICK x, y \in Int : x = a * s /\ y = b * s
      BY <3>3
    <3>7. QED
      BY <3>2, <3>3, <3>4, <3>5, <3>6
  <2>2. PICK j \in Int : j = (i - 1) * s
    BY <2>1
  <2>3. PICK p \in Int : p = q * s
    BY <1>4
  <2>4. j + 1 \in 1 .. z
    <3>1. 0 <= j /\ j <= p /\ p <= z - l
      BY <1>4, <2>1, <2>2, <2>3
    <3>2. l > 0
      BY <1>2
    <3>3. QED
      BY ONLY <1>2, <3>1, <3>2, j \in Int, p \in Int, z \in Nat, l \in Nat
  <2>5. samples[j + 1] \in BOOLEAN
    BY <1>1, <2>4
  <2>6. QED
    BY <1>1, <2>2, <2>5
<1>9. f \in Seq(BOOLEAN) /\ Len(f) = q + 1
  <2>1. PICK r \in Nat : r = q + 1
    BY <1>4
  <2>2. f = [i \in 1 .. r |-> f[i]] /\ \A i \in 1 .. r : f[i] \in BOOLEAN
    BY <1>7, <1>8, <2>1
  <2>3. f \in [1 .. r -> BOOLEAN]
    BY ONLY <2>2
  <2>4. f \in Seq(BOOLEAN) /\ Len(f) = r
    BY ONLY <2>3, r \in Nat
  <2>5. QED
    BY <2>1, <2>4
<1>10. (q + 1) * s <= z
  <2>1. (q + 1) * s = q * s + s
    BY ONLY <1>4, s \in Nat
  <2>2. PICK p \in Int : p = q * s
    BY <1>4
  <2>3. QED
    BY ONLY <1>2, <1>4, <2>1, <2>2, z \in Nat, l \in Nat, s \in Nat
<1>11. QED
  BY <1>1, <1>2, <1>6, <1>9, <1>10

LEMMA ChunkOfIs ==
  ASSUME NEW samples \in Seq(BOOLEAN), NEW n \in Nat, n * ChunkSize <= Len(samples),
         NEW k \in 1 .. n
  PROVE  ChunkOf(samples, k) \in Seq(BOOLEAN) /\ Len(ChunkOf(samples, k)) = ChunkSize
<1> USE VadAssumption
<1>1. PICK z \in Nat : z = ChunkSize
  OBVIOUS
<1>2. PICK a, b \in Nat : a = k - 1 /\ b = n - k
  OBVIOUS
<1>3. /\ n * z = a * z + z + b * z /\ k * z = a * z + z
      /\ a * z \in Nat /\ b * z \in Nat
  <2>1. n = a + 1 + b /\ k = a + 1
    BY <1>2
  <2>2. (a + 1 + b) * z = a * z + z + b * z /\ (a + 1) * z = a * z + z
    BY ONLY a \in Nat, b \in Nat, z \in Nat
  <2>3. a * z \in Nat /\ b * z \in Nat
    BY ONLY a \in Nat, b \in Nat, z \in Nat
  <2>4. QED
    BY <2>1, <2>2, <2>3
<1>4. PICK x, y \in Nat : x = a * z /\ y = b * z
  BY <1>3
<1>5. PICK l \in Nat : l = Len(samples)
  OBVIOUS
<1>6. x + z + y <= l
  BY <1>1, <1>3, <1>4, <1>5
<1>7. ChunkOf(samples, k) = SubSeq(samples, x + 1, x + z)
  BY <1>1, <1>2, <1>3, <1>4 DEF ChunkOf
<1>8. x + 1 \in Nat \ {0} /\ x + z <= l
  BY <1>6
<1>9. SubSeq(samples, x + 1, x + z) \in Seq(BOOLEAN) /\ Len(SubSeq(samples, x + 1, x + z)) = z
  <2>1. PICK c : c = SubSeq(samples, x + 1, x + z)
    OBVIOUS
  <2>2. x + 1 \in 1 .. l + 1 /\ x + z \in (x + 1) - 1 .. l
    BY <1>6, <1>8
  <2>3. c \in Seq(BOOLEAN) /\ Len(c) = (x + z) - (x + 1) + 1
    BY ONLY <1>5, <2>1, <2>2, samples \in Seq(BOOLEAN), x \in Nat, z \in Nat
  <2>4. QED
    BY <2>1, <2>3
<1>10. QED
  BY <1>1, <1>7, <1>9

Results == [d : Detectors, fed : Seq(BOOLEAN), segs : Seq(Nat \X Nat)]

\* The chunks of a push.
LEMMA ScoredIs ==
  ASSUME Segmented(d, segs, Len(fed)), fed \in Seq(BOOLEAN),
         NEW samples \in Seq(BOOLEAN), NEW n \in Nat, n * ChunkSize <= Len(samples)
  PROVE  LET r == Scored(samples, n) IN
         /\ r.fed \in Seq(BOOLEAN)
         /\ Segmented(r.d, r.segs, Len(r.fed))
         /\ Segmented(r.d, segs, Len(r.fed))
<1> DEFINE begin == [d |-> d, fed |-> fed, segs |-> segs]
           Body(x, k) == ScoredNext(x, FrameStates(ChunkOf(samples, k)))
           F(f) == f = [k \in 0 .. n |-> IF k = 0 THEN begin ELSE Body(f[k-1], k)]
           after == CHOOSE f : F(f)
           Part(k) == {a \in Results : /\ Segmented(a.d, a.segs, Len(a.fed))
                                       /\ Segmented(a.d, segs, Len(a.fed))}
           W == [k \in 0 .. n |-> Part(k)]
           next == [p \in (1 .. n) \X Results |-> Body(p[2], p[1])]
<1>0. n \in Nat
  OBVIOUS
<1>4. Scored(samples, n) = after[n]
  BY Zenon DEF Scored
<1> HIDE DEF Body
<1>1. \A k \in 1 .. n : k \in 0 .. n /\ k - 1 \in 0 .. n
  BY <1>0
<1>2. \A k \in 0 .. n : W[k] = Part(k)
  OBVIOUS
<1>3. \A k \in 1 .. n, x \in Results : next[<<k, x>>] = Body(x, k)
  OBVIOUS
<1> HIDE DEF F, after, W, next
<1>14. ASSUME NEW v, NEW ss, NEW m, Segmented(v, ss, m) PROVE v \in Detectors /\ ss \in Seq(Nat \X Nat)
  BY <1>14 DEF Segmented, Listed, Detecting
<1>5. begin \in W[0]
  <2>1. begin \in Results
    BY <1>14 DEF Results
  <2>2. begin.d = d /\ begin.segs = segs /\ begin.fed = fed
    OBVIOUS
  <2>3. 0 \in 0 .. n
    BY <1>0
  <2> HIDE DEF begin
  <2>4. begin \in Part(0)
    BY <2>1, <2>2
  <2> HIDE DEF Part
  <2>5. QED
    BY <1>2, <2>3, <2>4
<1> HIDE DEF begin
<1>6. ASSUME NEW k \in 1 .. n, NEW x \in W[k-1]
      PROVE  /\ x \in Results /\ next[<<k, x>>] = Body(x, k)
             /\ next[<<k, x>>] \in W[k]
  <2>1. x \in Results /\ Segmented(x.d, x.segs, Len(x.fed)) /\ Segmented(x.d, segs, Len(x.fed))
    BY <1>1, <1>2
  <2>2. x.fed \in Seq(BOOLEAN) /\ Len(x.fed) \in Nat
    BY <2>1 DEF Results
  <2>3. PICK states : states = FrameStates(ChunkOf(samples, k))
    OBVIOUS
  <2>4. states \in Seq(BOOLEAN) /\ Len(states) * Shift <= ChunkSize /\ Shift <= ChunkSize
        /\ ChunkSize \in Nat /\ Len(states) \in Nat
    <3>1. ChunkOf(samples, k) \in Seq(BOOLEAN) /\ Len(ChunkOf(samples, k)) = ChunkSize
      BY ChunkOfIs
    <3>2. states \in Seq(BOOLEAN) /\ Len(states) * Shift <= ChunkSize /\ Shift <= ChunkSize
      BY <2>3, <3>1, FrameStatesAre
    <3>3. QED
      BY <3>2, VadAssumption
  <2>5. PICK w : w = Chunk(x.d, states, ChunkSize, FALSE)
    OBVIOUS
  <2>6. PICK more : more = x.segs \o Intervals(NewSegments(w))
    OBVIOUS
  <2>7. PICK u : u = Returned(w, FALSE)
    OBVIOUS
  <2>8. PICK heard : heard = x.fed \o states
    OBVIOUS
  <2>9. heard \in Seq(BOOLEAN) /\ Len(heard) = Len(x.fed) + Len(states)
    BY ONLY <2>2, <2>4, <2>8, Joined
  <2>10. FALSE \in BOOLEAN
    OBVIOUS
  <2>11. Segmented(u, more, Len(heard))
    BY ONLY <2>1, <2>4, <2>5, <2>6, <2>7, <2>9, <2>10, CallIs
  <2>12. Segmented(u, segs, Len(heard))
    BY ONLY <2>1, <2>4, <2>5, <2>7, <2>9, <2>10, CallIs
  <2>13. PICK y : y = [d |-> u, fed |-> heard, segs |-> more]
    OBVIOUS
  <2>14. Body(x, k) = y
    BY Zenon, <2>3, <2>5, <2>6, <2>7, <2>8, <2>13 DEF Body, ScoredNext
  <2>15. y \in Results
    BY <1>14, <2>9, <2>11, <2>13 DEF Results
  <2>16. y.d = u /\ y.segs = more /\ y.fed = heard
    BY <2>13
  <2>17. y \in Part(k)
    BY <2>11, <2>12, <2>15, <2>16
  <2> HIDE DEF Part
  <2>18. QED
    BY <1>1, <1>2, <1>3, <2>1, <2>14, <2>17
<1>7. Steps(n, W, begin, next)
  BY <1>0, <1>5, <1>6 DEF Steps
<1>8. \E f : F(f)
  <2>1. PICK f : RunThrough(f, n, W, begin, next)
    BY <1>7, Recursion
  <2>2. ASSUME NEW k \in 0 .. n PROVE f[k] = IF k = 0 THEN begin ELSE Body(f[k-1], k)
    <3>1. CASE k = 0
      BY <2>1, <3>1 DEF RunThrough
    <3>2. CASE k # 0
      <4>1. k \in 1 .. n
        BY <3>2
      <4>2. f[k-1] \in W[k-1] /\ f[k] = next[<<k, f[k-1]>>]
        BY <2>1, <4>1 DEF RunThrough
      <4>3. QED
        BY <1>6, <3>2, <4>1, <4>2
    <3>3. QED
      BY <3>1, <3>2
  <2>3. f = [k \in 0 .. n |-> f[k]]
    BY <2>1 DEF RunThrough
  <2>4. F(f)
    BY <2>2, <2>3 DEF F
  <2>5. QED
    BY <2>4
<1>9. F(after)
  BY <1>8 DEF after
<1>10. Follows(after, n, W, begin, next)
  <2>1. \A k \in 0 .. n : after[k] = IF k = 0 THEN begin ELSE Body(after[k-1], k)
    BY <1>9 DEF F
  <2>2. after[0] = begin
    BY <1>0, <2>1
  <2>3. ASSUME NEW k \in 1 .. n, after[k-1] \in W[k-1] PROVE after[k] = next[<<k, after[k-1]>>]
    <3>1. after[k] = Body(after[k-1], k)
      BY <1>1, <2>1
    <3>2. QED
      BY <1>6, <2>3, <3>1
  <2>4. QED
    BY <2>2, <2>3 DEF Follows
<1>11. n \in 0 .. n /\ \A k \in 0 .. n : after[k] \in W[k]
  BY <1>0, <1>7, <1>10, Recursion
<1>12. after[n] \in Part(n)
  BY <1>2, <1>11
<1>15. PICK r : r = after[n]
  OBVIOUS
<1>16. r \in Results /\ Segmented(r.d, r.segs, Len(r.fed)) /\ Segmented(r.d, segs, Len(r.fed))
  BY <1>12, <1>15
<1>17. r.fed \in Seq(BOOLEAN)
  BY <1>16 DEF Results
<1>13. QED
  BY <1>4, <1>15, <1>16, <1>17

\* A detector that is new, or has been reset.
LEMMA FreshIs == Segmented(Fresh, <<>>, 0)
<1> USE VadAssumption
<1>1. PICK win : win = [i \in 1 .. Window |-> FALSE]
  OBVIOUS
<1>2. win \in Windows /\ \A i \in 1 .. Window : ~win[i]
  <2>1. win \in Seq(BOOLEAN) /\ Len(win) = Window
    BY <1>1
  <2>2. QED
    BY <1>1, <2>1 DEF Windows
<1>3. PICK none \in Int : none = -1
  OBVIOUS
<1>4. PICK zero \in Nat : zero = 0
  OBVIOUS
<1>5. PICK empty \in Seq(Pieces) : empty = <<>>
  <2>1. <<>> \in Seq(Pieces)
    OBVIOUS
  <2>2. QED
    BY <2>1
<1>6. PICK u : u = Fresh
  OBVIOUS
<1>7. u = [ win |-> win, talk |-> FALSE, start |-> zero, cnt |-> zero, voice |-> zero,
            quiet |-> none, run |-> zero, state |-> "waiting", begin |-> none,
            ends |-> zero, out |-> empty, given |-> zero, prev |-> zero,
            size |-> zero, all |-> zero ]
  BY <1>1, <1>3, <1>4, <1>5, <1>6 DEF Fresh
<1>8. zero \in Int
  OBVIOUS
<1>9. u \in Detectors
  BY ONLY <1>2, <1>7, <1>8, zero \in Nat, none \in Int, empty \in Seq(Pieces) DEF Detectors
<1>10. /\ u.win = win /\ ~u.talk /\ u.start = zero /\ u.cnt = zero /\ u.all = zero
       /\ u.state = "waiting" /\ u.out = empty /\ u.given = zero
  BY ONLY <1>7
<1>11. Len(u.out) = 0 /\ u.out = <<>>
  BY <1>5, <1>10
<1>12. AllComplete(u)
  BY <1>11 DEF AllComplete, Laid
<1>13. InStock(u)
  BY <1>4, <1>10 DEF InStock
<1>14. Waits(u, 0)
  BY <1>2, <1>4, <1>10, <1>11, <1>12 DEF Waits
<1>15. Detecting(u, 0)
  BY <1>4, <1>9, <1>10, <1>13, <1>14 DEF Detecting
<1>16. Listed(<<>>, 0)
  BY DEF Listed
<1>17. Before(<<>>, u.out, u.given)
  BY DEF Before
<1>18. QED
  BY <1>4, <1>6, <1>10, <1>15, <1>16, <1>17 DEF Segmented

\* Segments that are in order for n frames are so for more.
LEMMA ListedLater ==
  ASSUME NEW ss, NEW n \in Nat, NEW m \in Nat, n <= m, Listed(ss, n)
  PROVE  Listed(ss, m)
<1>1. ss \in Seq(Nat \X Nat)
  BY DEF Listed
<1>2. ASSUME NEW i \in 1 .. Len(ss) PROVE ss[i][2] <= m
  <2>1. ss[i] \in Nat \X Nat
    BY <1>1
  <2>2. ss[i][2] \in Nat
    BY <2>1
  <2>3. ss[i][2] <= n
    BY DEF Listed
  <2>4. QED
    BY <2>2, <2>3
<1>3. QED
  BY <1>2 DEF Listed

\* A call of detect_chunk by one of the two callers.
LEMMA DetectIs ==
  ASSUME Segmented(d, segs, Len(fed)), fed \in Seq(BOOLEAN),
         NEW scores \in Seq(BOOLEAN), NEW samples \in Nat,
         Len(scores) * Shift <= samples, Shift <= samples,
         NEW final \in BOOLEAN, Detect(scores, samples, final)
  PROVE  /\ fed' \in Seq(BOOLEAN) /\ Listed(segs', Len(fed'))
         /\ final => d' = Fresh
         /\ ~final => Segmented(d', segs', Len(fed'))
<1>1. PICK w : w = Chunk(d, scores, samples, final)
  OBVIOUS
<1>2. /\ segs' = segs \o Intervals(NewSegments(w)) /\ d' = Returned(w, final)
      /\ fed' = fed \o scores
  BY <1>1 DEF Detect
<1>3. PICK n \in Nat : n = Len(fed)
  OBVIOUS
<1>4. fed' \in Seq(BOOLEAN) /\ Len(fed') = n + Len(scores)
  BY <1>2, <1>3, Joined
<1>5. Segmented(d, segs, n)
  BY <1>3
<1>6. /\ Listed(segs \o Intervals(NewSegments(w)), n + Len(scores))
      /\ Segmented(Returned(w, FALSE), segs \o Intervals(NewSegments(w)), n + Len(scores))
  BY ONLY <1>1, <1>5, CallIs, scores \in Seq(BOOLEAN), samples \in Nat,
          Len(scores) * Shift <= samples, Shift <= samples, final \in BOOLEAN
<1>7. final => d' = Fresh
  BY <1>2 DEF Returned
<1>8. ~final => d' = Returned(w, FALSE)
  BY <1>2 DEF Returned
<1>9. QED
  BY <1>2, <1>4, <1>6, <1>7, <1>8

\* What finalize_streaming leaves to be returned.
LEMMA FinalizedIs ==
  ASSUME NEW v, NEW ss, NEW n, Segmented(v, ss, n)
  PROVE  Listed(ss \o Intervals(NewSegments(Finalized(v))), n)
<1>1. /\ n \in Nat /\ Detecting(v, n) /\ v.cnt = n /\ Listed(ss, n)
      /\ Before(ss, v.out, v.given) /\ v \in Detectors /\ InStock(v)
  BY DEF Segmented, Detecting
<1>2. /\ v.start \in Nat /\ v.voice \in Nat /\ v.begin \in Int /\ v.run \in Nat
      /\ v.given \in Nat /\ v.out \in Seq(Pieces) /\ Len(v.out) \in Nat
      /\ Lookahead \in Nat /\ MaxSegment \in Nat
  BY <1>1, DetectorsHave, VadAssumption
<1>3. PICK w : w = Finalized(v)
  OBVIOUS
<1>4. \E k \in Nat :
        /\ w \in Detectors /\ w.given <= k /\ k <= Len(w.out) /\ Laid(w.out, k)
        /\ \A i \in k + 1 .. Len(w.out) : ~Completed(w.out[i])
        /\ \A i \in 1 .. k : w.out[i].to <= n
        /\ w.given \in Nat /\ w.out \in Seq(Pieces) /\ Before(ss, w.out, w.given)
  <2>1. CASE v.state = "speech"
    <3>1. Speaks(v, n)
      BY <1>1, <2>1 DEF Detecting, Waits
    <3>2. /\ Open(v) /\ v.start = v.voice + 1 /\ v.begin < v.voice
          /\ n - v.begin <= MaxSegment /\ v.given < Len(v.out)
      BY <3>1 DEF Speaks
    <3>3. v.voice <= n - 1
      <4>1. CASE v.run <= Lookahead
        BY <3>1, <4>1, <1>1, <1>2 DEF Speaks
      <4>2. CASE v.run > Lookahead
        <5>1. v.voice = n - 1 - (v.run - Lookahead)
          BY <3>1, <4>2 DEF Speaks
        <5>2. QED
          BY <1>1, <1>2, <4>2, <5>1
      <4>3. QED
        BY <1>2, <4>1, <4>2
    <3>4. PICK f \in Nat : f = n - 1
      <4>1. n - 1 \in Nat
        BY <1>1, <1>2, <3>3
      <4>2. QED
        BY <4>1
    <3>5. v.voice <= f /\ f - v.begin <= MaxSegment /\ f + 1 = n /\ n > 0
      BY <1>1, <1>2, <3>2, <3>3, <3>4
    <3>6. w = VoiceEnd(v, f)
      BY <1>1, <1>3, <2>1, <3>4, <3>5 DEF Finalized
    <3>7. Closed(VoiceEnd(v, f), v, f + 1)
      BY ONLY <1>1, <3>2, <3>5, f \in Nat, VoiceEndIs
    <3>8. Closed(w, v, n)
      BY <3>5, <3>6, <3>7
    <3>9. /\ w \in Detectors /\ Laid(w.out, Len(w.out))
          /\ \A j \in 1 .. Len(w.out) : w.out[j].to <= n
          /\ w.given = v.given /\ Len(w.out) = Len(v.out)
          /\ \A i \in 1 .. Len(v.out) - 1 : w.out[i] = v.out[i]
      BY <3>8 DEF Closed, Grown, Kept
    <3>10. w.out \in Seq(Pieces) /\ w.given \in Nat /\ Len(w.out) \in Nat
      BY <3>9, DetectorsHave
    <3>11. Before(ss, w.out, w.given)
      <4>1. CASE ss = <<>>
        BY <4>1 DEF Before
      <4>2. CASE ss # <<>>
        <5>1. v.given > 0 /\ ss[Len(ss)][2] <= v.out[v.given].to
          BY <1>1, <4>2 DEF Before
        <5>2. v.given \in 1 .. Len(v.out) - 1
          BY <1>2, <3>2, <5>1
        <5>3. w.out[v.given] = v.out[v.given]
          BY <3>9, <5>2
        <5>4. QED
          BY <3>9, <5>1, <5>3 DEF Before
      <4>3. QED
        BY <4>1, <4>2
    <3>12. PICK k \in Nat : k = Len(w.out)
      BY <3>10
    <3>13. w.given <= k /\ k <= Len(w.out)
      BY <1>2, <3>2, <3>9, <3>12
    <3>14. \A i \in k + 1 .. Len(w.out) : ~Completed(w.out[i])
      BY <3>12
    <3>15. /\ Laid(w.out, k) /\ \A i \in 1 .. k : w.out[i].to <= n
      BY <3>9, <3>12
    <3>16. QED
      BY <3>9, <3>10, <3>11, <3>13, <3>14, <3>15
  <2>2. CASE v.state # "speech"
    <3>1. w = v
      BY <1>3, <2>2 DEF Finalized
    <3>2. PICK k : k = Done(v)
      OBVIOUS
    <3>3. /\ k \in Nat /\ v.given <= k /\ k <= Len(v.out) /\ Laid(v.out, k)
          /\ \A i \in k + 1 .. Len(v.out) : ~Completed(v.out[i])
          /\ \A i \in 1 .. k : v.out[i].to <= n
      BY <1>1, <3>2, DoneIs
    <3>4. QED
      BY <1>1, <1>2, <3>1, <3>3
  <2>3. QED
    BY <2>1, <2>2
<1>5. PICK k \in Nat :
        /\ w \in Detectors /\ w.given <= k /\ k <= Len(w.out) /\ Laid(w.out, k)
        /\ \A i \in k + 1 .. Len(w.out) : ~Completed(w.out[i])
        /\ \A i \in 1 .. k : w.out[i].to <= n
        /\ w.given \in Nat /\ w.out \in Seq(Pieces) /\ Before(ss, w.out, w.given)
  BY <1>4
<1>6. PICK new : new = NewSegments(w)
  OBVIOUS
<1>7. /\ new \in Seq(Pieces) /\ Len(new) = k - w.given
      /\ \A i \in 1 .. k - w.given : new[i] = w.out[w.given + i]
  BY <1>5, <1>6, NewSegmentsIs
<1>8. PICK out \in Seq(Pieces), g \in Nat : out = w.out /\ g = w.given
  BY <1>5
<1>9. /\ g <= k /\ k <= Len(out) /\ Laid(out, k) /\ Before(ss, out, g)
      /\ new \in Seq(Pieces) /\ Len(new) = k - g
  BY <1>5, <1>7, <1>8
<1>10. \A i \in 1 .. k : out[i].to <= n
  BY <1>5, <1>8
<1>11. \A i \in 1 .. k - g : new[i] = out[g + i]
  BY <1>7, <1>8
<1>12. n \in Nat /\ n <= n /\ Listed(ss, n)
  BY <1>1
<1>13. Listed(ss \o Intervals(new), n)
  BY ONLY <1>9, <1>10, <1>11, <1>12, out \in Seq(Pieces), g \in Nat, k \in Nat, ListedOn
<1>14. QED
  BY <1>3, <1>6, <1>13

\* Between the calls of a detection its detector is where the frames given to it
\* have brought it, and otherwise it is as new; what is pending is no chunk.
VadInv ==
  /\ mode \in {"idle", "offline", "stream", "ended", "finalized"}
  /\ fed \in Seq(BOOLEAN) /\ pending \in Seq(BOOLEAN) /\ Len(pending) < ChunkSize
  /\ left \in Nat /\ (mode = "offline" => left > 0)
  /\ Listed(segs, Len(fed))
  /\ mode \in {"idle", "ended", "finalized"} => d = Fresh
  /\ mode = "idle" => fed = <<>> /\ segs = <<>>
  /\ mode \in {"offline", "stream"} => Segmented(d, segs, Len(fed))

LEMMA VadInitIs == VadInit => VadInv
<1> SUFFICES ASSUME VadInit PROVE VadInv
  OBVIOUS
<1>1. /\ d = Fresh /\ mode = "idle" /\ left = 0 /\ pending = <<>> /\ fed = <<>> /\ segs = <<>>
  BY DEF VadInit
<1>2. Listed(<<>>, 0)
  BY FreshIs DEF Segmented
<1>3. <<>> \in Seq(BOOLEAN) /\ Len(<<>>) = 0 /\ 0 < ChunkSize
  BY VadAssumption
<1>4. QED
  BY <1>1, <1>2, <1>3 DEF VadInv

\* At the beginning of a detection its detector is as new.
LEMMA BeginIs ==
  ASSUME VadInv, mode = "idle"
  PROVE  Segmented(d, segs, Len(fed))
<1>1. d = Fresh /\ segs = <<>> /\ Len(fed) = 0
  BY DEF VadInv
<1>2. QED
  BY <1>1, FreshIs

LEMMA OfflineChunkIs ==
  ASSUME VadInv, OfflineChunk
  PROVE  VadInv'
<1> USE VadAssumption
<1>1. /\ mode = "offline" /\ Segmented(d, segs, Len(fed)) /\ left \in Nat /\ left > 0
      /\ fed \in Seq(BOOLEAN) /\ pending \in Seq(BOOLEAN) /\ Len(pending) < ChunkSize
      /\ pending' = pending
  BY DEF OfflineChunk, VadInv
<1>2. PICK step : step = Smaller(FeatChunk, left)
  OBVIOUS
<1>3. step \in Nat /\ step > 0 /\ step <= left
  BY <1>1, <1>2 DEF Smaller
<1>4. PICK scores \in [1 .. step -> BOOLEAN] : Detect(scores, WaveLen(step), step = left)
  BY <1>2 DEF OfflineChunk
<1>5. left' = left - step /\ mode' = IF step = left THEN "ended" ELSE "offline"
  BY <1>2 DEF OfflineChunk
<1>6. scores \in Seq(BOOLEAN) /\ Len(scores) = step
  BY <1>3
<1>7. PICK samples : samples = WaveLen(step)
  OBVIOUS
<1>8. samples \in Nat /\ step * Shift <= samples /\ Shift <= samples
  <2>1. PICK p, s, l \in Nat : p = step - 1 /\ s = Shift /\ l = Length
    <3>1. step - 1 \in Nat
      BY <1>3
    <3>2. QED
      BY <3>1
  <2>2. s <= l
    BY <2>1
  <2>3. PICK q : q = p * s
    OBVIOUS
  <2>4. q \in Nat
    BY ONLY <2>3, p \in Nat, s \in Nat
  <2>5. (p + 1) * s = q + s
    BY ONLY <2>3, p \in Nat, s \in Nat
  <2>6. step = p + 1
    BY <1>3, <2>1
  <2>7. samples = q + l
    BY <1>7, <2>1, <2>3 DEF WaveLen
  <2>8. step * Shift = q + s
    BY <2>1, <2>5, <2>6
  <2>9. QED
    BY <2>1, <2>2, <2>4, <2>7, <2>8
<1>9. PICK final \in BOOLEAN : final = (step = left)
  OBVIOUS
<1>10. Len(scores) * Shift <= samples
  BY <1>6, <1>8
<1>11. Detect(scores, samples, final)
  BY <1>4, <1>7, <1>9
<1>12. /\ fed' \in Seq(BOOLEAN) /\ Listed(segs', Len(fed'))
       /\ final => d' = Fresh
       /\ ~final => Segmented(d', segs', Len(fed'))
  BY ONLY <1>1, <1>6, <1>8, <1>10, <1>11, final \in BOOLEAN, DetectIs
<1>13. left' \in Nat /\ (final <=> left' = 0) /\ mode' = IF final THEN "ended" ELSE "offline"
  <2>1. left' \in Nat /\ (step = left <=> left' = 0)
    BY <1>1, <1>3, <1>5
  <2>2. mode' = IF final THEN "ended" ELSE "offline"
    BY Zenon, <1>5, <1>9
  <2>3. QED
    BY Zenon, <1>9, <2>1, <2>2
<1>14. CASE final
  <2>1. mode' = "ended" /\ d' = Fresh
    BY <1>12, <1>13, <1>14
  <2>2. QED
    BY <1>1, <1>12, <1>13, <2>1 DEF VadInv
<1>15. CASE ~final
  <2>1. mode' = "offline" /\ left' > 0 /\ Segmented(d', segs', Len(fed'))
    BY <1>12, <1>13, <1>15
  <2>2. QED
    BY <1>1, <1>12, <1>13, <2>1 DEF VadInv
<1>16. QED
  BY <1>14, <1>15

\* The chunks that samples fill, and what is left of them.
LEMMA WholeChunks ==
  ASSUME NEW samples \in Seq(BOOLEAN), NEW n, n = Len(samples) \div ChunkSize
  PROVE  /\ n \in Nat /\ n * ChunkSize <= Len(samples)
         /\ LET rest == SubSeq(samples, n * ChunkSize + 1, Len(samples)) IN
            rest \in Seq(BOOLEAN) /\ Len(rest) < ChunkSize
<1> USE VadAssumption
<1>1. PICK z, l \in Nat : z = ChunkSize /\ l = Len(samples)
  OBVIOUS
<1>2. z > 0
  BY <1>1
<1>3. PICK q : q = l \div z
  OBVIOUS
<1>4. q \in Nat /\ q * z <= l /\ l < q * z + z
  BY ONLY <1>2, <1>3, z \in Nat, l \in Nat
<1>5. PICK m : m = q * z
  OBVIOUS
<1>6. m \in Nat
  BY ONLY <1>4, <1>5, z \in Nat
<1>7. PICK rest : rest = SubSeq(samples, m + 1, l)
  OBVIOUS
<1>8. rest \in Seq(BOOLEAN) /\ Len(rest) = l - m
  <2>1. m <= l
    BY <1>4, <1>5
  <2>2. \A i \in m + 1 .. l : samples[i] \in BOOLEAN
    BY <1>1, <1>6
  <2>3. QED
    BY <1>1, <1>6, <1>7, <2>1, <2>2
<1>9. Len(rest) < z
  BY <1>4, <1>5, <1>6, <1>8
<1>10. n = q /\ n * ChunkSize = m
  BY <1>1, <1>3, <1>5
<1>11. QED
  BY <1>1, <1>4, <1>5, <1>7, <1>8, <1>9, <1>10

\* What is pushed is a sequence of samples.
LEMMA SteadyIs ==
  ASSUME NEW new \in Steady
  PROVE  new \in Seq(BOOLEAN)
<1>1. PICK n \in PushSizes, b \in BOOLEAN : new = [i \in 1 .. n |-> b]
  BY DEF Steady
<1>2. n \in Nat
  BY VadAssumption
<1>3. QED
  BY <1>1, <1>2

LEMMA PushSamplesIs ==
  ASSUME VadInv, NEW new \in Steady, PushSamples(new)
  PROVE  VadInv'
<1>1. /\ mode = "stream" /\ Segmented(d, segs, Len(fed)) /\ left \in Nat
      /\ fed \in Seq(BOOLEAN) /\ pending \in Seq(BOOLEAN)
      /\ mode' = mode /\ left' = left
  BY DEF PushSamples, VadInv
<1>2. PICK samples : samples = pending \o new
  OBVIOUS
<1>3. samples \in Seq(BOOLEAN)
  BY <1>1, <1>2, SteadyIs, Joined
<1>4. PICK n : n = Len(samples) \div ChunkSize
  OBVIOUS
<1>5. PICK r : r = Scored(samples, n)
  OBVIOUS
<1>6. /\ d' = r.d /\ fed' = r.fed /\ segs' = r.segs
      /\ pending' = SubSeq(samples, n * ChunkSize + 1, Len(samples))
  BY <1>2, <1>4, <1>5 DEF PushSamples
<1>7. n \in Nat /\ n * ChunkSize <= Len(samples)
  BY <1>3, <1>4, WholeChunks
<1>8. pending' \in Seq(BOOLEAN) /\ Len(pending') < ChunkSize
  BY <1>3, <1>4, <1>6, WholeChunks
<1>9. r.fed \in Seq(BOOLEAN) /\ Segmented(r.d, r.segs, Len(r.fed))
  BY ONLY <1>1, <1>3, <1>5, <1>7, ScoredIs
<1>10. fed' \in Seq(BOOLEAN) /\ Segmented(d', segs', Len(fed'))
  BY <1>6, <1>9
<1>11. Listed(segs', Len(fed'))
  BY <1>10 DEF Segmented
<1>12. QED
  BY <1>1, <1>8, <1>10, <1>11 DEF VadInv

\* A push that fails has moved the detector, and returns nothing.
LEMMA PushSamplesFailsIs ==
  ASSUME VadInv, NEW new \in Steady, PushSamplesFails(new)
  PROVE  VadInv'
<1> USE VadAssumption
<1>1. /\ mode = "stream" /\ Segmented(d, segs, Len(fed)) /\ left \in Nat
      /\ fed \in Seq(BOOLEAN) /\ pending \in Seq(BOOLEAN)
      /\ mode' = mode /\ left' = left /\ segs' = segs /\ pending' = <<>>
  BY DEF PushSamplesFails, VadInv
<1>2. PICK samples : samples = pending \o new
  OBVIOUS
<1>3. samples \in Seq(BOOLEAN)
  BY <1>1, <1>2, SteadyIs, Joined
<1>4. PICK most : most = Len(samples) \div ChunkSize
  OBVIOUS
<1>5. PICK n \in 0 .. (most - 1) : d' = Scored(samples, n).d /\ fed' = Scored(samples, n).fed
  BY <1>2, <1>4 DEF PushSamplesFails
<1>6. PICK r : r = Scored(samples, n)
  OBVIOUS
<1>7. n \in Nat /\ n * ChunkSize <= Len(samples)
  <2>1. most \in Nat /\ most * ChunkSize <= Len(samples)
    BY <1>3, <1>4, WholeChunks
  <2>2. PICK z \in Nat, l \in Nat, k \in Nat : z = ChunkSize /\ l = Len(samples) /\ k = most - n
    <3>1. most - n \in Nat /\ Len(samples) \in Nat
      BY <1>3, <2>1
    <3>2. QED
      BY <3>1
  <2>3. n \in Nat /\ most = n + k
    BY <2>1, <2>2
  <2>4. (n + k) * z = n * z + k * z /\ n * z \in Nat /\ k * z \in Nat
    BY ONLY <2>3, k \in Nat, z \in Nat
  <2>5. PICK x, y \in Nat : x = n * z /\ y = k * z
    BY <2>4
  <2>6. x + y <= l
    BY <2>1, <2>2, <2>3, <2>4, <2>5
  <2>7. x <= l
    BY <2>6
  <2>8. QED
    BY <2>2, <2>3, <2>5, <2>7
<1>8. r.fed \in Seq(BOOLEAN) /\ Segmented(r.d, segs, Len(r.fed))
  BY ONLY <1>1, <1>3, <1>6, <1>7, ScoredIs
<1>9. fed' \in Seq(BOOLEAN) /\ Segmented(d', segs', Len(fed'))
  BY <1>1, <1>5, <1>6, <1>8
<1>10. Listed(segs', Len(fed'))
  BY <1>9 DEF Segmented
<1>11. pending' \in Seq(BOOLEAN) /\ Len(pending') < ChunkSize
  BY <1>1
<1>12. QED
  BY <1>1, <1>9, <1>10, <1>11 DEF VadInv

\* The chunk that is filled up with silence has the length of a chunk.
LEMMA FinishPaddedIs ==
  ASSUME VadInv, FinishPadded
  PROVE  VadInv'
<1> USE VadAssumption
<1>1. /\ mode = "stream" /\ Segmented(d, segs, Len(fed)) /\ left \in Nat
      /\ fed \in Seq(BOOLEAN) /\ pending \in Seq(BOOLEAN) /\ Len(pending) < ChunkSize
      /\ mode' = "ended" /\ left' = left /\ pending' = <<>>
  BY DEF FinishPadded, VadInv
<1>2. PICK rest : rest = [i \in 1 .. (ChunkSize - Len(pending)) |-> FALSE]
  OBVIOUS
<1>3. PICK k \in Nat : k = ChunkSize - Len(pending)
  <2>1. ChunkSize - Len(pending) \in Nat
    BY <1>1
  <2>2. QED
    BY <2>1
<1>4. rest \in Seq(BOOLEAN) /\ Len(rest) = k
  BY <1>2, <1>3
<1>5. PICK chunk : chunk = pending \o rest
  OBVIOUS
<1>6. chunk \in Seq(BOOLEAN) /\ Len(chunk) = Len(pending) + Len(rest)
  BY <1>1, <1>4, <1>5, Joined
<1>7. Len(chunk) = ChunkSize
  BY <1>1, <1>3, <1>4, <1>6
<1>8. PICK scores : scores = FrameStates(chunk)
  OBVIOUS
<1>9. scores \in Seq(BOOLEAN) /\ Len(scores) * Shift <= ChunkSize /\ Shift <= ChunkSize
  BY <1>6, <1>7, <1>8, FrameStatesAre
<1>10. Detect(scores, ChunkSize, TRUE)
  BY <1>2, <1>5, <1>8 DEF FinishPadded
<1>11. PICK samples \in Nat, final \in BOOLEAN : samples = ChunkSize /\ final = TRUE
  OBVIOUS
<1>12. Len(scores) * Shift <= samples /\ Shift <= samples /\ Detect(scores, samples, final)
  BY <1>9, <1>10, <1>11
<1>13. /\ fed' \in Seq(BOOLEAN) /\ Listed(segs', Len(fed')) /\ (final => d' = Fresh)
  BY ONLY <1>1, <1>9, <1>12, samples \in Nat, final \in BOOLEAN, DetectIs
<1>14. d' = Fresh /\ pending' \in Seq(BOOLEAN) /\ Len(pending') < ChunkSize
  BY <1>1, <1>11, <1>13
<1>15. QED
  BY <1>1, <1>13, <1>14 DEF VadInv

LEMMA FinishFailsIs ==
  ASSUME VadInv, FinishFails
  PROVE  VadInv'
<1>1. /\ mode = "stream" /\ Segmented(d, segs, Len(fed)) /\ left \in Nat
      /\ fed \in Seq(BOOLEAN) /\ Listed(segs, Len(fed)) /\ pending' = <<>>
      /\ d' = d /\ mode' = mode /\ left' = left /\ fed' = fed /\ segs' = segs
  BY DEF FinishFails, VadInv
<1>2. pending' \in Seq(BOOLEAN) /\ Len(pending') < ChunkSize
  BY <1>1, VadAssumption
<1>3. QED
  BY <1>1, <1>2 DEF VadInv

LEMMA FinishEvenIs ==
  ASSUME VadInv, FinishEven
  PROVE  VadInv'
<1>1. /\ Segmented(d, segs, Len(fed)) /\ left \in Nat /\ fed \in Seq(BOOLEAN)
      /\ pending \in Seq(BOOLEAN) /\ Len(pending) < ChunkSize
      /\ segs' = segs \o Intervals(NewSegments(Finalized(d))) /\ d' = Fresh
      /\ mode' = "finalized" /\ left' = left /\ pending' = pending /\ fed' = fed
  BY DEF FinishEven, VadInv
<1>2. Listed(segs', Len(fed'))
  BY <1>1, FinalizedIs
<1>3. QED
  BY <1>1, <1>2 DEF VadInv

\* The other steps begin a detection or clear what one has left.
LEMMA VadOthersKeep ==
  ASSUME VadInv
  PROVE  /\ \A n \in 1 .. MaxFrames : StartOffline(n) => VadInv'
         /\ StartStream => VadInv'
         /\ Again => VadInv'
         /\ UNCHANGED vadVars => VadInv'
<1>1. ASSUME NEW n \in 1 .. MaxFrames, StartOffline(n) PROVE VadInv'
  <2>1. mode = "idle" /\ Segmented(d, segs, Len(fed))
    BY <1>1, BeginIs DEF StartOffline
  <2>2. n \in Nat /\ n > 0
    BY VadAssumption
  <2>3. QED
    BY <1>1, <2>1, <2>2 DEF StartOffline, VadInv
<1>2. ASSUME StartStream PROVE VadInv'
  <2>1. mode = "idle" /\ Segmented(d, segs, Len(fed))
    BY <1>2, BeginIs DEF StartStream
  <2>2. QED
    BY <1>2, <2>1 DEF StartStream, VadInv
<1>3. ASSUME Again PROVE VadInv'
  <2>1. Listed(<<>>, 0)
    BY FreshIs DEF Segmented
  <2>2. <<>> \in Seq(BOOLEAN) /\ Len(<<>>) = 0
    OBVIOUS
  <2>3. QED
    BY <1>3, <2>1, <2>2 DEF Again, VadInv
<1>4. ASSUME UNCHANGED vadVars PROVE VadInv'
  BY <1>4 DEF vadVars, VadInv
<1>5. QED
  BY <1>1, <1>2, <1>3, <1>4

\* The segments the detector returns are in order, lie within the frames heard,
\* have at most one frame more than the longest segment allowed, and no audio is
\* in two of them: whatever the thresholds of VadOptions and the sizes of chunks
\* and pushes are, for all scores offline and for pushes of speech and of silence
\* in a session, though a chunk fails or the detector is used again.
THEOREM SegmentsAlwaysInOrder == VadSpec => []SegmentsInOrder
<1>1. VadInit => VadInv
  BY VadInitIs
<1>2. VadInv /\ [VadNext]_vadVars => VadInv'
  <2> SUFFICES ASSUME VadInv, [VadNext]_vadVars PROVE VadInv'
    OBVIOUS
  <2>1. ASSUME NEW n \in 1 .. MaxFrames, StartOffline(n) PROVE VadInv'
    BY <2>1, VadOthersKeep
  <2>2. ASSUME OfflineChunk PROVE VadInv'
    BY <2>2, OfflineChunkIs
  <2>3. ASSUME StartStream PROVE VadInv'
    BY <2>3, VadOthersKeep
  <2>4. ASSUME NEW new \in Steady, PushSamples(new) PROVE VadInv'
    BY <2>4, PushSamplesIs
  <2>5. ASSUME NEW new \in Steady, PushSamplesFails(new) PROVE VadInv'
    BY <2>5, PushSamplesFailsIs
  <2>6. ASSUME FinishPadded PROVE VadInv'
    BY <2>6, FinishPaddedIs
  <2>7. ASSUME FinishFails PROVE VadInv'
    BY <2>7, FinishFailsIs
  <2>8. ASSUME FinishEven PROVE VadInv'
    BY <2>8, FinishEvenIs
  <2>9. ASSUME Again PROVE VadInv'
    BY <2>9, VadOthersKeep
  <2>10. ASSUME UNCHANGED vadVars PROVE VadInv'
    BY <2>10, VadOthersKeep
  <2>11. QED
    BY <2>1, <2>2, <2>3, <2>4, <2>5, <2>6, <2>7, <2>8, <2>9, <2>10 DEF VadNext
<1>3. VadInv => SegmentsInOrder
  BY DEF VadInv, Listed, SegmentsInOrder
<1>4. QED
  BY <1>1, <1>2, <1>3, PTL DEF VadSpec
================================================================================
