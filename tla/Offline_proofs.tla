---------------------------- MODULE Offline_proofs -----------------------------
(***************************************************************************)
(* What one call of the offline recogniser answers (OfflineTranscribe),    *)
(* and what the offline pipeline with tasks answers (OfflineAsync), for    *)
(* any calls, any lengths and any capacities.                              *)
(*                                                                         *)
(* A call of the recogniser is a few large steps, each of which computes   *)
(* with loops: most of the work is in what the loops return, proved by     *)
(* induction on the turns (Recursion).  CutForCall, GroupsKept and         *)
(* AnswersRead and AlignedKept say that between the steps the chunks, the  *)
(* groups that are left, the answers so far and the items of the aligned   *)
(* chunks stay what those operators made of the call.                      *)
(*                                                                         *)
(* The tasks of the pipeline pass on messages.  All those a call can have, *)
(* one waveform after the other, have places (At); AsyncInv says that the  *)
(* batch, the stash, the channel and the VAD task hold neighbours in that  *)
(* order, and that what was answered and what is open is what the messages *)
(* before them make of it (Flows, Delivered, SegState), until a model has  *)
(* failed; then the failure is on its way to the caller (Blamed).          *)
(***************************************************************************)
EXTENDS OfflineTranscribe, OfflineAsync, FiniteSetTheorems, SequenceTheorems,
        WellFoundedInduction, TLAPS

--------------------------------------------------------------------------------
\* Recursion.

\* Induction over 0 .. n, on the set of the numbers a claim holds of.
LEMMA UpTo ==
  ASSUME NEW n \in Nat, NEW S, 0 \in S,
         \A k \in 1 .. n : k - 1 \in S => k \in S
  PROVE  \A k \in 0 .. n : k \in S
<1> DEFINE Bad   == {k \in 0 .. n : k \notin S}
           below == OpToRel(<, Nat)
<1> SUFFICES ASSUME Bad # {} PROVE FALSE
  OBVIOUS
<1>1. IsWellFoundedOn(below, Nat)
  BY NatLessThanWellFounded
<1>2. \A i, j \in Nat : i < j => <<i, j>> \in below
  BY DEF OpToRel
<1>3. Bad \in SUBSET Nat
  OBVIOUS
<1> HIDE DEF below, Bad
<1>4. PICK k \in Bad : \A i \in Bad : ~(<<i, k>> \in below)
  BY <1>1, <1>3, WFMin
<1>5. k \in 1 .. n /\ k \notin S
  BY <1>4 DEF Bad
<1>6. k - 1 \in 0 .. n /\ k - 1 < k
  BY <1>5
<1>7. k - 1 \in S
  BY <1>2, <1>3, <1>4, <1>6 DEF Bad
<1>8. QED
  BY <1>5, <1>7

\* Results of step k are in V[k], and so is what next makes of those of the step before.
Steps(n, V, start, next) ==
  /\ n \in Nat /\ start \in V[0]
  /\ \A k \in 1 .. n : \A v \in V[k-1] : next[<<k, v>>] \in V[k]

RunThrough(f, n, V, start, next) ==
  /\ f = [k \in 0 .. n |-> f[k]] /\ f[0] = start
  /\ \A k \in 1 .. n : f[k-1] \in V[k-1] /\ f[k] = next[<<k, f[k-1]>>]

Follows(f, n, V, start, next) ==
  /\ f[0] = start
  /\ \A k \in 1 .. n : f[k-1] \in V[k-1] => f[k] = next[<<k, f[k-1]>>]

\* There is a function of the results of steps, and all of its values are where
\* the steps keep them.
LEMMA Recursion ==
  ASSUME NEW n, NEW V, NEW start, NEW next, Steps(n, V, start, next)
  PROVE  /\ \E f : RunThrough(f, n, V, start, next)
         /\ \A f : Follows(f, n, V, start, next) => \A k \in 0 .. n : f[k] \in V[k]
<1> USE DEF Steps
<1>1. ASSUME NEW f, f[0] = start,
             \A k \in 1 .. n : f[k-1] \in V[k-1] => f[k] = next[<<k, f[k-1]>>]
      PROVE  \A k \in 0 .. n : f[k] \in V[k]
  <2> DEFINE S == {k \in 0 .. n : f[k] \in V[k]}
  <2>1. 0 \in S
    BY <1>1
  <2>2. ASSUME NEW k \in 1 .. n, k - 1 \in S PROVE k \in S
    <3>1. f[k-1] \in V[k-1]
      BY <2>2
    <3>2. f[k] = next[<<k, f[k-1]>>]
      BY <1>1, <3>1
    <3>3. next[<<k, f[k-1]>>] \in V[k]
      BY <3>1
    <3>4. QED
      BY <3>2, <3>3
  <2> HIDE DEF S
  <2>3. \A k \in 0 .. n : k \in S
    BY <2>1, <2>2, UpTo
  <2>4. QED
    BY <2>3 DEF S
<1> DEFINE Is(f, m) == /\ f = [k \in 0 .. m |-> f[k]] /\ f[0] = start
                       /\ \A k \in 1 .. m : f[k] = next[<<k, f[k-1]>>]
           S == {m \in 0 .. n : \E f : Is(f, m)}
<1>2. 0 \in S
  <2> DEFINE f == [k \in 0 .. 0 |-> start]
  <2>1. Is(f, 0)
    OBVIOUS
  <2> HIDE DEF f, Is
  <2>2. QED
    BY <2>1
<1>3. ASSUME NEW m \in 1 .. n, m - 1 \in S PROVE m \in S
  <2>1. PICK f : Is(f, m - 1)
    BY <1>3
  <2> DEFINE g == [k \in 0 .. m |-> IF k = m THEN next[<<m, f[m-1]>>] ELSE f[k]]
  <2>2. ASSUME NEW k \in 1 .. m PROVE g[k] = next[<<k, g[k-1]>>]
    <3>1. k - 1 \in 0 .. m /\ k - 1 # m /\ k \in 0 .. m
      OBVIOUS
    <3>2. g[k-1] = f[k-1]
      BY <3>1
    <3>3. CASE k = m
      BY <3>1, <3>2, <3>3
    <3>4. CASE k # m
      <4>1. k \in 1 .. m - 1 /\ g[k] = f[k]
        BY <3>1, <3>4
      <4>2. QED
        BY <4>1, <3>2, <2>1
    <3>5. QED
      BY <3>3, <3>4
  <2>3. g[0] = start /\ g = [k \in 0 .. m |-> g[k]]
    BY <2>1
  <2> HIDE DEF g
  <2>4. Is(g, m)
    BY <2>2, <2>3
  <2> HIDE DEF Is
  <2>5. \E h : Is(h, m)
    BY <2>4
  <2>6. QED
    BY <2>5
<1>4. n \in S
  <2> HIDE DEF S
  <2>1. QED
    BY <1>2, <1>3, UpTo
<1>5. PICK f : Is(f, n)
  BY <1>4
<1>6. \A k \in 1 .. n : f[k-1] \in V[k-1]
  <2>1. \A k \in 0 .. n : f[k] \in V[k]
    BY <1>1, <1>5
  <2>2. \A k \in 1 .. n : k - 1 \in 0 .. n
    OBVIOUS
  <2>3. QED
    BY <2>1, <2>2
<1>7. RunThrough(f, n, V, start, next)
  BY <1>5, <1>6 DEF RunThrough
<1>8. QED
  BY <1>1, <1>7 DEF Follows

--------------------------------------------------------------------------------
\* Numbers, ranks and sequences of sequences.

\* A set of natural numbers has a least one.
LEMMA LeastOf ==
  ASSUME NEW S \in SUBSET Nat, S # {}
  PROVE  \E x \in S : \A y \in S : x <= y
<1> DEFINE below == OpToRel(<, Nat)
<1>1. IsWellFoundedOn(below, Nat)
  BY NatLessThanWellFounded
<1>2. \A i, j \in Nat : i < j => <<i, j>> \in below
  BY DEF OpToRel
<1> HIDE DEF below
<1>3. PICK x \in S : \A y \in S : ~(<<y, x>> \in below)
  BY <1>1, WFMin
<1>4. ASSUME NEW y \in S PROVE x <= y
  <2>1. x \in Nat /\ y \in Nat
    OBVIOUS
  <2>2. ~(y < x)
    BY <1>2, <1>3, <2>1
  <2>3. QED
    BY <2>1, <2>2
<1>5. QED
  BY <1>4

\* A set of natural numbers under a bound has a greatest one.
LEMMA GreatestBelow ==
  ASSUME NEW n \in Nat, NEW S \in SUBSET (0 .. n), S # {}
  PROVE  \E x \in S : \A y \in S : y <= x
<1> DEFINE T == {n - x : x \in S}
<1>1. T \in SUBSET Nat /\ T # {}
  <2>1. \A x \in S : n - x \in Nat
    OBVIOUS
  <2>2. PICK x \in S : TRUE
    OBVIOUS
  <2>3. n - x \in T
    OBVIOUS
  <2>4. QED
    BY <2>1, <2>3
<1> HIDE DEF T
<1>2. PICK t \in T : \A u \in T : t <= u
  BY <1>1, LeastOf
<1>3. PICK x \in S : t = n - x
  BY <1>2 DEF T
<1>4. ASSUME NEW y \in S PROVE y <= x
  <2>1. n - y \in T
    BY DEF T
  <2>2. QED
    BY <2>1, <1>2, <1>3
<1>5. QED
  BY <1>4

\* The elements of a finite set in a strict total order have the ranks 0, 1, 2 ...,
\* each once; below[x] are those before x.
LEMMA Ranked ==
  ASSUME NEW S, IsFiniteSet(S), NEW below \in [S -> SUBSET S],
         \A x \in S : x \notin below[x],
         \A x, y \in S : x \in below[y] => below[x] \subseteq below[y],
         \A x, y \in S : x # y => x \in below[y] \/ y \in below[x]
  PROVE  /\ \A x \in S : Cardinality(below[x]) \in 0 .. Cardinality(S) - 1
         /\ \A x, y \in S : x \in below[y] <=> Cardinality(below[x]) < Cardinality(below[y])
         /\ \A m \in 1 .. Cardinality(S) : \E x \in S : Cardinality(below[x]) = m - 1
<1> DEFINE n == Cardinality(S)
           rank == [x \in S |-> Cardinality(below[x])]
<1>1. n \in Nat
  BY FS_CardinalityType
<1>2. \A x \in S : IsFiniteSet(below[x]) /\ Cardinality(below[x]) \in Nat
  BY FS_Subset, FS_CardinalityType
<1>3. ASSUME NEW x \in S PROVE Cardinality(below[x]) < n
  <2>1. below[x] \subseteq S /\ below[x] # S
    OBVIOUS
  <2>2. QED
    BY <2>1, FS_Subset, FS_CardinalityType
<1>4. ASSUME NEW x \in S, NEW y \in S, x \in below[y]
      PROVE  Cardinality(below[x]) < Cardinality(below[y])
  <2>1. below[x] \subseteq below[y] /\ below[x] # below[y]
    BY <1>4
  <2>2. QED
    BY <2>1, <1>2, FS_Subset
<1>5. ASSUME NEW x \in S, NEW y \in S, Cardinality(below[x]) < Cardinality(below[y])
      PROVE  x \in below[y]
  BY <1>2, <1>4, <1>5
<1>6. \A x, y \in S : x # y => rank[x] # rank[y]
  BY <1>2, <1>4
<1>7. rank \in [S -> 0 .. n - 1]
  BY <1>1, <1>2, <1>3
<1>8. IsFiniteSet(0 .. n - 1) /\ Cardinality(0 .. n - 1) = n
  BY <1>1, FS_Interval, SMTT(30)
<1>9. \A k \in 0 .. n - 1 : \E x \in S : rank[x] = k
  <2> HIDE DEF rank, n
  <2>1. rank \in Injection(S, 0 .. n - 1)
    BY <1>6, <1>7 DEF Injection, IsInjective
  <2>2. Cardinality(S) = Cardinality(0 .. n - 1)
    BY <1>8 DEF n
  <2>3. rank \in Surjection(S, 0 .. n - 1)
    BY <2>1, <2>2, <1>8, FS_Injection
  <2>4. QED
    BY <2>3 DEF Surjection
<1>10. \A m \in 1 .. n : \E x \in S : Cardinality(below[x]) = m - 1
  BY <1>1, <1>9
<1>11. QED
  BY <1>1, <1>2, <1>3, <1>4, <1>5, <1>10

\* Ascending lists a set from its least number to its greatest.
LEMMA AscendingIs ==
  ASSUME NEW S \in SUBSET Nat, IsFiniteSet(S)
  PROVE  /\ Cardinality(S) \in Nat
         /\ Ascending(S) \in [1 .. Cardinality(S) -> S]
         /\ Len(Ascending(S)) = Cardinality(S)
         /\ \A m \in 1 .. Cardinality(S) : Cardinality({y \in S : y < Ascending(S)[m]}) = m - 1
         /\ \A x \in S : \E m \in 1 .. Cardinality(S) : Ascending(S)[m] = x
         /\ \A a, b \in 1 .. Cardinality(S) : a < b => Ascending(S)[a] < Ascending(S)[b]
<1> DEFINE below == [x \in S |-> {y \in S : y < x}]
           n == Cardinality(S)
           A == Ascending(S)
<1>1. n \in Nat
  BY FS_CardinalityType
<1>2. /\ below \in [S -> SUBSET S]
      /\ \A x \in S : x \notin below[x]
      /\ \A x, y \in S : x \in below[y] <=> x < y
      /\ \A x, y \in S : x # y => x \in below[y] \/ y \in below[x]
  OBVIOUS
<1>3. ASSUME NEW x \in S, NEW y \in S, x \in below[y], NEW z \in below[x]
      PROVE  z \in below[y]
  <2>1. x < y /\ z < x /\ z \in S
    BY <1>3
  <2>2. x \in Nat /\ y \in Nat /\ z \in Nat
    BY <2>1
  <2>3. z < y
    BY <2>1, <2>2
  <2>4. QED
    BY <2>1, <2>3
<1>4. \A x \in S : {y \in S : y < x} = below[x]
  OBVIOUS
<1>5. A = [m \in 1 .. n |-> CHOOSE x \in S : Cardinality({y \in S : y < x}) = m - 1]
  BY DEF Ascending
<1> HIDE DEF below, n, A
<1>6. /\ \A x \in S : Cardinality(below[x]) \in 0 .. n - 1
      /\ \A x, y \in S : x \in below[y] <=> Cardinality(below[x]) < Cardinality(below[y])
      /\ \A m \in 1 .. n : \E x \in S : Cardinality(below[x]) = m - 1
  BY <1>2, <1>3, Ranked DEF n
<1>7. ASSUME NEW m \in 1 .. n PROVE A[m] \in S /\ Cardinality(below[A[m]]) = m - 1
  <2>1. \E x \in S : Cardinality({y \in S : y < x}) = m - 1
    BY <1>4, <1>6
  <2>2. A[m] \in S /\ Cardinality({y \in S : y < A[m]}) = m - 1
    BY <2>1, <1>5
  <2>3. QED
    BY <2>2, <1>4
<1>8. A \in [1 .. n -> S]
  BY <1>5, <1>7
<1>9. ASSUME NEW x \in S PROVE \E m \in 1 .. n : A[m] = x
  <2>1. PICK k \in 0 .. n - 1 : Cardinality(below[x]) = k
    BY <1>6
  <2>2. k + 1 \in 1 .. n /\ (k + 1) - 1 = k
    BY <1>1
  <2>3. PICK z \in S : z = A[k + 1] /\ Cardinality(below[z]) = k
    BY <1>7, <2>2
  <2> DEFINE c(y) == Cardinality(below[y])
  <2>7. c(x) = k /\ c(z) = k /\ k \in Int
    BY <2>1, <2>3
  <2>8. (x \in below[z] <=> c(x) < c(z)) /\ (z \in below[x] <=> c(z) < c(x))
    BY <1>6
  <2> HIDE DEF c
  <2>4. ~(x \in below[z]) /\ ~(z \in below[x])
    BY <2>7, <2>8
  <2>5. A[k + 1] = x
    BY <1>2, <2>3, <2>4
  <2>6. QED
    BY <2>2, <2>5
<1>10. ASSUME NEW a \in 1 .. n, NEW b \in 1 .. n, a < b PROVE A[a] < A[b]
  <2>1. PICK x \in S : x = A[a] /\ Cardinality(below[x]) = a - 1
    BY <1>7
  <2>2. PICK y \in S : y = A[b] /\ Cardinality(below[y]) = b - 1
    BY <1>7
  <2>3. x \in below[y]
    BY <1>1, <1>6, <1>10, <2>1, <2>2
  <2>4. QED
    BY <2>1, <2>2, <2>3, <1>2
<1>11. Len(A) = n
  BY <1>1, <1>8
<1>12. \A m \in 1 .. n : Cardinality({y \in S : y < A[m]}) = m - 1
  BY <1>4, <1>7
<1>13. QED
  BY <1>1, <1>8, <1>9, <1>10, <1>11, <1>12 DEF n, A

\* The numbers between two, in order.
LEMMA AscendingRange ==
  ASSUME NEW lo \in Nat, NEW k \in Nat
  PROVE  Ascending(lo + 1 .. lo + k) = [m \in 1 .. k |-> lo + m]
<1> DEFINE S == lo + 1 .. lo + k
<1>1. S \in SUBSET Nat /\ IsFiniteSet(S) /\ Cardinality(S) = k
  BY FS_Interval
<1>2. ASSUME NEW x \in S PROVE Cardinality({y \in S : y < x}) = x - lo - 1
  <2>1. {y \in S : y < x} = lo + 1 .. x - 1
    OBVIOUS
  <2>2. x \in Int /\ lo + 1 <= x
    OBVIOUS
  <2>3. Cardinality(lo + 1 .. x - 1) = x - lo - 1
    BY <2>2, FS_Interval
  <2>4. QED
    BY <2>1, <2>3
<1> HIDE DEF S
<1>3. /\ Ascending(S) \in [1 .. k -> S]
      /\ \A m \in 1 .. k : Cardinality({y \in S : y < Ascending(S)[m]}) = m - 1
  BY <1>1, AscendingIs
<1>4. ASSUME NEW m \in 1 .. k PROVE Ascending(S)[m] = lo + m
  <2>1. Ascending(S)[m] \in S /\ Ascending(S)[m] \in Nat
    BY <1>1, <1>3
  <2>2. Ascending(S)[m] - lo - 1 = m - 1
    BY <2>1, <1>2, <1>3
  <2>3. QED
    BY <2>1, <2>2
<1>5. Ascending(S) = [m \in 1 .. k |-> lo + m]
  BY <1>3, <1>4
<1>6. QED
  BY <1>5 DEF S

\* Sorted is a permutation that puts keys in order.
LEMMA SortedIs ==
  ASSUME NEW n \in Nat, NEW keys \in [1 .. n -> Int]
  PROVE  /\ Sorted(keys) \in [1 .. n -> 1 .. n]
         /\ Len(Sorted(keys)) = n
         /\ \A i \in 1 .. n : \E m \in 1 .. n : Sorted(keys)[m] = i
         /\ \A a, b \in 1 .. n : a # b => Sorted(keys)[a] # Sorted(keys)[b]
         /\ \A a, b \in 1 .. n : a < b => keys[Sorted(keys)[a]] <= keys[Sorted(keys)[b]]
<1> DEFINE S == 1 .. n
           below == [i \in S |-> {j \in S : keys[j] < keys[i] \/ (keys[j] = keys[i] /\ j < i)}]
           A == Sorted(keys)
<1>1. IsFiniteSet(S) /\ Cardinality(S) = n
  BY FS_Interval
<1>2. /\ below \in [S -> SUBSET S]
      /\ \A x \in S : x \notin below[x]
      /\ \A x, y \in S : x \in below[y] => keys[x] <= keys[y]
      /\ \A x, y \in S : x # y => x \in below[y] \/ y \in below[x]
  OBVIOUS
<1>3. \A x, y \in S : x \in below[y] => below[x] \subseteq below[y]
  OBVIOUS
<1> DEFINE ahead(x) == {j \in S : keys[j] < keys[x] \/ (keys[j] = keys[x] /\ j < x)}
<1>4. A = [m \in S |-> CHOOSE x \in S : Cardinality(ahead(x)) = m - 1]
  <2>1. DOMAIN keys = S
    OBVIOUS
  <2>2. QED
    BY <2>1 DEF Sorted
<1>13. \A x \in S : ahead(x) = below[x]
  OBVIOUS
<1>5. \A x \in S : keys[x] \in Int
  OBVIOUS
<1> HIDE DEF below, A, ahead
<1>6. /\ \A x \in S : Cardinality(below[x]) \in 0 .. n - 1
      /\ \A x, y \in S : x \in below[y] <=> Cardinality(below[x]) < Cardinality(below[y])
      /\ \A m \in 1 .. n : \E x \in S : Cardinality(below[x]) = m - 1
  <2> HIDE DEF S
  <2>1. QED
    BY <1>1, <1>2, <1>3, Ranked
<1>7. ASSUME NEW m \in S PROVE A[m] \in S /\ Cardinality(below[A[m]]) = m - 1
  <2>1. \E x \in S : Cardinality(ahead(x)) = m - 1
    BY <1>13, <1>6
  <2>2. A[m] \in S /\ Cardinality(ahead(A[m])) = m - 1
    BY <2>1, <1>4
  <2>3. QED
    BY <2>2, <1>13
<1>8. A \in [1 .. n -> S]
  BY <1>4, <1>7
<1>9. ASSUME NEW x \in S PROVE \E m \in S : A[m] = x
  <2>1. PICK k \in 0 .. n - 1 : Cardinality(below[x]) = k
    BY <1>6
  <2>2. k + 1 \in S /\ (k + 1) - 1 = k
    OBVIOUS
  <2>3. PICK z \in S : z = A[k + 1] /\ Cardinality(below[z]) = k
    BY <1>7, <2>2
  <2> DEFINE c(y) == Cardinality(below[y])
  <2>7. c(x) = k /\ c(z) = k /\ k \in Int
    BY <2>1, <2>3
  <2>8. (x \in below[z] <=> c(x) < c(z)) /\ (z \in below[x] <=> c(z) < c(x))
    BY <1>6
  <2> HIDE DEF c
  <2>4. ~(x \in below[z]) /\ ~(z \in below[x])
    BY <2>7, <2>8
  <2>5. A[k + 1] = x
    BY <1>2, <2>3, <2>4
  <2>6. QED
    BY <2>2, <2>5
<1>10. ASSUME NEW a \in S, NEW b \in S, a # b PROVE A[a] # A[b]
  <2>1. Cardinality(below[A[a]]) = a - 1 /\ Cardinality(below[A[b]]) = b - 1
    BY <1>7
  <2>2. QED
    BY <2>1, <1>10
<1>11. ASSUME NEW a \in S, NEW b \in S, a < b PROVE keys[A[a]] <= keys[A[b]]
  <2>1. PICK x \in S : x = A[a] /\ Cardinality(below[x]) = a - 1
    BY <1>7
  <2>2. PICK y \in S : y = A[b] /\ Cardinality(below[y]) = b - 1
    BY <1>7
  <2>3. x \in below[y]
    <3>1. Cardinality(below[x]) < Cardinality(below[y])
      BY <1>11, <2>1, <2>2
    <3>2. QED
      BY <3>1, <1>6
  <2>4. QED
    BY <2>1, <2>2, <2>3, <1>2
<1>12. Len(A) = n
  BY <1>8
<1>14. QED
  BY <1>8, <1>9, <1>10, <1>11, <1>12 DEF A

\* Where the elements of a sequence of sequences start in their concatenation.
StartsAt(st, s) ==
  /\ st \in [0 .. Len(s) -> Nat]
  /\ st[0] = 0
  /\ \A i \in 1 .. Len(s) : st[i] = st[i-1] + Len(s[i])

\* Every position of the concatenation up to the end of the first k is in one of them.
Spread(flat, st, s, k) ==
  /\ Len(flat) = st[k]
  /\ \A i \in 1 .. k : st[i-1] + Len(s[i]) <= Len(flat)
  /\ \A i \in 1 .. k : \A j \in 1 .. Len(s[i]) : flat[st[i-1] + j] = s[i][j]
  /\ \A m \in 1 .. Len(flat) : \E i \in 1 .. k : \E j \in 1 .. Len(s[i]) : m = st[i-1] + j

LEMMA StartsType ==
  ASSUME NEW V, NEW s \in Seq(Seq(V)), NEW st, StartsAt(st, s), NEW i \in 1 .. Len(s)
  PROVE  /\ s[i] \in Seq(V) /\ Len(s[i]) \in Nat
         /\ st[i-1] \in Nat /\ st[i] \in Nat /\ st[i] = st[i-1] + Len(s[i])
<1>1. s[i] \in Seq(V)
  OBVIOUS
<1>2. Len(s[i]) \in Nat
  BY <1>1
<1>3. i - 1 \in 0 .. Len(s) /\ i \in 0 .. Len(s)
  OBVIOUS
<1>4. QED
  BY <1>1, <1>2, <1>3 DEF StartsAt

\* What is said of the first k stays true, and becomes true of one more.
LEMMA SpreadNext ==
  ASSUME NEW V, NEW s \in Seq(Seq(V)), NEW st, StartsAt(st, s),
         NEW k \in 1 .. Len(s), NEW flat \in Seq(V), Spread(flat, st, s, k - 1)
  PROVE  Spread(flat \o s[k], st, s, k)
<1> DEFINE all == flat \o s[k]
<1>1. /\ s[k] \in Seq(V) /\ Len(s[k]) \in Nat /\ Len(flat) \in Nat
      /\ Len(flat) = st[k-1] /\ st[k] = st[k-1] + Len(s[k])
  BY StartsType DEF Spread
<1>2. /\ all \in Seq(V) /\ Len(all) = Len(flat) + Len(s[k])
      /\ \A m \in 1 .. Len(flat) : all[m] = flat[m]
      /\ \A j \in 1 .. Len(s[k]) : all[Len(flat) + j] = s[k][j]
  <2>1. PICK t \in Seq(V) : t = s[k]
    BY <1>1
  <2>2. /\ flat \o t \in Seq(V) /\ Len(flat \o t) = Len(flat) + Len(t)
        /\ \A m \in 1 .. Len(flat) : (flat \o t)[m] = flat[m]
        /\ \A j \in 1 .. Len(t) : (flat \o t)[Len(flat) + j] = t[j]
    OBVIOUS
  <2>3. QED
    BY <2>1, <2>2
<1> HIDE DEF all
<1>3. Len(all) = st[k]
  BY <1>1, <1>2
<1>4. ASSUME NEW i \in 1 .. k
      PROVE  /\ st[i-1] + Len(s[i]) <= Len(all)
             /\ \A j \in 1 .. Len(s[i]) : all[st[i-1] + j] = s[i][j]
  <2>1. s[i] \in Seq(V) /\ Len(s[i]) \in Nat /\ st[i-1] \in Nat
    BY StartsType
  <2>2. CASE i = k
    BY <1>1, <1>2, <2>2
  <2>3. CASE i # k
    <3>1. i \in 1 .. k - 1
      BY <2>3
    <3>2. /\ st[i-1] + Len(s[i]) <= Len(flat)
          /\ \A j \in 1 .. Len(s[i]) : flat[st[i-1] + j] = s[i][j]
      BY <3>1 DEF Spread
    <3>3. ASSUME NEW j \in 1 .. Len(s[i]) PROVE st[i-1] + j \in 1 .. Len(flat)
      <4>1. j \in Nat /\ 1 <= j /\ j <= Len(s[i]) /\ Len(flat) \in Nat
        BY <1>1, <2>1
      <4>2. PICK x \in Nat, y \in Nat, z \in Nat : x = st[i-1] /\ y = Len(s[i]) /\ z = Len(flat)
        BY <2>1, <4>1
      <4>3. x + y <= z /\ 1 <= j /\ j <= y
        BY <3>2, <4>1, <4>2
      <4>4. x + j \in 1 .. z
        BY <4>1, <4>3
      <4>5. QED
        BY <4>2, <4>4
    <3>5. st[i-1] + Len(s[i]) <= Len(all)
      BY <1>1, <1>2, <2>1, <3>2, SMTT(30)
    <3>6. \A j \in 1 .. Len(s[i]) : all[st[i-1] + j] = s[i][j]
      BY <1>2, <3>2, <3>3
    <3>4. QED
      BY <3>5, <3>6
  <2>4. QED
    BY <2>2, <2>3
<1>5. ASSUME NEW m \in 1 .. Len(all)
      PROVE  \E i \in 1 .. k : \E j \in 1 .. Len(s[i]) : m = st[i-1] + j
  <2>1. CASE m <= Len(flat)
    <3>1. m \in 1 .. Len(flat)
      BY <1>1, <1>2, <2>1
    <3>2. PICK i \in 1 .. k - 1 : \E j \in 1 .. Len(s[i]) : m = st[i-1] + j
      BY <3>1 DEF Spread
    <3>3. i \in 1 .. k
      OBVIOUS
    <3>4. QED
      BY <3>2, <3>3
  <2>2. CASE m > Len(flat)
    <3>1. m - Len(flat) \in 1 .. Len(s[k]) /\ m = st[k-1] + (m - Len(flat))
      BY <1>1, <1>2, <2>2, SMTT(30)
    <3>2. QED
      BY <3>1
  <2>3. QED
    BY <1>1, <1>2, <2>1, <2>2
<1>6. Spread(all, st, s, k)
  BY <1>3, <1>4, <1>5 DEF Spread
<1>7. QED
  BY <1>6 DEF all

\* The starts of any sequences.
LEMMA StartsExist ==
  ASSUME NEW V, NEW s \in Seq(Seq(V))
  PROVE  \E st : StartsAt(st, s)
<1> DEFINE n == Len(s)
           U == [k \in 0 .. n |-> Nat]
           next == [p \in (1 .. n) \X Nat |-> p[2] + Len(s[p[1]])]
<1>1. n \in Nat /\ \A k \in 1 .. n : Len(s[k]) \in Nat
  OBVIOUS
<1>2. \A k \in 1 .. n, v \in Nat : next[<<k, v>>] = v + Len(s[k])
  OBVIOUS
<1>4. \A k \in 0 .. n : U[k] = Nat
  OBVIOUS
<1>10. \A k \in 1 .. n : k \in 0 .. n /\ k - 1 \in 0 .. n
  BY <1>1
<1> HIDE DEF n, U, next
<1>3. ASSUME NEW k \in 1 .. n, NEW v \in U[k-1] PROVE next[<<k, v>>] \in U[k]
  <2>1. U[k-1] = Nat /\ U[k] = Nat
    BY <1>4, <1>10
  <2>2. v \in Nat
    BY <2>1
  <2>3. next[<<k, v>>] \in Nat
    BY <1>1, <1>2, <2>2
  <2>4. QED
    BY <2>1, <2>3
<1>11. 0 \in U[0]
  BY <1>1, <1>4
<1>5. PICK st : /\ st = [k \in 0 .. n |-> st[k]] /\ st[0] = 0
                /\ \A k \in 1 .. n : st[k-1] \in U[k-1] /\ st[k] = next[<<k, st[k-1]>>]
  <2>1. \A k \in 1 .. n : \A v \in U[k-1] : next[<<k, v>>] \in U[k]
    BY <1>3
  <2>2. Steps(n, U, 0, next)
    BY <1>1, <2>1, <1>11 DEF Steps
  <2>3. QED
    BY <2>2, Recursion DEF RunThrough
<1>6. ASSUME NEW k \in 1 .. n
      PROVE  st[k-1] \in Nat /\ st[k] = st[k-1] + Len(s[k]) /\ Len(s[k]) \in Nat
  <2>1. st[k-1] \in Nat
    BY <1>4, <1>5, <1>10
  <2>2. QED
    BY <1>1, <1>2, <1>5, <2>1
<1>7. ASSUME NEW k \in 0 .. n PROVE st[k] \in Nat
  <2>1. CASE k = 0
    BY <1>5, <2>1
  <2>2. CASE k # 0
    <3>1. k \in 1 .. n
      BY <1>1, <2>2
    <3>2. QED
      BY <3>1, <1>6
  <2>3. QED
    BY <2>1, <2>2
<1>8. st \in [0 .. n -> Nat]
  BY <1>5, <1>7
<1>9. StartsAt(st, s)
  BY <1>5, <1>6, <1>8 DEF StartsAt, n
<1>12. QED
  BY <1>9

\* Starts do not decrease.
LEMMA StartsGrow ==
  ASSUME NEW V, NEW s \in Seq(Seq(V)), NEW st, StartsAt(st, s),
         NEW a \in 0 .. Len(s), NEW b \in 0 .. Len(s), a <= b
  PROVE  st[a] <= st[b]
<1> DEFINE S == {d \in 0 .. Len(s) - a : st[a] <= st[a + d]}
<1>1. 0 \in S
  <2>3. st[a] \in Nat
    BY DEF StartsAt
  <2>1. st[a] <= st[a + 0] /\ 0 \in 0 .. Len(s) - a
    BY <2>3
  <2>2. QED
    BY <2>1
<1>2. ASSUME NEW k \in 1 .. Len(s) - a, k - 1 \in S PROVE k \in S
  <2>1. a + k \in 1 .. Len(s) /\ (a + k) - 1 = a + (k - 1)
    OBVIOUS
  <2>2. /\ st[a + k] = st[a + (k - 1)] + Len(s[a + k]) /\ Len(s[a + k]) \in Nat
        /\ st[a + (k - 1)] \in Nat
    BY <2>1, StartsType
  <2>3. st[a] \in Nat /\ st[a] <= st[a + (k - 1)]
    BY <1>2 DEF StartsAt
  <2>4. QED
    BY <2>2, <2>3
<1>3. Len(s) - a \in Nat
  OBVIOUS
<1> HIDE DEF S
<1>4. \A k \in 0 .. Len(s) - a : k \in S
  BY <1>1, <1>2, <1>3, UpTo
<1>5. b - a \in 0 .. Len(s) - a /\ a + (b - a) = b
  OBVIOUS
<1>6. QED
  BY <1>4, <1>5 DEF S

\* A position belongs to one of the sequences only.
LEMMA StartsApart ==
  ASSUME NEW V, NEW s \in Seq(Seq(V)), NEW st, StartsAt(st, s),
         NEW a \in 1 .. Len(s), NEW b \in 1 .. Len(s),
         NEW i \in 1 .. Len(s[a]), NEW j \in 1 .. Len(s[b])
  PROVE  /\ st[a-1] + i < st[b-1] + j <=> (a < b \/ (a = b /\ i < j))
         /\ st[a-1] + i = st[b-1] + j <=> (a = b /\ i = j)
<1>1. ASSUME NEW x \in 1 .. Len(s), NEW y \in 1 .. Len(s), x < y,
             NEW u \in 1 .. Len(s[x]), NEW v \in 1 .. Len(s[y])
      PROVE  st[x-1] + u < st[y-1] + v
  <2>1. x \in 0 .. Len(s) /\ y - 1 \in 0 .. Len(s) /\ x <= y - 1
    BY <1>1
  <2>2. st[x] <= st[y-1]
    BY <2>1, StartsGrow
  <2>3. st[x] = st[x-1] + Len(s[x]) /\ st[x-1] \in Nat /\ st[y-1] \in Nat /\ Len(s[x]) \in Nat
    BY StartsType
  <2> DEFINE from == st[x-1]
             len  == Len(s[x])
             to   == st[y-1]
  <2>4. from \in Nat /\ len \in Nat /\ to \in Nat /\ from + len <= to
    BY <2>2, <2>3
  <2>5. u <= len /\ v >= 1 /\ u \in Nat /\ v \in Nat
    BY <2>3, StartsType
  <2> HIDE DEF from, len, to
  <2>6. from + u < to + v
    BY <2>4, <2>5
  <2>7. QED
    BY <2>6 DEF from, to
<1>2. st[a-1] \in Nat /\ st[b-1] \in Nat /\ Len(s[a]) \in Nat /\ Len(s[b]) \in Nat
  BY StartsType
<1>3. CASE a < b
  <2>1. st[a-1] + i < st[b-1] + j
    BY <1>1, <1>3
  <2>2. PICK x \in Nat, y \in Nat : x = st[a-1] /\ y = st[b-1]
    BY <1>2
  <2>3. i \in Nat /\ j \in Nat
    BY <1>2
  <2>4. x + i # y + j
    BY <2>1, <2>2, <2>3
  <2>5. a < b /\ a # b
    BY <1>3
  <2>6. st[a-1] + i # st[b-1] + j
    BY <2>2, <2>4
  <2>7. QED
    BY <2>1, <2>5, <2>6
<1>4. CASE b < a
  <2>1. st[b-1] + j < st[a-1] + i
    BY <1>1, <1>4
  <2>2. PICK x \in Nat, y \in Nat : x = st[b-1] /\ y = st[a-1]
    BY <1>2
  <2>3. i \in Nat /\ j \in Nat
    BY <1>2
  <2>4. x + j # y + i /\ ~ (y + i < x + j)
    <3>1. x + j < y + i
      BY <2>1, <2>2
    <3>2. QED
      BY <2>3, <3>1
  <2>5. ~ (a < b) /\ a # b
    BY <1>4
  <2>6. st[a-1] + i # st[b-1] + j /\ ~ (st[a-1] + i < st[b-1] + j)
    BY <2>2, <2>4
  <2>7. QED
    BY <2>5, <2>6
<1>5. CASE a = b
  BY <1>2, <1>5
<1>6. QED
  BY <1>3, <1>4, <1>5

\* Where an element of one of the sequences is.
LEMMA SpreadAt ==
  ASSUME NEW V, NEW s \in Seq(Seq(V)), NEW st, StartsAt(st, s),
         NEW flat \in Seq(V), Spread(flat, st, s, Len(s)),
         NEW i \in 1 .. Len(s), NEW j \in 1 .. Len(s[i])
  PROVE  /\ st[i-1] \in Nat /\ Len(flat) \in Nat
         /\ st[i-1] + j \in 1 .. Len(flat) /\ flat[st[i-1] + j] = s[i][j]
<1>1. st[i-1] \in Nat /\ Len(s[i]) \in Nat
  BY StartsType
<1>2. st[i-1] + Len(s[i]) <= Len(flat) /\ flat[st[i-1] + j] = s[i][j]
  BY DEF Spread
<1>3. Len(flat) \in Nat
  OBVIOUS
<1>4. QED
  BY <1>1, <1>2, <1>3, SMTT(30)

\* The concatenation of sequences, position by position.
LEMMA FlattenAt ==
  ASSUME NEW V, NEW s \in Seq(Seq(V)), NEW st, StartsAt(st, s)
  PROVE  FlattenSeq(s) \in Seq(V) /\ Spread(FlattenSeq(s), st, s, Len(s))
<1> DEFINE n == Len(s)
           F(f) == f = [i \in 1 .. n |-> IF i = 1 THEN s[i] ELSE f[i-1] \o s[i]]
           flatten == CHOOSE f : F(f)
<1>1. n \in Nat /\ s \in [1 .. n -> Seq(V)]
  OBVIOUS
<1>2. CASE n = 0
  <2>1. FlattenSeq(s) = <<>>
    BY <1>2 DEF FlattenSeq
  <2>2. st[0] = 0
    BY DEF StartsAt
  <2>3. QED
    BY <1>2, <2>1, <2>2 DEF Spread
<1>3. CASE n # 0
  <2> DEFINE U == [k \in 0 .. n |-> Seq(V)]
             next == [p \in (1 .. n) \X Seq(V) |-> p[2] \o s[p[1]]]
  <2>1. ASSUME NEW k \in 1 .. n, NEW v \in Seq(V)
        PROVE  next[<<k, v>>] = v \o s[k] /\ v \o s[k] \in Seq(V)
    <3>1. s[k] \in Seq(V)
      BY <1>1
    <3>2. v \o s[k] \in Seq(V)
      BY <3>1, ConcatProperties
    <3>3. QED
      BY <3>2
  <2>3. \A k \in 0 .. n : U[k] = Seq(V)
    OBVIOUS
  <2>16. \A k \in 1 .. n : k \in 0 .. n /\ k - 1 \in 0 .. n
    BY <1>1
  <2> HIDE DEF U, next
  <2>2. ASSUME NEW k \in 1 .. n, NEW v \in U[k-1] PROVE next[<<k, v>>] \in U[k]
    <3>1. U[k-1] = Seq(V) /\ U[k] = Seq(V)
      BY <2>3, <2>16
    <3>2. v \in Seq(V)
      BY <3>1
    <3>3. next[<<k, v>>] \in Seq(V)
      BY <2>1, <3>2
    <3>4. QED
      BY <3>1, <3>3
  <2>15. <<>> \in U[0]
    <3>1. 0 \in 0 .. n /\ <<>> \in Seq(V)
      BY <1>1
    <3>2. QED
      BY <3>1, <2>3
  <2>4. PICK g : /\ g[0] = <<>>
                 /\ \A k \in 1 .. n : g[k-1] \in U[k-1] /\ g[k] = next[<<k, g[k-1]>>]
    <3>1. \A k \in 1 .. n : \A v \in U[k-1] : next[<<k, v>>] \in U[k]
      BY <2>2
    <3>2. Steps(n, U, <<>>, next)
      BY <1>1, <3>1, <2>15 DEF Steps
    <3>3. QED
      BY <3>2, Recursion DEF RunThrough
  <2>5. g[0] = <<>> /\ \A k \in 1 .. n : g[k] = g[k-1] \o s[k]
    <3>1. ASSUME NEW k \in 1 .. n PROVE g[k] = g[k-1] \o s[k]
      <4>1. k - 1 \in 0 .. n
        BY <1>1
      <4>2. g[k-1] \in Seq(V)
        BY <2>3, <2>4, <4>1
      <4>3. QED
        BY <2>1, <2>4, <4>2
    <3>2. QED
      BY <2>4, <3>1
  <2>6. F([i \in 1 .. n |-> g[i]])
    <3>1. ASSUME NEW i \in 1 .. n
          PROVE  g[i] = IF i = 1 THEN s[i] ELSE [m \in 1 .. n |-> g[m]][i-1] \o s[i]
      <4>1. CASE i = 1
        <5>3. 1 \in 1 .. n /\ 1 - 1 = 0
          BY <4>1
        <5>4. g[1] = g[1 - 1] \o s[1]
          BY <2>5, <5>3
        <5>1. g[1] = <<>> \o s[1] /\ s[1] \in Seq(V)
          BY <1>1, <2>5, <5>3, <5>4
        <5>2. QED
          BY <4>1, <5>1, ConcatEmptySeq
      <4>2. CASE i # 1
        <5>1. i - 1 \in 1 .. n
          BY <1>1, <4>2
        <5>2. [m \in 1 .. n |-> g[m]][i-1] = g[i-1]
          BY <5>1
        <5>3. g[i] = g[i-1] \o s[i]
          BY <2>5
        <5>4. QED
          BY <4>2, <5>2, <5>3
      <4>3. QED
        BY <4>1, <4>2
    <3>2. QED
      BY <3>1
  <2> HIDE DEF F
  <2>7. F(flatten)
    BY <2>6
  <2>8. flatten = [i \in 1 .. n |-> IF i = 1 THEN s[i] ELSE flatten[i-1] \o s[i]]
    BY <2>7, Zenon DEF F
  <2>9. FlattenSeq(s) = flatten[n]
    BY <1>3, Zenon DEF FlattenSeq, F
  <2> HIDE DEF flatten
  <2> DEFINE S == {k \in 0 .. n : k # 0 => flatten[k] \in Seq(V) /\ Spread(flatten[k], st, s, k)}
  <2>10. 0 \in S
    BY <1>1
  <2>11. ASSUME NEW k \in 1 .. n, k - 1 \in S PROVE k \in S
    <3>1. CASE k = 1
      <4>1. Spread(<<>>, st, s, 0)
        BY DEF Spread, StartsAt
      <4>2. <<>> \in Seq(V) /\ k \in 1 .. Len(s) /\ k - 1 = 0
        BY <3>1
      <4>3. Spread(<<>> \o s[k], st, s, k)
        BY <4>1, <4>2, SpreadNext
      <4>4. flatten[k] = s[k] /\ s[k] \in Seq(V)
        BY <2>8, <3>1
      <4>5. <<>> \o s[k] = s[k]
        BY <4>4, ConcatEmptySeq
      <4>6. QED
        BY <4>3, <4>4, <4>5
    <3>2. CASE k # 1
      <4>1. flatten[k-1] \in Seq(V) /\ Spread(flatten[k-1], st, s, k - 1)
        BY <2>11, <3>2
      <4>6. flatten[k] = IF k = 1 THEN s[k] ELSE flatten[k-1] \o s[k]
        BY <2>8
      <4>2. flatten[k] = flatten[k-1] \o s[k] /\ s[k] \in Seq(V)
        BY <4>6, <3>2, <1>1
      <4>3. Spread(flatten[k-1] \o s[k], st, s, k)
        BY <4>1, SpreadNext
      <4>4. flatten[k-1] \o s[k] \in Seq(V)
        BY <4>1, <4>2
      <4>7. PICK u : u = flatten[k-1] \o s[k]
        OBVIOUS
      <4>8. u \in Seq(V) /\ Spread(u, st, s, k) /\ flatten[k] = u
        BY <4>2, <4>3, <4>4, <4>7
      <4>9. k \in 0 .. n
        BY <1>1
      <4>5. QED
        BY <4>8, <4>9
    <3>3. QED
      BY <3>1, <3>2
  <2> HIDE DEF S
  <2>12. \A k \in 0 .. n : k \in S
    BY <1>1, <2>10, <2>11, UpTo
  <2>13. n \in S /\ n # 0
    BY <1>1, <1>3, <2>12
  <2>14. QED
    BY <2>9, <2>13 DEF S
<1>4. QED
  BY <1>2, <1>3

--------------------------------------------------------------------------------
\* Cutting.

LEMMA Lesser ==
  ASSUME NEW x \in Int, NEW y \in Int
  PROVE  /\ Least(x, y) \in {x, y} /\ Least(x, y) <= x /\ Least(x, y) <= y
         /\ Most(x, y) \in {x, y} /\ x <= Most(x, y) /\ y <= Most(x, y)
BY DEF Least, Most

\* The quiet place that is found is within the bounds, and silent if one there is.
LEMMA QuietestIs ==
  ASSUME NEW audio, NEW lo \in Nat, NEW hi \in Nat, hi - lo > Win
  PROVE  /\ Quietest(audio, lo, hi) \in lo .. hi - 1
         /\ (lo .. hi - 1) \cap audio.quiet # {} => Quietest(audio, lo, hi) \in audio.quiet
<1> DEFINE Loud(p) == Cardinality((p..p + Win - 1) \ audio.quiet)
           P == lo .. hi - Win
           best == CHOOSE p \in P : /\ \A q \in P : Loud(p) <= Loud(q)
                                    /\ \A q \in lo .. p - 1 : Loud(p) < Loud(q)
           silent == (best .. best + Win - 1) \cap audio.quiet
<1> USE OfflineAssumption
<1>1. Quietest(audio, lo, hi) = IF silent = {} THEN best
                                ELSE CHOOSE x \in silent : \A y \in silent : x <= y
  BY DEF Quietest
<1>2. ASSUME NEW p \in P
      PROVE  /\ IsFiniteSet(p .. p + Win - 1) /\ Cardinality(p .. p + Win - 1) = Win
             /\ Loud(p) \in Nat /\ Loud(p) <= Win
             /\ (p .. p + Win - 1) \cap audio.quiet = {} => Loud(p) = Win
             /\ (p .. p + Win - 1) \cap audio.quiet # {} => Loud(p) < Win
  <2>1. p \in Nat /\ Win \in Nat /\ Win > 0
    OBVIOUS
  <2> DEFINE W == p .. p + Win - 1
  <2>2. IsFiniteSet(W) /\ Cardinality(W) = Win
    <3>1. p + Win - 1 \in Int /\ ~(p > p + Win - 1) /\ (p + Win - 1) - p + 1 = Win
      BY <2>1
    <3>2. QED
      BY <2>1, <3>1, FS_Interval
  <2>8. Loud(p) = Cardinality(W \ audio.quiet)
    OBVIOUS
  <2> HIDE DEF W, Loud
  <2>3. /\ IsFiniteSet(W \ audio.quiet) /\ Cardinality(W \ audio.quiet) <= Cardinality(W)
        /\ Cardinality(W \ audio.quiet) = Cardinality(W) => W \ audio.quiet = W
    BY <2>2, FS_Subset
  <2>4. Cardinality(W \ audio.quiet) \in Nat
    BY <2>3, FS_CardinalityType
  <2>5. W \cap audio.quiet = {} => W \ audio.quiet = W
    OBVIOUS
  <2>6. W \ audio.quiet = W => W \cap audio.quiet = {}
    OBVIOUS
  <2>9. /\ Loud(p) \in Nat /\ Loud(p) <= Win
        /\ W \cap audio.quiet = {} => Loud(p) = Win
    BY <2>2, <2>3, <2>4, <2>5, <2>8
  <2>10. W \cap audio.quiet # {} => Loud(p) < Win
    BY <2>1, <2>2, <2>3, <2>4, <2>6, <2>8
  <2>7. QED
    BY <2>2, <2>9, <2>10 DEF W
<1>3. P # {}
  <2>1. lo \in P
    OBVIOUS
  <2>2. QED
    BY <2>1
<1>4. P \in SUBSET Nat
  OBVIOUS
<1> HIDE DEF Loud, P
<1>5. PICK m \in {Loud(p) : p \in P} : \A x \in {Loud(p) : p \in P} : m <= x
  <2>1. {Loud(p) : p \in P} \in SUBSET Nat
    BY <1>2
  <2>2. {Loud(p) : p \in P} # {}
    BY <1>3
  <2>3. QED
    BY <2>1, <2>2, LeastOf
<1>6. PICK p \in {p \in P : Loud(p) = m} : \A q \in {q \in P : Loud(q) = m} : p <= q
  <2>1. {q \in P : Loud(q) = m} \in SUBSET Nat /\ {q \in P : Loud(q) = m} # {}
    BY <1>4, <1>5
  <2>2. QED
    BY <2>1, LeastOf
<1>7. \A q \in P : Loud(p) <= Loud(q)
  BY <1>5, <1>6
<1>8. ASSUME NEW q \in lo .. p - 1 PROVE Loud(p) < Loud(q)
  <2>1. q \in P /\ q \in Int /\ p \in Int /\ q < p
    BY <1>4, <1>6 DEF P
  <2>2. Loud(q) # m
    BY <1>6, <2>1
  <2>3. Loud(p) = m /\ m \in Nat /\ Loud(q) \in Nat /\ m <= Loud(q)
    BY <1>2, <1>5, <1>6, <2>1
  <2>4. QED
    BY <2>2, <2>3
<1>9. best \in P /\ \A q \in P : Loud(best) <= Loud(q)
  <2>1. \E z \in P : (\A q \in P : Loud(z) <= Loud(q)) /\ (\A q \in lo .. z - 1 : Loud(z) < Loud(q))
    BY <1>6, <1>7, <1>8
  <2>2. QED
    BY <2>1
<1> HIDE DEF best
<1>10. best \in Nat /\ lo <= best /\ best + Win <= hi /\ Win \in Nat /\ Win >= 1
  BY <1>9 DEF P
<1>11. CASE silent = {}
  <2>1. Quietest(audio, lo, hi) = best
    BY <1>1, <1>11
  <2>2. best \in lo .. hi - 1
    BY <1>10
  <2>3. ASSUME NEW x \in (lo .. hi - 1) \cap audio.quiet PROVE FALSE
    <3>1. PICK q \in P : x \in q .. q + Win - 1
      <4>1. x \in Nat /\ lo <= x /\ x < hi
        BY <2>3
      <4>2. CASE x <= hi - Win
        <5>1. x \in P /\ x \in x .. x + Win - 1
          BY ONLY <1>10, <4>1, <4>2 DEF P
        <5>2. QED
          BY <5>1
      <4>3. CASE x > hi - Win
        <5>1. hi - Win \in P /\ x \in hi - Win .. (hi - Win) + Win - 1
          BY ONLY <1>10, <4>1, <4>3 DEF P
        <5>2. QED
          BY <5>1
      <4>4. QED
        BY <4>1, <4>2, <4>3, <1>10
    <3>2. Loud(q) < Win /\ Loud(best) = Win /\ Loud(q) \in Nat
      BY <1>2, <1>9, <1>11, <3>1, <2>3
    <3>3. Loud(best) <= Loud(q)
      BY <1>9
    <3>4. QED
      BY <3>2, <3>3, <1>10
  <2>4. QED
    BY <2>1, <2>2, <2>3
<1>12. CASE silent # {}
  <2>1. silent \in SUBSET Nat
    BY <1>10
  <2>2. \E x \in silent : \A y \in silent : x <= y
    BY <1>12, <2>1, LeastOf
  <2>3. Quietest(audio, lo, hi) \in silent
    BY <1>1, <1>12, <2>2
  <2>4. QED
    BY <2>3, <1>10
<1>13. QED
  BY <1>11, <1>12

\* What is said of the end of a chunk of an audio that is longer than one.
LEMMA BoundaryIs ==
  ASSUME NEW audio, audio.len \in Nat, NEW max \in Nat \ {0}, NEW start \in Nat,
         audio.len - start > max
  PROVE  /\ Boundary(audio, max, start) \in Nat
         /\ Boundary(audio, max, start) > start /\ Boundary(audio, max, start) < audio.len
         /\ Boundary(audio, max, start) - start <= Most(max, max + Expand(max) - 1)
         /\ \E searched \in {start + max - Expand(max)
                              .. Least(start + max + Expand(max), audio.len) - 1} :
               (searched \cap audio.quiet # {} /\ Cardinality(searched) > Win)
                 => Boundary(audio, max, start) \in audio.quiet
<1> DEFINE len == audio.len
           e == Expand(max)
           cut == start + max
           left == Most(cut - e, start)
           right == Least(cut + e, len)
           wanted == IF right - left <= Win THEN cut ELSE Quietest(audio, left, right)
           searched == start + max - Expand(max) .. Least(start + max + Expand(max), audio.len) - 1
<1> USE OfflineAssumption
<1>1. e \in Nat /\ max - e >= 1 /\ Win \in Nat /\ Win >= 1
  <2>1. max \div 2 \in Nat /\ max - max \div 2 >= 1
    OBVIOUS
  <2>2. e \in {SearchExpand, max \div 2} /\ e <= max \div 2
    BY <2>1, Lesser DEF Expand
  <2>3. QED
    BY <2>1, <2>2
<1>2. Boundary(audio, max, start) = Least(Most(wanted, start + 1), len)
  BY DEF Boundary
<1>3. cut \in Nat /\ left = cut - e /\ left \in Nat /\ left > start /\ cut < len
  BY <1>1 DEF Most
<1>4. right \in Nat /\ right <= len /\ right <= cut + e /\ cut <= right
  BY <1>1, <1>3 DEF Least
<1>8. searched = left .. right - 1
  <2>1. left = start + max - Expand(max)
    BY <1>1, <1>3
  <2>2. right = Least(start + max + Expand(max), audio.len)
    OBVIOUS
  <2> HIDE DEF left, right
  <2>3. QED
    BY <2>1, <2>2
<1> HIDE DEF left, right, searched
<1>5. CASE right - left <= Win
  <2>1. wanted = cut
    BY <1>5
  <2>2. Boundary(audio, max, start) = cut
    BY <1>1, <1>2, <1>3, <2>1 DEF Most, Least
  <2>3. Cardinality(searched) <= Win
    <3>1. searched = left .. right - 1
      BY <1>8
    <3>2. left \in Int /\ right - 1 \in Int
      BY <1>3, <1>4
    <3>3. Cardinality(left .. right - 1) = IF left > right - 1 THEN 0 ELSE (right - 1) - left + 1
      BY <3>2, FS_Interval
    <3>4. QED
      BY <1>1, <1>3, <1>4, <1>5, <3>1, <3>3
  <2>4. ~(Cardinality(searched) > Win)
    <3>1. searched = left .. right - 1 /\ IsFiniteSet(left .. right - 1)
      BY <1>3, <1>4, <1>8, FS_Interval
    <3>2. Cardinality(searched) \in Nat
      BY <3>1, FS_CardinalityType
    <3>3. QED
      BY <1>1, <2>3, <3>2
  <2>5. cut - start <= Most(max, max + e - 1)
    BY <1>1 DEF Most
  <2>6. QED
    BY <1>1, <1>3, <2>2, <2>4, <2>5 DEF searched
<1>6. CASE right - left > Win
  <2>1. wanted = Quietest(audio, left, right)
    BY <1>1, <1>3, <1>4, <1>6
  <2>2. wanted \in left .. right - 1
    BY <1>3, <1>4, <1>6, <2>1, QuietestIs
  <2>3. (left .. right - 1) \cap audio.quiet # {} => wanted \in audio.quiet
    BY ONLY <1>3, <1>4, <1>6, <2>1, QuietestIs
  <2> HIDE DEF wanted
  <2>4. Boundary(audio, max, start) = wanted
    BY <1>2, <1>3, <1>4, <2>2 DEF Most, Least
  <2>5. wanted - start <= Most(max, max + e - 1)
    BY <1>1, <1>3, <1>4, <2>2 DEF Most
  <2>6. wanted \in Nat /\ wanted > start /\ wanted < len
    BY <1>3, <1>4, <2>2
  <2>7. searched \cap audio.quiet # {} => wanted \in audio.quiet
    BY <1>8, <2>3
  <2>8. QED
    BY <2>4, <2>5, <2>6, <2>7 DEF searched
<1>7. QED
  BY <1>1, <1>3, <1>4, <1>5, <1>6

\* What Cuts has after some turns.
CutSoFar(audio, max, cut) ==
  /\ cut.start \in 0 .. audio.len
  /\ cut.start = audio.len => audio.len = 0
  /\ cut.done \in Seq([from : Nat, to : Nat])
  /\ IF cut.done = <<>> THEN cut.start = 0
     ELSE cut.done[1].from = 0 /\ cut.done[Len(cut.done)].to = cut.start
  /\ \A i \in 1 .. Len(cut.done) :
       /\ audio.len - cut.done[i].from > max
       /\ cut.done[i].to = Boundary(audio, max, cut.done[i].from)
  /\ \A i \in 1 .. Len(cut.done) - 1 : cut.done[i+1].from = cut.done[i].to

LEMMA CutOffIs ==
  ASSUME NEW audio, audio.len \in Nat, NEW max \in Nat \ {0}, NEW k \in Nat,
         NEW cut \in [done : Seq([from : Nat, to : Nat]), start : Nat],
         CutSoFar(audio, max, cut), cut.start >= k \/ audio.len - cut.start <= max,
         NEW new, new = CutOff(audio, max, cut)
  PROVE  /\ new \in [done : Seq([from : Nat, to : Nat]), start : Nat]
         /\ CutSoFar(audio, max, new)
         /\ new.start >= k + 1 \/ audio.len - new.start <= max
<1>1. CASE audio.len - cut.start <= max
  <2>1. new = cut
    BY <1>1 DEF CutOff
  <2>2. QED
    BY <1>1, <2>1
<1>2. CASE ~(audio.len - cut.start <= max)
  <2> DEFINE b == Boundary(audio, max, cut.start)
             piece == [from |-> cut.start, to |-> b]
             n == Len(cut.done)
  <2>1. cut.start \in Nat /\ audio.len - cut.start > max
    BY <1>2
  <2>2. b \in Nat /\ b > cut.start /\ b < audio.len
    BY <2>1, BoundaryIs
  <2>3. new = [done |-> Append(cut.done, piece), start |-> b]
    BY <1>2 DEF CutOff
  <2>4. piece \in [from : Nat, to : Nat] /\ piece.from = cut.start /\ piece.to = b
    BY <2>1, <2>2
  <2>8. piece.to = Boundary(audio, max, piece.from)
    OBVIOUS
  <2> HIDE DEF b, piece
  <2>5. /\ new.done \in Seq([from : Nat, to : Nat]) /\ new.start = b
        /\ n \in Nat /\ Len(new.done) = n + 1 /\ new.done[n + 1] = piece
        /\ \A i \in 1 .. n : new.done[i] = cut.done[i]
    BY <2>3, <2>4
  <2>6. new \in [done : Seq([from : Nat, to : Nat]), start : Nat]
    BY <2>2, <2>3, <2>5
  <2>7. new.start \in 0 .. audio.len /\ new.start # audio.len
    BY <2>2, <2>5
  <2>9. new.done # <<>> /\ new.done[1].from = 0 /\ new.done[Len(new.done)].to = new.start
    <3>1. new.done # <<>>
      BY <2>5
    <3>2. new.done[1].from = 0
      <4>1. CASE n = 0
        <5>1. cut.done = <<>>
          BY <4>1
        <5>2. QED
          BY <4>1, <5>1, <2>4, <2>5 DEF CutSoFar
      <4>2. CASE n # 0
        <5>1. cut.done # <<>> /\ 1 \in 1 .. n
          BY <4>2, <2>5
        <5>2. QED
          BY <5>1, <2>5 DEF CutSoFar
      <4>3. QED
        BY <4>1, <4>2
    <3>3. QED
      BY <3>1, <3>2, <2>4, <2>5
  <2>10. ASSUME NEW i \in 1 .. Len(new.done)
         PROVE  /\ audio.len - new.done[i].from > max
                /\ new.done[i].to = Boundary(audio, max, new.done[i].from)
    <3>1. CASE i \in 1 .. n
      BY <3>1, <2>5 DEF CutSoFar
    <3>2. CASE i = n + 1
      BY <3>2, <2>1, <2>4, <2>5, <2>8
    <3>3. QED
      BY <3>1, <3>2, <2>5
  <2>11. ASSUME NEW i \in 1 .. Len(new.done) - 1 PROVE new.done[i+1].from = new.done[i].to
    <3>1. i \in 1 .. n /\ n \in Nat
      BY <2>5
    <3>2. CASE i = n
      <4>1. cut.done # <<>>
        BY <3>1
      <4>2. cut.done[n].to = cut.start
        BY <4>1 DEF CutSoFar
      <4>3. QED
        BY <3>1, <3>2, <4>2, <2>4, <2>5
    <3>3. CASE i # n
      <4>1. i \in 1 .. n - 1 /\ i + 1 \in 1 .. n
        BY <3>1, <3>3
      <4>2. QED
        BY <4>1, <3>1, <2>5 DEF CutSoFar
    <3>4. QED
      BY <3>2, <3>3
  <2>12. new.start >= k + 1
    BY <1>2, <2>2, <2>5
  <2>13. CutSoFar(audio, max, new)
    BY <2>5, <2>7, <2>9, <2>10, <2>11 DEF CutSoFar
  <2>14. QED
    BY <2>6, <2>12, <2>13
<1>3. QED
  BY <1>1, <1>2

\* The pieces c go from the start of the audio to its end, each cut off at its boundary
\* while more than max is left.
CutsTile(c, audio, max) ==
  /\ c \in Seq([from : Nat, to : Nat]) /\ c # <<>>
  /\ c[1].from = 0 /\ c[Len(c)].to = audio.len
  /\ audio.len - c[Len(c)].from <= max
  /\ c[Len(c)].from < audio.len \/ audio.len = 0
  /\ \A i \in 1 .. Len(c) - 1 :
       /\ c[i+1].from = c[i].to
       /\ audio.len - c[i].from > max
       /\ c[i].to = Boundary(audio, max, c[i].from)

\* The cuts of an audio follow each other from its first sample to its last, and
\* all but the last end at a boundary.
LEMMA CutsIs ==
  ASSUME NEW audio, audio.len \in Nat, NEW max \in Nat \ {0}, NEW c, c = Cuts(audio, max)
  PROVE  CutsTile(c, audio, max)
<1> DEFINE n == audio.len
           T == [done : Seq([from : Nat, to : Nat]), start : Nat]
           begin == [done |-> <<>>, start |-> 0]
           F(f) == f = [k \in 0 .. n |-> IF k = 0 THEN begin ELSE CutOff(audio, max, f[k-1])]
           after == CHOOSE f : F(f)
           V == [k \in 0 .. n |-> {cut \in T : /\ CutSoFar(audio, max, cut)
                                               /\ cut.start >= k \/ audio.len - cut.start <= max}]
           next == [p \in (1 .. n) \X T |-> CutOff(audio, max, p[2])]
<1>1. n \in Nat /\ \A k \in 1 .. n : k \in 0 .. n /\ k - 1 \in 0 .. n /\ k - 1 \in Nat
  OBVIOUS
<1>2. ASSUME NEW k \in 0 .. n, NEW cut
      PROVE  cut \in V[k] <=> /\ cut \in T /\ CutSoFar(audio, max, cut)
                              /\ cut.start >= k \/ audio.len - cut.start <= max
  OBVIOUS
<1>3. \A k \in 1 .. n, cut \in T : next[<<k, cut>>] = CutOff(audio, max, cut)
  OBVIOUS
<1> HIDE DEF T, V, next
<1>4. begin \in V[0]
  <2>1. begin \in T /\ CutSoFar(audio, max, begin) /\ begin.start >= 0
    BY <1>1 DEF T, CutSoFar
  <2>2. QED
    BY <1>1, <1>2, <2>1
<1>5. ASSUME NEW k \in 1 .. n, NEW cut \in V[k-1]
      PROVE  cut \in T /\ next[<<k, cut>>] = CutOff(audio, max, cut) /\ next[<<k, cut>>] \in V[k]
  <2>1. /\ cut \in T /\ CutSoFar(audio, max, cut)
        /\ cut.start >= k - 1 \/ audio.len - cut.start <= max
    BY <1>1, <1>2
  <2>2. PICK new : new = CutOff(audio, max, cut)
    OBVIOUS
  <2>3. /\ new \in T /\ CutSoFar(audio, max, new)
        /\ new.start >= (k - 1) + 1 \/ audio.len - new.start <= max
    BY <1>1, <2>1, <2>2, CutOffIs DEF T
  <2>4. (k - 1) + 1 = k
    OBVIOUS
  <2>5. new \in V[k]
    BY <1>1, <1>2, <2>3, <2>4
  <2>6. QED
    BY <1>3, <2>1, <2>2, <2>5
<1> HIDE DEF begin
<1>6. Steps(n, V, begin, next)
  BY <1>1, <1>4, <1>5 DEF Steps
<1>7. \E f : F(f)
  <2>1. PICK f : RunThrough(f, n, V, begin, next)
    BY <1>6, Recursion
  <2>2. F(f)
    <3>1. ASSUME NEW k \in 0 .. n PROVE f[k] = IF k = 0 THEN begin ELSE CutOff(audio, max, f[k-1])
      <4>1. CASE k = 0
        BY <2>1, <4>1 DEF RunThrough
      <4>2. CASE k # 0
        <5>1. k \in 1 .. n
          BY <4>2
        <5>2. f[k-1] \in V[k-1] /\ f[k] = next[<<k, f[k-1]>>]
          BY <2>1, <5>1 DEF RunThrough
        <5>3. QED
          BY <1>5, <4>2, <5>1, <5>2
      <4>3. QED
        BY <4>1, <4>2
    <3>2. f = [k \in 0 .. n |-> f[k]]
      BY <2>1 DEF RunThrough
    <3>3. QED
      BY <3>1, <3>2
  <2> HIDE DEF F
  <2>3. QED
    BY <2>2
<1>8. F(after)
  <2> HIDE DEF F
  <2>1. QED
    BY <1>7
<1>9. c = Append(after[n].done, [from |-> after[n].start, to |-> audio.len])
  BY Zenon DEF Cuts, begin
<1> HIDE DEF after
<1>10. Follows(after, n, V, begin, next)
  BY <1>1, <1>5, <1>8 DEF Follows
<1>11. after[n] \in V[n]
  BY <1>1, <1>6, <1>10, Recursion
<1>12. PICK cut : cut = after[n]
  OBVIOUS
<1>13. /\ cut \in T /\ CutSoFar(audio, max, cut)
       /\ cut.start >= n \/ audio.len - cut.start <= max
  BY <1>1, <1>2, <1>11, <1>12
<1> DEFINE m == Len(cut.done)
           piece == [from |-> cut.start, to |-> audio.len]
<1>14. cut.start \in Nat /\ audio.len - cut.start <= max /\ (cut.start < audio.len \/ audio.len = 0)
  BY <1>13 DEF CutSoFar
<1>15. /\ c \in Seq([from : Nat, to : Nat]) /\ m \in Nat /\ Len(c) = m + 1
       /\ c[m + 1] = piece /\ \A i \in 1 .. m : c[i] = cut.done[i]
  <2>1. c = Append(cut.done, piece) /\ piece \in [from : Nat, to : Nat]
    BY <1>9, <1>12, <1>14
  <2>2. cut.done \in Seq([from : Nat, to : Nat])
    BY <1>13 DEF T
  <2> HIDE DEF piece
  <2>3. QED
    BY <2>1, <2>2
<1>16. c[1].from = 0
  <2>1. CASE m = 0
    <3>1. cut.done = <<>>
      BY <2>1, <1>13 DEF T
    <3>2. QED
      BY <2>1, <3>1, <1>13, <1>15 DEF CutSoFar
  <2>2. CASE m # 0
    <3>1. cut.done # <<>> /\ 1 \in 1 .. m
      BY <2>2, <1>15
    <3>2. QED
      BY <3>1, <1>13, <1>15 DEF CutSoFar
  <2>3. QED
    BY <2>1, <2>2
<1>17. ASSUME NEW i \in 1 .. Len(c) - 1
       PROVE  /\ c[i+1].from = c[i].to
              /\ audio.len - c[i].from > max
              /\ c[i].to = Boundary(audio, max, c[i].from)
  <2>1. i \in 1 .. m /\ c[i] = cut.done[i]
    BY ONLY <1>15
  <2>2. c[i+1].from = c[i].to
    <3>1. CASE i = m
      <4>1. cut.done # <<>>
        BY <2>1
      <4>2. cut.done[m].to = cut.start
        BY <4>1, <1>13 DEF CutSoFar
      <4>3. QED
        BY <3>1, <4>2, <2>1, <1>15
    <3>2. CASE i # m
      <4>1. i \in 1 .. m - 1 /\ i + 1 \in 1 .. m
        BY <2>1, <3>2, <1>15, SMTT(30)
      <4>2. QED
        BY <4>1, <2>1, <1>13, <1>15 DEF CutSoFar
    <3>3. QED
      BY <3>1, <3>2
  <2>3. QED
    BY <2>1, <2>2, <1>13 DEF CutSoFar
<1>18. c # <<>> /\ c[Len(c)] = piece
  BY <1>15
<1>19. QED
  BY <1>14, <1>15, <1>16, <1>17, <1>18 DEF CutsTile

Chunks == [of : Nat, from : Nat, to : Nat, offset : Nat, samples : Nat]

\* The chunks s of an audio follow each other from its first sample to its last.
Tiles(s, audio, max) ==
  /\ s # <<>>
  /\ s[1].from = 0 /\ s[Len(s)].to = audio.len
  /\ \A k \in 1 .. Len(s) :
       /\ s[k].offset = s[k].from
       /\ s[k].from <= s[k].to
       /\ s[k].to > s[k].from \/ audio.len = 0
       /\ s[k].to - s[k].from <= Most(max, max + Expand(max) - 1)
       /\ s[k].samples >= s[k].to - s[k].from
  /\ \A k \in 1 .. Len(s) - 1 :
       /\ s[k+1].from = s[k].to
       /\ \E searched \in {s[k].from + max - Expand(max)
                            .. Least(s[k].from + max + Expand(max), audio.len) - 1} :
            (searched \cap audio.quiet # {} /\ Cardinality(searched) > Win)
              => s[k].to \in audio.quiet

LEMMA SplitIs ==
  ASSUME NEW i \in Nat, NEW audio, audio.len \in Nat, NEW max \in Nat \ {0},
         NEW s, s = SplitAudio(i, audio, max)
  PROVE  s \in Seq(Chunks) /\ Tiles(s, audio, max) /\ \A k \in 1 .. Len(s) : s[k].of = i
<1> DEFINE n == audio.len
           most == Most(max, max + Expand(max) - 1)
<1> USE OfflineAssumption
<1>1. PICK c : c = Cuts(audio, max)
  OBVIOUS
<1>2. /\ c \in Seq([from : Nat, to : Nat]) /\ c # <<>>
      /\ c[1].from = 0 /\ c[Len(c)].to = n
      /\ n - c[Len(c)].from <= max
      /\ c[Len(c)].from < n \/ n = 0
      /\ \A j \in 1 .. Len(c) - 1 :
           /\ c[j+1].from = c[j].to
           /\ n - c[j].from > max
           /\ c[j].to = Boundary(audio, max, c[j].from)
  <2>1. CutsTile(c, audio, max)
    BY <1>1, CutsIs
  <2>2. QED
    BY <2>1 DEF CutsTile
<1>3. Len(c) \in Nat /\ Len(c) >= 1 /\ \A k \in 1 .. Len(c) : c[k].from \in Nat /\ c[k].to \in Nat
  <2>1. c \in Seq([from : Nat, to : Nat]) /\ c # <<>>
    BY <1>2
  <2>2. Len(c) \in Nat /\ Len(c) >= 1
    BY <2>1
  <2>3. ASSUME NEW k \in 1 .. Len(c) PROVE c[k] \in [from : Nat, to : Nat]
    <3> DEFINE R == [from : Nat, to : Nat]
    <3>1. c \in Seq(R)
      BY <2>1
    <3> HIDE DEF R
    <3>2. c[k] \in R
      BY <3>1
    <3>3. QED
      BY <3>2 DEF R
  <2>4. QED
    BY <2>2, <2>3
<1>4. max <= most /\ most \in Int
  <2>1. Expand(max) \in Nat
    <3>1. max \div 2 \in Nat
      OBVIOUS
    <3>2. QED
      BY <3>1, Lesser DEF Expand
  <2>2. QED
    BY <2>1, Lesser
<1>5. ASSUME NEW k \in 1 .. Len(c)
      PROVE  (c[k].to > c[k].from \/ n = 0) /\ c[k].to >= c[k].from /\ c[k].to - c[k].from <= most
  <2>1. CASE k = Len(c)
    <3>1. PICK x \in Nat : x = c[k].from
      BY <1>3
    <3>2. c[k].to = n /\ n - x <= max /\ (x < n \/ n = 0)
      BY <1>2, <2>1, <3>1
    <3>3. n >= x
      <4>1. CASE k = 1
        BY <1>2, <3>1, <4>1
      <4>2. CASE k # 1
        <5>1. k - 1 \in 1 .. Len(c) - 1 /\ (k - 1) + 1 = k /\ k - 1 \in 1 .. Len(c)
          BY <1>3, <4>2
        <5>2. n - c[k-1].from > max /\ c[k-1].from \in Nat
          BY <1>2, <1>3, <5>1
        <5>3. n # 0
          BY <5>2
        <5>4. QED
          BY <3>2, <5>3
      <4>3. QED
        BY <4>1, <4>2
    <3>4. QED
      BY <3>1, <3>2, <3>3, <1>4
  <2>2. CASE k # Len(c)
    <3>1. k \in 1 .. Len(c) - 1 /\ c[k].from \in Nat /\ c[k].to \in Nat
      BY <1>3, <2>2
    <3>2. n - c[k].from > max /\ c[k].to = Boundary(audio, max, c[k].from)
      BY <1>2, <3>1
    <3>3. /\ Boundary(audio, max, c[k].from) > c[k].from
          /\ Boundary(audio, max, c[k].from) - c[k].from <= most
      BY <3>1, <3>2, BoundaryIs
    <3>4. QED
      BY <3>1, <3>2, <3>3
  <2>3. QED
    BY <2>1, <2>2
<1> DEFINE size(k) == LET m == c[k].to - c[k].from IN IF Len(c) > 1 THEN Most(m, MinLen) ELSE m
           chunk(k) == [of |-> i, from |-> c[k].from, to |-> c[k].to, offset |-> c[k].from,
                        samples |-> size(k)]
<1>6. s = [k \in 1 .. Len(c) |-> chunk(k)]
  BY <1>1 DEF SplitAudio
<1>7. ASSUME NEW k \in 1 .. Len(c) PROVE size(k) \in Nat /\ size(k) >= c[k].to - c[k].from
  BY <1>3, <1>5, Lesser
<1> HIDE DEF size
<1>8. ASSUME NEW k \in 1 .. Len(c) PROVE chunk(k) \in Chunks
  BY <1>3, <1>7 DEF Chunks
<1>9. s \in Seq(Chunks) /\ Len(s) = Len(c)
  BY <1>3, <1>6, <1>8
<1>10. ASSUME NEW k \in 1 .. Len(c)
       PROVE  /\ s[k].of = i /\ s[k].from = c[k].from /\ s[k].to = c[k].to
              /\ s[k].offset = c[k].from /\ s[k].samples = size(k)
  BY <1>6
<1>11. ASSUME NEW k \in 1 .. Len(s)
       PROVE  /\ s[k].offset = s[k].from
              /\ s[k].from <= s[k].to
              /\ s[k].to > s[k].from \/ audio.len = 0
              /\ s[k].to - s[k].from <= most
              /\ s[k].samples >= s[k].to - s[k].from
  <2>1. k \in 1 .. Len(c) /\ c[k].from \in Nat /\ c[k].to \in Nat
    BY <1>3, <1>9
  <2>2. QED
    BY <2>1, <1>5, <1>7, <1>10
<1>12. ASSUME NEW k \in 1 .. Len(s) - 1
       PROVE  /\ s[k+1].from = s[k].to
              /\ \E searched \in {s[k].from + max - Expand(max)
                            .. Least(s[k].from + max + Expand(max), audio.len) - 1} :
                   (searched \cap audio.quiet # {} /\ Cardinality(searched) > Win)
                      => s[k].to \in audio.quiet
  <2>1. k \in 1 .. Len(c) - 1 /\ k \in 1 .. Len(c) /\ k + 1 \in 1 .. Len(c) /\ c[k].from \in Nat
    BY <1>3, <1>9
  <2>2. /\ s[k+1].from = c[k+1].from /\ s[k].to = c[k].to /\ s[k].from = c[k].from
    BY <1>10, <2>1
  <2>3. c[k+1].from = c[k].to /\ n - c[k].from > max /\ c[k].to = Boundary(audio, max, c[k].from)
    BY <1>2, <2>1
  <2>4. PICK x \in Nat : x = s[k].from
    BY <2>1, <2>2
  <2>5. s[k].to = Boundary(audio, max, x) /\ audio.len - x > max
    BY <2>2, <2>3, <2>4
  <2>6. \E searched \in {x + max - Expand(max) .. Least(x + max + Expand(max), audio.len) - 1} :
          (searched \cap audio.quiet # {} /\ Cardinality(searched) > Win)
             => Boundary(audio, max, x) \in audio.quiet
    BY <2>5, BoundaryIs
  <2>7. QED
    BY <2>2, <2>3, <2>4, <2>5, <2>6
<1>13. s # <<>> /\ s[1].from = 0 /\ s[Len(s)].to = audio.len
  BY <1>2, <1>3, <1>9, <1>10
<1>14. Tiles(s, audio, max)
  BY <1>11, <1>12, <1>13 DEF Tiles
<1>15. QED
  BY <1>9, <1>10, <1>14

\* The chunks of a call: st says where those of each audio start.
ChunksAre(cs, st, audios, max) ==
  /\ cs \in Seq(Chunks)
  /\ st \in [0 .. Len(audios) -> Nat] /\ st[0] = 0 /\ st[Len(audios)] = Len(cs)
  /\ \A i \in 1 .. Len(audios) :
       /\ st[i] = st[i-1] + Len(SplitAudio(i, audios[i], max))
       /\ \A k \in 1 .. Len(SplitAudio(i, audios[i], max)) :
            cs[st[i-1] + k] = SplitAudio(i, audios[i], max)[k]
       /\ {k \in 1 .. Len(cs) : cs[k].of = i} = st[i-1] + 1 .. st[i]
       /\ {k \in 1 .. Len(cs) : cs[k].of < i} = 1 .. st[i-1]

LEMMA ChunksOfIs ==
  ASSUME NEW audios, Len(audios) \in Nat, \A i \in 1 .. Len(audios) : audios[i].len \in Nat,
         NEW max \in Nat \ {0}
  PROVE  \E st : ChunksAre(ChunksOf(audios, max), st, audios, max)
<1> DEFINE n == Len(audios)
           part(i) == SplitAudio(i, audios[i], max)
           s == [i \in 1 .. n |-> part(i)]
           cs == ChunksOf(audios, max)
<1>1. ASSUME NEW i \in 1 .. n
      PROVE  part(i) \in Seq(Chunks) /\ Len(part(i)) \in Nat /\ \A k \in 1 .. Len(part(i)) : part(i)[k].of = i
  <2>1. part(i) \in Seq(Chunks) /\ \A k \in 1 .. Len(part(i)) : part(i)[k].of = i
    BY SplitIs
  <2>2. QED
    BY <2>1
<1>2. cs = FlattenSeq(s)
  BY DEF ChunksOf
<1> HIDE DEF part
<1>3. s \in Seq(Seq(Chunks)) /\ Len(s) = n /\ \A i \in 1 .. n : s[i] = part(i)
  BY <1>1
<1> HIDE DEF s, cs
<1>4. PICK st : StartsAt(st, s)
  BY <1>3, StartsExist
<1>5. cs \in Seq(Chunks) /\ Spread(cs, st, s, n)
  BY <1>2, <1>3, <1>4, FlattenAt
<1>6. st \in [0 .. n -> Nat] /\ st[0] = 0 /\ st[n] = Len(cs)
  BY <1>3, <1>4, <1>5 DEF StartsAt, Spread
<1>7. ASSUME NEW i \in 1 .. n
      PROVE  /\ st[i-1] \in Nat /\ st[i] = st[i-1] + Len(part(i)) /\ st[i] <= Len(cs)
             /\ \A k \in 1 .. Len(part(i)) : cs[st[i-1] + k] = part(i)[k]
  <2>1. st[i-1] \in Nat /\ st[i] = st[i-1] + Len(s[i]) /\ s[i] = part(i)
    <3>1. i \in 1 .. Len(s) /\ s[i] = part(i)
      BY <1>3
    <3>2. st[i-1] \in Nat /\ st[i] = st[i-1] + Len(s[i])
      BY <1>3, <1>4, <3>1, StartsType
    <3>3. QED
      BY <3>1, <3>2
  <2>2. st[i-1] + Len(s[i]) <= Len(cs) /\ \A k \in 1 .. Len(s[i]) : cs[st[i-1] + k] = s[i][k]
    BY <1>3, <1>5 DEF Spread
  <2>3. QED
    BY <2>1, <2>2
<1>8. ASSUME NEW k \in 1 .. Len(cs)
      PROVE  \E j \in 1 .. n : /\ cs[k].of = j /\ st[j-1] < k /\ k <= st[j]
  <2>1. PICK j \in 1 .. n : \E m \in 1 .. Len(s[j]) : k = st[j-1] + m
    BY <1>5 DEF Spread
  <2>2. PICK m \in 1 .. Len(part(j)) : k = st[j-1] + m
    BY <2>1, <1>3
  <2>3. cs[k].of = j
    BY <2>2, <1>1, <1>7
  <2>4. st[j-1] < k /\ k <= st[j]
    BY <2>2, <1>1, <1>7
  <2>5. QED
    BY <2>3, <2>4
<1>9. ASSUME NEW a \in 0 .. n, NEW b \in 0 .. n, a <= b PROVE st[a] <= st[b]
  <2>1. a \in 0 .. Len(s) /\ b \in 0 .. Len(s)
    BY <1>3
  <2>2. QED
    BY <1>3, <1>4, <1>9, <2>1, StartsGrow
<1>10. ASSUME NEW i \in 1 .. n, NEW k \in 1 .. Len(cs)
       PROVE  /\ cs[k].of = i <=> k \in st[i-1] + 1 .. st[i]
              /\ cs[k].of < i <=> k \in 1 .. st[i-1]
  <2>1. PICK j \in 1 .. n : cs[k].of = j /\ st[j-1] < k /\ k <= st[j]
    BY <1>8
  <2>2. i - 1 \in 0 .. n /\ i \in 0 .. n /\ j - 1 \in 0 .. n /\ j \in 0 .. n
    OBVIOUS
  <2>3. st[i-1] \in Nat /\ st[i] \in Nat /\ st[j-1] \in Nat /\ st[j] \in Nat
    BY <1>6, <2>2
  <2>4. CASE j < i
    <3>1. st[j] <= st[i-1]
      BY <1>9, <2>2, <2>4
    <3>2. QED
      BY <2>1, <2>3, <2>4, <3>1
  <2>5. CASE j = i
    BY <2>1, <2>3, <2>5
  <2>6. CASE j > i
    <3>1. st[i] <= st[j-1] /\ st[i-1] <= st[i]
      BY <1>9, <2>2, <2>6
    <3>2. QED
      BY <2>1, <2>3, <2>6, <3>1
  <2>7. QED
    BY <2>4, <2>5, <2>6
<1>11. ASSUME NEW i \in 1 .. n
       PROVE  /\ {k \in 1 .. Len(cs) : cs[k].of = i} = st[i-1] + 1 .. st[i]
              /\ {k \in 1 .. Len(cs) : cs[k].of < i} = 1 .. st[i-1]
  <2>1. st[i-1] \in Nat /\ st[i] \in Nat /\ st[i] <= Len(cs) /\ st[i-1] <= st[i] /\ Len(cs) \in Nat
    BY <1>1, <1>5, <1>7
  <2>2. \A k : k \in st[i-1] + 1 .. st[i] => k \in 1 .. Len(cs)
    BY <2>1
  <2>3. \A k : k \in 1 .. st[i-1] => k \in 1 .. Len(cs)
    BY <2>1
  <2>4. QED
    BY <1>10, <2>2, <2>3
<1>12. ChunksAre(cs, st, audios, max)
  BY <1>5, <1>6, <1>7, <1>11 DEF ChunksAre, part
<1>13. QED
  BY <1>12 DEF cs

--------------------------------------------------------------------------------
\* The call and its chunks.

\* The call is one of those allowed, and once it is prepared its audios are cut.
CutForCall ==
  /\ call \in OfflineCalls
  /\ Prepared => chunks = ChunksOf(call.audios, ChunkMax)

LEMMA ChunkMaxIs ==
  ASSUME call \in OfflineCalls
  PROVE  ChunkMax \in Nat \ {0}
<1>1. call.chunkMax \in Nat
  BY DEF OfflineCalls
<1>2. QED
  BY <1>1, OfflineAssumption DEF ChunkMax, Least

LEMMA CallAudios ==
  ASSUME call \in OfflineCalls
  PROVE  /\ call.audios \in Seq([len : Nat, quiet : SUBSET Nat, forced : STRING])
         /\ Len(call.audios) \in Nat
         /\ \A i \in 1 .. Len(call.audios) : call.audios[i].len \in Nat /\ call.audios[i].forced \in STRING
<1> DEFINE A == [len : Nat, quiet : SUBSET Nat, forced : STRING]
<1>1. call.audios \in Seq(A)
  BY DEF OfflineCalls
<1>2. \A x \in A : x.len \in Nat /\ x.forced \in STRING
  OBVIOUS
<1> HIDE DEF A
<1>3. Len(call.audios) \in Nat /\ \A i \in 1 .. Len(call.audios) : call.audios[i] \in A
  BY <1>1
<1>4. call.audios \in Seq(A) /\ \A i \in 1 .. Len(call.audios) : call.audios[i].len \in Nat /\ call.audios[i].forced \in STRING
  BY <1>1, <1>2, <1>3
<1>5. QED
  BY <1>3, <1>4 DEF A

LEMMA CutStays ==
  ASSUME CutForCall, [OfflineNext]_offlineVars
  PROVE  CutForCall'
<1> USE DEF CutForCall
<1>1. CASE Prepare
  <2>1. call' = call /\ chunks' = ChunksOf(call.audios, ChunkMax)
    BY <1>1 DEF Prepare
  <2>2. ChunkMax' = ChunkMax
    BY <2>1 DEF ChunkMax, Aligner
  <2>3. QED
    BY <2>1, <2>2
<1>2. CASE Delegate
  <2>1. status' = status /\ status = "called"
    BY <1>2 DEF Delegate
  <2>2. ~Prepared'
    BY <2>1 DEF Prepared
  <2>3. call' \in OfflineCalls
    BY <1>2 DEF Delegate, OfflineCalls
  <2>4. QED
    BY <2>2, <2>3
<1>3. CASE call' = call /\ chunks' = chunks /\ (Prepared' => Prepared)
  <2>1. ChunkMax' = ChunkMax
    BY <1>3 DEF ChunkMax, Aligner
  <2>2. QED
    BY <1>3, <2>1
<1>4. CASE Refuse \/ FailGroup
  BY <1>3, <1>4 DEF Refuse, FailGroup, Prepared
<1>5. CASE AsrGroup \/ AlignedGroup
  BY <1>3, <1>5 DEF AsrGroup, AlignedGroup, Answer, Prepared
<1>6. CASE Merge
  BY <1>3, <1>6 DEF Merge, Prepared
<1>7. CASE UNCHANGED offlineVars
  BY <1>3, <1>7 DEF offlineVars, Prepared
<1>8. QED
  BY <1>1, <1>2, <1>4, <1>5, <1>6, <1>7 DEF OfflineNext, Transcribe, TranscribeTimed,
     TranscribeAligned, TranscribeAlignedTimed, RunAsr, RunAsrTimed, RunAligned,
     RunAlignedTimed, MergeOutputs, MergeOutputsTimed, MergeAligned, MergeAlignedTimed

LEMMA CutFirst == OfflineInit => CutForCall
<1> SUFFICES ASSUME OfflineInit PROVE CutForCall
  OBVIOUS
<1>1. status = "called" /\ call \in OfflineCalls
  BY OfflineAssumption DEF OfflineInit
<1>2. QED
  BY <1>1 DEF CutForCall, Prepared

LEMMA CutAlways == OfflineSpec => []CutForCall
  BY CutFirst, CutStays, PTL DEF OfflineSpec

\* What is known of the chunks of a prepared call; st says where those of each audio start.
LEMMA ChunksKnown ==
  ASSUME CutForCall, Prepared
  PROVE  \E st : ChunksAre(chunks, st, call.audios, ChunkMax)
<1>1. chunks = ChunksOf(call.audios, ChunkMax) /\ call \in OfflineCalls
  BY DEF CutForCall
<1>2. QED
  BY <1>1, ChunkMaxIs, CallAudios, ChunksOfIs

\* s are the chunks of audio i, which follow each other in the list of all chunks.
OwnAre(i, st, s) ==
  /\ st[i-1] \in Nat /\ Len(s) \in Nat /\ st[i] = st[i-1] + Len(s) /\ st[i] <= Len(chunks)
  /\ OwnChunks(i) = [m \in 1 .. Len(s) |-> st[i-1] + m]
  /\ \A m \in 1 .. Len(s) : chunks[st[i-1] + m] = s[m]
  /\ Cardinality({k \in 1 .. Len(chunks) : chunks[k].of < i}) = st[i-1]
  /\ s \in Seq(Chunks) /\ Tiles(s, call.audios[i], ChunkMax)
  /\ \A k \in 1 .. Len(s) : s[k].of = i

LEMMA OwnChunksAre ==
  ASSUME CutForCall, NEW st, ChunksAre(chunks, st, call.audios, ChunkMax),
         NEW i \in 1 .. Len(call.audios),
         NEW s, s = SplitAudio(i, call.audios[i], ChunkMax)
  PROVE  OwnAre(i, st, s)
<1>1. call \in OfflineCalls
  BY DEF CutForCall
<1>2. call.audios[i].len \in Nat /\ ChunkMax \in Nat \ {0} /\ i \in Nat /\ Len(call.audios) \in Nat
  BY <1>1, ChunkMaxIs, CallAudios
<1>3. s \in Seq(Chunks) /\ Tiles(s, call.audios[i], ChunkMax) /\ \A k \in 1 .. Len(s) : s[k].of = i
  <2>1. PICK audio, max : audio = call.audios[i] /\ max = ChunkMax
    OBVIOUS
  <2>2. audio.len \in Nat /\ max \in Nat \ {0} /\ i \in Nat /\ s = SplitAudio(i, audio, max)
    BY <1>2, <2>1
  <2>3. s \in Seq(Chunks) /\ Tiles(s, audio, max) /\ \A k \in 1 .. Len(s) : s[k].of = i
    BY <2>2, SplitIs
  <2>4. QED
    BY <2>1, <2>3, Zenon
<1>4. /\ st[i] = st[i-1] + Len(s)
      /\ \A k \in 1 .. Len(s) : chunks[st[i-1] + k] = s[k]
      /\ {k \in 1 .. Len(chunks) : chunks[k].of = i} = st[i-1] + 1 .. st[i]
      /\ {k \in 1 .. Len(chunks) : chunks[k].of < i} = 1 .. st[i-1]
  BY DEF ChunksAre
<1>5. st[i-1] \in Nat /\ st[i] \in Nat /\ Len(s) \in Nat
  <2>1. i - 1 \in 0 .. Len(call.audios) /\ i \in 0 .. Len(call.audios)
    BY <1>2
  <2>2. st \in [0 .. Len(call.audios) -> Nat]
    BY DEF ChunksAre
  <2>3. st[i-1] \in Nat /\ st[i] \in Nat
    BY <2>1, <2>2
  <2>4. Len(s) \in Nat
    BY <1>3
  <2>5. QED
    BY <2>3, <2>4
<1>6. Len(s) >= 1
  BY <1>3, <1>5 DEF Tiles
<1>7. st[i] <= Len(chunks)
  <2>1. st[i] \in st[i-1] + 1 .. st[i]
    BY <1>4, <1>5, <1>6
  <2>2. st[i] \in 1 .. Len(chunks)
    BY <2>1, <1>4
  <2>3. Len(chunks) \in Nat
    BY DEF ChunksAre
  <2>4. QED
    BY <2>2, <2>3
<1>8. OwnChunks(i) = [m \in 1 .. Len(s) |-> st[i-1] + m]
  <2>1. OwnChunks(i) = Ascending(st[i-1] + 1 .. st[i-1] + Len(s))
    BY <1>4 DEF OwnChunks
  <2>2. QED
    BY <2>1, <1>5, AscendingRange
<1>9. Cardinality({k \in 1 .. Len(chunks) : chunks[k].of < i}) = st[i-1]
  <2>1. Cardinality(1 .. st[i-1]) = st[i-1]
    <3>1. PICK x \in Nat : x = st[i-1]
      BY <1>5
    <3>2. Cardinality(1 .. x) = x
      BY FS_Interval
    <3>3. QED
      BY <3>1, <3>2
  <2>2. QED
    BY <2>1, <1>4
<1>10. QED
  BY <1>3, <1>4, <1>5, <1>7, <1>8, <1>9 DEF OwnAre

\* ChunksTileAudio: the chunks of every audio follow each other from its first sample to
\* its last, at quiet places where there are some.
THEOREM ChunksAlwaysTile == OfflineSpec => []ChunksTileAudio
<1>1. CutForCall => ChunksTileAudio
  <2> SUFFICES ASSUME CutForCall, Prepared, NEW i \in 1 .. Len(call.audios)
               PROVE  \E own \in {OwnChunks(i)} : \E audio \in {call.audios[i]} :
            /\ own # <<>>
            /\ chunks[own[1]].from = 0 /\ chunks[own[Len(own)]].to = audio.len
            /\ \A k \in 1..Len(own) : \E c \in {chunks[own[k]]} :
                 /\ c.offset = c.from
                 /\ c.to > c.from \/ audio.len = 0
                 /\ c.to - c.from <= Most(ChunkMax, ChunkMax + Expand(ChunkMax) - 1)
                 /\ c.samples >= c.to - c.from
            /\ \A k \in 1..Len(own) - 1 : \E c \in {chunks[own[k]]} :
                 /\ chunks[own[k + 1]].from = c.to
                 /\ \E searched \in {c.from + ChunkMax - Expand(ChunkMax)
                          ..Least(c.from + ChunkMax + Expand(ChunkMax), audio.len) - 1} :
                      (searched \cap audio.quiet # {} /\ Cardinality(searched) > Win)
                          => c.to \in audio.quiet
    BY DEF ChunksTileAudio
  <2>1. PICK st : ChunksAre(chunks, st, call.audios, ChunkMax)
    BY ChunksKnown
  <2>2. PICK s : s = SplitAudio(i, call.audios[i], ChunkMax)
    OBVIOUS
  <2>3. /\ st[i-1] \in Nat /\ Len(s) \in Nat
        /\ OwnChunks(i) = [m \in 1 .. Len(s) |-> st[i-1] + m]
        /\ \A m \in 1 .. Len(s) : chunks[st[i-1] + m] = s[m]
        /\ s \in Seq(Chunks) /\ Tiles(s, call.audios[i], ChunkMax)
    <3>1. OwnAre(i, st, s)
      BY <2>1, <2>2, OwnChunksAre
    <3>2. QED
      BY <3>1 DEF OwnAre
  <2>4. PICK own : own = OwnChunks(i)
    OBVIOUS
  <2>5. Len(own) = Len(s) /\ Len(s) >= 1 /\ \A m \in 1 .. Len(s) : chunks[own[m]] = s[m]
    BY <2>3, <2>4 DEF Tiles
  <2>6. own # <<>> /\ chunks[own[1]].from = 0 /\ chunks[own[Len(own)]].to = call.audios[i].len
    BY <2>3, <2>5 DEF Tiles
  <2>7. ASSUME NEW k \in 1 .. Len(own) - 1
        PROVE  /\ chunks[own[k+1]].from = chunks[own[k]].to
               /\ \E searched \in {chunks[own[k]].from + ChunkMax - Expand(ChunkMax)
                          ..Least(chunks[own[k]].from + ChunkMax + Expand(ChunkMax), call.audios[i].len) - 1} :
                      (searched \cap call.audios[i].quiet # {} /\ Cardinality(searched) > Win)
                          => chunks[own[k]].to \in call.audios[i].quiet
    <3>1. k \in 1 .. Len(s) - 1 /\ k \in 1 .. Len(s) /\ k + 1 \in 1 .. Len(s)
      BY <2>3, <2>5
    <3>2. chunks[own[k]] = s[k] /\ chunks[own[k+1]] = s[k+1]
      BY <3>1, <2>5
    <3>3. QED
      BY <3>1, <3>2, <2>3 DEF Tiles
  <2>8. ASSUME NEW k \in 1 .. Len(own)
        PROVE  /\ chunks[own[k]].offset = chunks[own[k]].from
               /\ chunks[own[k]].to > chunks[own[k]].from \/ call.audios[i].len = 0
               /\ chunks[own[k]].to - chunks[own[k]].from <= Most(ChunkMax, ChunkMax + Expand(ChunkMax) - 1)
               /\ chunks[own[k]].samples >= chunks[own[k]].to - chunks[own[k]].from
    BY <2>3, <2>5 DEF Tiles
  <2>9. QED
    BY <2>4, <2>6, <2>7, <2>8
<1>2. QED
  BY <1>1, CutAlways, PTL

--------------------------------------------------------------------------------
\* Sums and groups.

SumOf(f, s) == f = [k \in 0 .. Len(s) |-> IF k = 0 THEN 0 ELSE f[k-1] + s[k]]

LEMMA TotalRuns ==
  ASSUME NEW s \in Seq(Nat)
  PROVE  \E f : SumOf(f, s) /\ (\A k \in 0 .. Len(s) : f[k] \in Nat) /\ Total(s) = f[Len(s)]
<1> DEFINE n == Len(s)
           F(f) == f = [k \in 0 .. n |-> IF k = 0 THEN 0 ELSE f[k-1] + s[k]]
           sum == CHOOSE f : F(f)
           V == [k \in 0 .. n |-> Nat]
           next == [p \in (1 .. n) \X Nat |-> p[2] + s[p[1]]]
<1>1. n \in Nat /\ (\A k \in 1 .. n : s[k] \in Nat /\ k - 1 \in 0 .. n /\ k \in 0 .. n)
  OBVIOUS
<1>2. \A k \in 0 .. n : V[k] = Nat
  OBVIOUS
<1>3. \A k \in 1 .. n, v \in Nat : next[<<k, v>>] = v + s[k]
  OBVIOUS
<1> HIDE DEF V, next
<1>4. Steps(n, V, 0, next)
  <2>1. 0 \in V[0]
    BY <1>1, <1>2
  <2>2. ASSUME NEW k \in 1 .. n, NEW v \in V[k-1] PROVE next[<<k, v>>] \in V[k]
    <3>1. k - 1 \in 0 .. n /\ k \in 0 .. n /\ s[k] \in Nat
      BY <1>1
    <3>2. v \in Nat /\ V[k] = Nat
      BY <1>2, <3>1
    <3>3. next[<<k, v>>] = v + s[k]
      BY <1>3, <3>2
    <3>4. QED
      BY <3>1, <3>2, <3>3
  <2>3. QED
    BY <1>1, <2>1, <2>2 DEF Steps
<1>5. \E f : F(f)
  <2>1. PICK f : RunThrough(f, n, V, 0, next)
    BY <1>4, Recursion
  <2>2. ASSUME NEW k \in 0 .. n PROVE f[k] = IF k = 0 THEN 0 ELSE f[k-1] + s[k]
    <3>1. CASE k = 0
      BY <2>1, <3>1 DEF RunThrough
    <3>2. CASE k # 0
      <4>1. k \in 1 .. n
        BY <3>2
      <4>2. f[k-1] \in V[k-1] /\ f[k] = next[<<k, f[k-1]>>]
        BY <2>1, <4>1 DEF RunThrough
      <4>3. f[k-1] \in Nat
        BY <4>1, <4>2, <1>1, <1>2
      <4>4. QED
        BY <3>2, <4>1, <4>2, <4>3, <1>3
    <3>3. QED
      BY <3>1, <3>2
  <2>3. f = [k \in 0 .. n |-> f[k]]
    BY <2>1 DEF RunThrough
  <2>4. F(f)
    BY <2>2, <2>3
  <2> HIDE DEF F
  <2>5. QED
    BY <2>4
<1>6. F(sum)
  <2> HIDE DEF F
  <2>1. QED
    BY <1>5
<1>7. Total(s) = sum[n]
  BY Zenon DEF Total
<1> HIDE DEF sum
<1>8. Follows(sum, n, V, 0, next)
  <2>1. \A k \in 0 .. n : sum[k] = IF k = 0 THEN 0 ELSE sum[k-1] + s[k]
    BY <1>6
  <2>2. sum[0] = 0
    BY <1>1, <2>1
  <2>3. ASSUME NEW k \in 1 .. n, sum[k-1] \in V[k-1] PROVE sum[k] = next[<<k, sum[k-1]>>]
    <3>1. sum[k] = sum[k-1] + s[k]
      BY <1>1, <2>1
    <3>2. sum[k-1] \in Nat
      BY <2>3, <1>1, <1>2
    <3>3. QED
      BY <1>3, <3>1, <3>2
  <2>4. QED
    BY <2>2, <2>3 DEF Follows
<1>9. \A k \in 0 .. n : sum[k] \in V[k]
  BY <1>4, <1>8, Recursion
<1>10. \A k \in 0 .. n : sum[k] \in Nat
  BY <1>2, <1>9
<1>11. SumOf(sum, s)
  BY <1>6 DEF SumOf
<1>12. QED
  BY <1>7, <1>10, <1>11

LEMMA TotalIs ==
  /\ Total(<<>>) = 0
  /\ \A s \in Seq(Nat) : Total(s) \in Nat
  /\ \A s \in Seq(Nat) : \A x \in Nat : Total(Append(s, x)) = Total(s) + x
<1>1. ASSUME NEW s \in Seq(Nat) PROVE Total(s) \in Nat /\ (s = <<>> => Total(s) = 0)
  <2>1. PICK f : SumOf(f, s) /\ (\A k \in 0 .. Len(s) : f[k] \in Nat) /\ Total(s) = f[Len(s)]
    BY TotalRuns
  <2>2. Len(s) \in 0 .. Len(s) /\ 0 \in 0 .. Len(s)
    OBVIOUS
  <2>3. f[0] = 0
    BY <2>1, <2>2 DEF SumOf
  <2>4. QED
    BY <2>1, <2>2, <2>3
<1>2. <<>> \in Seq(Nat)
  OBVIOUS
<1>3. ASSUME NEW s \in Seq(Nat), NEW x \in Nat PROVE Total(Append(s, x)) = Total(s) + x
  <2> DEFINE n == Len(s)
             t == Append(s, x)
  <2>1. t \in Seq(Nat) /\ Len(t) = n + 1 /\ n \in Nat /\ t[n+1] = x /\ (\A k \in 1 .. n : t[k] = s[k])
    OBVIOUS
  <2>2. PICK f : SumOf(f, s) /\ (\A k \in 0 .. Len(s) : f[k] \in Nat) /\ Total(s) = f[n]
    BY TotalRuns
  <2>3. PICK h : SumOf(h, t) /\ Total(t) = h[n+1]
    BY <2>1, TotalRuns
  <2>4. \A k \in 0 .. n : f[k] = IF k = 0 THEN 0 ELSE f[k-1] + s[k]
    BY <2>2 DEF SumOf
  <2>5. \A k \in 0 .. n + 1 : h[k] = IF k = 0 THEN 0 ELSE h[k-1] + t[k]
    BY <2>1, <2>3 DEF SumOf
  <2> DEFINE S == {k \in 0 .. n : h[k] = f[k]}
  <2> HIDE DEF t
  <2>6. 0 \in S
    BY <2>1, <2>4, <2>5
  <2>7. ASSUME NEW k \in 1 .. n, k - 1 \in S PROVE k \in S
    <3>1. k \in 0 .. n /\ k \in 0 .. n + 1 /\ k # 0
      BY <2>1
    <3>2. h[k] = h[k-1] + t[k] /\ f[k] = f[k-1] + s[k] /\ t[k] = s[k] /\ h[k-1] = f[k-1]
      BY <2>1, <2>4, <2>5, <2>7, <3>1
    <3>3. QED
      BY <3>1, <3>2
  <2> HIDE DEF S
  <2>8. \A k \in 0 .. n : k \in S
    BY <2>1, <2>6, <2>7, UpTo
  <2>9. h[n] = f[n]
    BY <2>1, <2>8 DEF S
  <2>10. h[n+1] = h[n] + x
    <3>1. n + 1 \in 0 .. n + 1 /\ n + 1 # 0 /\ (n + 1) - 1 = n
      BY <2>1
    <3>2. QED
      BY <2>1, <2>5, <3>1
  <2>11. QED
    BY <2>2, <2>3, <2>9, <2>10 DEF t
<1>4. QED
  BY <1>1, <1>2, <1>3

\* The sequence t is s with x after it.
Longer(t, s, x, V) ==
  /\ t \in Seq(V) /\ t # <<>> /\ Len(s) \in Nat /\ Len(t) \in Nat /\ Len(t) = Len(s) + 1
  /\ t[Len(s) + 1] = x
  /\ \A k \in 1 .. Len(s) : t[k] = s[k]

LEMMA AppendIs ==
  ASSUME NEW V, NEW s \in Seq(V), NEW x \in V
  PROVE  Longer(Append(s, x), s, x, V)
<1>1. Append(s, x) \in Seq(V)
  OBVIOUS
<1>2. Len(s) \in Nat /\ Len(Append(s, x)) = Len(s) + 1
  OBVIOUS
<1>3. Append(s, x)[Len(s) + 1] = x
  OBVIOUS
<1>4. \A k \in 1 .. Len(s) : Append(s, x)[k] = s[k]
  OBVIOUS
<1>5. Len(Append(s, x)) \in Nat /\ Append(s, x) # <<>>
  <2>1. Len(<<>>) = 0
    OBVIOUS
  <2>2. QED
    BY <1>2, <2>1
<1>6. QED
  BY <1>1, <1>2, <1>3, <1>4, <1>5 DEF Longer

\* Every element of X is in one of the sequences of s, once, and nothing else is.
EachOnce(s, X) ==
  /\ \A a \in 1 .. Len(s) : \A k \in 1 .. Len(s[a]) : s[a][k] \in X
  /\ \A i \in X : \E a \in 1 .. Len(s) : \E k \in 1 .. Len(s[a]) : s[a][k] = i
  /\ \A a \in 1 .. Len(s) : \A k \in 1 .. Len(s[a]) :
       \A b \in 1 .. Len(s) : \A m \in 1 .. Len(s[b]) : s[a][k] = s[b][m] => a = b /\ k = m

\* An element is in one place only.
LEMMA OncePlace ==
  ASSUME NEW s, NEW X, EachOnce(s, X), NEW a \in 1 .. Len(s), NEW k \in 1 .. Len(s[a])
  PROVE  /\ s[a][k] \in X
         /\ \A b \in 1 .. Len(s) : \A m \in 1 .. Len(s[b]) : s[a][k] = s[b][m] => a = b /\ k = m
<1>1. s[a][k] \in X
  BY DEF EachOnce
<1>2. \A b \in 1 .. Len(s) : \A m \in 1 .. Len(s[b]) : s[a][k] = s[b][m] => a = b /\ k = m
  BY DEF EachOnce
<1>3. QED
  BY <1>1, <1>2

LEMMA OnceWithEmpty ==
  ASSUME NEW V, NEW s \in Seq(Seq(V)), NEW X
  PROVE  EachOnce(Append(s, <<>>), X) <=> EachOnce(s, X)
<1> DEFINE t == Append(s, <<>>)
           n == Len(s)
<1>1. n \in Nat /\ Len(t) = n + 1 /\ t[n+1] = <<>> /\ \A a \in 1 .. n : t[a] = s[a]
  OBVIOUS
<1> HIDE DEF t
<1>2. Len(t[n+1]) = 0
  BY <1>1
<1>3. \A a : a \in 1 .. Len(t) <=> a \in 1 .. n \/ a = n + 1
  BY <1>1
<1>4. \A a \in 1 .. Len(t) : \A k \in 1 .. Len(t[a]) : a \in 1 .. n /\ t[a] = s[a]
  BY <1>1, <1>2, <1>3
<1>5. \A a \in 1 .. n : a \in 1 .. Len(t) /\ t[a] = s[a]
  BY <1>1, <1>3
<1>6. \A a \in 1 .. Len(s) : a \in 1 .. Len(t) /\ t[a] = s[a]
  BY <1>5
<1>7. \A a \in 1 .. Len(t) : \A k \in 1 .. Len(t[a]) : a \in 1 .. Len(s) /\ t[a] = s[a]
  BY <1>4
<1>8. ASSUME EachOnce(s, X) PROVE EachOnce(t, X)
  <2>1. \A a \in 1 .. Len(t) : \A k \in 1 .. Len(t[a]) : t[a][k] \in X
    BY <1>7, <1>8 DEF EachOnce
  <2>2. \A i \in X : \E a \in 1 .. Len(t) : \E k \in 1 .. Len(t[a]) : t[a][k] = i
    <3> SUFFICES ASSUME NEW i \in X PROVE \E a \in 1 .. Len(t) : \E k \in 1 .. Len(t[a]) : t[a][k] = i
      OBVIOUS
    <3>1. PICK a \in 1 .. Len(s) : \E k \in 1 .. Len(s[a]) : s[a][k] = i
      BY <1>8, Zenon DEF EachOnce
    <3>2. a \in 1 .. Len(t) /\ t[a] = s[a]
      BY <1>6
    <3>3. QED
      BY <3>1, <3>2
  <2>3. \A a \in 1 .. Len(t) : \A k \in 1 .. Len(t[a]) :
           \A b \in 1 .. Len(t) : \A m \in 1 .. Len(t[b]) : t[a][k] = t[b][m] => a = b /\ k = m
    <3> SUFFICES ASSUME NEW a \in 1 .. Len(t), NEW k \in 1 .. Len(t[a]),
                        NEW b \in 1 .. Len(t), NEW m \in 1 .. Len(t[b]), t[a][k] = t[b][m]
                 PROVE  a = b /\ k = m
      BY Zenon
    <3>1. /\ a \in 1 .. Len(s) /\ t[a] = s[a] /\ b \in 1 .. Len(s) /\ t[b] = s[b]
      BY <1>7
    <3>2. k \in 1 .. Len(s[a]) /\ m \in 1 .. Len(s[b]) /\ s[a][k] = s[b][m]
      BY <3>1
    <3>3. \A c \in 1 .. Len(s) : \A i \in 1 .. Len(s[c]) : s[a][k] = s[c][i] => a = c /\ k = i
      BY <1>8, <3>1, <3>2, Zenon DEF EachOnce
    <3>4. QED
      BY <3>1, <3>2, <3>3
  <2>4. QED
    BY <2>1, <2>2, <2>3 DEF EachOnce
<1>9. ASSUME EachOnce(t, X) PROVE EachOnce(s, X)
  <2>1. \A a \in 1 .. Len(s) : \A k \in 1 .. Len(s[a]) : s[a][k] \in X
    BY <1>6, <1>9 DEF EachOnce
  <2>2. \A i \in X : \E a \in 1 .. Len(s) : \E k \in 1 .. Len(s[a]) : s[a][k] = i
    BY <1>7, <1>9 DEF EachOnce
  <2>3. \A a \in 1 .. Len(s) : \A k \in 1 .. Len(s[a]) :
           \A b \in 1 .. Len(s) : \A m \in 1 .. Len(s[b]) : s[a][k] = s[b][m] => a = b /\ k = m
    <3>1. ASSUME NEW a \in 1 .. Len(s), NEW k \in 1 .. Len(s[a]),
                 NEW b \in 1 .. Len(s), NEW m \in 1 .. Len(s[b]), s[a][k] = s[b][m]
          PROVE  a = b /\ k = m
      <4>1. a \in 1 .. Len(t) /\ t[a] = s[a] /\ b \in 1 .. Len(t) /\ t[b] = s[b]
        BY <1>6
      <4>2. k \in 1 .. Len(t[a]) /\ m \in 1 .. Len(t[b]) /\ t[a][k] = t[b][m]
        BY <3>1, <4>1
      <4>3. \A c \in 1 .. Len(t) : \A i \in 1 .. Len(t[c]) : t[a][k] = t[c][i] => a = c /\ k = i
        BY <1>9, <4>1, <4>2, Zenon DEF EachOnce
      <4>4. QED
        BY <4>1, <4>2, <4>3
    <3>2. QED
      BY <3>1
  <2>4. QED
    BY <2>1, <2>2, <2>3 DEF EachOnce
<1>10. QED
  BY <1>8, <1>9 DEF t

LEMMA OnceMore ==
  ASSUME NEW V, NEW s \in Seq(Seq(V)), NEW u \in Seq(V), NEW x \in V, NEW X, x \notin X,
         EachOnce(Append(s, u), X)
  PROVE  EachOnce(Append(s, Append(u, x)), X \cup {x})
<1> DEFINE p == Append(s, u)
           w == Append(u, x)
           t == Append(s, w)
           n == Len(s)
           h == Len(u)
<1>1. /\ w \in Seq(V) /\ h \in Nat /\ Len(w) = h + 1 /\ w[h+1] = x
      /\ \A k \in 1 .. h : w[k] = u[k]
  OBVIOUS
<1> HIDE DEF w
<1>2. /\ n \in Nat /\ Len(t) = n + 1 /\ t[n+1] = w
      /\ \A a \in 1 .. n : t[a] = s[a]
  BY <1>1
<1>3. Len(p) = n + 1 /\ p[n+1] = u /\ \A a \in 1 .. n : p[a] = s[a]
  OBVIOUS
<1> HIDE DEF p, t
<1>4. ASSUME NEW a \in 1 .. Len(t), NEW k \in 1 .. Len(t[a])
      PROVE  \/ a \in 1 .. Len(p) /\ k \in 1 .. Len(p[a]) /\ t[a][k] = p[a][k] /\ (a = n + 1 => k <= h)
             \/ a = n + 1 /\ k = h + 1 /\ t[a][k] = x
  <2>1. CASE a = n + 1
    <3>1. k \in 1 .. h + 1
      BY <1>1, <1>2, <2>1
    <3>2. QED
      BY <1>1, <1>2, <1>3, <2>1, <3>1
  <2>2. CASE a # n + 1
    <3>1. a \in 1 .. n
      BY <1>2, <2>2
    <3>2. QED
      BY <1>2, <1>3, <3>1
  <2>3. QED
    BY <2>1, <2>2
<1>5. ASSUME NEW a \in 1 .. Len(p), NEW k \in 1 .. Len(p[a])
      PROVE  a \in 1 .. Len(t) /\ k \in 1 .. Len(t[a]) /\ t[a][k] = p[a][k]
  <2>1. CASE a = n + 1
    <3>1. k \in 1 .. h
      BY <1>3, <2>1
    <3>2. QED
      BY <1>1, <1>2, <1>3, <2>1, <3>1
  <2>2. CASE a # n + 1
    <3>1. a \in 1 .. n
      BY <1>2, <1>3, <2>2
    <3>2. QED
      BY <1>2, <1>3, <3>1
  <2>3. QED
    BY <2>1, <2>2
<1>6. n + 1 \in 1 .. Len(t) /\ h + 1 \in 1 .. Len(t[n+1]) /\ t[n+1][h+1] = x
  BY <1>1, <1>2
<1>7. ASSUME NEW a \in 1 .. Len(t), NEW k \in 1 .. Len(t[a]) PROVE t[a][k] \in X \cup {x}
  BY <1>4, EachOnce(p, X) DEF EachOnce, p
<1>8. ASSUME NEW i \in X \cup {x} PROVE \E a \in 1 .. Len(t) : \E k \in 1 .. Len(t[a]) : t[a][k] = i
  <2>1. CASE i = x
    BY <1>6, <2>1
  <2>2. CASE i \in X
    <3>1. PICK a \in 1 .. Len(p) : \E k \in 1 .. Len(p[a]) : p[a][k] = i
      BY <2>2 DEF EachOnce, p
    <3>2. PICK k \in 1 .. Len(p[a]) : p[a][k] = i
      BY <3>1
    <3>3. QED
      BY <3>2, <1>5
  <2>3. QED
    BY <2>1, <2>2
<1>9. ASSUME NEW a \in 1 .. Len(t), NEW b \in 1 .. Len(t),
             NEW k \in 1 .. Len(t[a]), NEW m \in 1 .. Len(t[b]), t[a][k] = t[b][m]
      PROVE  a = b /\ k = m
  <2>1. \A c \in 1 .. Len(p) : \A j \in 1 .. Len(p[c]) : p[c][j] # x
    BY SMTT(30) DEF EachOnce, p
  <2>2. \A c \in 1 .. Len(p) : \A i \in 1 .. Len(p[c]) :
           \A d \in 1 .. Len(p) : \A j \in 1 .. Len(p[d]) : p[c][i] = p[d][j] => c = d /\ i = j
    <3>1. EachOnce(p, X)
      BY DEF p
    <3> HIDE DEF p
    <3>2. QED
      BY <3>1, Zenon DEF EachOnce
  <2>3. \/ a \in 1 .. Len(p) /\ k \in 1 .. Len(p[a]) /\ t[a][k] = p[a][k]
        \/ a = n + 1 /\ k = h + 1 /\ t[a][k] = x
    BY <1>4
  <2>4. \/ b \in 1 .. Len(p) /\ m \in 1 .. Len(p[b]) /\ t[b][m] = p[b][m]
        \/ b = n + 1 /\ m = h + 1 /\ t[b][m] = x
    BY <1>4
  <2>5. CASE a = n + 1 /\ k = h + 1 /\ t[a][k] = x
    BY <1>9, <2>1, <2>4, <2>5
  <2>6. CASE b = n + 1 /\ m = h + 1 /\ t[b][m] = x
    BY <1>9, <2>1, <2>3, <2>6
  <2>7. CASE /\ a \in 1 .. Len(p) /\ k \in 1 .. Len(p[a]) /\ t[a][k] = p[a][k]
             /\ b \in 1 .. Len(p) /\ m \in 1 .. Len(p[b]) /\ t[b][m] = p[b][m]
    <3>1. p[a][k] = p[b][m]
      BY <1>9, <2>7
    <3>2. QED
      BY <2>2, <2>7, <3>1
  <2>8. QED
    BY <2>3, <2>4, <2>5, <2>6, <2>7
<1>10. \A a \in 1 .. Len(t) : \A k \in 1 .. Len(t[a]) :
         \A b \in 1 .. Len(t) : \A m \in 1 .. Len(t[b]) : t[a][k] = t[b][m] => a = b /\ k = m
  BY <1>9
<1>11. EachOnce(t, X \cup {x})
  BY <1>7, <1>8, <1>10 DEF EachOnce
<1>12. QED
  BY <1>11 DEF t, w

\* What is being grouped: the groups that are full, and the one that is being filled.
Groups(n) == [done : Seq(Seq(1 .. n)), current : Seq(1 .. n), sec : Nat]
Lines(g) == Append(g.done, g.current)

Weight(h, cs) == Total([k \in 1 .. Len(h) |-> cs[h[k]].samples])

GroupFits(h, cs, cap, budget) ==
  h # <<>> /\ Len(h) <= cap /\ (Weight(h, cs) <= budget \/ Len(h) = 1)

\* Every full group is allowed, and so is what is being filled, which has room.
Filling(g, cs, cap, budget) ==
  /\ \A a \in 1 .. Len(g.done) : GroupFits(g.done[a], cs, cap, budget)
  /\ g.sec = Weight(g.current, cs)
  /\ g.sec <= budget
  /\ Len(g.current) < cap

LEMMA WeightIs ==
  ASSUME NEW n \in Nat, NEW cs, \A i \in 1 .. n : cs[i].samples \in Nat
  PROVE  /\ Weight(<<>>, cs) = 0
         /\ \A h \in Seq(1 .. n) : Weight(h, cs) \in Nat
         /\ \A h \in Seq(1 .. n) : \A i \in 1 .. n : Weight(Append(h, i), cs) = Weight(h, cs) + cs[i].samples
<1> DEFINE sizes(h) == [k \in 1 .. Len(h) |-> cs[h[k]].samples]
<1>1. ASSUME NEW h \in Seq(1 .. n) PROVE sizes(h) \in Seq(Nat) /\ Len(sizes(h)) = Len(h)
  OBVIOUS
<1>2. <<>> \in Seq(1 .. n) /\ sizes(<<>>) = <<>>
  OBVIOUS
<1>3. ASSUME NEW h \in Seq(1 .. n), NEW i \in 1 .. n
      PROVE  sizes(Append(h, i)) = Append(sizes(h), cs[i].samples)
  <2> DEFINE w == Append(h, i)
             m == Len(h)
             z == Append(sizes(h), cs[i].samples)
  <2>1. /\ w \in Seq(1 .. n) /\ m \in Nat /\ Len(w) = m + 1 /\ w[m+1] = i
        /\ \A k \in 1 .. m : w[k] = h[k]
    OBVIOUS
  <2>2. sizes(h) \in Seq(Nat) /\ Len(sizes(h)) = m /\ \A k \in 1 .. m : sizes(h)[k] = cs[h[k]].samples
    BY <1>1
  <2>3. /\ Len(z) = m + 1 /\ z[m+1] = cs[i].samples /\ DOMAIN z = 1 .. m + 1
        /\ z = [k \in 1 .. m + 1 |-> z[k]]
        /\ \A k \in 1 .. m : z[k] = cs[h[k]].samples
    <3>1. PICK q \in Seq(Nat) : q = sizes(h)
      BY <2>2
    <3>2. PICK y \in Nat : y = cs[i].samples
      OBVIOUS
    <3>3. Append(q, y) = z /\ Append(q, y) \in Seq(Nat) /\ Len(Append(q, y)) = m + 1
      BY <2>2, <3>1, <3>2
    <3>4. Append(q, y)[m+1] = y /\ \A k \in 1 .. m : Append(q, y)[k] = q[k]
      BY <2>1, <2>2, <3>1
    <3>5. DOMAIN Append(q, y) = 1 .. m + 1 /\ Append(q, y) = [k \in 1 .. m + 1 |-> Append(q, y)[k]]
      BY <2>1, <3>3
    <3>6. QED
      BY <2>2, <3>1, <3>2, <3>3, <3>4, <3>5
  <2> HIDE DEF z, w
  <2>4. ASSUME NEW k \in 1 .. m + 1 PROVE cs[w[k]].samples = z[k]
    <3>1. CASE k = m + 1
      BY <2>1, <2>3, <3>1
    <3>2. CASE k # m + 1
      <4>1. k \in 1 .. m
        BY <2>1, <3>2
      <4>2. QED
        BY <4>1, <2>1, <2>3
    <3>3. QED
      BY <3>1, <3>2
  <2>5. sizes(w) = z
    BY <2>1, <2>3, <2>4
  <2>6. QED
    BY <2>5 DEF w, z
<1>4. \A h : Weight(h, cs) = Total(sizes(h))
  BY DEF Weight
<1> HIDE DEF sizes
<1>5. Weight(<<>>, cs) = 0
  BY <1>2, <1>4, TotalIs
<1>6. ASSUME NEW h \in Seq(1 .. n) PROVE Weight(h, cs) \in Nat
  BY <1>1, <1>4, TotalIs
<1>7. ASSUME NEW h \in Seq(1 .. n), NEW i \in 1 .. n
      PROVE  Weight(Append(h, i), cs) = Weight(h, cs) + cs[i].samples
  <2>1. PICK q \in Seq(Nat) : q = sizes(h)
    BY <1>1
  <2>2. PICK x \in Nat : x = cs[i].samples
    OBVIOUS
  <2>3. Total(Append(q, x)) = Total(q) + x
    BY TotalIs
  <2>4. QED
    BY <2>1, <2>2, <2>3, <1>3, <1>4
<1>8. QED
  BY <1>5, <1>6, <1>7

\* A group that is ended is one of the full ones.
LEMMA FlushIs ==
  ASSUME NEW n \in Nat, NEW g \in Groups(n), NEW X, EachOnce(Lines(g), X),
         NEW f, f = Flush(g)
  PROVE  /\ f \in Groups(n) /\ f.current = <<>> /\ EachOnce(Lines(f), X) /\ EachOnce(f.done, X)
         /\ f.done = (IF g.current = <<>> THEN g.done ELSE Append(g.done, g.current))
         /\ (g.current # <<>> => f.sec = 0) /\ (g.current = <<>> => f = g)
<1>1. <<>> \in Seq(1 .. n) /\ g.done \in Seq(Seq(1 .. n)) /\ g.current \in Seq(1 .. n)
  BY DEF Groups
<1>2. CASE g.current = <<>>
  <2>1. f = g
    BY <1>2 DEF Flush
  <2>2. EachOnce(f.done, X)
    BY <1>1, <1>2, <2>1, OnceWithEmpty DEF Lines
  <2>3. QED
    BY <1>2, <2>1, <2>2
<1>3. CASE g.current # <<>>
  <2>1. f = [done |-> Append(g.done, g.current), current |-> <<>>, sec |-> 0]
    BY <1>3 DEF Flush
  <2>2. Append(g.done, g.current) \in Seq(Seq(1 .. n))
    BY <1>1
  <2>3. f \in Groups(n) /\ f.done = Append(g.done, g.current) /\ f.current = <<>> /\ f.sec = 0
    BY <1>1, <2>1, <2>2 DEF Groups
  <2>4. EachOnce(f.done, X)
    BY <2>3 DEF Lines
  <2>5. EachOnce(Lines(f), X)
    BY <2>2, <2>3, <2>4, OnceWithEmpty DEF Lines
  <2>6. QED
    BY <1>3, <2>3, <2>4, <2>5
<1>4. QED
  BY <1>2, <1>3

\* One chunk more is grouped.
LEMMA PutChunkIs ==
  ASSUME NEW n \in Nat, NEW cs, \A i \in 1 .. n : cs[i].samples \in Nat,
         NEW cap \in Nat \ {0}, NEW budget \in Nat,
         NEW g \in Groups(n), NEW X, Filling(g, cs, cap, budget), EachOnce(Lines(g), X),
         NEW idx \in 1 .. n, idx \notin X,
         NEW new, new = PutChunk(g, idx, cs, cap, budget)
  PROVE  new \in Groups(n) /\ Filling(new, cs, cap, budget) /\ EachOnce(Lines(new), X \cup {idx})
<1> DEFINE size == cs[idx].samples
<1>1. size \in Nat /\ <<>> \in Seq(1 .. n) /\ Len(<<>>) = 0 /\ <<idx>> \in Seq(1 .. n)
  OBVIOUS
<1>2. g.done \in Seq(Seq(1 .. n)) /\ g.current \in Seq(1 .. n) /\ g.sec \in Nat
  BY DEF Groups
<1>3. /\ Weight(<<>>, cs) = 0 /\ Weight(g.current, cs) \in Nat
      /\ \A h \in Seq(1 .. n) : Weight(Append(h, idx), cs) = Weight(h, cs) + size
  BY <1>2, WeightIs
<1> HIDE DEF size
\* A group that is ended before.
<1>4. ASSUME NEW f, f = Flush(g)
      PROVE  /\ f \in Groups(n) /\ f.current = <<>> /\ f.sec = 0
             /\ EachOnce(Lines(f), X) /\ Filling(f, cs, cap, budget)
  <2>1. /\ f \in Groups(n) /\ f.current = <<>> /\ EachOnce(Lines(f), X)
        /\ f.done = (IF g.current = <<>> THEN g.done ELSE Append(g.done, g.current))
        /\ (g.current # <<>> => f.sec = 0) /\ (g.current = <<>> => f = g)
    BY <1>4, FlushIs
  <2>2. f.sec = 0
    BY <2>1, <1>3 DEF Filling
  <2>3. ASSUME NEW a \in 1 .. Len(f.done) PROVE GroupFits(f.done[a], cs, cap, budget)
    <3>1. CASE g.current = <<>>
      BY <2>1, <3>1 DEF Filling
    <3>2. CASE g.current # <<>>
      <4>1. f.done = Append(g.done, g.current)
        BY <2>1, <3>2
      <4>2. CASE a = Len(g.done) + 1
        <5>1. f.done[a] = g.current
          BY <1>2, <4>1, <4>2
        <5>2. Len(g.current) \in Nat
          BY <1>2
        <5>3. QED
          BY <3>2, <5>1, <5>2 DEF Filling, GroupFits
      <4>3. CASE a # Len(g.done) + 1
        <5>1. a \in 1 .. Len(g.done) /\ f.done[a] = g.done[a]
          BY <1>2, <4>1, <4>3
        <5>2. QED
          BY <5>1 DEF Filling
      <4>4. QED
        BY <4>2, <4>3
    <3>3. QED
      BY <3>1, <3>2
  <2>4. Filling(f, cs, cap, budget)
    BY <1>1, <1>3, <2>1, <2>2, <2>3 DEF Filling
  <2>5. QED
    BY <2>1, <2>2, <2>4
\* A chunk that is put where there is room, and the group ended when it is full.
<1>5. ASSUME size <= budget, NEW room \in Groups(n), Filling(room, cs, cap, budget),
             EachOnce(Lines(room), X), room.sec + size <= budget,
             NEW put, put = [room EXCEPT !.current = Append(@, idx), !.sec = @ + size],
             new = IF Len(put.current) >= cap THEN Flush(put) ELSE put
      PROVE  new \in Groups(n) /\ Filling(new, cs, cap, budget) /\ EachOnce(Lines(new), X \cup {idx})
  <2>1. room.done \in Seq(Seq(1 .. n)) /\ room.current \in Seq(1 .. n) /\ room.sec \in Nat
    BY <1>5 DEF Groups
  <2>2. put = [done |-> room.done, current |-> Append(room.current, idx), sec |-> room.sec + size]
    BY <1>5 DEF Groups
  <2>3. Append(room.current, idx) \in Seq(1 .. n) /\ room.sec + size \in Nat
    BY <1>1, <2>1
  <2>4. put \in Groups(n) /\ put.done = room.done /\ put.current = Append(room.current, idx) /\ put.sec = room.sec + size
    BY <2>1, <2>2, <2>3 DEF Groups
  <2>5. EachOnce(Lines(put), X \cup {idx})
    <3>1. EachOnce(Append(room.done, room.current), X)
      BY <1>5 DEF Lines
    <3>2. EachOnce(Append(room.done, Append(room.current, idx)), X \cup {idx})
      BY <2>1, <3>1, OnceMore
    <3>3. QED
      BY <2>4, <3>2 DEF Lines
  <2>6. /\ Len(put.current) = Len(room.current) + 1 /\ put.current # <<>> /\ Len(put.current) \in Nat
        /\ Len(room.current) \in Nat
    <3>1. PICK h \in Seq(1 .. n) : h = room.current
      BY <2>1
    <3>2. Longer(Append(h, idx), h, idx, 1 .. n)
      BY AppendIs
    <3>3. QED
      BY <2>4, <3>1, <3>2 DEF Longer
  <2>7. Weight(put.current, cs) = put.sec /\ put.sec <= budget /\ Len(put.current) <= cap
    <3>1. Weight(put.current, cs) = Weight(room.current, cs) + size
      BY <1>3, <2>1, <2>4
    <3>2. room.sec = Weight(room.current, cs) /\ Len(room.current) < cap
      BY <1>5 DEF Filling
    <3>3. QED
      BY <1>5, <2>4, <2>6, <3>1, <3>2
  <2>8. \A a \in 1 .. Len(put.done) : GroupFits(put.done[a], cs, cap, budget)
    BY <1>5, <2>4 DEF Filling
  <2>9. CASE Len(put.current) >= cap
    <3>1. new = Flush(put)
      BY <1>5, <2>9
    <3>2. /\ new \in Groups(n) /\ new.current = <<>> /\ EachOnce(Lines(new), X \cup {idx})
          /\ new.done = Append(put.done, put.current) /\ new.sec = 0
      <4>1. PICK Y : Y = X \cup {idx}
        OBVIOUS
      <4>2. EachOnce(Lines(put), Y)
        BY <2>5, <4>1
      <4>3. /\ new \in Groups(n) /\ new.current = <<>> /\ EachOnce(Lines(new), Y)
            /\ new.done = (IF put.current = <<>> THEN put.done ELSE Append(put.done, put.current))
            /\ (put.current # <<>> => new.sec = 0)
        <5>1. PICK p \in Groups(n) : p = put
          BY <2>4
        <5>2. EachOnce(Lines(p), Y) /\ new = Flush(p)
          BY <3>1, <4>2, <5>1
        <5>3. /\ new \in Groups(n) /\ new.current = <<>> /\ EachOnce(Lines(new), Y)
              /\ new.done = (IF p.current = <<>> THEN p.done ELSE Append(p.done, p.current))
              /\ (p.current # <<>> => new.sec = 0)
          BY <5>2, FlushIs
        <5>4. QED
          BY <5>1, <5>3
      <4>4. QED
        BY <2>6, <4>1, <4>3
    <3>3. GroupFits(put.current, cs, cap, budget)
      BY <2>6, <2>7 DEF GroupFits
    <3>4. ASSUME NEW a \in 1 .. Len(new.done) PROVE GroupFits(new.done[a], cs, cap, budget)
      <4>1. put.done \in Seq(Seq(1 .. n)) /\ put.current \in Seq(1 .. n)
        BY <2>4 DEF Groups
      <4>2. CASE a = Len(put.done) + 1
        BY <3>2, <3>3, <4>1, <4>2
      <4>3. CASE a # Len(put.done) + 1
        <5>1. a \in 1 .. Len(put.done) /\ new.done[a] = put.done[a]
          BY <3>2, <4>1, <4>3
        <5>2. QED
          BY <5>1, <2>8
      <4>4. QED
        BY <4>2, <4>3
    <3>5. Filling(new, cs, cap, budget)
      BY <1>1, <1>3, <3>2, <3>4 DEF Filling
    <3>6. QED
      BY <3>2, <3>5
  <2>10. CASE ~ (Len(put.current) >= cap)
    <3>1. new = put
      BY <1>5, <2>10
    <3>2. Filling(put, cs, cap, budget)
      BY <2>6, <2>7, <2>8, <2>10 DEF Filling
    <3>3. QED
      BY <2>4, <2>5, <3>1, <3>2
  <2>11. QED
    BY <2>9, <2>10
<1>6. CASE size > budget
  <2>1. new = [Flush(g) EXCEPT !.done = Append(@, <<idx>>)]
    BY <1>6 DEF PutChunk, size
  <2>2. PICK f : f = Flush(g)
    OBVIOUS
  <2>3. /\ f \in Groups(n) /\ f.current = <<>> /\ f.sec = 0
        /\ EachOnce(Lines(f), X) /\ Filling(f, cs, cap, budget)
    BY <1>4, <2>2
  <2>4. f.done \in Seq(Seq(1 .. n)) /\ new = [done |-> Append(f.done, <<idx>>), current |-> <<>>, sec |-> 0]
    BY <2>1, <2>2, <2>3 DEF Groups
  <2>5. Append(f.done, <<idx>>) \in Seq(Seq(1 .. n))
    BY <1>1, <2>4
  <2>6. new \in Groups(n) /\ new.done = Append(f.done, <<idx>>) /\ new.current = <<>> /\ new.sec = 0
    BY <1>1, <2>4, <2>5 DEF Groups
  <2>7. EachOnce(Lines(new), X \cup {idx})
    <3>1. EachOnce(Append(f.done, <<>>), X)
      BY <2>3 DEF Lines
    <3>2. Append(<<>>, idx) = <<idx>>
      OBVIOUS
    <3>3. EachOnce(Append(f.done, Append(<<>>, idx)), X \cup {idx})
      BY <1>1, <2>4, <3>1, OnceMore
    <3>4. EachOnce(new.done, X \cup {idx})
      BY <2>6, <3>2, <3>3
    <3>5. PICK d \in Seq(Seq(1 .. n)) : d = new.done
      BY <2>5, <2>6
    <3>6. PICK Y : Y = X \cup {idx}
      OBVIOUS
    <3>7. EachOnce(Append(d, <<>>), Y)
      BY <3>4, <3>5, <3>6, OnceWithEmpty
    <3>8. QED
      BY <2>6, <3>5, <3>6, <3>7 DEF Lines
  <2>8. GroupFits(<<idx>>, cs, cap, budget)
    BY DEF GroupFits
  <2>9. ASSUME NEW a \in 1 .. Len(new.done) PROVE GroupFits(new.done[a], cs, cap, budget)
    <3>1. CASE a = Len(f.done) + 1
      BY <1>1, <2>4, <2>6, <2>8, <3>1
    <3>2. CASE a # Len(f.done) + 1
      <4>1. a \in 1 .. Len(f.done) /\ new.done[a] = f.done[a]
        BY <1>1, <2>4, <2>6, <3>2
      <4>2. QED
        BY <4>1, <2>3 DEF Filling
    <3>3. QED
      BY <3>1, <3>2
  <2>10. Filling(new, cs, cap, budget)
    BY <1>1, <1>3, <2>6, <2>9 DEF Filling
  <2>11. QED
    BY <2>6, <2>7, <2>10
<1>7. CASE size <= budget
  <2>1. PICK room : room = IF Exceeds(g, size, cap, budget) THEN Flush(g) ELSE g
    OBVIOUS
  <2>2. PICK put : put = [room EXCEPT !.current = Append(@, idx), !.sec = @ + size]
    OBVIOUS
  <2>3. new = IF Len(put.current) >= cap THEN Flush(put) ELSE put
    BY <1>1, <1>7, <2>1, <2>2 DEF PutChunk, size
  <2>4. /\ room \in Groups(n) /\ Filling(room, cs, cap, budget)
        /\ EachOnce(Lines(room), X) /\ room.sec + size <= budget
    <3>1. CASE Exceeds(g, size, cap, budget)
      <4>1. room = Flush(g)
        BY <2>1, <3>1
      <4>2. QED
        BY <4>1, <1>1, <1>4, <1>7
    <3>2. CASE ~ Exceeds(g, size, cap, budget)
      <4>1. room = g
        BY <2>1, <3>2
      <4>2. g.sec + size <= budget
        <5>1. CASE g.current = <<>>
          BY <1>1, <1>3, <1>7, <5>1 DEF Filling
        <5>2. CASE g.current # <<>>
          BY <1>1, <1>2, <3>2, <5>2 DEF Exceeds
        <5>3. QED
          BY <5>1, <5>2
      <4>3. QED
        BY <4>1, <4>2
    <3>3. QED
      BY <3>1, <3>2
  <2>5. QED
    BY <1>5, <1>7, <2>2, <2>3, <2>4
<1>8. QED
  BY <1>1, <1>6, <1>7

\* order lists 1 .. n, each once.
Lists(order, n) ==
  /\ order \in Seq(1 .. n) /\ Len(order) = n
  /\ \A i \in 1 .. n : \E m \in 1 .. n : order[m] = i
  /\ \A a, b \in 1 .. n : order[a] = order[b] => a = b

\* What the groups of n chunks are.
Grouped(gs, cs, n, maxBatch, budget) ==
  /\ gs \in Seq(Seq(1 .. n)) /\ EachOnce(gs, 1 .. n)
  /\ \A a \in 1 .. Len(gs) :
       /\ gs[a] # <<>> /\ (maxBatch # 0 => Len(gs[a]) <= maxBatch)
       /\ budget = 0 \/ Weight(gs[a], cs) <= budget \/ Len(gs[a]) = 1

LEMMA CountCapIs ==
  ASSUME NEW cap \in Nat, NEW n \in Nat
  PROVE  CountCap(cap, n) \in Nat \ {0} /\ (cap # 0 => CountCap(cap, n) = cap)
  BY DEF CountCap, Most

\* One element more has been listed.
LEMMA ListedMore ==
  ASSUME NEW n \in Nat, NEW order, Lists(order, n), NEW k \in 1 .. n
  PROVE  /\ order[k] \in 1 .. n
         /\ order[k] \notin {order[j] : j \in 1 .. k - 1}
         /\ {order[j] : j \in 1 .. k} = {order[j] : j \in 1 .. k - 1} \cup {order[k]}
<1>1. order \in Seq(1 .. n) /\ Len(order) = n /\ \A a, b \in 1 .. n : order[a] = order[b] => a = b
  BY DEF Lists
<1>2. order[k] \in 1 .. n
  BY <1>1
<1>3. \A j \in 1 .. k - 1 : j \in 1 .. n /\ j # k /\ j \in 1 .. k
  OBVIOUS
<1>4. \A j \in 1 .. k : j = k \/ j \in 1 .. k - 1
  OBVIOUS
<1>5. k \in 1 .. k
  OBVIOUS
<1>6. order[k] \notin {order[j] : j \in 1 .. k - 1}
  BY <1>1, <1>3
<1>7. {order[j] : j \in 1 .. k} = {order[j] : j \in 1 .. k - 1} \cup {order[k]}
  BY <1>3, <1>4, <1>5
<1>8. QED
  BY <1>2, <1>6, <1>7

LEMMA ListedAll ==
  ASSUME NEW n \in Nat, NEW order, Lists(order, n)
  PROVE  {order[j] : j \in 1 .. n} = 1 .. n
<1>1. order \in Seq(1 .. n) /\ Len(order) = n /\ \A i \in 1 .. n : \E m \in 1 .. n : order[m] = i
  BY DEF Lists
<1>2. \A j \in 1 .. n : order[j] \in 1 .. n
  BY <1>1, ElementOfSeq
<1>3. QED
  BY <1>1, <1>2

\* The groups made under an audio budget.
LEMMA BudgetGroups ==
  ASSUME NEW n \in Nat, NEW cs, \A i \in 1 .. n : cs[i].samples \in Nat,
         NEW order, Lists(order, n), NEW maxBatch \in Nat, NEW budget \in Nat \ {0}
  PROVE  Grouped(GroupChunks(order, cs, maxBatch, budget), cs, n, maxBatch, budget)
<1> DEFINE cap == CountCap(maxBatch, n)
           F(f) == f = [k \in 0 .. n |->
                     IF k = 0 THEN NoGroup ELSE PutChunk(f[k-1], order[k], cs, cap, budget)]
           after == CHOOSE f : F(f)
           listed(k) == {order[j] : j \in 1 .. k}
           Part(k) == {g \in Groups(n) : Filling(g, cs, cap, budget) /\ EachOnce(Lines(g), listed(k))}
           V == [k \in 0 .. n |-> Part(k)]
           next == [p \in (1 .. n) \X Groups(n) |-> PutChunk(p[2], order[p[1]], cs, cap, budget)]
           gs == GroupChunks(order, cs, maxBatch, budget)
<1>1. cap \in Nat \ {0} /\ (maxBatch # 0 => cap = maxBatch)
  BY CountCapIs
<1>2. Len(order) = n
  BY DEF Lists
<1>3. \A k \in 1 .. n : k \in 0 .. n /\ k - 1 \in 0 .. n
  OBVIOUS
<1>4. \A k \in 0 .. n : V[k] = Part(k)
  OBVIOUS
<1>5. \A k \in 1 .. n, g \in Groups(n) : next[<<k, g>>] = PutChunk(g, order[k], cs, cap, budget)
  OBVIOUS
<1>6. gs = Flush(after[n]).done
  BY Zenon, <1>2 DEF GroupChunks
<1> HIDE DEF V, next, cap, gs
<1>7. NoGroup \in V[0]
  <2>1. NoGroup \in Groups(n) /\ NoGroup.done = <<>> /\ NoGroup.current = <<>> /\ NoGroup.sec = 0
    BY DEF NoGroup, Groups
  <2>2. Weight(<<>>, cs) = 0
    BY WeightIs
  <2>3. Filling(NoGroup, cs, cap, budget)
    BY <1>1, <2>1, <2>2 DEF Filling
  <2>4. Len(Lines(NoGroup)) = 1 /\ Len(Lines(NoGroup)[1]) = 0
    BY <2>1 DEF Lines
  <2>5. listed(0) = {}
    OBVIOUS
  <2>6. EachOnce(Lines(NoGroup), listed(0))
    BY <2>4, <2>5 DEF EachOnce
  <2>7. QED
    BY <1>4, <2>1, <2>3, <2>6
<1>8. ASSUME NEW k \in 1 .. n, NEW g \in V[k-1]
      PROVE  g \in Groups(n) /\ next[<<k, g>>] \in V[k] /\ next[<<k, g>>] = PutChunk(g, order[k], cs, cap, budget)
  <2>1. g \in Groups(n) /\ Filling(g, cs, cap, budget) /\ EachOnce(Lines(g), listed(k - 1))
    BY <1>3, <1>4
  <2>2. PICK new : new = PutChunk(g, order[k], cs, cap, budget)
    OBVIOUS
  <2>3. PICK i \in 1 .. n : i = order[k] /\ i \notin listed(k - 1) /\ listed(k) = listed(k - 1) \cup {i}
    <3>1. PICK i : i = order[k]
      OBVIOUS
    <3>2. i \in 1 .. n /\ i \notin listed(k - 1) /\ listed(k) = listed(k - 1) \cup {i}
      BY ONLY n \in Nat, Lists(order, n), k \in 1 .. n, <3>1, ListedMore
    <3> HIDE DEF listed
    <3>3. QED
      BY ONLY <3>1, <3>2
  <2> HIDE DEF listed
  <2>4. PICK X : X = listed(k - 1)
    OBVIOUS
  <2>5. EachOnce(Lines(g), X) /\ i \notin X
    BY <2>1, <2>3, <2>4
  <2>6. new \in Groups(n) /\ Filling(new, cs, cap, budget) /\ EachOnce(Lines(new), X \cup {i})
    BY <1>1, <2>1, <2>2, <2>3, <2>5, PutChunkIs
  <2>7. new \in V[k]
    <3>1. EachOnce(Lines(new), listed(k))
      BY <2>3, <2>4, <2>6
    <3>2. new \in Part(k)
      BY <2>6, <3>1
    <3>3. QED
      BY <1>3, <1>4, <3>2
  <2>8. QED
    BY <1>5, <2>1, <2>2, <2>7
<1>9. Steps(n, V, NoGroup, next)
  BY <1>7, <1>8 DEF Steps
<1>10. \E f : F(f)
  <2>1. PICK f : RunThrough(f, n, V, NoGroup, next)
    BY <1>9, Recursion
  <2>2. ASSUME NEW k \in 0 .. n
        PROVE  f[k] = IF k = 0 THEN NoGroup ELSE PutChunk(f[k-1], order[k], cs, cap, budget)
    <3>1. CASE k = 0
      BY <2>1, <3>1 DEF RunThrough
    <3>2. CASE k # 0
      <4>1. k \in 1 .. n
        BY <3>2
      <4>2. f[k-1] \in V[k-1] /\ f[k] = next[<<k, f[k-1]>>]
        BY <2>1, <4>1 DEF RunThrough
      <4>3. QED
        BY <1>8, <3>2, <4>1, <4>2
    <3>3. QED
      BY <3>1, <3>2
  <2>3. f = [k \in 0 .. n |-> f[k]]
    BY <2>1 DEF RunThrough
  <2>4. F(f)
    BY <2>2, <2>3
  <2> HIDE DEF F
  <2>5. QED
    BY <2>4
<1>11. F(after)
  <2> HIDE DEF F
  <2>1. QED
    BY <1>10
<1> HIDE DEF after
<1>12. Follows(after, n, V, NoGroup, next)
  <2>1. \A k \in 0 .. n : after[k] = IF k = 0 THEN NoGroup ELSE PutChunk(after[k-1], order[k], cs, cap, budget)
    BY <1>11
  <2>2. after[0] = NoGroup
    BY <2>1
  <2>3. ASSUME NEW k \in 1 .. n, after[k-1] \in V[k-1] PROVE after[k] = next[<<k, after[k-1]>>]
    <3>1. after[k] = PutChunk(after[k-1], order[k], cs, cap, budget)
      BY <1>3, <2>1
    <3>2. QED
      BY <1>8, <2>3, <3>1
  <2>4. QED
    BY <2>2, <2>3 DEF Follows
<1>13. n \in 0 .. n /\ \A k \in 0 .. n : after[k] \in V[k]
  BY <1>9, <1>12, Recursion
<1>14. PICK g \in Groups(n) : /\ g = after[n] /\ Filling(g, cs, cap, budget)
                              /\ EachOnce(Lines(g), 1 .. n)
  <2>1. after[n] \in Part(n)
    BY <1>4, <1>13
  <2>2. listed(n) = 1 .. n
    BY ListedAll
  <2>3. QED
    BY <2>1, <2>2
<1>15. PICK f : f = Flush(g)
  OBVIOUS
<1>16. gs = f.done
  BY <1>6, <1>14, <1>15
<1>17. /\ f \in Groups(n) /\ EachOnce(f.done, 1 .. n)
       /\ f.done = (IF g.current = <<>> THEN g.done ELSE Append(g.done, g.current))
  BY <1>14, <1>15, FlushIs
<1>18. f.done \in Seq(Seq(1 .. n)) /\ g.done \in Seq(Seq(1 .. n)) /\ g.current \in Seq(1 .. n)
  BY <1>17 DEF Groups
<1>19. ASSUME NEW a \in 1 .. Len(gs)
       PROVE  /\ gs[a] # <<>> /\ (maxBatch # 0 => Len(gs[a]) <= maxBatch)
              /\ Weight(gs[a], cs) <= budget \/ Len(gs[a]) = 1
  <2>1. CASE GroupFits(gs[a], cs, cap, budget)
    BY <1>1, <2>1 DEF GroupFits
  <2>2. CASE g.current # <<>> /\ gs[a] = g.current
    <3>1. Len(g.current) \in Nat
      BY <1>18
    <3>2. Len(g.current) <= cap /\ Weight(g.current, cs) <= budget
      BY <1>1, <1>14, <3>1 DEF Filling
    <3>3. QED
      BY <1>1, <2>2, <3>2
  <2>3. CASE a \in 1 .. Len(g.done) /\ gs[a] = g.done[a]
    BY <2>1, <2>3, <1>14 DEF Filling
  <2>4. CASE g.current = <<>>
    BY <2>3, <2>4, <1>16, <1>17
  <2>5. CASE g.current # <<>>
    <3>1. gs = Append(g.done, g.current)
      BY <2>5, <1>16, <1>17
    <3>2. CASE a = Len(g.done) + 1
      BY <2>2, <2>5, <3>1, <3>2, <1>18
    <3>3. CASE a # Len(g.done) + 1
      <4>1. a \in 1 .. Len(g.done) /\ gs[a] = g.done[a]
        BY <3>1, <3>3, <1>18
      <4>2. QED
        BY <4>1, <2>3
    <3>4. QED
      BY <3>2, <3>3
  <2>6. QED
    BY <2>4, <2>5
<1>20. Grouped(gs, cs, n, maxBatch, budget)
  BY <1>16, <1>17, <1>18, <1>19 DEF Grouped
<1>21. QED
  BY <1>20 DEF gs

\* The groups made by count only.
LEMMA CountGroups ==
  ASSUME NEW n \in Nat, NEW cs, NEW order, Lists(order, n), NEW maxBatch \in Nat
  PROVE  Grouped(GroupChunks(order, cs, maxBatch, 0), cs, n, maxBatch, 0)
<1> DEFINE cap == CountCap(maxBatch, n)
           full == (n + cap - 1) \div cap
           part(k) == SubSeq(order, (k - 1) * cap + 1, Least(k * cap, n))
           gs == GroupChunks(order, cs, maxBatch, 0)
<1>1. cap \in Nat \ {0} /\ (maxBatch # 0 => cap = maxBatch)
  BY CountCapIs
<1>2. order \in Seq(1 .. n) /\ Len(order) = n
  BY DEF Lists
<1>3. gs = [k \in 1 .. full |-> part(k)]
  BY <1>2 DEF GroupChunks
<1> HIDE DEF cap, gs
<1>4. full \in Nat /\ full * cap >= n /\ (full # 0 => (full - 1) * cap < n)
  <2> DEFINE x == n + cap - 1
  <2>1. x \in Nat /\ n + (cap - 1) = x
    BY <1>1
  <2>2. PICK c \in Nat \ {0} : c = cap
    BY <1>1
  <2>3. PICK q \in Nat : q = x \div c
    BY <2>1, <2>2
  <2>4. q * c \in Nat /\ q * c <= x /\ x < q * c + c
    BY <2>1, <2>2, <2>3
  <2>5. (q - 1) * c = q * c - c
    BY <2>2, <2>3
  <2>6. QED
    BY <2>1, <2>2, <2>3, <2>4, <2>5
<1> HIDE DEF full
\* Group k has the places (k - 1) * cap + 1 up to k * cap, or the last.
<1>5. ASSUME NEW k \in 1 .. full
      PROVE  /\ (k - 1) * cap \in Nat /\ k * cap = (k - 1) * cap + cap
             /\ (k - 1) * cap < n /\ Least(k * cap, n) \in Nat
             /\ Least(k * cap, n) <= n /\ Least(k * cap, n) <= k * cap
             /\ (k - 1) * cap + 1 <= Least(k * cap, n)
             /\ Least(k * cap, n) - (k - 1) * cap <= cap
             /\ k # full => Least(k * cap, n) = k * cap
  <2>1. (k - 1) * cap \in Nat /\ k * cap \in Nat /\ k * cap = (k - 1) * cap + cap
    BY <1>1, <1>4
  <2>2. (k - 1) * cap <= (full - 1) * cap
    <3>1. k - 1 \in Nat /\ full - 1 \in Nat /\ k - 1 <= full - 1
      BY <1>4
    <3>2. PICK a \in Nat, b \in Nat, c \in Nat : a = k - 1 /\ b = full - 1 /\ c = cap
      BY <1>1, <3>1
    <3>3. b - a \in Nat /\ b * c = a * c + (b - a) * c /\ (b - a) * c \in Nat /\ a * c \in Nat
      BY <3>1, <3>2
    <3>4. QED
      BY <3>2, <3>3
  <2>3. k # full => k * cap <= (full - 1) * cap
    <3>1. SUFFICES ASSUME k # full PROVE k * cap <= (full - 1) * cap
      OBVIOUS
    <3>2. k \in Nat /\ full - 1 \in Nat /\ k <= full - 1
      BY <1>4, <3>1
    <3>3. PICK a \in Nat, b \in Nat, c \in Nat : a = k /\ b = full - 1 /\ c = cap
      BY <1>1, <3>2
    <3>4. b - a \in Nat /\ b * c = a * c + (b - a) * c /\ (b - a) * c \in Nat /\ a * c \in Nat
      BY <3>2, <3>3
    <3>5. QED
      BY <3>3, <3>4
  <2>4. full # 0 /\ (full - 1) * cap < n /\ (full - 1) * cap \in Nat
    BY <1>1, <1>4
  <2>5. PICK p \in Nat, r \in Nat : p = (k - 1) * cap /\ r = k * cap /\ r = p + cap /\ p < n
    BY <2>1, <2>2, <2>4
  <2>6. k # full => r < n
    BY <2>3, <2>4, <2>5
  <2>7. /\ Least(r, n) \in Nat /\ Least(r, n) <= n /\ Least(r, n) <= r
        /\ p + 1 <= Least(r, n) /\ Least(r, n) - p <= cap
        /\ k # full => Least(r, n) = r
    BY <1>1, <2>5, <2>6 DEF Least
  <2>8. QED
    BY <2>5, <2>7
<1>6. ASSUME NEW k \in 1 .. full
      PROVE  /\ part(k) \in Seq(1 .. n) /\ Len(part(k)) = Least(k * cap, n) - (k - 1) * cap
             /\ \A j \in 1 .. Len(part(k)) : /\ (k - 1) * cap + j \in 1 .. n
                                             /\ part(k)[j] = order[(k - 1) * cap + j]
  <2>1. PICK p \in Nat, r \in Nat : p = (k - 1) * cap /\ r = Least(k * cap, n) /\ p + 1 <= r /\ r <= n
    BY <1>5
  <2>2. part(k) = SubSeq(order, p + 1, r)
    BY <2>1
  <2>3. \A j \in p + 1 .. r : order[j] \in 1 .. n
    BY <1>2, <2>1
  <2>4. PICK u \in Int : u = p + 1
    BY <2>1
  <2>5. /\ SubSeq(order, u, r) \in Seq(1 .. n) /\ Len(SubSeq(order, u, r)) = r - p
        /\ \A j \in 1 .. r - p : SubSeq(order, u, r)[j] = order[p + j]
    <3>1. /\ SubSeq(order, u, r) \in Seq(1 .. n)
          /\ Len(SubSeq(order, u, r)) = IF u <= r THEN r - u + 1 ELSE 0
          /\ \A j \in 1 .. r - u + 1 : SubSeq(order, u, r)[j] = order[u + j - 1]
      BY <2>1, <2>3, <2>4, SubSeqProperties
    <3>2. r - u + 1 = r - p /\ u <= r /\ \A j \in 1 .. r - p : u + j - 1 = p + j
      BY <2>1, <2>4
    <3>3. QED
      BY <3>1, <3>2
  <2>6. \A j \in 1 .. r - p : p + j \in 1 .. n
    BY <2>1
  <2>7. QED
    BY <2>1, <2>2, <2>4, <2>5, <2>6
<1> HIDE DEF part
<1>7. gs \in Seq(Seq(1 .. n)) /\ Len(gs) = full /\ \A k \in 1 .. full : gs[k] = part(k)
  <2>1. \A k \in 1 .. full : part(k) \in Seq(1 .. n)
    BY <1>6
  <2>2. QED
    BY <1>3, <1>4, <2>1
<1>8. ASSUME NEW i \in 1 .. n PROVE \E k \in 1 .. full : \E j \in 1 .. Len(part(k)) : part(k)[j] = i
  <2>1. PICK m \in 1 .. n : order[m] = i
    BY DEF Lists
  <2>2. PICK c \in Nat \ {0} : c = cap
    BY <1>1
  <2>3. PICK x \in Nat : x = m - 1
    OBVIOUS
  <2>4. PICK q \in Nat : q = x \div c
    BY <2>2, <2>3
  <2>5. q * c \in Nat /\ q * c <= x /\ x < q * c + c
    BY <2>2, <2>3, <2>4
  <2>6. q < full
    <3>1. SUFFICES ASSUME q >= full PROVE FALSE
      BY <1>4
    <3>2. PICK b \in Nat : b = full
      BY <1>4
    <3>3. q - b \in Nat /\ q * c = b * c + (q - b) * c /\ (q - b) * c \in Nat /\ b * c \in Nat
      BY <2>2, <3>1, <3>2
    <3>4. b * c >= n
      BY <1>4, <2>2, <3>2
    <3>5. QED
      BY <2>3, <2>5, <3>3, <3>4
  <2>7. PICK k \in 1 .. full : k = q + 1
    BY <1>4, <2>6
  <2>8. (k - 1) * cap = q * c /\ k * cap = q * c + c
    BY <2>2, <2>7
  <2>9. m - q * c \in 1 .. Least(k * cap, n) - (k - 1) * cap
    BY <2>2, <2>3, <2>5, <2>8 DEF Least
  <2>10. PICK j \in 1 .. Len(part(k)) : j = m - q * c
    BY <1>6, <2>9
  <2>11. (k - 1) * cap + j = m
    BY <2>5, <2>8, <2>10
  <2>12. part(k)[j] = order[m]
    BY <1>6, <2>11
  <2>13. QED
    BY <2>1, <2>12
<1>9. ASSUME NEW a \in 1 .. full, NEW b \in 1 .. full,
             NEW j \in 1 .. Len(part(a)), NEW m \in 1 .. Len(part(b)), part(a)[j] = part(b)[m]
      PROVE  a = b /\ j = m
  <2>1. \A x, y \in 1 .. n : order[x] = order[y] => x = y
    BY DEF Lists
  <2>2. (a - 1) * cap + j = (b - 1) * cap + m
    <3>1. (a - 1) * cap + j \in 1 .. n /\ part(a)[j] = order[(a - 1) * cap + j]
      BY <1>6
    <3>2. (b - 1) * cap + m \in 1 .. n /\ part(b)[m] = order[(b - 1) * cap + m]
      BY <1>6
    <3>3. QED
      BY <1>9, <2>1, <3>1, <3>2
  <2>3. j \in 1 .. cap /\ m \in 1 .. cap
    <3>1. ASSUME NEW k \in 1 .. full PROVE Len(part(k)) <= cap /\ Len(part(k)) \in Nat
      <4>1. /\ Len(part(k)) = Least(k * cap, n) - (k - 1) * cap
            /\ part(k) \in Seq(1 .. n)
        BY <1>6
      <4>2. Least(k * cap, n) - (k - 1) * cap <= cap
        BY <1>5
      <4>3. QED
        BY <4>1, <4>2
    <3>2. QED
      BY <1>1, <3>1
  <2>4. PICK c \in Nat \ {0}, x \in Nat, y \in Nat : c = cap /\ x = a - 1 /\ y = b - 1
    BY <1>1
  <2>5. x * c + j = y * c + m /\ j \in 1 .. c /\ m \in 1 .. c
    BY <2>2, <2>3, <2>4
  <2>6. ASSUME NEW u \in Nat, NEW v \in Nat, u < v PROVE v * c >= u * c + c
    <3>1. v - u - 1 \in Nat /\ v * c = u * c + c + (v - u - 1) * c /\ (v - u - 1) * c \in Nat /\ u * c \in Nat
      BY <2>4, <2>6
    <3>2. QED
      BY <2>4, <3>1
  <2>7. x * c \in Nat /\ y * c \in Nat
    BY <2>4
  <2>8. ~ (x < y)
    BY <2>4, <2>5, <2>6, <2>7
  <2>9. ~ (y < x)
    BY <2>4, <2>5, <2>6, <2>7
  <2>10. x = y
    BY <2>4, <2>8, <2>9
  <2>11. QED
    BY <2>4, <2>5, <2>7, <2>10
<1>10. EachOnce(gs, 1 .. n)
  <2>1. PICK s : s = gs
    OBVIOUS
  <2>2. Len(s) = full /\ \A k \in 1 .. full : s[k] = part(k)
    BY <1>7, <2>1
  <2>3. \A a \in 1 .. Len(s) : \A k \in 1 .. Len(s[a]) : s[a][k] \in 1 .. n
    <3>1. ASSUME NEW a \in 1 .. full, NEW k \in 1 .. Len(part(a)) PROVE part(a)[k] \in 1 .. n
      BY <1>6
    <3>2. QED
      BY <2>2, <3>1
  <2>4. \A i \in 1 .. n : \E a \in 1 .. Len(s) : \E k \in 1 .. Len(s[a]) : s[a][k] = i
    <3>1. ASSUME NEW i \in 1 .. n PROVE \E a \in 1 .. Len(s) : \E k \in 1 .. Len(s[a]) : s[a][k] = i
      <4>1. PICK a \in 1 .. full : \E k \in 1 .. Len(part(a)) : part(a)[k] = i
        BY <1>8
      <4>2. a \in 1 .. Len(s) /\ s[a] = part(a)
        BY <2>2
      <4>3. QED
        BY <4>1, <4>2
    <3>2. QED
      BY <3>1
  <2>5. \A a \in 1 .. Len(s) : \A k \in 1 .. Len(s[a]) :
           \A b \in 1 .. Len(s) : \A m \in 1 .. Len(s[b]) : s[a][k] = s[b][m] => a = b /\ k = m
    BY <1>9, <2>2
  <2>6. EachOnce(s, 1 .. n)
    BY <2>3, <2>4, <2>5 DEF EachOnce
  <2>7. QED
    BY <2>1, <2>6
<1>11. ASSUME NEW a \in 1 .. Len(gs)
       PROVE  gs[a] # <<>> /\ (maxBatch # 0 => Len(gs[a]) <= maxBatch)
  <2>1. a \in 1 .. full /\ gs[a] = part(a)
    BY <1>7
  <2>2. Len(part(a)) >= 1 /\ Len(part(a)) <= cap /\ Len(part(a)) \in Nat
    BY <1>1, <1>5, <1>6, <2>1
  <2>3. part(a) # <<>>
    BY <2>2
  <2>4. QED
    BY <1>1, <2>1, <2>2, <2>3
<1>12. QED
  BY <1>7, <1>10, <1>11 DEF Grouped, gs

--------------------------------------------------------------------------------
\* Micro-batches.

\* No row is longer than another by more than a third.
Even(m, rows) ==
  \A a, b \in 1 .. Len(m) : 3 * PromptLen(rows[m[a]]) <= 4 * PromptLen(rows[m[b]]) + 2

MicroFits(m, rows, cap) == m # <<>> /\ Len(m) <= cap /\ Even(m, rows)

MicroFilling(g, rows, cap) ==
  /\ \A a \in 1 .. Len(g.done) : MicroFits(g.done[a], rows, cap)
  /\ g.current # <<>> => MicroFits(g.current, rows, cap)

\* What the micro-batches of n rows are.
Micro(mb, rows, n, maxBatch) ==
  /\ mb \in Seq(Seq(1 .. n)) /\ EachOnce(mb, 1 .. n)
  /\ \A a \in 1 .. Len(mb) :
       mb[a] # <<>> /\ (maxBatch # 0 => Len(mb[a]) <= maxBatch) /\ Even(mb[a], rows)

LEMMA PromptLenIs ==
  ASSUME NEW rows, NEW n \in Nat, \A k \in 1 .. n : rows[k].samples \in Nat
  PROVE  \A k \in 1 .. n : PromptLen(rows[k]) \in Nat
  BY OfflineAssumption DEF PromptLen

\* A row that is not too uneven with the shortest is even with all.
LEMMA PutRowIs ==
  ASSUME NEW n \in Nat, NEW rows, \A i \in 1 .. n : rows[i].samples \in Nat,
         NEW cap \in Nat \ {0},
         NEW g \in Groups(n), NEW X, MicroFilling(g, rows, cap), EachOnce(Lines(g), X),
         NEW k \in 1 .. n, k \notin X, X \subseteq 1 .. n,
         \A i \in X : PromptLen(rows[i]) <= PromptLen(rows[k]),
         NEW new, new = PutRow(g, k, rows, cap)
  PROVE  new \in Groups(n) /\ MicroFilling(new, rows, cap) /\ EachOnce(Lines(new), X \cup {k})
<1> DEFINE len(i) == PromptLen(rows[i])
           lens == {PromptLen(rows[j]) : j \in ToSet(g.current)}
           shortest == CHOOSE x \in lens : \A y \in lens : x <= y
           full == Len(g.current) >= cap \/ TooUneven(shortest, PromptLen(rows[k]))
<1>1. g.done \in Seq(Seq(1 .. n)) /\ g.current \in Seq(1 .. n) /\ g.sec \in Nat /\ Len(g.current) \in Nat
  BY DEF Groups
<1>2. <<>> \in Seq(1 .. n) /\ <<k>> \in Seq(1 .. n) /\ Append(<<>>, k) = <<k>> /\ Len(<<k>>) = 1 /\ <<k>>[1] = k
  OBVIOUS
<1>3. \A i \in 1 .. n : len(i) \in Nat
  BY PromptLenIs
<1>4. ASSUME NEW a \in 1 .. Len(g.current)
      PROVE  g.current[a] \in X /\ g.current[a] \in 1 .. n
  <2>1. /\ Len(g.done) + 1 \in 1 .. Len(Lines(g)) /\ Lines(g)[Len(g.done) + 1] = g.current
    BY <1>1 DEF Lines
  <2>2. g.current[a] \in X
    BY <2>1 DEF EachOnce
  <2>3. QED
    BY <2>2
<1>5. new = IF g.current # <<>> /\ full THEN [Flush(g) EXCEPT !.current = <<k>>]
                                        ELSE [g EXCEPT !.current = Append(@, k)]
  BY DEF PutRow
<1>6. g.current # <<>> /\ ~full => \A a \in 1 .. Len(g.current) : 3 * len(k) <= 4 * len(g.current[a]) + 2
  <2> SUFFICES ASSUME g.current # <<>>, ~full, NEW a \in 1 .. Len(g.current)
               PROVE  3 * len(k) <= 4 * len(g.current[a]) + 2
    OBVIOUS
  <2>1. ASSUME NEW b \in 1 .. Len(g.current) PROVE len(g.current[b]) \in lens
    <3>1. PICK j : j = g.current[b]
      OBVIOUS
    <3>2. j \in ToSet(g.current)
      BY <1>1, <3>1 DEF ToSet
    <3>3. QED
      BY <3>1, <3>2
  <2>2. lens \subseteq Nat
    BY <1>1, <1>3, <1>4, SMTT(30) DEF ToSet
  <2>3. 1 \in 1 .. Len(g.current)
    BY <1>1
  <2>4. lens # {}
    BY <2>1, <2>3
  <2>5. \E x \in lens : \A y \in lens : x <= y
    <3> HIDE DEF lens
    <3>1. QED
      BY <2>2, <2>4, LeastOf
  <2>6. shortest \in lens /\ \A y \in lens : shortest <= y
    <3> HIDE DEF lens
    <3>1. QED
      BY <2>5
  <2>7. PICK s \in Nat : s = shortest /\ s <= len(g.current[a])
    BY <2>1, <2>2, <2>6
  <2>8. PICK t \in Nat, u \in Nat : t = len(k) /\ u = len(g.current[a])
    BY <1>3, <1>4
  <2>9. ~ TooUneven(s, t)
    BY <2>7, <2>8
  <2>10. PICK z \in Nat : z = s * 4 + 2
    OBVIOUS
  <2>11. 3 * t <= s * 4 + 2
    <3>1. t <= z \div 3
      BY <2>9, <2>10 DEF TooUneven
    <3>2. 3 * t <= z
      BY <3>1
    <3>3. QED
      BY <2>10, <3>2
  <2>12. 3 * t <= 4 * u + 2
    BY <2>7, <2>8, <2>11
  <2>13. QED
    BY <2>8, <2>12
<1>7. MicroFits(<<k>>, rows, cap)
  <2>1. 3 * len(k) <= 4 * len(k) + 2
    BY <1>3
  <2>2. Even(<<k>>, rows)
    BY <1>2, <2>1 DEF Even
  <2>3. QED
    BY <1>2, <2>2 DEF MicroFits
<1>8. CASE g.current # <<>> /\ full
  <2>1. PICK f : f = Flush(g)
    OBVIOUS
  <2>2. /\ f \in Groups(n) /\ f.current = <<>> /\ EachOnce(Lines(f), X)
        /\ f.done = (IF g.current = <<>> THEN g.done ELSE Append(g.done, g.current))
    BY <2>1, FlushIs
  <2>3. f.done \in Seq(Seq(1 .. n)) /\ f.sec \in Nat
    BY <2>2 DEF Groups
  <2>4. new = [f EXCEPT !.current = <<k>>]
    BY <1>5, <1>8, <2>1
  <2>5. new = [done |-> f.done, current |-> <<k>>, sec |-> f.sec]
    BY <2>2, <2>4 DEF Groups
  <2>6. new \in Groups(n) /\ new.done = f.done /\ new.current = <<k>>
    BY <1>2, <2>3, <2>5 DEF Groups
  <2>7. EachOnce(Lines(new), X \cup {k})
    <3>1. EachOnce(Append(f.done, <<>>), X)
      BY <2>2 DEF Lines
    <3>2. EachOnce(Append(f.done, Append(<<>>, k)), X \cup {k})
      BY <1>2, <2>3, <3>1, OnceMore
    <3>3. QED
      BY <1>2, <2>6, <3>2 DEF Lines
  <2>8. ASSUME NEW a \in 1 .. Len(new.done) PROVE MicroFits(new.done[a], rows, cap)
    <3>1. new.done = Append(g.done, g.current)
      BY <1>8, <2>2, <2>6
    <3>2. CASE a = Len(g.done) + 1
      <4>1. new.done[a] = g.current
        BY <1>1, <3>1, <3>2
      <4>2. QED
        BY <1>8, <4>1 DEF MicroFilling
    <3>3. CASE a # Len(g.done) + 1
      <4>1. a \in 1 .. Len(g.done) /\ new.done[a] = g.done[a]
        BY <1>1, <3>1, <3>3
      <4>2. QED
        BY <4>1 DEF MicroFilling
    <3>4. QED
      BY <3>2, <3>3
  <2>9. MicroFilling(new, rows, cap)
    BY <1>7, <2>6, <2>8 DEF MicroFilling
  <2>10. QED
    BY <2>6, <2>7, <2>9
<1>9. CASE ~ (g.current # <<>> /\ full)
  <2> DEFINE w == Append(g.current, k)
             m == Len(g.current)
  <2>1. /\ w \in Seq(1 .. n) /\ m \in Nat /\ Len(w) = m + 1 /\ w[m+1] = k /\ w # <<>>
        /\ \A a \in 1 .. m : w[a] = g.current[a]
    <3>1. PICK h \in Seq(1 .. n) : h = g.current
      BY <1>1
    <3>2. Longer(Append(h, k), h, k, 1 .. n)
      BY AppendIs
    <3>3. QED
      BY <3>1, <3>2 DEF Longer
  <2>2. new = [g EXCEPT !.current = w]
    BY <1>5, <1>9
  <2> HIDE DEF w
  <2>3. new = [done |-> g.done, current |-> w, sec |-> g.sec]
    BY <2>2 DEF Groups
  <2>4. new \in Groups(n) /\ new.done = g.done /\ new.current = w
    BY <1>1, <2>1, <2>3 DEF Groups
  <2>5. EachOnce(Lines(new), X \cup {k})
    <3>1. EachOnce(Append(g.done, g.current), X)
      BY DEF Lines
    <3>2. EachOnce(Append(g.done, Append(g.current, k)), X \cup {k})
      BY <1>1, <3>1, OnceMore
    <3>3. QED
      BY <2>4, <3>2 DEF Lines, w
  <2>6. Len(w) <= cap
    <3>1. CASE g.current = <<>>
      BY <2>1, <3>1
    <3>2. CASE g.current # <<>>
      BY <1>1, <1>9, <2>1, <3>2
    <3>3. QED
      BY <3>1, <3>2
  <2>7. ASSUME NEW a \in 1 .. m PROVE 3 * len(w[a]) <= 4 * len(k) + 2 /\ 3 * len(k) <= 4 * len(w[a]) + 2
    <3>1. w[a] = g.current[a] /\ g.current[a] \in X /\ g.current[a] \in 1 .. n
      BY <1>4, <2>1
    <3>2. g.current # <<>>
      BY <2>1
    <3>3. 3 * len(k) <= 4 * len(g.current[a]) + 2
      BY <1>6, <1>9, <3>2
    <3>4. PICK t \in Nat, u \in Nat : t = len(k) /\ u = len(g.current[a]) /\ u <= t
      BY <1>3, <3>1
    <3>5. 3 * u <= 4 * t + 2
      BY <3>4
    <3>6. QED
      BY <3>1, <3>3, <3>4, <3>5
  <2>8. ASSUME NEW a \in 1 .. m, NEW b \in 1 .. m PROVE 3 * len(w[a]) <= 4 * len(w[b]) + 2
    <3>1. g.current # <<>>
      BY <2>1
    <3>2. Even(g.current, rows)
      BY <3>1 DEF MicroFilling, MicroFits
    <3>3. QED
      BY <2>1, <3>2 DEF Even
  <2>9. 3 * len(k) <= 4 * len(k) + 2
    BY <1>3
  <2>10. \A a \in 1 .. m + 1 : a \in 1 .. m \/ w[a] = k
    BY <2>1
  <2>11. ASSUME NEW a \in 1 .. m + 1, NEW b \in 1 .. m + 1 PROVE 3 * len(w[a]) <= 4 * len(w[b]) + 2
    <3>1. CASE a \in 1 .. m /\ b \in 1 .. m
      BY <2>8, <3>1
    <3>2. CASE a \in 1 .. m /\ w[b] = k
      BY <2>7, <3>2
    <3>3. CASE w[a] = k /\ b \in 1 .. m
      BY <2>7, <3>3
    <3>4. CASE w[a] = k /\ w[b] = k
      BY <2>9, <3>4
    <3>5. QED
      BY <2>10, <3>1, <3>2, <3>3, <3>4
  <2>12. Even(w, rows)
    BY <2>1, <2>11 DEF Even
  <2>13. MicroFilling(new, rows, cap)
    BY <2>1, <2>4, <2>6, <2>12 DEF MicroFilling, MicroFits
  <2>14. QED
    BY <2>4, <2>5, <2>13
<1>10. QED
  BY <1>8, <1>9

LEMMA SortedLists ==
  ASSUME NEW n \in Nat, NEW keys \in [1 .. n -> Int]
  PROVE  /\ Lists(Sorted(keys), n)
         /\ \A a, b \in 1 .. n : a < b => keys[Sorted(keys)[a]] <= keys[Sorted(keys)[b]]
<1>1. /\ Sorted(keys) \in [1 .. n -> 1 .. n]
      /\ Len(Sorted(keys)) = n
      /\ \A i \in 1 .. n : \E m \in 1 .. n : Sorted(keys)[m] = i
      /\ \A a, b \in 1 .. n : a # b => Sorted(keys)[a] # Sorted(keys)[b]
      /\ \A a, b \in 1 .. n : a < b => keys[Sorted(keys)[a]] <= keys[Sorted(keys)[b]]
  BY SortedIs
<1>2. PICK s \in [1 .. n -> 1 .. n] : s = Sorted(keys)
  BY <1>1
<1>3. s \in Seq(1 .. n)
  OBVIOUS
<1>4. QED
  BY <1>1, <1>2, <1>3 DEF Lists

\* The micro-batches have every row once, and rows that are not too uneven together.
LEMMA RebatchIs ==
  ASSUME NEW n \in Nat, NEW rows, Len(rows) = n, \A i \in 1 .. n : rows[i].samples \in Nat,
         NEW maxBatch \in Nat
  PROVE  Micro(Rebatch(rows, maxBatch), rows, n, maxBatch)
<1> DEFINE cap == CountCap(maxBatch, n)
           keys == [k \in 1 .. n |-> PromptLen(rows[k])]
           order == Sorted(keys)
           F(f) == f = [k \in 0 .. n |-> IF k = 0 THEN NoGroup ELSE PutRow(f[k-1], order[k], rows, cap)]
           after == CHOOSE f : F(f)
           listed(k) == {order[j] : j \in 1 .. k}
           Part(k) == {g \in Groups(n) : MicroFilling(g, rows, cap) /\ EachOnce(Lines(g), listed(k))}
           V == [k \in 0 .. n |-> Part(k)]
           next == [p \in (1 .. n) \X Groups(n) |-> PutRow(p[2], order[p[1]], rows, cap)]
           mb == Rebatch(rows, maxBatch)
<1>1. cap \in Nat \ {0} /\ (maxBatch # 0 => cap = maxBatch)
  BY CountCapIs
<1>2. \A k \in 1 .. n : PromptLen(rows[k]) \in Nat
  BY PromptLenIs
<1>3. keys \in [1 .. n -> Int] /\ \A k \in 1 .. n : keys[k] = PromptLen(rows[k])
  BY <1>2
<1>4. mb = Flush(after[n]).done
  BY Zenon DEF Rebatch
<1>5. \A k \in 1 .. n : k \in 0 .. n /\ k - 1 \in 0 .. n
  OBVIOUS
<1>6. \A k \in 0 .. n : V[k] = Part(k)
  OBVIOUS
<1>7. \A k \in 1 .. n, g \in Groups(n) : next[<<k, g>>] = PutRow(g, order[k], rows, cap)
  OBVIOUS
<1> HIDE DEF V, next, cap, mb, keys
<1>8. /\ Lists(order, n)
      /\ \A a, b \in 1 .. n : a < b => keys[order[a]] <= keys[order[b]]
  BY <1>3, SortedLists
<1> HIDE DEF order
<1>9. NoGroup \in V[0]
  <2>1. NoGroup \in Groups(n) /\ NoGroup.done = <<>> /\ NoGroup.current = <<>>
    BY DEF NoGroup, Groups
  <2>2. MicroFilling(NoGroup, rows, cap)
    BY <2>1 DEF MicroFilling
  <2>3. Len(Lines(NoGroup)) = 1 /\ Len(Lines(NoGroup)[1]) = 0
    BY <2>1 DEF Lines
  <2>4. listed(0) = {}
    OBVIOUS
  <2>5. EachOnce(Lines(NoGroup), listed(0))
    BY <2>3, <2>4 DEF EachOnce
  <2>6. QED
    BY <1>6, <2>1, <2>2, <2>5
<1>10. ASSUME NEW k \in 1 .. n, NEW g \in V[k-1]
       PROVE  g \in Groups(n) /\ next[<<k, g>>] \in V[k] /\ next[<<k, g>>] = PutRow(g, order[k], rows, cap)
  <2>1. g \in Groups(n) /\ MicroFilling(g, rows, cap) /\ EachOnce(Lines(g), listed(k - 1))
    BY <1>5, <1>6
  <2>2. PICK new : new = PutRow(g, order[k], rows, cap)
    OBVIOUS
  <2>3. PICK i \in 1 .. n : i = order[k] /\ i \notin listed(k - 1) /\ listed(k) = listed(k - 1) \cup {i}
    <3>1. Lists(order, n)
      BY <1>8
    <3>2. /\ order[k] \in 1 .. n
          /\ order[k] \notin {order[j] : j \in 1 .. k - 1}
          /\ {order[j] : j \in 1 .. k} = {order[j] : j \in 1 .. k - 1} \cup {order[k]}
      BY <3>1, ListedMore
    <3>3. QED
      BY <3>2
  <2>4. ASSUME NEW j \in listed(k - 1)
        PROVE  j \in 1 .. n /\ PromptLen(rows[j]) <= PromptLen(rows[i])
    <3>1. PICK m \in 1 .. k - 1 : j = order[m]
      OBVIOUS
    <3>2. m \in 1 .. n /\ m < k
      OBVIOUS
    <3>3. j \in 1 .. n
      BY <1>8, <3>1, <3>2, ListedMore
    <3>4. keys[j] <= keys[i]
      BY <1>8, <2>3, <3>1, <3>2
    <3>5. QED
      BY <1>3, <3>3, <3>4
  <2> HIDE DEF listed
  <2>5. PICK X : X = listed(k - 1)
    OBVIOUS
  <2>6. EachOnce(Lines(g), X) /\ i \notin X /\ X \subseteq 1 .. n /\ \A j \in X : PromptLen(rows[j]) <= PromptLen(rows[i])
    BY <2>1, <2>3, <2>4, <2>5
  <2>7. new = PutRow(g, i, rows, cap)
    BY <2>2, <2>3
  <2>8. new \in Groups(n) /\ MicroFilling(new, rows, cap) /\ EachOnce(Lines(new), X \cup {i})
    BY <1>1, <2>1, <2>6, <2>7, PutRowIs
  <2>9. EachOnce(Lines(new), listed(k))
    BY <2>3, <2>5, <2>8
  <2>10. new \in Part(k)
    BY <2>8, <2>9
  <2>11. QED
    BY <1>5, <1>6, <1>7, <2>1, <2>2, <2>10
<1>11. Steps(n, V, NoGroup, next)
  BY <1>9, <1>10 DEF Steps
<1>12. \E f : F(f)
  <2>1. PICK f : RunThrough(f, n, V, NoGroup, next)
    BY <1>11, Recursion
  <2>2. ASSUME NEW k \in 0 .. n
        PROVE  f[k] = IF k = 0 THEN NoGroup ELSE PutRow(f[k-1], order[k], rows, cap)
    <3>1. CASE k = 0
      BY <2>1, <3>1 DEF RunThrough
    <3>2. CASE k # 0
      <4>1. k \in 1 .. n
        BY <3>2
      <4>2. f[k-1] \in V[k-1] /\ f[k] = next[<<k, f[k-1]>>]
        BY <2>1, <4>1 DEF RunThrough
      <4>3. QED
        BY <1>10, <3>2, <4>1, <4>2
    <3>3. QED
      BY <3>1, <3>2
  <2>3. f = [k \in 0 .. n |-> f[k]]
    BY <2>1 DEF RunThrough
  <2>4. F(f)
    BY <2>2, <2>3
  <2> HIDE DEF F
  <2>5. QED
    BY <2>4
<1>13. F(after)
  <2> HIDE DEF F
  <2>1. QED
    BY <1>12
<1> HIDE DEF after
<1>14. Follows(after, n, V, NoGroup, next)
  <2>1. \A k \in 0 .. n : after[k] = IF k = 0 THEN NoGroup ELSE PutRow(after[k-1], order[k], rows, cap)
    BY <1>13
  <2>2. after[0] = NoGroup
    BY <2>1
  <2>3. ASSUME NEW k \in 1 .. n, after[k-1] \in V[k-1] PROVE after[k] = next[<<k, after[k-1]>>]
    <3>1. after[k] = PutRow(after[k-1], order[k], rows, cap)
      BY <1>5, <2>1
    <3>2. QED
      BY <1>10, <2>3, <3>1
  <2>4. QED
    BY <2>2, <2>3 DEF Follows
<1>15. n \in 0 .. n /\ \A k \in 0 .. n : after[k] \in V[k]
  BY <1>11, <1>14, Recursion
<1>16. PICK g \in Groups(n) : /\ g = after[n] /\ MicroFilling(g, rows, cap)
                              /\ EachOnce(Lines(g), 1 .. n)
  <2>1. after[n] \in Part(n)
    BY <1>6, <1>15
  <2>2. listed(n) = 1 .. n
    BY <1>8, ListedAll
  <2>3. QED
    BY <2>1, <2>2
<1>17. PICK f : f = Flush(g)
  OBVIOUS
<1>18. mb = f.done
  BY <1>4, <1>16, <1>17
<1>19. /\ f \in Groups(n) /\ EachOnce(f.done, 1 .. n)
       /\ f.done = (IF g.current = <<>> THEN g.done ELSE Append(g.done, g.current))
  BY <1>16, <1>17, FlushIs
<1>20. f.done \in Seq(Seq(1 .. n)) /\ g.done \in Seq(Seq(1 .. n)) /\ g.current \in Seq(1 .. n)
  BY <1>19 DEF Groups
<1>21. ASSUME NEW a \in 1 .. Len(mb) PROVE MicroFits(mb[a], rows, cap)
  <2>1. CASE g.current = <<>>
    <3>1. mb = g.done
      BY <2>1, <1>18, <1>19
    <3>2. QED
      BY <3>1, <1>16 DEF MicroFilling
  <2>2. CASE g.current # <<>>
    <3>1. mb = Append(g.done, g.current)
      BY <2>2, <1>18, <1>19
    <3>2. CASE a = Len(g.done) + 1
      <4>1. mb[a] = g.current
        BY <3>1, <3>2, <1>20
      <4>2. QED
        BY <2>2, <4>1, <1>16 DEF MicroFilling
    <3>3. CASE a # Len(g.done) + 1
      <4>1. a \in 1 .. Len(g.done) /\ mb[a] = g.done[a]
        BY <3>1, <3>3, <1>20
      <4>2. QED
        BY <4>1, <1>16 DEF MicroFilling
    <3>4. QED
      BY <3>2, <3>3
  <2>3. QED
    BY <2>1, <2>2
<1>22. Micro(mb, rows, n, maxBatch)
  BY <1>1, <1>18, <1>19, <1>20, <1>21 DEF Micro, MicroFits
<1>23. QED
  BY <1>22 DEF mb

--------------------------------------------------------------------------------
\* The groups of a call.

\* The groups still to run have the chunks that are not answered, each once.
GroupsKept ==
  /\ status = "called" => answers = Nothing
  /\ status = "running" =>
       /\ groups \in Seq(Seq(1 .. Len(chunks)))
       /\ EachOnce(groups, (1 .. Len(chunks)) \ DOMAIN answers)
       /\ DOMAIN answers \subseteq 1 .. Len(chunks)
       /\ \A a \in 1 .. Len(groups) :
            /\ groups[a] # <<>> /\ (call.maxBatch # 0 => Len(groups[a]) <= call.maxBatch)
            /\ \/ call.budget = 0 \/ Weight(groups[a], chunks) <= call.budget
               \/ Len(groups[a]) = 1

LEMMA ElementsOf ==
  ASSUME NEW V, NEW s \in Seq(V)
  PROVE  /\ ToSet(s) \subseteq V /\ \A k \in 1 .. Len(s) : s[k] \in ToSet(s)
         /\ \A x \in ToSet(s) : \E k \in 1 .. Len(s) : s[k] = x
  BY DEF ToSet

\* Without the first of the sequences its elements are gone.
LEMMA OnceLess ==
  ASSUME NEW V, NEW s \in Seq(Seq(V)), s # <<>>, NEW X, EachOnce(s, X)
  PROVE  /\ Head(s) \in Seq(V) /\ Tail(s) \in Seq(Seq(V)) /\ Len(Tail(s)) = Len(s) - 1
         /\ 1 \in 1 .. Len(s) /\ Head(s) = s[1]
         /\ \A a \in 1 .. Len(Tail(s)) : a + 1 \in 1 .. Len(s) /\ Tail(s)[a] = s[a+1]
         /\ ToSet(Head(s)) \subseteq X
         /\ \A a, b \in 1 .. Len(Head(s)) : Head(s)[a] = Head(s)[b] => a = b
         /\ EachOnce(Tail(s), X \ ToSet(Head(s)))
<1> DEFINE h == Head(s)
           t == Tail(s)
<1>1. /\ h \in Seq(V) /\ t \in Seq(Seq(V)) /\ Len(t) = Len(s) - 1 /\ Len(s) \in Nat /\ Len(s) >= 1
      /\ h = s[1] /\ \A a \in 1 .. Len(t) : t[a] = s[a+1]
  OBVIOUS
<1>2. 1 \in 1 .. Len(s) /\ \A a \in 1 .. Len(t) : a + 1 \in 1 .. Len(s) /\ t[a] = s[a+1] /\ a + 1 # 1
  BY <1>1
<1> HIDE DEF h, t
<1>3. /\ \A k \in 1 .. Len(h) : h[k] \in ToSet(h)
      /\ \A x \in ToSet(h) : \E k \in 1 .. Len(h) : h[k] = x
  <2>1. PICK z \in Seq(V) : z = h
    BY <1>1
  <2>2. /\ \A k \in 1 .. Len(z) : z[k] \in ToSet(z)
        /\ \A x \in ToSet(z) : \E k \in 1 .. Len(z) : z[k] = x
    BY ElementsOf
  <2>3. QED
    BY <2>1, <2>2
<1>4. ToSet(h) \subseteq X
  <2>1. ASSUME NEW k \in 1 .. Len(h) PROVE h[k] \in X
    BY <1>1, <1>2, OncePlace
  <2>2. QED
    BY <1>3, <2>1
<1>5. \A a, b \in 1 .. Len(h) : h[a] = h[b] => a = b
  BY <1>1, <1>2 DEF EachOnce
<1>6. ASSUME NEW a \in 1 .. Len(t), NEW k \in 1 .. Len(t[a]) PROVE t[a][k] \in X \ ToSet(h)
  <2>1. t[a][k] \in X
    BY <1>2 DEF EachOnce
  <2>2. ASSUME t[a][k] \in ToSet(h) PROVE FALSE
    <3>1. PICK j \in 1 .. Len(h) : h[j] = t[a][k]
      BY <1>3, <2>2
    <3>2. s[1][j] = s[a+1][k] /\ j \in 1 .. Len(s[1]) /\ k \in 1 .. Len(s[a+1]) /\ a + 1 \in 1 .. Len(s)
      BY <1>1, <1>2, <3>1
    <3>3. a + 1 = 1
      BY <1>2, <3>2 DEF EachOnce
    <3>4. QED
      BY <1>2, <3>3
  <2>3. QED
    BY <2>1, <2>2
<1>7. ASSUME NEW i \in X \ ToSet(h) PROVE \E a \in 1 .. Len(t) : \E k \in 1 .. Len(t[a]) : t[a][k] = i
  <2>1. PICK b \in 1 .. Len(s) : \E k \in 1 .. Len(s[b]) : s[b][k] = i
    BY DEF EachOnce
  <2>2. PICK k \in 1 .. Len(s[b]) : s[b][k] = i
    BY <2>1
  <2>3. b # 1
    BY <1>1, <1>3, <2>2
  <2>4. PICK a \in 1 .. Len(t) : a + 1 = b
    <3>1. b - 1 \in 1 .. Len(t) /\ (b - 1) + 1 = b
      BY <1>1, <2>3
    <3>2. QED
      BY <3>1
  <2>5. t[a] = s[b]
    BY <1>2, <2>4
  <2>6. QED
    BY <2>2, <2>5
<1>8. ASSUME NEW a \in 1 .. Len(t), NEW b \in 1 .. Len(t),
             NEW k \in 1 .. Len(t[a]), NEW m \in 1 .. Len(t[b]), t[a][k] = t[b][m]
      PROVE  a = b /\ k = m
  <2>1. /\ a + 1 \in 1 .. Len(s) /\ b + 1 \in 1 .. Len(s) /\ k \in 1 .. Len(s[a+1]) /\ m \in 1 .. Len(s[b+1])
        /\ s[a+1][k] = s[b+1][m]
    BY <1>2, <1>8
  <2>2. a + 1 = b + 1 /\ k = m
    <3>1. PICK c \in 1 .. Len(s), d \in 1 .. Len(s) : c = a + 1 /\ d = b + 1
      BY <2>1
    <3>2. k \in 1 .. Len(s[c]) /\ m \in 1 .. Len(s[d]) /\ s[c][k] = s[d][m]
      BY <2>1, <3>1
    <3>3. \A e \in 1 .. Len(s) : \A j \in 1 .. Len(s[e]) : s[c][k] = s[e][j] => c = e /\ k = j
      BY <3>2, Zenon DEF EachOnce
    <3>4. c = d /\ k = m
      BY <3>2, <3>3
    <3>5. QED
      BY <3>1, <3>4
  <2>3. QED
    BY <2>2
<1>9. EachOnce(t, X \ ToSet(h))
  BY <1>6, <1>7, <1>8 DEF EachOnce
<1>10. QED
  BY <1>1, <1>2, <1>4, <1>5, <1>9 DEF h, t

\* What a call is asked to do.
LEMMA CallOptions ==
  ASSUME call \in OfflineCalls
  PROVE  call.maxBatch \in Nat /\ call.budget \in Nat /\ call.bucket \in BOOLEAN
  BY DEF OfflineCalls

LEMMA ChunkFields ==
  ASSUME NEW cs \in Seq(Chunks)
  PROVE  /\ Len(cs) \in Nat
         /\ \A k \in 1 .. Len(cs) : /\ cs[k] \in Chunks
                                    /\ cs[k].samples \in Nat /\ cs[k].from \in Nat /\ cs[k].to \in Nat
                                    /\ cs[k].offset \in Nat
<1>1. Len(cs) \in Nat /\ \A k \in 1 .. Len(cs) : cs[k] \in Chunks
  OBVIOUS
<1>2. \A c \in Chunks : c.samples \in Nat /\ c.from \in Nat /\ c.to \in Nat /\ c.offset \in Nat
  BY DEF Chunks
<1>3. QED
  BY <1>1, <1>2

\* The chunks of a call are grouped.
LEMMA PreparedGroups ==
  ASSUME call \in OfflineCalls, NEW cs \in Seq(Chunks)
  PROVE  Grouped(GroupChunks(ChunkOrder(cs, call.bucket), cs, call.maxBatch, call.budget),
                 cs, Len(cs), call.maxBatch, call.budget)
<1> DEFINE keys == [k \in 1 .. Len(cs) |-> IF call.bucket THEN -cs[k].samples ELSE 0]
           order == ChunkOrder(cs, call.bucket)
<1>1. Len(cs) \in Nat /\ \A k \in 1 .. Len(cs) : cs[k].samples \in Nat
  BY ChunkFields
<1>2. keys \in [1 .. Len(cs) -> Int]
  BY <1>1
<1>3. order = Sorted(keys)
  BY DEF ChunkOrder
<1> HIDE DEF keys, order
<1>4. Lists(order, Len(cs))
  BY <1>1, <1>2, <1>3, SortedLists
<1>5. PICK maxBatch \in Nat, budget \in Nat : maxBatch = call.maxBatch /\ budget = call.budget
  BY CallOptions
<1>6. PICK n \in Nat : n = Len(cs)
  BY <1>1
<1>7. Lists(order, n) /\ \A i \in 1 .. n : cs[i].samples \in Nat
  BY <1>1, <1>4, <1>6
<1>8. Grouped(GroupChunks(order, cs, maxBatch, budget), cs, n, maxBatch, budget)
  <2>1. CASE budget = 0
    BY <1>7, <2>1, CountGroups
  <2>2. CASE budget # 0
    BY <1>7, <2>2, BudgetGroups
  <2>3. QED
    BY <2>1, <2>2
<1>9. QED
  BY <1>5, <1>6, <1>8 DEF order

\* A group is answered.
LEMMA AnswerKeepsGroups ==
  ASSUME GroupsKept, status = "running", groups # <<>>,
         NEW texts, DOMAIN texts = ToSet(Head(groups)),
         answers' = Added(answers, texts), groups' = Tail(groups),
         UNCHANGED <<call, chunks, status>>
  PROVE  GroupsKept'
<1> DEFINE V == 1 .. Len(chunks)
           X == V \ DOMAIN answers
           h == Head(groups)
<1>1. groups \in Seq(Seq(V)) /\ EachOnce(groups, X) /\ DOMAIN answers \subseteq V
  BY DEF GroupsKept
<1>2. /\ Tail(groups) \in Seq(Seq(V)) /\ ToSet(h) \subseteq X
      /\ EachOnce(Tail(groups), X \ ToSet(h))
      /\ \A a \in 1 .. Len(Tail(groups)) : a + 1 \in 1 .. Len(groups) /\ Tail(groups)[a] = groups[a+1]
  <2> HIDE DEF X, V
  <2>1. QED
    BY <1>1, OnceLess
<1>3. DOMAIN answers' = DOMAIN answers \cup ToSet(h)
  BY DEF Added
<1>4. V \ DOMAIN answers' = X \ ToSet(h) /\ DOMAIN answers' \subseteq V
  BY <1>1, <1>2, <1>3
<1>5. \A a \in 1 .. Len(groups) :
            /\ groups[a] # <<>> /\ (call.maxBatch # 0 => Len(groups[a]) <= call.maxBatch)
            /\ \/ call.budget = 0 \/ Weight(groups[a], chunks) <= call.budget
               \/ Len(groups[a]) = 1
  BY DEF GroupsKept
<1>6. \A a \in 1 .. Len(groups') :
            /\ groups'[a] # <<>> /\ (call.maxBatch # 0 => Len(groups'[a]) <= call.maxBatch)
            /\ \/ call.budget = 0 \/ Weight(groups'[a], chunks) <= call.budget
               \/ Len(groups'[a]) = 1
  BY <1>2, <1>5
<1>7. /\ groups' \in Seq(Seq(V)) /\ EachOnce(groups', V \ DOMAIN answers')
  BY <1>2, <1>4
<1>8. call' = call /\ chunks' = chunks /\ status' = "running"
  OBVIOUS
<1>9. QED
  BY <1>4, <1>6, <1>7, <1>8 DEF GroupsKept

LEMMA GroupsStay ==
  ASSUME CutForCall, GroupsKept, [OfflineNext]_offlineVars
  PROVE  GroupsKept'
<1>1. CASE Prepare
  <2>1. PICK cs : /\ cs = ChunksOf(call.audios, ChunkMax) /\ chunks' = cs
                  /\ groups' = GroupChunks(ChunkOrder(cs, call.bucket), cs, call.maxBatch, call.budget)
                  /\ status' = "running" /\ call' = call /\ answers' = answers /\ answers = Nothing
    BY <1>1 DEF Prepare, GroupsKept
  <2>2. call \in OfflineCalls
    BY DEF CutForCall
  <2>3. cs \in Seq(Chunks)
    <3>1. PICK st : ChunksAre(cs, st, call.audios, ChunkMax)
      BY <2>1, <2>2, ChunkMaxIs, CallAudios, ChunksOfIs
    <3>2. QED
      BY <3>1 DEF ChunksAre
  <2>4. Grouped(groups', cs, Len(cs), call.maxBatch, call.budget)
    BY <2>1, <2>2, <2>3, PreparedGroups
  <2>5. DOMAIN answers' = {}
    BY <2>1 DEF Nothing
  <2>6. (1 .. Len(cs)) \ DOMAIN answers' = 1 .. Len(cs)
    BY <2>5
  <2>7. QED
    BY <2>1, <2>4, <2>5, <2>6 DEF GroupsKept, Grouped
<1>2. CASE Delegate
  BY <1>2 DEF Delegate, GroupsKept
<1>3. CASE Refuse \/ FailGroup \/ Merge
  BY <1>3 DEF Refuse, FailGroup, Merge, GroupsKept
<1>4. CASE AsrGroup
  <2>1. PICK says : Answer(Head(groups), says, GroupAnswers(Head(groups), says))
    BY <1>4 DEF AsrGroup
  <2>2. DOMAIN GroupAnswers(Head(groups), says) = ToSet(Head(groups))
    BY DEF GroupAnswers
  <2>3. status = "running" /\ groups # <<>>
    BY <1>4 DEF AsrGroup
  <2>4. QED
    BY <2>1, <2>2, <2>3, AnswerKeepsGroups DEF Answer
<1>5. CASE AlignedGroup
  <2>1. PICK says : Answer(Head(groups), says, GroupAnswers(Head(groups), says))
    BY <1>5 DEF AlignedGroup
  <2>2. DOMAIN GroupAnswers(Head(groups), says) = ToSet(Head(groups))
    BY DEF GroupAnswers
  <2>3. status = "running" /\ groups # <<>>
    BY <1>5 DEF AlignedGroup
  <2>4. QED
    BY <2>1, <2>2, <2>3, AnswerKeepsGroups DEF Answer
<1>6. CASE UNCHANGED offlineVars
  BY <1>6 DEF offlineVars, GroupsKept
<1>7. QED
  BY <1>1, <1>2, <1>3, <1>4, <1>5, <1>6 DEF OfflineNext, Transcribe, TranscribeTimed,
     TranscribeAligned, TranscribeAlignedTimed, RunAsr, RunAsrTimed, RunAligned,
     RunAlignedTimed, MergeOutputs, MergeOutputsTimed, MergeAligned, MergeAlignedTimed

LEMMA GroupsFirst == OfflineInit => GroupsKept
  BY DEF OfflineInit, GroupsKept

LEMMA GroupsAlways == OfflineSpec => []GroupsKept
<1>1. CutForCall /\ GroupsKept /\ [OfflineNext]_offlineVars => GroupsKept'
  BY GroupsStay
<1>2. QED
  BY <1>1, GroupsFirst, CutAlways, PTL DEF OfflineSpec

\* An element of sequences that have it once is at one place of them.
LEMMA OnePlace ==
  ASSUME NEW n \in Nat, NEW s \in Seq(Seq(1 .. n)), NEW X, EachOnce(s, X), NEW i \in 1 .. n
  PROVE  Cardinality({p \in (1 .. Len(s)) \X (1 .. n) : p[2] <= Len(s[p[1]]) /\ s[p[1]][p[2]] = i})
           = IF i \in X THEN 1 ELSE 0
<1> DEFINE P == {p \in (1 .. Len(s)) \X (1 .. n) : p[2] <= Len(s[p[1]]) /\ s[p[1]][p[2]] = i}
<1>1. ASSUME NEW p \in P PROVE p = <<p[1], p[2]>> /\ p[1] \in 1 .. Len(s) /\ p[2] \in 1 .. Len(s[p[1]]) /\ s[p[1]][p[2]] = i
  <2>1. p \in (1 .. Len(s)) \X (1 .. n) /\ p[2] <= Len(s[p[1]]) /\ s[p[1]][p[2]] = i
    OBVIOUS
  <2>2. p = <<p[1], p[2]>> /\ p[1] \in 1 .. Len(s) /\ p[2] \in 1 .. n
    BY <2>1
  <2>3. s[p[1]] \in Seq(1 .. n)
    BY <2>2
  <2>4. Len(s[p[1]]) \in Nat
    BY <2>3
  <2>5. QED
    BY <2>1, <2>2, <2>4
<1>2. CASE i \in X
  <2>1. PICK a \in 1 .. Len(s) : \E k \in 1 .. Len(s[a]) : s[a][k] = i
    BY <1>2 DEF EachOnce
  <2>2. PICK k \in 1 .. Len(s[a]) : s[a][k] = i
    BY <2>1
  <2>3. s[a] \in Seq(1 .. n) /\ Len(s[a]) \in Nat
    OBVIOUS
  <2>4. Len(s[a]) <= n
    <3> DEFINE f == [j \in 1 .. Len(s[a]) |-> s[a][j]]
    <3>1. f \in [1 .. Len(s[a]) -> 1 .. n]
      BY <2>3
    <3>2. \A x, y \in 1 .. Len(s[a]) : f[x] = f[y] => x = y
      BY DEF EachOnce
    <3> HIDE DEF f
    <3>3. f \in Injection(1 .. Len(s[a]), 1 .. n)
      BY <3>1, <3>2 DEF Injection, IsInjective
    <3>4. IsFiniteSet(1 .. n) /\ Cardinality(1 .. n) = n
      BY FS_Interval
    <3>5. Cardinality(1 .. Len(s[a])) <= Cardinality(1 .. n)
      BY <3>3, <3>4, FS_Injection
    <3>6. PICK h \in Nat : h = Len(s[a])
      BY <2>3
    <3>7. Cardinality(1 .. h) = h
      BY FS_Interval
    <3>8. QED
      BY <3>4, <3>5, <3>6, <3>7
  <2>5. <<a, k>> \in P
    BY <2>2, <2>3, <2>4, SMTT(30)
  <2>6. ASSUME NEW p \in P PROVE p = <<a, k>>
    <3>1. PICK b, m : b = p[1] /\ m = p[2]
      OBVIOUS
    <3>2. p = <<b, m>> /\ b \in 1 .. Len(s) /\ m \in 1 .. Len(s[b]) /\ s[b][m] = i
      BY <1>1, <3>1
    <3>3. s[b][m] = s[a][k]
      BY <2>2, <3>2
    <3>4. \A e \in 1 .. Len(s) : \A j \in 1 .. Len(s[e]) : s[b][m] = s[e][j] => b = e /\ m = j
      BY <3>2, ZenonT(60) DEF EachOnce
    <3>5. b = a /\ m = k
      BY <2>2, <3>3, <3>4
    <3>6. QED
      BY <3>2, <3>5
  <2>7. P = {<<a, k>>}
    <3> HIDE DEF P
    <3>1. QED
      BY <2>5, <2>6
  <2>8. Cardinality({<<a, k>>}) = 1
    BY FS_Singleton
  <2>9. QED
    BY <1>2, <2>7, <2>8
<1>3. CASE i \notin X
  <2>1. ASSUME NEW p \in P PROVE FALSE
    BY <1>1, <1>3 DEF EachOnce
  <2>2. P = {}
    <3> HIDE DEF P
    <3>1. QED
      BY <2>1
  <2>3. Cardinality({}) = 0
    BY FS_EmptySet
  <2>4. QED
    BY <1>3, <2>2, <2>3
<1>4. QED
  BY <1>2, <1>3

\* What is known of a group that is still to run.
LEMMA GroupKnown ==
  ASSUME CutForCall, GroupsKept, status = "running", NEW g \in ToSet(groups)
  PROVE  /\ g \in Seq(1 .. Len(chunks)) /\ Len(g) \in Nat /\ g # <<>>
         /\ call.maxBatch # 0 => Len(g) <= call.maxBatch
         /\ call.budget = 0 \/ Weight(g, chunks) <= call.budget \/ Len(g) = 1
         /\ \A a, b \in 1 .. Len(g) : g[a] = g[b] => a = b
         /\ chunks \in Seq(Chunks)
         /\ \A k \in 1 .. Len(g) : g[k] \in 1 .. Len(chunks) /\ chunks[g[k]].samples \in Nat
<1>1. /\ groups \in Seq(Seq(1 .. Len(chunks)))
      /\ EachOnce(groups, (1 .. Len(chunks)) \ DOMAIN answers)
      /\ \A a \in 1 .. Len(groups) :
            /\ groups[a] # <<>> /\ (call.maxBatch # 0 => Len(groups[a]) <= call.maxBatch)
            /\ \/ call.budget = 0 \/ Weight(groups[a], chunks) <= call.budget
               \/ Len(groups[a]) = 1
  BY DEF GroupsKept
<1>2. PICK a \in 1 .. Len(groups) : groups[a] = g
  BY <1>1, ElementsOf
<1>3. g \in Seq(1 .. Len(chunks))
  <2> DEFINE V == 1 .. Len(chunks)
  <2>1. groups \in Seq(Seq(V))
    BY <1>1
  <2> HIDE DEF V
  <2>2. groups[a] \in Seq(V)
    BY <2>1
  <2>3. QED
    BY <1>2, <2>2 DEF V
<1>4. Len(g) \in Nat /\ \A k \in 1 .. Len(g) : g[k] \in 1 .. Len(chunks)
  BY <1>3
<1>5. ASSUME NEW k \in 1 .. Len(g), NEW m \in 1 .. Len(g), g[k] = g[m] PROVE k = m
  <2>1. PICK gs, X : gs = groups /\ EachOnce(gs, X)
    BY <1>1
  <2>2. a \in 1 .. Len(gs) /\ k \in 1 .. Len(gs[a]) /\ m \in 1 .. Len(gs[a]) /\ gs[a][k] = gs[a][m]
    BY <1>2, <1>5, <2>1
  <2>3. \A b \in 1 .. Len(gs) : \A j \in 1 .. Len(gs[b]) : gs[a][k] = gs[b][j] => a = b /\ k = j
    BY <2>1, <2>2, OncePlace
  <2>4. QED
    BY <2>2, <2>3
<1>6. chunks \in Seq(Chunks)
  <2>1. Prepared
    BY DEF Prepared
  <2>2. PICK st : ChunksAre(chunks, st, call.audios, ChunkMax)
    BY <2>1, ChunksKnown
  <2>3. QED
    BY <2>2 DEF ChunksAre
<1>7. \A k \in 1 .. Len(g) : chunks[g[k]].samples \in Nat
  BY <1>4, <1>6, ChunkFields
<1>8. QED
  BY <1>1, <1>2, <1>3, <1>4, <1>5, <1>6, <1>7

\* The micro-batches of a group.
LEMMA MicroBatchesAre ==
  ASSUME call \in OfflineCalls, NEW g, Len(g) \in Nat,
         \A k \in 1 .. Len(g) : chunks[g[k]].samples \in Nat
  PROVE  /\ Len(Rows(g)) = Len(g) /\ \A k \in 1 .. Len(g) : Rows(g)[k] = chunks[g[k]]
         /\ \E most \in {Len(g), call.maxBatch} :
              (~Timed => most = call.maxBatch) /\ (Timed => most = Len(g))
                /\ Micro(MicroBatches(g), Rows(g), Len(g), most)
<1>1. PICK n \in Nat, most \in Nat : n = Len(g) /\ most = IF Timed THEN Len(g) ELSE call.maxBatch
  BY CallOptions
<1>2. PICK rows : rows = Rows(g)
  OBVIOUS
<1>3. Len(rows) = n /\ \A k \in 1 .. n : rows[k] = chunks[g[k]]
  BY <1>1, <1>2 DEF Rows
<1>4. \A k \in 1 .. n : rows[k].samples \in Nat
  BY <1>1, <1>3
<1>5. Micro(Rebatch(rows, most), rows, n, most)
  BY <1>3, <1>4, RebatchIs
<1>6. MicroBatches(g) = Rebatch(rows, most)
  BY <1>1, <1>2 DEF MicroBatches
<1>7. Micro(MicroBatches(g), Rows(g), Len(g), most)
  BY <1>1, <1>2, <1>5, <1>6
<1>8. QED
  BY <1>1, <1>2, <1>3, <1>7

\* GroupsWithinBudget: no chunk is lost or run twice, and every group and micro-batch
\* keeps to its limits.
THEOREM GroupsAlwaysWithin == OfflineSpec => []GroupsWithinBudget
<1>1. CutForCall /\ GroupsKept => GroupsWithinBudget
  <2> SUFFICES ASSUME CutForCall, GroupsKept, status = "running"
               PROVE  /\ \A i \in 1..Len(chunks) :
                           Cardinality({p \in (1..Len(groups)) \X (1..Len(chunks)) :
                                          p[2] <= Len(groups[p[1]]) /\ groups[p[1]][p[2]] = i})
                              + (IF i \in DOMAIN answers THEN 1 ELSE 0) = 1
                      /\ \A g \in ToSet(groups) :
                           /\ g # <<>> /\ (call.maxBatch # 0 => Len(g) <= call.maxBatch)
                           /\ \/ call.budget = 0
                              \/ Total([k \in 1..Len(g) |-> chunks[g[k]].samples]) <= call.budget
                              \/ Len(g) = 1
                           /\ \A m \in ToSet(MicroBatches(g)) : \A a, b \in ToSet(m) :
                                /\ call.maxBatch # 0 => Len(m) <= call.maxBatch
                                /\ 3 * PromptLen(Rows(g)[a]) <= 4 * PromptLen(Rows(g)[b]) + 2
    BY DEF GroupsWithinBudget
  <2>1. ASSUME NEW i \in 1 .. Len(chunks)
        PROVE  Cardinality({p \in (1..Len(groups)) \X (1..Len(chunks)) :
                            p[2] <= Len(groups[p[1]]) /\ groups[p[1]][p[2]] = i})
                + (IF i \in DOMAIN answers THEN 1 ELSE 0) = 1
    <3>1. Prepared
      BY DEF Prepared
    <3>2. PICK st : ChunksAre(chunks, st, call.audios, ChunkMax)
      BY <3>1, ChunksKnown
    <3>3. PICK n \in Nat : n = Len(chunks)
      BY <3>2 DEF ChunksAre
    <3>4. PICK gs \in Seq(Seq(1 .. n)) : gs = groups
      BY <3>3 DEF GroupsKept
    <3>5. PICK X : X = (1 .. n) \ DOMAIN answers
      OBVIOUS
    <3>6. EachOnce(gs, X)
      BY <3>3, <3>4, <3>5 DEF GroupsKept
    <3>7. i \in 1 .. n
      BY <3>3
    <3>8. Cardinality({p \in (1 .. Len(gs)) \X (1 .. n) : p[2] <= Len(gs[p[1]]) /\ gs[p[1]][p[2]] = i})
           = IF i \in X THEN 1 ELSE 0
      BY <3>6, <3>7, OnePlace
    <3>9. PICK c : c = Cardinality({p \in (1 .. Len(gs)) \X (1 .. n) : p[2] <= Len(gs[p[1]]) /\ gs[p[1]][p[2]] = i})
      OBVIOUS
    <3>10. c = IF i \in X THEN 1 ELSE 0
      BY <3>8, <3>9
    <3>11. i \in X <=> i \notin DOMAIN answers
      BY <3>5, <3>7
    <3>12. c + (IF i \in DOMAIN answers THEN 1 ELSE 0) = 1
      BY <3>10, <3>11
    <3>13. c = Cardinality({p \in (1 .. Len(groups)) \X (1 .. Len(chunks)) :
                             p[2] <= Len(groups[p[1]]) /\ groups[p[1]][p[2]] = i})
      BY <3>3, <3>4, <3>9
    <3>14. QED
      BY <3>12, <3>13
  <2>2. ASSUME NEW g \in ToSet(groups)
        PROVE  /\ g # <<>> /\ (call.maxBatch # 0 => Len(g) <= call.maxBatch)
               /\ \/ call.budget = 0
                  \/ Total([k \in 1..Len(g) |-> chunks[g[k]].samples]) <= call.budget
                  \/ Len(g) = 1
    BY GroupKnown DEF Weight
  <2>3. ASSUME NEW g \in ToSet(groups), NEW m \in ToSet(MicroBatches(g)), NEW a \in ToSet(m), NEW b \in ToSet(m)
        PROVE  /\ call.maxBatch # 0 => Len(m) <= call.maxBatch
               /\ 3 * PromptLen(Rows(g)[a]) <= 4 * PromptLen(Rows(g)[b]) + 2
    <3>1. /\ Len(g) \in Nat /\ g # <<>> /\ (call.maxBatch # 0 => Len(g) <= call.maxBatch)
          /\ g \in Seq(1 .. Len(chunks)) /\ \A k \in 1 .. Len(g) : chunks[g[k]].samples \in Nat
      BY GroupKnown
    <3>2. call \in OfflineCalls
      BY DEF CutForCall
    <3>3. PICK most \in {Len(g), call.maxBatch} :
              /\ ~Timed => most = call.maxBatch
              /\ Timed => most = Len(g)
              /\ Micro(MicroBatches(g), Rows(g), Len(g), most)
      BY <3>1, <3>2, MicroBatchesAre
    <3>4. PICK n \in Nat : n = Len(g)
      BY <3>1
    <3> DEFINE mb == MicroBatches(g)
               rows == Rows(g)
    <3> HIDE DEF mb, rows
    <3>5. /\ mb \in Seq(Seq(1 .. n))
          /\ \A c \in 1 .. Len(mb) : (most # 0 => Len(mb[c]) <= most) /\ Even(mb[c], rows)
      BY <3>3, <3>4 DEF Micro, mb, rows
    <3>6. PICK c \in 1 .. Len(mb) : mb[c] = m
      BY <3>5, ElementsOf DEF mb
    <3>7. m \in Seq(1 .. n) /\ (most # 0 => Len(m) <= most) /\ Even(m, rows)
      BY <3>5, <3>6
    <3>8. PICK x \in 1 .. Len(m), y \in 1 .. Len(m) : m[x] = a /\ m[y] = b
      BY <3>7, ElementsOf
    <3>9. 3 * PromptLen(rows[a]) <= 4 * PromptLen(rows[b]) + 2
      BY <3>7, <3>8 DEF Even
    <3>10. call.maxBatch # 0 => Len(m) <= call.maxBatch
      <4>1. SUFFICES ASSUME call.maxBatch # 0 PROVE Len(m) <= call.maxBatch
        OBVIOUS
      <4>2. PICK cap \in Nat, h \in Nat : cap = call.maxBatch /\ h = Len(m)
        BY <3>2, <3>7, CallOptions
      <4>3. n # 0
        BY <3>1, <3>4
      <4>4. CASE Timed
        <5>1. most = n
          BY <3>3, <3>4, <4>4
        <5>2. n <= cap
          BY <3>1, <3>4, <4>1, <4>2
        <5>3. h <= n
          BY <3>7, <4>2, <4>3, <5>1
        <5>4. QED
          BY <4>2, <5>2, <5>3
      <4>5. CASE ~Timed
        BY <3>3, <3>7, <4>1, <4>5
      <4>6. QED
        BY <4>4, <4>5
    <3>11. QED
      BY <3>9, <3>10 DEF rows
  <2>4. QED
    BY <2>1, <2>2, <2>3
<1>2. QED
  BY <1>1, CutAlways, GroupsAlways, PTL

--------------------------------------------------------------------------------
\* Answers.

\* What a row is answered.
RowAnswer(k, rows, says) == [row |-> k, raw |-> says[k], stretch |-> Stretch(rows[k])]

\* Whatever the micro-batches, every row gets its own answer.
LEMMA GeneratedIs ==
  ASSUME NEW n \in Nat, NEW rows, Len(rows) = n, NEW mb, NEW most, Micro(mb, rows, n, most),
         NEW says
  PROVE  \A k \in 1 .. n : /\ Generated(rows, mb, says)[k].raw = says[k]
                           /\ Generated(rows, mb, says)[k].stretch = Stretch(rows[k])
<1> DEFINE V == {RowAnswer(k, rows, says) : k \in 1 .. n}
           part(b) == [r \in 1 .. Len(mb[b]) |->
                        [row |-> mb[b][r], raw |-> says[mb[b][r]], stretch |-> Stretch(rows[mb[b][r]])]]
           parts == [b \in 1 .. Len(mb) |-> part(b)]
           made == FlattenSeq(parts)
<1>1. mb \in Seq(Seq(1 .. n)) /\ EachOnce(mb, 1 .. n)
  BY DEF Micro
<1>2. ASSUME NEW b \in 1 .. Len(mb)
      PROVE  /\ part(b) \in Seq(V) /\ Len(part(b)) = Len(mb[b])
             /\ \A r \in 1 .. Len(mb[b]) : part(b)[r].row = mb[b][r]
  <2>1. mb[b] \in Seq(1 .. n) /\ Len(mb[b]) \in Nat
    BY <1>1
  <2>2. ASSUME NEW r \in 1 .. Len(mb[b])
        PROVE  [row |-> mb[b][r], raw |-> says[mb[b][r]], stretch |-> Stretch(rows[mb[b][r]])] \in V
    <3>1. PICK k \in 1 .. n : k = mb[b][r]
      BY <2>1
    <3>2. RowAnswer(k, rows, says) \in V
      OBVIOUS
    <3>3. QED
      BY <3>1, <3>2 DEF RowAnswer
  <2> HIDE DEF V
  <2>3. QED
    BY <2>1, <2>2
<1>3. ASSUME NEW e \in V PROVE e.row \in 1 .. n /\ e.raw = says[e.row] /\ e.stretch = Stretch(rows[e.row])
  BY DEF RowAnswer
<1>4. Generated(rows, mb, says) = [k \in 1 .. n |-> made[CHOOSE m \in 1 .. Len(made) : made[m].row = k]]
  BY DEF Generated
<1> HIDE DEF V, part
<1>5. parts \in Seq(Seq(V)) /\ Len(parts) = Len(mb) /\ \A b \in 1 .. Len(mb) : parts[b] = part(b)
  <2>1. Len(mb) \in Nat
    BY <1>1
  <2>2. QED
    BY <1>2, <2>1
<1> HIDE DEF parts
<1>6. PICK st : StartsAt(st, parts)
  BY <1>5, StartsExist
<1>7. made \in Seq(V) /\ Spread(made, st, parts, Len(parts))
  BY <1>5, <1>6, FlattenAt
<1> HIDE DEF made
<1>8. ASSUME NEW k \in 1 .. n
      PROVE  \E m \in 1 .. Len(made) : made[m].row = k
  <2>1. PICK b \in 1 .. Len(mb) : \E r \in 1 .. Len(mb[b]) : mb[b][r] = k
    BY <1>1 DEF EachOnce
  <2>2. PICK r \in 1 .. Len(mb[b]) : mb[b][r] = k
    BY <2>1
  <2>3. b \in 1 .. Len(parts) /\ r \in 1 .. Len(parts[b]) /\ parts[b][r].row = k
    BY <1>2, <1>5, <2>2
  <2>4. st[b-1] + r \in 1 .. Len(made) /\ made[st[b-1] + r] = parts[b][r]
    BY <1>5, <1>6, <1>7, <2>3, SpreadAt
  <2>5. QED
    BY <2>3, <2>4
<1>9. ASSUME NEW k \in 1 .. n
      PROVE  /\ Generated(rows, mb, says)[k].raw = says[k]
             /\ Generated(rows, mb, says)[k].stretch = Stretch(rows[k])
  <2>1. PICK m : m = CHOOSE j \in 1 .. Len(made) : made[j].row = k
    OBVIOUS
  <2>2. m \in 1 .. Len(made) /\ made[m].row = k
    BY <1>8, <2>1
  <2>3. made[m] \in V
    BY <1>7, <2>2
  <2>4. Generated(rows, mb, says)[k] = made[m]
    BY <1>4, <2>1
  <2>5. QED
    BY <1>3, <2>2, <2>3, <2>4
<1>10. QED
  BY <1>9

\* The languages: none is repeated after itself, and none is left out.
PutLanguage(out, l) ==
  IF l = "" \/ (out # <<>> /\ out[Len(out)] = l) THEN out ELSE Append(out, l)

LanguagesOf(out, langs, k) ==
  /\ \A j \in 1 .. k : langs[j] # "" => \E m \in 1 .. Len(out) : out[m] = langs[j]
  /\ \A m \in 1 .. Len(out) - 1 : out[m] # out[m+1]

LEMMA PutLanguageIs ==
  ASSUME NEW V, NEW langs \in Seq(V), NEW k \in 1 .. Len(langs),
         NEW out \in Seq(V), LanguagesOf(out, langs, k - 1),
         NEW new, new = PutLanguage(out, langs[k])
  PROVE  new \in Seq(V) /\ LanguagesOf(new, langs, k)
<1> DEFINE n == Len(out)
<1>1. PICK l \in V : l = langs[k]
  OBVIOUS
<1>2. n \in Nat
  OBVIOUS
<1>3. \A j \in 1 .. k : j = k \/ j \in 1 .. k - 1
  OBVIOUS
<1>4. CASE l = ""
  <2>1. new = out
    BY <1>1, <1>4 DEF PutLanguage
  <2>2. QED
    BY <1>1, <1>3, <1>4, <2>1 DEF LanguagesOf
<1>5. CASE out # <<>> /\ out[n] = l
  <2>1. new = out
    BY <1>1, <1>5 DEF PutLanguage
  <2>2. n \in 1 .. n
    BY <1>2, <1>5
  <2>3. QED
    BY <1>1, <1>3, <1>5, <2>1, <2>2 DEF LanguagesOf
<1>6. CASE l # "" /\ ~ (out # <<>> /\ out[n] = l)
  <2>1. new = Append(out, l)
    BY <1>1, <1>6 DEF PutLanguage
  <2>2. /\ new \in Seq(V) /\ Len(new) = n + 1 /\ new[n+1] = l
        /\ \A m \in 1 .. n : new[m] = out[m]
    BY <2>1
  <2>3. \A m \in 1 .. n : m \in 1 .. Len(new) /\ new[m] = out[m]
    BY <1>2, <2>2
  <2>4. n + 1 \in 1 .. Len(new)
    BY <1>2, <2>2
  <2>5. ASSUME NEW j \in 1 .. k, langs[j] # "" PROVE \E m \in 1 .. Len(new) : new[m] = langs[j]
    <3>1. CASE j = k
      BY <1>1, <2>2, <2>4, <3>1
    <3>2. CASE j # k
      <4>1. PICK m \in 1 .. n : out[m] = langs[j]
        BY <1>3, <2>5, <3>2 DEF LanguagesOf
      <4>2. QED
        BY <2>3, <4>1
    <3>3. QED
      BY <3>1, <3>2
  <2>6. ASSUME NEW m \in 1 .. Len(new) - 1 PROVE new[m] # new[m+1]
    <3>1. CASE m = n
      <4>1. out # <<>> /\ m \in 1 .. n
        BY <1>2, <2>6, <3>1
      <4>2. QED
        BY <1>6, <2>2, <3>1, <4>1
    <3>2. CASE m # n
      <4>1. m \in 1 .. n - 1 /\ m \in 1 .. n /\ m + 1 \in 1 .. n
        BY <1>2, <2>2, <3>2
      <4>2. QED
        BY <2>2, <4>1 DEF LanguagesOf
    <3>3. QED
      BY <3>1, <3>2
  <2>7. QED
    BY <2>2, <2>5, <2>6 DEF LanguagesOf
<1>7. QED
  BY <1>4, <1>5, <1>6

LEMMA MergeLanguagesIs ==
  ASSUME NEW V, NEW langs \in Seq(V)
  PROVE  MergeLanguages(langs) \in Seq(V) /\ LanguagesOf(MergeLanguages(langs), langs, Len(langs))
<1> DEFINE n == Len(langs)
           F(f) == f = [k \in 0 .. n |-> IF k = 0 THEN <<>> ELSE PutLanguage(f[k-1], langs[k])]
           after == CHOOSE f : F(f)
           Part(k) == {out \in Seq(V) : LanguagesOf(out, langs, k)}
           W == [k \in 0 .. n |-> Part(k)]
           next == [p \in (1 .. n) \X Seq(V) |-> PutLanguage(p[2], langs[p[1]])]
<1>1. n \in Nat /\ \A k \in 1 .. n : k \in 0 .. n /\ k - 1 \in 0 .. n
  OBVIOUS
<1>2. \A k \in 0 .. n : W[k] = Part(k)
  OBVIOUS
<1>3. \A k \in 1 .. n, out \in Seq(V) : next[<<k, out>>] = PutLanguage(out, langs[k])
  OBVIOUS
<1>4. MergeLanguages(langs) = after[n]
  BY Zenon DEF MergeLanguages, PutLanguage
<1> HIDE DEF W, next
<1>5. <<>> \in W[0]
  <2>1. <<>> \in Seq(V) /\ Len(<<>>) = 0
    OBVIOUS
  <2>2. LanguagesOf(<<>>, langs, 0)
    BY <2>1 DEF LanguagesOf
  <2>3. <<>> \in Part(0)
    BY <2>1, <2>2
  <2>4. 0 \in 0 .. n
    BY <1>1
  <2> HIDE DEF Part
  <2>5. QED
    BY <1>2, <2>3, <2>4
<1>6. ASSUME NEW k \in 1 .. n, NEW out \in W[k-1]
      PROVE  out \in Seq(V) /\ next[<<k, out>>] = PutLanguage(out, langs[k]) /\ next[<<k, out>>] \in W[k]
  <2>1. out \in Seq(V) /\ LanguagesOf(out, langs, k - 1)
    BY <1>1, <1>2
  <2>2. PICK new : new = PutLanguage(out, langs[k])
    OBVIOUS
  <2>3. new \in Seq(V) /\ LanguagesOf(new, langs, k)
    BY <2>1, <2>2, PutLanguageIs
  <2>4. QED
    BY <1>1, <1>2, <1>3, <2>1, <2>2, <2>3
<1>7. Steps(n, W, <<>>, next)
  BY <1>1, <1>5, <1>6 DEF Steps
<1>8. \E f : F(f)
  <2>1. PICK f : RunThrough(f, n, W, <<>>, next)
    BY <1>7, Recursion
  <2>2. ASSUME NEW k \in 0 .. n PROVE f[k] = IF k = 0 THEN <<>> ELSE PutLanguage(f[k-1], langs[k])
    <3>1. CASE k = 0
      BY <2>1, <3>1 DEF RunThrough
    <3>2. CASE k # 0
      <4>1. k \in 1 .. n
        BY <3>2
      <4>2. f[k-1] \in W[k-1] /\ f[k] = next[<<k, f[k-1]>>]
        BY <2>1, <4>1 DEF RunThrough
      <4>3. QED
        BY <1>6, <3>2, <4>1, <4>2
    <3>3. QED
      BY <3>1, <3>2
  <2>3. f = [k \in 0 .. n |-> f[k]]
    BY <2>1 DEF RunThrough
  <2>4. F(f)
    BY <2>2, <2>3
  <2> HIDE DEF F
  <2>5. QED
    BY <2>4
<1>9. F(after)
  <2> HIDE DEF F
  <2>1. QED
    BY <1>8
<1> HIDE DEF after
<1>10. Follows(after, n, W, <<>>, next)
  <2>1. \A k \in 0 .. n : after[k] = IF k = 0 THEN <<>> ELSE PutLanguage(after[k-1], langs[k])
    BY <1>9
  <2>2. after[0] = <<>>
    BY <1>1, <2>1
  <2>3. ASSUME NEW k \in 1 .. n, after[k-1] \in W[k-1] PROVE after[k] = next[<<k, after[k-1]>>]
    <3>1. after[k] = PutLanguage(after[k-1], langs[k])
      BY <1>1, <2>1
    <3>2. QED
      BY <1>6, <2>3, <3>1
  <2>4. QED
    BY <2>2, <2>3 DEF Follows
<1>11. n \in 0 .. n /\ \A k \in 0 .. n : after[k] \in W[k]
  BY <1>1, <1>7, <1>10, Recursion
<1>12. after[n] \in Part(n)
  BY <1>2, <1>11
<1>13. QED
  BY <1>4, <1>12

\* The answer of a chunk as it is read.
Read(i) == Parse(heard[i], call.audios[chunks[i].of].forced)

AnswerOf(i) == [lang |-> Read(i).lang, text |-> Read(i).text, stretch |-> Stretch(chunks[i])]

\* Every chunk that was heard has the answer that was read from it, and when the call is
\* answered all of them have one.
AnswersRead ==
  /\ status = "called" => heard = Nothing /\ answers = Nothing
  /\ Prepared => /\ DOMAIN heard = DOMAIN answers
                 /\ \A i \in DOMAIN answers : answers[i] = AnswerOf(i)
  /\ status = "answered" => /\ DOMAIN answers = 1 .. Len(chunks)
                            /\ result = [i \in 1 .. Len(call.audios) |-> MergedAudio(i)]

\* What was said for chunk i of group g, and the answer of a chunk for which raw was said.
SaidFor(g, says, i) == says[CHOOSE k \in 1 .. Len(g) : g[k] = i]

ReadAs(raw, i) ==
  [lang |-> Parse(raw, call.audios[chunks[i].of].forced).lang,
   text |-> Parse(raw, call.audios[chunks[i].of].forced).text,
   stretch |-> Stretch(chunks[i])]

LEMMA GroupAnswersAre ==
  ASSUME call \in OfflineCalls, NEW g, Len(g) \in Nat,
         \A k \in 1 .. Len(g) : chunks[g[k]].samples \in Nat, DOMAIN g = 1 .. Len(g),
         NEW says, NEW i \in ToSet(g)
  PROVE  GroupAnswers(g, says)[i] = ReadAs(SaidFor(g, says, i), i)
<1>1. PICK k : k = CHOOSE j \in 1 .. Len(g) : g[j] = i
  OBVIOUS
<1>2. k \in 1 .. Len(g) /\ g[k] = i
  BY <1>1 DEF ToSet
<1>3. PICK raws : raws = Generated(Rows(g), MicroBatches(g), says)
  OBVIOUS
<1>4. raws[k].raw = says[k] /\ raws[k].stretch = Stretch(chunks[i])
  <2>1. /\ Len(Rows(g)) = Len(g) /\ \A m \in 1 .. Len(g) : Rows(g)[m] = chunks[g[m]]
        /\ \E most : Micro(MicroBatches(g), Rows(g), Len(g), most)
    BY MicroBatchesAre
  <2>2. \A m \in 1 .. Len(g) : raws[m].raw = says[m] /\ raws[m].stretch = Stretch(Rows(g)[m])
    <3> DEFINE rows == Rows(g)
               mb == MicroBatches(g)
    <3>1. PICK most : Micro(mb, rows, Len(g), most)
      BY <2>1
    <3>2. Len(rows) = Len(g)
      BY <2>1
    <3> HIDE DEF rows, mb
    <3>3. \A m \in 1 .. Len(g) : /\ Generated(rows, mb, says)[m].raw = says[m]
                                 /\ Generated(rows, mb, says)[m].stretch = Stretch(rows[m])
      BY <3>1, <3>2, GeneratedIs
    <3>4. QED
      BY <1>3, <3>3 DEF rows, mb
  <2>3. QED
    BY <1>2, <2>1, <2>2
<1>5. GroupAnswers(g, says)[i] =
        [lang |-> Parse(raws[k].raw, call.audios[chunks[i].of].forced).lang,
         text |-> Parse(raws[k].raw, call.audios[chunks[i].of].forced).text,
         stretch |-> raws[k].stretch]
  BY <1>1, <1>3 DEF GroupAnswers
<1>6. SaidFor(g, says, i) = says[k]
  BY <1>1 DEF SaidFor
<1>7. QED
  BY <1>4, <1>5, <1>6 DEF ReadAs

\* A group is answered.
LEMMA AnswerKeepsRead ==
  ASSUME CutForCall, GroupsKept, AnswersRead, status = "running", groups # <<>>,
         NEW says, Answer(Head(groups), says, GroupAnswers(Head(groups), says))
  PROVE  AnswersRead'
<1> DEFINE g == Head(groups)
           texts == GroupAnswers(g, says)
           raws == [i \in ToSet(g) |-> says[CHOOSE k \in 1 .. Len(g) : g[k] = i]]
<1>1. call' = call /\ chunks' = chunks /\ status' = "running" /\ status = "running"
  BY DEF Answer
<1>2. answers' = Added(answers, texts) /\ heard' = Added(heard, raws)
  BY DEF Answer
<1>3. /\ DOMAIN heard = DOMAIN answers
      /\ \A i \in DOMAIN answers : answers[i] = AnswerOf(i)
  BY DEF AnswersRead, Prepared
<1>4. DOMAIN texts = ToSet(g)
  BY DEF GroupAnswers
<1>5. g \in ToSet(groups)
  <2>1. groups \in Seq(Seq(1 .. Len(chunks)))
    BY DEF GroupsKept
  <2>2. 1 \in DOMAIN groups /\ g = groups[1]
    BY <2>1
  <2>3. QED
    BY <2>2 DEF ToSet
<1>6. /\ Len(g) \in Nat /\ DOMAIN g = 1 .. Len(g)
      /\ \A k \in 1 .. Len(g) : chunks[g[k]].samples \in Nat
  <2>1. /\ g \in Seq(1 .. Len(chunks)) /\ Len(g) \in Nat
        /\ \A k \in 1 .. Len(g) : chunks[g[k]].samples \in Nat
    BY <1>5, GroupKnown
  <2>2. QED
    BY <2>1
<1>7. call \in OfflineCalls
  BY DEF CutForCall
<1>8. ASSUME NEW i \in ToSet(g)
      PROVE  texts[i] = ReadAs(raws[i], i)
  <2>1. raws[i] = SaidFor(g, says, i)
    BY DEF SaidFor
  <2>2. GroupAnswers(g, says)[i] = ReadAs(SaidFor(g, says, i), i)
    <3> HIDE DEF g, raws, texts
    <3>1. QED
      BY <1>6, <1>7, GroupAnswersAre
  <2>3. texts[i] = GroupAnswers(g, says)[i]
    OBVIOUS
  <2> HIDE DEF texts, raws
  <2>4. QED
    BY <2>1, <2>2, <2>3
<1>9. DOMAIN raws = ToSet(g)
  OBVIOUS
<1> HIDE DEF texts, raws, g
<1>10. DOMAIN answers' = DOMAIN answers \cup ToSet(g) /\ DOMAIN heard' = DOMAIN answers \cup ToSet(g)
  BY <1>2, <1>3, <1>4, <1>9 DEF Added
<1>11. ASSUME NEW i \in DOMAIN answers' PROVE answers'[i] = AnswerOf(i)'
  <2>1. CASE i \in DOMAIN answers
    <3>1. answers'[i] = answers[i] /\ heard'[i] = heard[i]
      BY <1>2, <1>3, <1>10, <2>1 DEF Added
    <3>2. answers[i] = AnswerOf(i)
      BY <1>3, <2>1
    <3>3. AnswerOf(i)' = AnswerOf(i)
      BY <1>1, <3>1 DEF AnswerOf, Read
    <3>4. QED
      BY <3>1, <3>2, <3>3
  <2>2. CASE i \notin DOMAIN answers
    <3>1. i \in ToSet(g)
      BY <1>10, <2>2
    <3>2. answers'[i] = texts[i] /\ heard'[i] = raws[i]
      BY <1>2, <1>3, <1>4, <1>9, <2>2, <3>1 DEF Added
    <3>3. QED
      BY <1>1, <1>8, <3>1, <3>2 DEF AnswerOf, Read, ReadAs
  <2>3. QED
    BY <2>1, <2>2
<1>12. QED
  BY <1>1, <1>10, <1>11 DEF AnswersRead, Prepared

LEMMA ReadStays ==
  ASSUME CutForCall, GroupsKept, AnswersRead, [OfflineNext]_offlineVars
  PROVE  AnswersRead'
<1>1. CASE Prepare
  <2>1. heard' = Nothing /\ answers' = Nothing /\ status' = "running"
    BY <1>1 DEF Prepare, AnswersRead
  <2>2. DOMAIN Nothing = {}
    BY DEF Nothing
  <2>3. QED
    BY <2>1, <2>2 DEF AnswersRead
<1>2. CASE Delegate \/ Refuse \/ FailGroup
  BY <1>2 DEF Delegate, Refuse, FailGroup, AnswersRead, Prepared
<1>3. CASE AsrGroup
  <2>1. PICK says : Answer(Head(groups), says, GroupAnswers(Head(groups), says))
    BY <1>3 DEF AsrGroup
  <2>2. status = "running" /\ groups # <<>>
    BY <1>3 DEF AsrGroup
  <2>3. QED
    BY <2>1, <2>2, AnswerKeepsRead
<1>4. CASE AlignedGroup
  <2>1. PICK says : Answer(Head(groups), says, GroupAnswers(Head(groups), says))
    BY <1>4 DEF AlignedGroup
  <2>2. status = "running" /\ groups # <<>>
    BY <1>4 DEF AlignedGroup
  <2>3. QED
    BY <2>1, <2>2, AnswerKeepsRead
<1>5. CASE Merge
  <2>1. /\ status = "running" /\ groups = <<>> /\ status' = "answered"
        /\ UNCHANGED <<call, chunks, groups, answers, aligned, heard, predicted>>
        /\ result' = [i \in 1..Len(call.audios) |-> MergedAudio(i)]
    BY <1>5 DEF Merge
  <2>2. DOMAIN answers = 1 .. Len(chunks)
    <3>1. Len(groups) = 0
      BY <2>1
    <3>2. EachOnce(groups, (1 .. Len(chunks)) \ DOMAIN answers) /\ DOMAIN answers \subseteq 1 .. Len(chunks)
      BY <2>1 DEF GroupsKept
    <3>3. (1 .. Len(chunks)) \ DOMAIN answers = {}
      BY <3>1, <3>2 DEF EachOnce
    <3>4. QED
      BY <3>2, <3>3
  <2>3. \A i : MergedAudio(i)' = MergedAudio(i)
    BY <2>1 DEF MergedAudio, OwnChunks
  <2>4. result' = [i \in 1 .. Len(call.audios)' |-> MergedAudio(i)']
    BY <2>1, <2>3
  <2>5. \A i : AnswerOf(i)' = AnswerOf(i)
    BY <2>1 DEF AnswerOf, Read
  <2>6. DOMAIN heard = DOMAIN answers /\ \A i \in DOMAIN answers : answers[i] = AnswerOf(i)
    BY <2>1 DEF AnswersRead, Prepared
  <2>7. QED
    BY <2>1, <2>2, <2>4, <2>5, <2>6 DEF AnswersRead, Prepared
<1>6. CASE UNCHANGED offlineVars
  <2>1. UNCHANGED <<call, chunks, groups, answers, aligned, heard, predicted, status, result>>
    BY <1>6 DEF offlineVars
  <2>2. \A i : MergedAudio(i)' = MergedAudio(i)
    BY <2>1 DEF MergedAudio, OwnChunks
  <2>3. \A i : AnswerOf(i)' = AnswerOf(i)
    BY <2>1 DEF AnswerOf, Read
  <2>4. QED
    BY <2>1, <2>2, <2>3 DEF AnswersRead, Prepared
<1>7. QED
  BY <1>1, <1>2, <1>3, <1>4, <1>5, <1>6 DEF OfflineNext, Transcribe, TranscribeTimed,
     TranscribeAligned, TranscribeAlignedTimed, RunAsr, RunAsrTimed, RunAligned,
     RunAlignedTimed, MergeOutputs, MergeOutputsTimed, MergeAligned, MergeAlignedTimed

LEMMA ReadFirst == OfflineInit => AnswersRead
  BY DEF OfflineInit, AnswersRead, Prepared

LEMMA ReadAlways == OfflineSpec => []AnswersRead
<1>1. CutForCall /\ GroupsKept /\ AnswersRead /\ [OfflineNext]_offlineVars => AnswersRead'
  BY ReadStays
<1>2. QED
  BY <1>1, ReadFirst, CutAlways, GroupsAlways, PTL DEF OfflineSpec

\* The chunks of an audio that have a text, counted from its beginning.
Spoken(read, n, m) ==
  CHOOSE k \in 1 .. n : /\ read[k].text # "nothing"
                         /\ Cardinality({j \in 1 .. k : read[j].text # "nothing"}) = m

LEMMA SpokenIs ==
  ASSUME NEW n \in Nat, NEW read, NEW S, S = {k \in 1 .. n : read[k].text # "nothing"},
         NEW m \in 1 .. Cardinality(S)
  PROVE  Ascending(S)[m] = Spoken(read, n, m)
<1> DEFINE upTo(k) == {j \in 1 .. k : read[j].text # "nothing"}
           P(k) == read[k].text # "nothing" /\ Cardinality(upTo(k)) = m
           A == Ascending(S)
<1>1. S \in SUBSET (1 .. n) /\ S \in SUBSET Nat /\ IsFiniteSet(S)
  <2>1. S \in SUBSET (1 .. n) /\ S \in SUBSET Nat
    OBVIOUS
  <2>2. IsFiniteSet(1 .. n)
    BY FS_Interval
  <2>3. QED
    BY <2>1, <2>2, FS_Subset
<1>2. /\ Cardinality(S) \in Nat
      /\ A \in [1 .. Cardinality(S) -> S]
      /\ \A j \in 1 .. Cardinality(S) : Cardinality({y \in S : y < A[j]}) = j - 1
      /\ \A x \in S : \E j \in 1 .. Cardinality(S) : A[j] = x
  BY <1>1, AscendingIs
<1> HIDE DEF A
<1>3. ASSUME NEW k \in S PROVE Cardinality(upTo(k)) = Cardinality({y \in S : y < k}) + 1
  <2> DEFINE B == {y \in S : y < k}
  <2>1. k \in 1 .. n
    BY <1>1
  <2>2. upTo(k) = B \cup {k}
    BY <2>1
  <2>3. IsFiniteSet(B) /\ k \notin B
    BY <1>1, <2>1, FS_Subset
  <2>4. Cardinality(B \cup {k}) = Cardinality(B) + 1
    BY <2>3, FS_AddElement
  <2>5. QED
    BY <2>2, <2>4
<1>4. A[m] \in 1 .. n /\ P(A[m])
  <2>1. A[m] \in S /\ Cardinality({y \in S : y < A[m]}) = m - 1
    BY <1>2
  <2>2. Cardinality(upTo(A[m])) = m - 1 + 1
    BY <1>3, <2>1
  <2>3. QED
    BY <2>1, <2>2
<1>5. ASSUME NEW k \in 1 .. n, P(k) PROVE k = A[m]
  <2>1. k \in S
    BY <1>5
  <2>2. PICK j \in 1 .. Cardinality(S) : A[j] = k
    BY <1>2, <2>1
  <2>3. Cardinality(upTo(k)) = j - 1 + 1
    BY <1>2, <1>3, <2>1, <2>2
  <2>4. j = m
    BY <1>2, <1>5, <2>3
  <2>5. QED
    BY <2>2, <2>4
<1> HIDE DEF P
<1>6. A[m] = CHOOSE k \in 1 .. n : P(k)
  BY <1>4, <1>5
<1>7. QED
  BY <1>6 DEF P, A, Spoken

\* The chunks of an answered audio are answered as they were read.
LEMMA OwnAnswers ==
  ASSUME CutForCall, AnswersRead, status = "answered",
         NEW i \in 1 .. Len(call.audios), NEW own, own = SplitAudio(i, call.audios[i], ChunkMax),
         NEW first, first = Cardinality({k \in 1 .. Len(chunks) : chunks[k].of < i})
  PROVE  /\ Len(own) \in Nat
         /\ OwnChunks(i) = [m \in 1 .. Len(own) |-> first + m]
         /\ \A k \in 1 .. Len(own) :
              answers[first + k] =
                [lang |-> Parse(heard[first + k], call.audios[i].forced).lang,
                 text |-> Parse(heard[first + k], call.audios[i].forced).text,
                 stretch |-> Stretch(own[k])]
<1>1. PICK st : ChunksAre(chunks, st, call.audios, ChunkMax)
  BY ChunksKnown DEF Prepared
<1>2. OwnAre(i, st, own)
  BY <1>1, OwnChunksAre
<1>3. /\ first = st[i-1] /\ first \in Nat /\ Len(own) \in Nat /\ first + Len(own) <= Len(chunks)
      /\ OwnChunks(i) = [m \in 1 .. Len(own) |-> first + m]
      /\ \A m \in 1 .. Len(own) : chunks[first + m] = own[m]
      /\ \A m \in 1 .. Len(own) : own[m].of = i
  BY <1>2 DEF OwnAre
<1>4. Len(chunks) \in Nat
  BY <1>1 DEF ChunksAre
<1>5. DOMAIN answers = 1 .. Len(chunks) /\ \A k \in DOMAIN answers : answers[k] = AnswerOf(k)
  BY DEF AnswersRead, Prepared
<1>6. ASSUME NEW k \in 1 .. Len(own)
      PROVE  answers[first + k] =
                [lang |-> Parse(heard[first + k], call.audios[i].forced).lang,
                 text |-> Parse(heard[first + k], call.audios[i].forced).text,
                 stretch |-> Stretch(own[k])]
  <2>1. first + k \in 1 .. Len(chunks)
    BY <1>3, <1>4
  <2>2. answers[first + k] = AnswerOf(first + k)
    BY <1>5, <2>1
  <2>3. chunks[first + k] = own[k] /\ own[k].of = i
    BY <1>3
  <2>4. QED
    BY <2>2, <2>3 DEF AnswerOf, Read
<1>7. QED
  BY <1>3, <1>6

\* r answers an audio with chunks own that were read as read.
MergedInOrder(r, own, read) ==
  /\ r.text = [m \in 1 .. Cardinality({k \in 1 .. Len(own) : read[k].text # "nothing"}) |->
                 Stretch(own[Spoken(read, Len(own), m)])]
  /\ \A l \in {read[k].lang : k \in 1 .. Len(own)} \ {""} : l \in ToSet(r.language)
  /\ \A k \in 1 .. Len(r.language) - 1 : r.language[k] # r.language[k + 1]

LEMMA AudioInOrder ==
  ASSUME CutForCall, AnswersRead, status = "answered",
         NEW i \in 1 .. Len(call.audios), NEW own, own = SplitAudio(i, call.audios[i], ChunkMax),
         NEW first, first = Cardinality({k \in 1 .. Len(chunks) : chunks[k].of < i}),
         NEW read,
         read = [k \in 1 .. Len(own) |-> Parse(heard[first + k], call.audios[i].forced)]
  PROVE  MergedInOrder(result[i], own, read)
<1> DEFINE n == Len(own)
           S == {k \in 1 .. n : read[k].text # "nothing"}
           langs == [k \in 1 .. n |-> read[k].lang]
           V == {read[k].lang : k \in 1 .. n}
<1>1. /\ n \in Nat
      /\ OwnChunks(i) = [m \in 1 .. n |-> first + m]
      /\ \A k \in 1 .. n : answers[first + k] =
                [lang |-> read[k].lang, text |-> read[k].text, stretch |-> Stretch(own[k])]
  BY OwnAnswers, SMTT(30)
<1>2. PICK oc : oc = OwnChunks(i)
  OBVIOUS
<1>3. oc = [m \in 1 .. n |-> first + m] /\ Len(oc) = n
  BY <1>1, <1>2
<1>4. \A k \in 1 .. n : /\ answers[oc[k]].lang = read[k].lang
                        /\ answers[oc[k]].text = read[k].text
                        /\ answers[oc[k]].stretch = Stretch(own[k])
  <2>1. ASSUME NEW k \in 1 .. n
        PROVE  /\ answers[oc[k]].lang = read[k].lang
               /\ answers[oc[k]].text = read[k].text
               /\ answers[oc[k]].stretch = Stretch(own[k])
    <3>1. oc[k] = first + k
      BY <1>3
    <3>2. answers[first + k] = [lang |-> read[k].lang, text |-> read[k].text,
                                stretch |-> Stretch(own[k])]
      BY <1>1
    <3> HIDE DEF n
    <3>3. QED
      BY <3>1, <3>2
  <2>2. QED
    BY <2>1
<1>5. result[i] = MergedAudio(i)
  BY DEF AnswersRead
<1>6. {k \in 1 .. Len(oc) : answers[oc[k]].text # "nothing"} = S
  BY <1>3, <1>4
<1>7. [k \in 1 .. Len(oc) |-> answers[oc[k]].lang] = langs
  BY <1>3, <1>4
<1>8. PICK A : A = Ascending(S)
  OBVIOUS
<1>9. Cardinality(S) \in Nat /\ Len(A) = Cardinality(S) /\ \A m \in 1 .. Cardinality(S) : A[m] \in 1 .. n
  <2>1. S \in SUBSET (1 .. n) /\ S \in SUBSET Nat
    OBVIOUS
  <2>2. IsFiniteSet(S)
    <3>1. IsFiniteSet(1 .. n)
      BY <1>1, FS_Interval
    <3>2. QED
      BY <2>1, <3>1, FS_Subset
  <2> HIDE DEF S
  <2>3. A \in [1 .. Cardinality(S) -> S] /\ Len(A) = Cardinality(S) /\ Cardinality(S) \in Nat
    BY <1>8, <2>1, <2>2, AscendingIs
  <2>4. QED
    BY <2>1, <2>3
<1> HIDE DEF S, langs, n
<1>10. /\ MergedAudio(i).text = [m \in 1 .. Len(A) |-> answers[oc[A[m]]].stretch]
       /\ MergedAudio(i).language = MergeLanguages(langs)
  BY <1>2, <1>6, <1>7, <1>8 DEF MergedAudio
<1>11. ASSUME NEW m \in 1 .. Cardinality(S)
       PROVE  answers[oc[A[m]]].stretch = Stretch(own[Spoken(read, n, m)])
  <2>1. A[m] = Spoken(read, n, m)
    <3>1. S = {k \in 1 .. n : read[k].text # "nothing"}
      BY DEF S
    <3>2. n \in Nat
      BY <1>1
    <3>3. Ascending(S)[m] = Spoken(read, n, m)
      BY <3>1, <3>2, SpokenIs
    <3>4. QED
      BY <1>8, <3>3
  <2>2. answers[oc[A[m]]].stretch = Stretch(own[A[m]])
    BY <1>4, <1>9
  <2>3. QED
    BY <2>1, <2>2
<1>12. result[i].text = [m \in 1 .. Cardinality(S) |-> Stretch(own[Spoken(read, n, m)])]
  BY <1>5, <1>9, <1>10, <1>11
<1>13. /\ result[i].language \in Seq(V) /\ LanguagesOf(result[i].language, langs, n)
  <2>1. langs \in Seq(V) /\ Len(langs) = n
    <3>1. \A k \in 1 .. n : read[k].lang \in V
      BY DEF n
    <3>2. DOMAIN langs = 1 .. n /\ \A k \in 1 .. n : langs[k] = read[k].lang
      BY DEF langs
    <3>3. n \in Nat /\ langs = [k \in 1 .. n |-> langs[k]]
      BY <1>1 DEF langs
    <3> HIDE DEF V
    <3>4. langs \in [1 .. n -> V]
      BY <3>1, <3>2, <3>3
    <3>5. QED
      BY <3>3, <3>4
  <2>2. MergeLanguages(langs) \in Seq(V) /\ LanguagesOf(MergeLanguages(langs), langs, Len(langs))
    <3> HIDE DEF V
    <3>1. QED
      BY <2>1, MergeLanguagesIs
  <2>3. QED
    BY <1>5, <1>10, <2>1, <2>2
<1>14. DOMAIN result[i].language = 1 .. Len(result[i].language)
  <2> HIDE DEF V
  <2>1. QED
    BY <1>13
<1>15. ASSUME NEW l \in {read[k].lang : k \in 1 .. n} \ {""} PROVE l \in ToSet(result[i].language)
  <2>1. PICK k \in 1 .. n : l = read[k].lang
    OBVIOUS
  <2>2. langs[k] = l /\ l # ""
    BY <2>1 DEF langs
  <2>3. PICK m \in 1 .. Len(result[i].language) : result[i].language[m] = l
    BY <1>13, <2>2 DEF LanguagesOf
  <2>4. QED
    BY Zenon, <1>14, <2>3 DEF ToSet
<1>16. \A k \in 1 .. Len(result[i].language) - 1 : result[i].language[k] # result[i].language[k + 1]
  BY <1>13 DEF LanguagesOf
<1>17. QED
  BY <1>12, <1>15, <1>16 DEF MergedInOrder, n, S

\* Whatever the grouping, the answer of an audio holds the texts of its own
\* stretches, each once and in the order of the audio, and their languages (the
\* merge loops of transcribe and transcribe_with_forced_aligner).
THEOREM AnswersAlwaysInOrder == OfflineSpec => []AnswersInOrder
<1>1. ASSUME CutForCall, AnswersRead PROVE AnswersInOrder
  <2>1. ASSUME status = "answered", NEW i \in 1 .. Len(call.audios)
        PROVE  \E own \in {SplitAudio(i, call.audios[i], ChunkMax)} :
               \E first \in {Cardinality({k \in 1..Len(chunks) : chunks[k].of < i})} :
               \E read \in {[k \in 1..Len(own) |->
                               Parse(heard[first + k], call.audios[i].forced)]} :
                  MergedInOrder(result[i], own, read)
    <3>1. PICK own : own = SplitAudio(i, call.audios[i], ChunkMax)
      OBVIOUS
    <3>2. PICK first : first = Cardinality({k \in 1..Len(chunks) : chunks[k].of < i})
      OBVIOUS
    <3>3. PICK read : read = [k \in 1..Len(own) |-> Parse(heard[first + k], call.audios[i].forced)]
      OBVIOUS
    <3>4. MergedInOrder(result[i], own, read)
      BY <1>1, <2>1, <3>1, <3>2, <3>3, AudioInOrder
    <3>5. QED
      BY Zenon, <3>1, <3>2, <3>3, <3>4
  <2>2. QED
    BY Zenon, <2>1 DEF AnswersInOrder, MergedInOrder, Spoken
<1>2. QED
  BY <1>1, CutAlways, ReadAlways, PTL

--------------------------------------------------------------------------------
\* Time stamps.

\* A set of numbers up to n is finite.
LEMMA FiniteUpTo ==
  ASSUME NEW n \in Nat, NEW S \in SUBSET (1 .. n)
  PROVE  IsFiniteSet(S) /\ Cardinality(S) \in Nat /\ Cardinality(S) <= n
<1>1. IsFiniteSet(1 .. n) /\ Cardinality(1 .. n) = n
  BY FS_Interval
<1>2. QED
  BY <1>1, FS_Subset, FS_CardinalityType

\* dp has for every position up to k the length of the longest run that ends there.
RunsTo(dp, data, k) ==
  /\ Len(dp) = k
  /\ \A j \in 1 .. k :
       /\ dp[j] \in 1 .. j
       /\ \A i \in 1 .. j - 1 : data[i] <= data[j] => dp[i] + 1 <= dp[j]
       /\ dp[j] = 1 \/ \E i \in 1 .. j - 1 : data[i] <= data[j] /\ dp[i] + 1 = dp[j]

LEMMA RunToIs ==
  ASSUME NEW data, NEW k \in Nat \ {0}, NEW dp \in Seq(Nat), RunsTo(dp, data, k - 1),
         NEW new, new = RunTo(data, dp, k)
  PROVE  new \in Seq(Nat) /\ RunsTo(new, data, k)
<1> DEFINE B == {j \in 1 .. k - 1 : data[j] <= data[k]}
           ends == {dp[j] : j \in B}
           top == CHOOSE x \in ends : \A y \in ends : y <= x
           best == IF ends = {} THEN 1 ELSE 1 + top
<1>1. new = Append(dp, best)
  BY DEF RunTo
<1>2. /\ Len(dp) = k - 1
      /\ \A j \in 1 .. k - 1 :
           /\ dp[j] \in 1 .. j
           /\ \A i \in 1 .. j - 1 : data[i] <= data[j] => dp[i] + 1 <= dp[j]
           /\ dp[j] = 1 \/ \E i \in 1 .. j - 1 : data[i] <= data[j] /\ dp[i] + 1 = dp[j]
  BY DEF RunsTo
<1>3. /\ best \in 1 .. k
      /\ \A i \in 1 .. k - 1 : data[i] <= data[k] => dp[i] + 1 <= best
      /\ best = 1 \/ \E i \in 1 .. k - 1 : data[i] <= data[k] /\ dp[i] + 1 = best
  <2>1. CASE ends = {}
    <3>1. B = {}
      BY <2>1
    <3>2. QED
      BY <2>1, <3>1
  <2>2. CASE ends # {}
    <3>1. ends \in SUBSET (0 .. k - 1)
      BY <1>2
    <3>2. k - 1 \in Nat
      OBVIOUS
    <3> HIDE DEF ends
    <3>3. top \in ends /\ \A y \in ends : y <= top
      <4>1. \E x \in ends : \A y \in ends : y <= x
        BY <2>2, <3>1, <3>2, GreatestBelow
      <4>2. QED
        BY <4>1
    <3> HIDE DEF top
    <3>4. PICK i \in B : top = dp[i]
      BY <3>3 DEF ends
    <3>5. top \in 0 .. k - 1 /\ best = 1 + top
      BY <3>1, <3>3, <2>2
    <3>6. \A j \in 1 .. k - 1 : data[j] <= data[k] => dp[j] \in ends
      BY DEF ends
    <3>7. \A j \in 1 .. k - 1 : data[j] <= data[k] => dp[j] + 1 <= best
      <4> HIDE DEF best
      <4>1. QED
        BY <1>2, <3>3, <3>5, <3>6
    <3>8. i \in 1 .. k - 1 /\ data[i] <= data[k] /\ dp[i] + 1 = best
      <4> HIDE DEF best
      <4>1. QED
        BY <1>2, <3>4, <3>5
    <3> HIDE DEF best
    <3>9. QED
      BY <3>5, <3>7, <3>8
  <2>3. QED
    BY <2>1, <2>2
<1> HIDE DEF best
<1>4. /\ new \in Seq(Nat) /\ Len(new) = k /\ new[k] = best
      /\ \A j \in 1 .. k - 1 : new[j] = dp[j]
  BY <1>1, <1>2, <1>3
<1>5. ASSUME NEW j \in 1 .. k
      PROVE  /\ new[j] \in 1 .. j
             /\ \A i \in 1 .. j - 1 : data[i] <= data[j] => new[i] + 1 <= new[j]
             /\ new[j] = 1 \/ \E i \in 1 .. j - 1 : data[i] <= data[j] /\ new[i] + 1 = new[j]
  <2>1. CASE j = k
    BY <1>3, <1>4, <2>1
  <2>2. CASE j # k
    <3>1. j \in 1 .. k - 1 /\ \A i \in 1 .. j - 1 : i \in 1 .. k - 1
      BY <2>2
    <3>2. new[j] = dp[j] /\ \A i \in 1 .. j - 1 : new[i] = dp[i]
      BY <1>4, <3>1
    <3>3. QED
      BY <1>2, <3>1, <3>2
  <2>3. QED
    BY <2>1, <2>2
<1>6. QED
  BY <1>4, <1>5 DEF RunsTo

\* The length of the longest run that ends at every position.
LEMMA RunUpToIs ==
  ASSUME NEW data \in Seq(Nat)
  PROVE  RunUpTo(data) \in Seq(Nat) /\ RunsTo(RunUpTo(data), data, Len(data))
<1> DEFINE n == Len(data)
           F(f) == f = [k \in 0 .. n |-> IF k = 0 THEN <<>> ELSE RunTo(data, f[k-1], k)]
           after == CHOOSE f : F(f)
           Part(k) == {v \in Seq(Nat) : RunsTo(v, data, k)}
           W == [k \in 0 .. n |-> Part(k)]
           next == [p \in (1 .. n) \X Seq(Nat) |-> RunTo(data, p[2], p[1])]
<1>1. n \in Nat /\ \A k \in 1 .. n : k \in 0 .. n /\ k - 1 \in 0 .. n
  OBVIOUS
<1>2. \A k \in 0 .. n : W[k] = Part(k)
  OBVIOUS
<1>3. \A k \in 1 .. n, v \in Seq(Nat) : next[<<k, v>>] = RunTo(data, v, k)
  OBVIOUS
<1>4. RunUpTo(data) = after[n]
  BY Zenon DEF RunUpTo
<1> HIDE DEF n, F, after, W, next
<1>5. <<>> \in W[0]
  <2>1. <<>> \in Part(0)
    BY DEF RunsTo
  <2>2. 0 \in 0 .. n
    BY <1>1
  <2> HIDE DEF Part
  <2>3. QED
    BY <1>2, <2>1, <2>2
<1>6. ASSUME NEW k \in 1 .. n, NEW v \in W[k-1]
      PROVE  v \in Seq(Nat) /\ next[<<k, v>>] = RunTo(data, v, k) /\ next[<<k, v>>] \in W[k]
  <2>1. v \in Seq(Nat) /\ RunsTo(v, data, k - 1)
    BY <1>1, <1>2
  <2>2. PICK new : new = RunTo(data, v, k)
    OBVIOUS
  <2>3. new \in Seq(Nat) /\ RunsTo(new, data, k)
    BY <1>1, <2>1, <2>2, RunToIs DEF n
  <2>4. QED
    BY <1>1, <1>2, <1>3, <2>1, <2>2, <2>3
<1>7. Steps(n, W, <<>>, next)
  BY <1>1, <1>5, <1>6 DEF Steps
<1>8. \E f : F(f)
  <2>1. PICK f : RunThrough(f, n, W, <<>>, next)
    BY <1>7, Recursion
  <2>2. ASSUME NEW k \in 0 .. n PROVE f[k] = IF k = 0 THEN <<>> ELSE RunTo(data, f[k-1], k)
    <3>1. CASE k = 0
      BY <2>1, <3>1 DEF RunThrough
    <3>2. CASE k # 0
      <4>1. k \in 1 .. n
        BY <3>2
      <4>2. f[k-1] \in W[k-1] /\ f[k] = next[<<k, f[k-1]>>]
        BY <2>1, <4>1 DEF RunThrough
      <4>3. QED
        BY <1>6, <3>2, <4>1, <4>2
    <3>3. QED
      BY <3>1, <3>2
  <2>3. f = [k \in 0 .. n |-> f[k]]
    BY <2>1 DEF RunThrough
  <2>4. F(f)
    BY <2>2, <2>3 DEF F
  <2>5. QED
    BY <2>4
<1>9. F(after)
  BY <1>8 DEF after
<1>10. Follows(after, n, W, <<>>, next)
  <2>1. \A k \in 0 .. n : after[k] = IF k = 0 THEN <<>> ELSE RunTo(data, after[k-1], k)
    BY <1>9 DEF F
  <2>2. after[0] = <<>>
    BY <1>1, <2>1
  <2>3. ASSUME NEW k \in 1 .. n, after[k-1] \in W[k-1] PROVE after[k] = next[<<k, after[k-1]>>]
    <3>1. after[k] = RunTo(data, after[k-1], k)
      BY <1>1, <2>1
    <3>2. QED
      BY <1>6, <2>3, <3>1
  <2>4. QED
    BY <2>2, <2>3 DEF Follows
<1>11. n \in 0 .. n /\ \A k \in 0 .. n : after[k] \in W[k]
  BY <1>1, <1>7, <1>10, Recursion
<1>12. after[n] \in Part(n)
  BY <1>2, <1>11
<1>13. QED
  BY <1>4, <1>12 DEF n

\* No run is longer than the lengths say: a run T that ends at m has dp[m] positions at most.
LEMMA NoLongerRun ==
  ASSUME NEW data, NEW n \in Nat, NEW dp, RunsTo(dp, data, n),
         NEW S \in SUBSET (1 .. n), S # {},
         \A a, b \in S : a < b => data[a] <= data[b]
  PROVE  \E m \in S : Cardinality(S) <= dp[m]
<1> DEFINE Run(T) == T # {} /\ \A a, b \in T : a < b => data[a] <= data[b]
           Ends(T) == \E m \in T : (\A x \in T : x <= m) /\ Cardinality(T) <= dp[m]
           Good == {k \in 0 .. n : \A T \in SUBSET (1 .. k) : Run(T) => Ends(T)}
<1>1. \A j \in 1 .. n :
        /\ dp[j] \in 1 .. j
        /\ \A i \in 1 .. j - 1 : data[i] <= data[j] => dp[i] + 1 <= dp[j]
  BY DEF RunsTo
<1>2. 0 \in Good
  <2>1. ASSUME NEW T \in SUBSET (1 .. 0) PROVE ~Run(T)
    <3>1. T = {}
      OBVIOUS
    <3>2. QED
      BY <3>1
  <2> HIDE DEF Run
  <2>2. 0 \in 0 .. n
    OBVIOUS
  <2>3. QED
    BY <2>1, <2>2
<1>3. ASSUME NEW k \in 1 .. n, k - 1 \in Good PROVE k \in Good
  <2>1. ASSUME NEW T \in SUBSET (1 .. k), Run(T) PROVE Ends(T)
    <3>1. CASE k \notin T
      <4>1. T \in SUBSET (1 .. k - 1)
        BY <3>1
      <4>2. QED
        BY <1>3, <2>1, <4>1
    <3>2. CASE k \in T
      <4> DEFINE U == T \ {k}
      <4>1. U \in SUBSET (1 .. k - 1) /\ T = U \cup {k} /\ k \notin U /\ \A x \in T : x <= k
        BY <3>2
      <4>2. IsFiniteSet(U)
        <5>1. k - 1 \in Nat
          OBVIOUS
        <5> HIDE DEF U
        <5>2. QED
          BY <4>1, <5>1, FiniteUpTo
      <4>3. Cardinality(T) = Cardinality(U) + 1 /\ Cardinality(U) \in Nat
        <5> HIDE DEF U
        <5>1. QED
          BY <4>1, <4>2, FS_AddElement, FS_CardinalityType
      <4>4. dp[k] \in 1 .. k
        BY <1>1
      <4>5. CASE U = {}
        <5>1. Cardinality(U) = 0
          BY <4>5, FS_EmptySet
        <5>2. Cardinality(T) <= dp[k]
          BY <4>3, <4>4, <5>1
        <5>3. QED
          BY <3>2, <4>1, <5>2
      <4>6. CASE U # {}
        <5>1. Run(U)
          BY <2>1, <4>6
        <5>2. Ends(U)
          <6> HIDE DEF Run, Ends, U
          <6>1. QED
            BY <1>3, <4>1, <5>1
        <5>3. PICK m \in U : Cardinality(U) <= dp[m]
          BY <5>2
        <5>4. m \in 1 .. k - 1 /\ data[m] <= data[k]
          BY <2>1, <3>2, <4>1, <5>3
        <5>5. dp[m] + 1 <= dp[k] /\ dp[m] \in Nat
          BY <1>1, <5>4
        <5>6. Cardinality(T) <= dp[k]
          BY <4>3, <4>4, <5>3, <5>5
        <5>7. QED
          BY <3>2, <4>1, <5>6
      <4>7. QED
        BY <4>5, <4>6
    <3>3. QED
      BY <3>1, <3>2
  <2> HIDE DEF Run, Ends
  <2>2. QED
    BY <2>1
<1> HIDE DEF Good
<1>4. \A k \in 0 .. n : k \in Good
  BY <1>2, <1>3, UpTo
<1>5. n \in Good
  BY <1>4
<1>6. Run(S) /\ S \in SUBSET (1 .. n)
  OBVIOUS
<1>7. Ends(S)
  <2> HIDE DEF Run, Ends
  <2>1. QED
    BY <1>5, <1>6 DEF Good
<1>8. QED
  BY <1>7

\* The path that is kept for every position: as long as the run that ends there, and
\* itself a run up to there.
PathsTo(paths, data, dp, k) ==
  /\ Len(paths) = k
  /\ \A j \in 1 .. k :
       /\ paths[j] \in SUBSET (1 .. j) /\ j \in paths[j]
       /\ Cardinality(paths[j]) = dp[j]
       /\ \A a, b \in paths[j] : a < b => data[a] <= data[b]

LEMMA PathToIs ==
  ASSUME NEW data \in Seq(Nat), NEW dp, RunsTo(dp, data, Len(data)), NEW k \in 1 .. Len(data),
         NEW paths \in Seq(SUBSET Nat), PathsTo(paths, data, dp, k - 1),
         NEW new, new = PathTo(data, dp, paths, k)
  PROVE  new \in Seq(SUBSET Nat) /\ PathsTo(new, data, dp, k)
<1> DEFINE parents == {j \in 1..k - 1 : data[j] <= data[k] /\ dp[j] + 1 = dp[k]}
           last == CHOOSE j \in parents : \A i \in parents : j <= i
           path == {k} \cup (IF parents = {} THEN {} ELSE paths[last])
<1>1. new = Append(paths, path)
  BY DEF PathTo
<1>2. /\ Len(paths) = k - 1
      /\ \A j \in 1 .. k - 1 :
           /\ paths[j] \in SUBSET (1 .. j) /\ j \in paths[j]
           /\ Cardinality(paths[j]) = dp[j]
           /\ \A a, b \in paths[j] : a < b => data[a] <= data[b]
  BY DEF PathsTo
<1>3. /\ \A j \in 1 .. k : dp[j] \in 1 .. j
      /\ dp[k] = 1 \/ \E i \in 1 .. k - 1 : data[i] <= data[k] /\ dp[i] + 1 = dp[k]
  BY DEF RunsTo
<1>4. k \in Nat /\ k - 1 \in Nat /\ \A j \in 1 .. k : data[j] \in Nat
  OBVIOUS
<1>5. /\ path \in SUBSET (1 .. k) /\ k \in path
      /\ Cardinality(path) = dp[k]
      /\ \A a, b \in path : a < b => data[a] <= data[b]
  <2>1. CASE parents = {}
    <3>1. path = {k} /\ dp[k] = 1
      BY <1>3, <2>1
    <3> HIDE DEF path
    <3>2. Cardinality(path) = 1
      BY <3>1, FS_Singleton
    <3>3. QED
      BY <1>4, <3>1, <3>2
  <2>2. CASE parents # {}
    <3>1. parents \in SUBSET Nat
      OBVIOUS
    <3>2. PICK j \in parents : j = last
      <4> HIDE DEF parents
      <4>1. \E x \in parents : \A y \in parents : x <= y
        BY <2>2, <3>1, LeastOf
      <4>2. QED
        BY <4>1
    <3>3. path = paths[j] \cup {k}
      BY <2>2, <3>2
    <3>4. j \in 1 .. k - 1 /\ data[j] <= data[k] /\ dp[j] + 1 = dp[k]
      BY <3>2
    <3> HIDE DEF path, parents, last
    <3>5. PICK P \in SUBSET (1 .. j) :
             /\ P = paths[j] /\ j \in P /\ Cardinality(P) = dp[j]
             /\ \A a, b \in P : a < b => data[a] <= data[b]
      BY <1>2, <3>4
    <3>6. k \notin P /\ P \in SUBSET (1 .. k) /\ IsFiniteSet(P)
      <4>1. k \notin P /\ P \in SUBSET (1 .. k)
        BY <3>4
      <4>2. QED
        BY <1>4, <4>1, FiniteUpTo
    <3>7. Cardinality(P \cup {k}) = dp[k]
      BY <3>4, <3>5, <3>6, FS_AddElement
    <3>8. ASSUME NEW a \in P PROVE data[a] <= data[k]
      <4>1. a = j \/ data[a] <= data[j]
        BY <3>5
      <4>2. data[a] \in Nat /\ data[j] \in Nat /\ data[k] \in Nat
        BY <1>4, <3>4, <3>6
      <4>3. QED
        BY ONLY <3>4, <4>1, <4>2
    <3>9. ASSUME NEW a \in path, NEW b \in path, a < b PROVE data[a] <= data[b]
      <4>1. a \in P
        BY <3>3, <3>5, <3>6, <3>9
      <4>2. b \in P \/ b = k
        BY <3>3, <3>5
      <4>3. QED
        BY <3>5, <3>8, <3>9, <4>1, <4>2
    <3>10. QED
      BY <3>3, <3>5, <3>6, <3>7, <3>9
  <2>3. QED
    BY <2>1, <2>2
<1> HIDE DEF path
<1>6. /\ new \in Seq(SUBSET Nat) /\ Len(new) = k /\ new[k] = path
      /\ \A j \in 1 .. k - 1 : new[j] = paths[j]
  <2>1. path \in SUBSET Nat
    BY <1>5
  <2>2. QED
    BY <1>1, <1>2, <2>1
<1>7. ASSUME NEW j \in 1 .. k
      PROVE  /\ new[j] \in SUBSET (1 .. j) /\ j \in new[j]
             /\ Cardinality(new[j]) = dp[j]
             /\ \A a, b \in new[j] : a < b => data[a] <= data[b]
  <2>1. CASE j = k
    BY <1>5, <1>6, <2>1
  <2>2. CASE j # k
    <3>1. j \in 1 .. k - 1
      BY <2>2
    <3>2. new[j] = paths[j]
      BY <1>6, <3>1
    <3>3. QED
      BY <1>2, <3>1, <3>2
  <2>3. QED
    BY <2>1, <2>2
<1>8. QED
  BY <1>6, <1>7 DEF PathsTo

\* The paths of all positions; the one where the longest run ends is kept.
LEMMA PathsAre ==
  ASSUME NEW data \in Seq(Nat), NEW dp, RunsTo(dp, data, Len(data))
  PROVE  \E p \in Seq(SUBSET Nat) :
            PathsTo(p, data, dp, Len(data)) /\ KeptPositions(data, dp) = p[RunEnd(dp)]
<1> DEFINE n == Len(data)
           F(f) == f = [k \in 0 .. n |-> IF k = 0 THEN <<>> ELSE PathTo(data, dp, f[k-1], k)]
           after == CHOOSE f : F(f)
           Part(k) == {v \in Seq(SUBSET Nat) : PathsTo(v, data, dp, k)}
           W == [k \in 0 .. n |-> Part(k)]
           next == [p \in (1 .. n) \X Seq(SUBSET Nat) |-> PathTo(data, dp, p[2], p[1])]
<1>1. n \in Nat /\ \A k \in 1 .. n : k \in 0 .. n /\ k - 1 \in 0 .. n
  OBVIOUS
<1>2. \A k \in 0 .. n : W[k] = Part(k)
  OBVIOUS
<1>3. \A k \in 1 .. n, v \in Seq(SUBSET Nat) : next[<<k, v>>] = PathTo(data, dp, v, k)
  OBVIOUS
<1>4. KeptPositions(data, dp) = after[n][RunEnd(dp)]
  BY Zenon DEF KeptPositions
<1> HIDE DEF n, F, after, W, next
<1>5. <<>> \in W[0]
  <2>1. <<>> \in Part(0)
    BY DEF PathsTo
  <2>2. 0 \in 0 .. n
    BY <1>1
  <2> HIDE DEF Part
  <2>3. QED
    BY <1>2, <2>1, <2>2
<1>6. ASSUME NEW k \in 1 .. n, NEW v \in W[k-1]
      PROVE  v \in Seq(SUBSET Nat) /\ next[<<k, v>>] = PathTo(data, dp, v, k) /\ next[<<k, v>>] \in W[k]
  <2>1. v \in Seq(SUBSET Nat) /\ PathsTo(v, data, dp, k - 1)
    BY <1>1, <1>2
  <2>2. PICK new : new = PathTo(data, dp, v, k)
    OBVIOUS
  <2>3. new \in Seq(SUBSET Nat) /\ PathsTo(new, data, dp, k)
    BY <1>1, <2>1, <2>2, PathToIs DEF n
  <2>4. QED
    BY <1>1, <1>2, <1>3, <2>1, <2>2, <2>3
<1>7. Steps(n, W, <<>>, next)
  BY <1>1, <1>5, <1>6 DEF Steps
<1>8. \E f : F(f)
  <2>1. PICK f : RunThrough(f, n, W, <<>>, next)
    BY <1>7, Recursion
  <2>2. ASSUME NEW k \in 0 .. n PROVE f[k] = IF k = 0 THEN <<>> ELSE PathTo(data, dp, f[k-1], k)
    <3>1. CASE k = 0
      BY <2>1, <3>1 DEF RunThrough
    <3>2. CASE k # 0
      <4>1. k \in 1 .. n
        BY <3>2
      <4>2. f[k-1] \in W[k-1] /\ f[k] = next[<<k, f[k-1]>>]
        BY <2>1, <4>1 DEF RunThrough
      <4>3. QED
        BY <1>6, <3>2, <4>1, <4>2
    <3>3. QED
      BY <3>1, <3>2
  <2>3. f = [k \in 0 .. n |-> f[k]]
    BY <2>1 DEF RunThrough
  <2>4. F(f)
    BY <2>2, <2>3 DEF F
  <2>5. QED
    BY <2>4
<1>9. F(after)
  BY <1>8 DEF after
<1>10. Follows(after, n, W, <<>>, next)
  <2>1. \A k \in 0 .. n : after[k] = IF k = 0 THEN <<>> ELSE PathTo(data, dp, after[k-1], k)
    BY <1>9 DEF F
  <2>2. after[0] = <<>>
    BY <1>1, <2>1
  <2>3. ASSUME NEW k \in 1 .. n, after[k-1] \in W[k-1] PROVE after[k] = next[<<k, after[k-1]>>]
    <3>1. after[k] = PathTo(data, dp, after[k-1], k)
      BY <1>1, <2>1
    <3>2. QED
      BY <1>6, <2>3, <3>1
  <2>4. QED
    BY <2>2, <2>3 DEF Follows
<1>11. n \in 0 .. n /\ \A k \in 0 .. n : after[k] \in W[k]
  BY <1>1, <1>7, <1>10, Recursion
<1>12. after[n] \in Part(n)
  BY <1>2, <1>11
<1>13. QED
  BY <1>4, <1>12 DEF n


\* The end of the longest run.
LEMMA RunEndIs ==
  ASSUME NEW data, NEW n \in Nat \ {0}, NEW dp, RunsTo(dp, data, n)
  PROVE  RunEnd(dp) \in 1 .. n /\ \A j \in 1 .. n : dp[j] <= dp[RunEnd(dp)]
<1>1. Len(dp) = n /\ \A j \in 1 .. n : dp[j] \in 1 .. j
  BY DEF RunsTo
<1> DEFINE lengths == {dp[j] : j \in 1 .. n}
<1>2. lengths \in SUBSET (0 .. n) /\ lengths # {}
  <2>1. lengths \in SUBSET (0 .. n)
    BY <1>1
  <2>2. 1 \in 1 .. n
    OBVIOUS
  <2>3. QED
    BY <2>1, <2>2
<1>3. PICK top \in lengths : \A x \in lengths : x <= top
  <2> HIDE DEF lengths
  <2>1. QED
    BY <1>2, GreatestBelow
<1> DEFINE tops == {k \in 1 .. n : dp[k] = top}
<1>4. tops \in SUBSET Nat /\ tops # {}
  BY <1>3
<1>5. PICK k \in tops : \A j \in tops : k <= j
  <2> HIDE DEF tops
  <2>1. QED
    BY <1>4, LeastOf
<1>6. \A j \in 1 .. n : dp[j] <= top
  BY <1>3
<1>7. k \in 1 .. n /\ dp[k] = top /\ \A j \in 1 .. k - 1 : dp[j] # top
  BY <1>5
<1> HIDE DEF tops, lengths
<1>8. \A j \in 1 .. k - 1 : dp[j] < dp[k]
  <2>1. ASSUME NEW j \in 1 .. k - 1 PROVE dp[j] < dp[k]
    <3>1. j \in 1 .. n /\ dp[j] # top
      BY <1>7
    <3>2. dp[j] \in 1 .. j /\ dp[k] \in 1 .. k /\ dp[j] <= top /\ j \in Int /\ k \in Int
      BY <1>1, <1>6, <1>7, <3>1
    <3>3. QED
      BY <1>7, <3>1, <3>2
  <2>2. QED
    BY <2>1
<1> DEFINE P(e) == (\A j \in 1 .. Len(dp) : dp[j] <= dp[e]) /\ \A j \in 1 .. e - 1 : dp[j] < dp[e]
<1>9. \E e \in 1 .. Len(dp) : P(e)
  BY <1>1, <1>6, <1>7, <1>8
<1>10. RunEnd(dp) = CHOOSE e \in 1 .. Len(dp) : P(e)
  BY DEF RunEnd
<1> HIDE DEF P
<1>11. RunEnd(dp) \in 1 .. Len(dp) /\ P(RunEnd(dp))
  BY <1>9, <1>10
<1>12. QED
  BY <1>1, <1>11 DEF P

\* K is a longest run of the stamps data.
Kept(K, data) ==
  /\ K \in SUBSET (1 .. Len(data)) /\ K # {}
  /\ \A a, b \in K : a < b => data[a] <= data[b]
  /\ \A S \in SUBSET (1 .. Len(data)) :
       (\A a, b \in S : a < b => data[a] <= data[b]) => Cardinality(S) <= Cardinality(K)

LEMMA KeptIs ==
  ASSUME NEW data \in Seq(Nat), data # <<>>
  PROVE  Kept(KeptPositions(data, RunUpTo(data)), data)
<1>1. PICK n \in Nat \ {0} : n = Len(data)
  OBVIOUS
<1>2. PICK dp \in Seq(Nat) : dp = RunUpTo(data)
  BY RunUpToIs
<1>3. RunsTo(dp, data, n)
  BY <1>1, <1>2, RunUpToIs
<1>4. PICK p \in Seq(SUBSET Nat) :
        PathsTo(p, data, dp, n) /\ KeptPositions(data, dp) = p[RunEnd(dp)]
  BY <1>1, <1>3, PathsAre
<1>5. PICK e \in 1 .. n : e = RunEnd(dp) /\ \A j \in 1 .. n : dp[j] <= dp[e]
  BY <1>3, RunEndIs
<1>6. PICK K : K = p[e]
  OBVIOUS
<1>7. /\ K \in SUBSET (1 .. e) /\ e \in K /\ Cardinality(K) = dp[e]
      /\ \A a, b \in K : a < b => data[a] <= data[b]
  BY <1>4, <1>6 DEF PathsTo
<1>8. K \in SUBSET (1 .. n) /\ K # {}
  BY <1>7
<1>9. ASSUME NEW S \in SUBSET (1 .. n), \A a, b \in S : a < b => data[a] <= data[b]
      PROVE  Cardinality(S) <= Cardinality(K)
  <2>1. Cardinality(S) \in Nat
    BY FiniteUpTo
  <2>2. \A j \in 1 .. n : dp[j] \in 1 .. j
    BY <1>3 DEF RunsTo
  <2>3. CASE S = {}
    <3>1. Cardinality(S) = 0
      BY <2>3, FS_EmptySet
    <3>2. QED
      BY <1>7, <2>2, <3>1
  <2>4. CASE S # {}
    <3>1. PICK m \in S : Cardinality(S) <= dp[m]
      BY <1>3, <1>9, <2>4, NoLongerRun
    <3>2. dp[m] <= dp[e] /\ dp[m] \in Int /\ dp[e] \in Int
      BY <1>5, <2>2
    <3>3. QED
      BY <1>7, <2>1, <3>1, <3>2
  <2>5. QED
    BY <2>3, <2>4
<1>10. KeptPositions(data, RunUpTo(data)) = K
  BY <1>2, <1>4, <1>5, <1>6
<1>11. QED
  BY <1>1, <1>7, <1>8, <1>9, <1>10 DEF Kept

\* A fraction of a difference grows with the fraction.
LEMMA Fraction ==
  ASSUME NEW d \in Nat, NEW g \in Nat \ {0}, NEW x \in Nat, NEW y \in Nat, x <= y, y <= g
  PROVE  /\ (d * x) \div g \in Nat /\ (d * y) \div g \in Nat
         /\ (d * x) \div g <= (d * y) \div g /\ (d * y) \div g <= d
<1>1. ASSUME NEW a \in Nat, NEW b \in Nat, a <= b
      PROVE  a \div g \in Nat /\ b \div g \in Nat /\ a \div g <= b \div g
  <2>1. PICK p \in Int : p = a \div g
    OBVIOUS
  <2>2. PICK q \in Int : q = b \div g
    OBVIOUS
  <2>3. p * g <= a /\ a < p * g + g
    BY <2>1
  <2>4. q * g <= b /\ b < q * g + g
    BY <2>2
  <2>5. p >= 0 /\ q >= 0
    <3>1. \A z \in Int : z < 0 => z * g <= 0 - g
      OBVIOUS
    <3>2. p * g \in Int /\ q * g \in Int
      OBVIOUS
    <3>3. QED
      BY <2>3, <2>4, <3>1, <3>2
  <2>6. p <= q
    <3> SUFFICES ASSUME q < p PROVE FALSE
      OBVIOUS
    <3>1. q + 1 <= p
      OBVIOUS
    <3>2. (q + 1) * g <= p * g
      BY <3>1
    <3>3. (q + 1) * g = q * g + g
      OBVIOUS
    <3>4. QED
      BY <1>1, <2>3, <2>4, <3>2, <3>3
  <2>7. QED
    BY <2>1, <2>2, <2>5, <2>6
<1>2. d * x \in Nat /\ d * y \in Nat /\ d * g \in Nat
  OBVIOUS
<1>3. d * x <= d * y /\ d * y <= d * g
  OBVIOUS
<1>4. (d * g) \div g = d
  OBVIOUS
<1> DEFINE dx == d * x
           dy == d * y
           dg == d * g
<1>5. dx \in Nat /\ dy \in Nat /\ dg \in Nat /\ dx <= dy /\ dy <= dg /\ dg \div g = d
  BY <1>2, <1>3, <1>4
<1> HIDE DEF dx, dy, dg
<1>6. /\ dx \div g \in Nat /\ dy \div g \in Nat
      /\ dx \div g <= dy \div g /\ dy \div g <= dg \div g
  BY <1>1, <1>5
<1>7. QED
  BY <1>5, <1>6 DEF dx, dy

\* What replaces a stamp between two that are kept.
Fill(data, l, r, k) ==
  IF r - l - 1 <= 2 THEN IF k - l <= r - k THEN data[l] ELSE data[r]
  ELSE data[l] + ((data[r] - data[l]) * (k - l)) \div (r - l - 1 + 1)

LEMMA FillIs ==
  ASSUME NEW data \in Seq(Nat), NEW l \in 1 .. Len(data), NEW r \in 1 .. Len(data),
         NEW k \in l + 1 .. r - 1, data[l] <= data[r]
  PROVE  /\ Fill(data, l, r, k) \in Nat
         /\ data[l] <= Fill(data, l, r, k) /\ Fill(data, l, r, k) <= data[r]
         /\ k + 1 < r => Fill(data, l, r, k) <= Fill(data, l, r, k + 1)
<1> DEFINE a == data[l]
           b == data[r]
           g == r - l
           x == k - l
           y == IF k + 1 < r THEN k + 1 - l ELSE x
<1>1. a \in Nat /\ b \in Nat /\ a <= b /\ g \in Nat \ {0} /\ x \in Nat /\ y \in Nat /\ x <= y /\ y <= g
  OBVIOUS
<1>2. CASE r - l - 1 <= 2
  <2>1. r - (k + 1) < r - k /\ k - l < (k + 1) - l
    OBVIOUS
  <2> HIDE DEF a, b
  <2>2. Fill(data, l, r, k) = IF k - l <= r - k THEN a ELSE b
    BY <1>2 DEF Fill, a, b
  <2>3. Fill(data, l, r, k + 1) = IF (k + 1) - l <= r - (k + 1) THEN a ELSE b
    BY <1>2 DEF Fill, a, b
  <2>4. a <= Fill(data, l, r, k) /\ Fill(data, l, r, k) <= b /\ Fill(data, l, r, k) \in Nat
    BY <1>1, <2>2
  <2>5. Fill(data, l, r, k) <= Fill(data, l, r, k + 1)
    BY <1>1, <2>2, <2>3
  <2>6. QED
    BY <2>4, <2>5 DEF a, b
<1>3. CASE ~(r - l - 1 <= 2)
  <2>1. r - l - 1 + 1 = g
    OBVIOUS
  <2> HIDE DEF a, b, g, x, y
  <2>2. PICK d \in Nat : d = b - a
    BY <1>1
  <2>3. /\ (d * x) \div g \in Nat /\ (d * y) \div g \in Nat
        /\ (d * x) \div g <= (d * y) \div g /\ (d * y) \div g <= d
    BY <1>1, Fraction
  <2>4. PICK p \in Nat, q \in Nat : p = (d * x) \div g /\ q = (d * y) \div g /\ p <= q /\ q <= d
    BY <2>3
  <2>5. Fill(data, l, r, k) = a + p
    BY <1>3, <2>1, <2>2, <2>4 DEF Fill, a, b, x
  <2>6. k + 1 < r => Fill(data, l, r, k + 1) = a + q
    BY <1>3, <2>1, <2>2, <2>4 DEF Fill, a, b, y
  <2>7. a <= a + p /\ a + p <= a + q /\ a + q <= b /\ a + p \in Nat
    BY <1>1, <2>2, <2>4
  <2>8. Fill(data, l, r, k) \in Nat /\ a <= Fill(data, l, r, k) /\ Fill(data, l, r, k) <= b
    BY <1>1, <2>2, <2>4, <2>5
  <2>9. k + 1 < r => Fill(data, l, r, k) <= Fill(data, l, r, k + 1)
    BY <2>5, <2>6, <2>7
  <2>10. QED
    BY <2>8, <2>9 DEF a, b
<1>4. QED
  BY <1>2, <1>3

\* The stamp v at k: one that is kept, that of the first or of the last of those kept, or
\* one between its two neighbours among them.
StampAt(v, data, K, k) ==
  \/ k \in K /\ v = data[k]
  \/ \E r \in K : k < r /\ (\A j \in K : r <= j) /\ v = data[r]
  \/ \E l \in K : l < k /\ (\A j \in K : j <= l) /\ v = data[l]
  \/ \E l \in K, r \in K :
       l < k /\ k < r /\ (\A j \in K : j <= l \/ r <= j) /\ v = Fill(data, l, r, k)

LEMMA StampIs ==
  ASSUME NEW data \in Seq(Nat), NEW K, Kept(K, data), NEW k \in 1 .. Len(data)
  PROVE  StampAt(FixedStamp(data, K, k), data, K, k)
<1> DEFINE below == {j \in K : j < k}
           above == {j \in K : j > k}
           l == CHOOSE j \in below : \A i \in below : i <= j
           r == CHOOSE j \in above : \A i \in above : j <= i
           v == FixedStamp(data, K, k)
<1>1. K \in SUBSET (1 .. Len(data)) /\ K # {} /\ K \in SUBSET Nat
  BY DEF Kept
<1>2. below # {} => l \in below /\ \A i \in below : i <= l
  <2>1. ASSUME below # {} PROVE \E x \in below : \A y \in below : y <= x
    <3>1. \A j \in below : j \in 0 .. k
      <4>1. \A j \in below : j \in Nat /\ j < k
        BY <1>1
      <4>2. k \in Nat
        OBVIOUS
      <4> HIDE DEF below
      <4>3. QED
        BY <4>1, <4>2
    <3> HIDE DEF below
    <3>2. below \in SUBSET (0 .. k) /\ k \in Nat
      BY <3>1
    <3>3. QED
      BY <2>1, <3>2, GreatestBelow
  <2> HIDE DEF below
  <2>2. QED
    BY <2>1
<1>3. above # {} => r \in above /\ \A i \in above : r <= i
  <2>1. ASSUME above # {} PROVE \E x \in above : \A y \in above : x <= y
    <3>1. above \in SUBSET Nat
      BY <1>1
    <3> HIDE DEF above
    <3>2. QED
      BY <2>1, <3>1, LeastOf
  <2> HIDE DEF above
  <2>2. QED
    BY <2>1
<1>4. v = IF k \in K THEN data[k]
          ELSE IF below = {} THEN data[r]
          ELSE IF above = {} THEN data[l]
          ELSE Fill(data, l, r, k)
  BY DEF FixedStamp, Fill
<1>5. \A j \in K : j \in Nat /\ (j \in below <=> j < k) /\ (j \in above <=> k < j)
  BY <1>1
<1>6. below \in SUBSET K /\ above \in SUBSET K /\ k \in Nat
  OBVIOUS
<1> HIDE DEF below, above, l, r, v
<1>7. CASE k \in K
  BY <1>4, <1>7 DEF StampAt, v
<1>8. CASE k \notin K /\ below = {}
  <2>1. \A j \in K : k < j
    BY <1>5, <1>6, <1>8
  <2>2. above # {}
    BY <1>1, <1>5, <2>1
  <2>3. r \in K /\ k < r /\ (\A j \in K : r <= j) /\ v = data[r]
    BY <1>3, <1>4, <1>5, <1>6, <1>8, <2>1, <2>2
  <2>4. QED
    BY <2>3 DEF StampAt, v
<1>9. CASE k \notin K /\ below # {} /\ above = {}
  <2>1. \A j \in K : j < k
    BY <1>5, <1>6, <1>9
  <2>2. l \in K /\ l < k /\ (\A j \in K : j <= l) /\ v = data[l]
    BY <1>2, <1>4, <1>5, <1>6, <1>9, <2>1
  <2>3. QED
    BY <2>2 DEF StampAt, v
<1>10. CASE k \notin K /\ below # {} /\ above # {}
  <2>1. l \in K /\ r \in K /\ l < k /\ k < r /\ v = Fill(data, l, r, k)
    BY <1>2, <1>3, <1>4, <1>5, <1>6, <1>10
  <2>2. \A j \in K : j <= l \/ r <= j
    <3>1. ASSUME NEW j \in K PROVE j <= l \/ r <= j
      <4>1. j < k \/ k < j
        BY <1>5, <1>6, <1>10
      <4>2. QED
        BY <1>2, <1>3, <1>5, <1>10, <4>1
    <3>2. QED
      BY <3>1
  <2>3. QED
    BY <2>1, <2>2 DEF StampAt, v
<1>11. QED
  BY <1>7, <1>8, <1>9, <1>10

\* Repaired stamps do not run backwards.
LEMMA StampsGrow ==
  ASSUME NEW data \in Seq(Nat), NEW K, Kept(K, data),
         NEW k \in 1 .. Len(data), k + 1 \in 1 .. Len(data),
         NEW v, StampAt(v, data, K, k), NEW w, StampAt(w, data, K, k + 1)
  PROVE  v \in Nat /\ v <= w
<1>1. /\ \A j \in K : j \in 1 .. Len(data) /\ data[j] \in Nat /\ j \in Nat
      /\ \A a, b \in K : a < b => data[a] <= data[b]
  BY DEF Kept
<1>2. k \in Nat /\ k + 1 \in Nat
  OBVIOUS
<1>3. ASSUME NEW l \in K, NEW r \in K, NEW j \in Nat, l < j, j < r
      PROVE  /\ Fill(data, l, r, j) \in Nat
             /\ data[l] <= Fill(data, l, r, j) /\ Fill(data, l, r, j) <= data[r]
             /\ j + 1 < r => Fill(data, l, r, j) <= Fill(data, l, r, j + 1)
  <2>1. l \in 1 .. Len(data) /\ r \in 1 .. Len(data) /\ j \in l + 1 .. r - 1
    BY <1>1, <1>3
  <2>2. data[l] <= data[r]
    BY <1>1, <1>3
  <2>3. QED
    BY <2>1, <2>2, FillIs
<1>4. CASE k \in K /\ v = data[k]
  <2>1. CASE k + 1 \in K /\ w = data[k + 1]
    BY <1>1, <1>2, <1>4, <2>1
  <2>2. CASE \E r \in K : k + 1 < r /\ (\A j \in K : r <= j) /\ w = data[r]
    BY <1>1, <1>2, <1>4, <2>2
  <2>3. CASE \E l \in K : l < k + 1 /\ (\A j \in K : j <= l) /\ w = data[l]
    <3>1. PICK l \in K : l < k + 1 /\ (\A j \in K : j <= l) /\ w = data[l]
      BY <2>3
    <3>2. l = k
      BY <1>1, <1>2, <1>4, <3>1
    <3>3. QED
      BY <1>1, <1>4, <3>1, <3>2
  <2>4. CASE \E l \in K, r \in K : l < k + 1 /\ k + 1 < r /\ (\A j \in K : j <= l \/ r <= j)
                                   /\ w = Fill(data, l, r, k + 1)
    <3>1. PICK l \in K, r \in K : l < k + 1 /\ k + 1 < r /\ (\A j \in K : j <= l \/ r <= j)
                                   /\ w = Fill(data, l, r, k + 1)
      BY <2>4
    <3>2. l = k
      BY <1>1, <1>2, <1>4, <3>1
    <3>3. data[l] <= w
      BY <1>2, <1>3, <3>1
    <3>4. QED
      BY <1>1, <1>4, <3>2, <3>3
  <2>5. QED
    BY <2>1, <2>2, <2>3, <2>4 DEF StampAt
<1>5. CASE \E r \in K : k < r /\ (\A j \in K : r <= j) /\ v = data[r]
  <2>1. PICK r \in K : k < r /\ (\A j \in K : r <= j) /\ v = data[r]
    BY <1>5
  <2>2. CASE k + 1 \in K /\ w = data[k + 1]
    <3>1. r = k + 1
      BY <1>1, <1>2, <2>1, <2>2
    <3>2. QED
      BY <1>1, <2>1, <2>2, <3>1
  <2>3. CASE \E s \in K : k + 1 < s /\ (\A j \in K : s <= j) /\ w = data[s]
    <3>1. PICK s \in K : (\A j \in K : s <= j) /\ w = data[s]
      BY <2>3
    <3>2. s = r
      BY <1>1, <2>1, <3>1
    <3>3. QED
      BY <1>1, <2>1, <3>1, <3>2
  <2>4. CASE \E l \in K : l < k + 1 /\ (\A j \in K : j <= l) /\ w = data[l]
    BY <1>1, <1>2, <2>1, <2>4
  <2>5. CASE \E l \in K, s \in K : l < k + 1 /\ k + 1 < s /\ (\A j \in K : j <= l \/ s <= j)
                                   /\ w = Fill(data, l, s, k + 1)
    BY <1>1, <1>2, <2>1, <2>5
  <2>6. QED
    BY <2>2, <2>3, <2>4, <2>5 DEF StampAt
<1>6. CASE \E l \in K : l < k /\ (\A j \in K : j <= l) /\ v = data[l]
  <2>1. PICK l \in K : l < k /\ (\A j \in K : j <= l) /\ v = data[l]
    BY <1>6
  <2>2. CASE k + 1 \in K /\ w = data[k + 1]
    BY <1>1, <1>2, <2>1, <2>2
  <2>3. CASE \E s \in K : k + 1 < s /\ (\A j \in K : s <= j) /\ w = data[s]
    BY <1>1, <1>2, <2>1, <2>3
  <2>4. CASE \E m \in K : m < k + 1 /\ (\A j \in K : j <= m) /\ w = data[m]
    <3>1. PICK m \in K : (\A j \in K : j <= m) /\ w = data[m]
      BY <2>4
    <3>2. m = l
      BY <1>1, <2>1, <3>1
    <3>3. QED
      BY <1>1, <2>1, <3>1, <3>2
  <2>5. CASE \E m \in K, s \in K : m < k + 1 /\ k + 1 < s /\ (\A j \in K : j <= m \/ s <= j)
                                   /\ w = Fill(data, m, s, k + 1)
    BY <1>1, <1>2, <2>1, <2>5
  <2>6. QED
    BY <2>2, <2>3, <2>4, <2>5 DEF StampAt
<1>7. CASE \E l \in K, r \in K : l < k /\ k < r /\ (\A j \in K : j <= l \/ r <= j)
                                 /\ v = Fill(data, l, r, k)
  <2>1. PICK l \in K, r \in K : l < k /\ k < r /\ (\A j \in K : j <= l \/ r <= j)
                                 /\ v = Fill(data, l, r, k)
    BY <1>7
  <2>2. /\ v \in Nat /\ data[l] <= v /\ v <= data[r]
        /\ k + 1 < r => v <= Fill(data, l, r, k + 1)
    BY <1>2, <1>3, <2>1
  <2>3. CASE k + 1 \in K /\ w = data[k + 1]
    <3>1. r = k + 1
      BY <1>1, <1>2, <2>1, <2>3
    <3>2. QED
      BY <2>2, <2>3, <3>1
  <2>4. CASE \E s \in K : k + 1 < s /\ (\A j \in K : s <= j) /\ w = data[s]
    BY <1>1, <1>2, <2>1, <2>4
  <2>5. CASE \E m \in K : m < k + 1 /\ (\A j \in K : j <= m) /\ w = data[m]
    BY <1>1, <1>2, <2>1, <2>5
  <2>6. CASE \E m \in K, s \in K : m < k + 1 /\ k + 1 < s /\ (\A j \in K : j <= m \/ s <= j)
                                   /\ w = Fill(data, m, s, k + 1)
    <3>1. PICK m \in K, s \in K : m < k + 1 /\ k + 1 < s /\ (\A j \in K : j <= m \/ s <= j)
                                   /\ w = Fill(data, m, s, k + 1)
      BY <2>6
    <3>2. l \in Nat /\ r \in Nat /\ m \in Nat /\ s \in Nat
      BY <1>1
    <3>3. (m <= l \/ r <= m) /\ (s <= l \/ r <= s)
      BY <2>1
    <3>4. (l <= m \/ s <= l) /\ (r <= m \/ s <= r)
      BY <3>1
    <3>5. m = l
      BY <1>2, <2>1, <3>1, <3>2, <3>3, <3>4
    <3>6. s = r
      BY <1>2, <2>1, <3>1, <3>2, <3>3, <3>4
    <3>7. QED
      BY <2>2, <3>1, <3>5, <3>6
  <2>7. QED
    BY <2>3, <2>4, <2>5, <2>6 DEF StampAt
<1>8. QED
  BY <1>4, <1>5, <1>6, <1>7 DEF StampAt

LEMMA StampType ==
  ASSUME NEW data \in Seq(Nat), NEW K, Kept(K, data),
         NEW k \in 1 .. Len(data), NEW v, StampAt(v, data, K, k)
  PROVE  v \in Nat /\ (k \in K => v = data[k])
<1>1. /\ \A j \in K : j \in 1 .. Len(data) /\ data[j] \in Nat /\ j \in Nat
      /\ \A a, b \in K : a < b => data[a] <= data[b]
  BY DEF Kept
<1>2. CASE k \in K
  BY <1>1, <1>2 DEF StampAt
<1>3. CASE k \notin K
  <2>1. ASSUME NEW l \in K, NEW r \in K, l < k, k < r PROVE Fill(data, l, r, k) \in Nat
    <3>1. l \in 1 .. Len(data) /\ r \in 1 .. Len(data) /\ k \in l + 1 .. r - 1
      BY <1>1, <2>1
    <3>2. data[l] <= data[r]
      BY <1>1, <2>1
    <3>3. QED
      BY <3>1, <3>2, FillIs
  <2>2. QED
    BY <1>1, <1>3, <2>1 DEF StampAt
<1>4. QED
  BY <1>2, <1>3

\* Numbers none of which is less than the one before it.
LEMMA GrowFar ==
  ASSUME NEW s \in Seq(Nat), NonDecreasing(s), NEW a \in 1 .. Len(s), NEW b \in 1 .. Len(s), a <= b
  PROVE  s[a] <= s[b]
<1> DEFINE n == Len(s)
           Good == {k \in 0 .. n : a <= k => s[a] <= s[k]}
<1>1. 0 \in Good
  OBVIOUS
<1>2. ASSUME NEW k \in 1 .. n, k - 1 \in Good PROVE k \in Good
  <2>1. CASE a <= k - 1
    <3>1. k - 1 \in 1 .. n - 1 /\ k - 1 + 1 = k
      BY <2>1
    <3>2. s[k - 1] <= s[k]
      BY <3>1 DEF NonDecreasing
    <3>3. s[a] <= s[k - 1]
      BY <1>2, <2>1
    <3>4. s[a] \in Nat /\ s[k - 1] \in Nat /\ s[k] \in Nat
      BY <3>1
    <3>5. QED
      BY <3>2, <3>3, <3>4
  <2>2. CASE ~(a <= k - 1)
    <3>1. a <= k => a = k
      BY <2>2
    <3>2. s[a] \in Nat
      OBVIOUS
    <3>3. QED
      BY <3>1, <3>2
  <2>3. QED
    BY <2>1, <2>2
<1> HIDE DEF Good
<1>3. n \in Nat
  OBVIOUS
<1>4. \A k \in 0 .. n : k \in Good
  BY <1>1, <1>2, <1>3, UpTo
<1>5. b \in 0 .. n
  OBVIOUS
<1>6. b \in Good
  BY <1>4, <1>5
<1>7. QED
  BY <1>6 DEF Good

\* The stamps fixed are the repair of the stamps data: in order, unchanged if those were,
\* and with as many unchanged as any other choice of stamps in order would leave.
Repairs(fixed, data) ==
  /\ fixed \in Seq(Nat) /\ Len(fixed) = Len(data)
  /\ NonDecreasing(fixed)
  /\ NonDecreasing(data) => fixed = data
  /\ \A S \in SUBSET (1 .. Len(data)) :
       (\A a, b \in S : a < b => data[a] <= data[b]) =>
         Cardinality({k \in 1 .. Len(data) : fixed[k] = data[k]}) >= Cardinality(S)

LEMMA FixIs ==
  ASSUME NEW data \in Seq(Nat)
  PROVE  Repairs(FixTimestamp(data), data)
<1>1. PICK n \in Nat : n = Len(data)
  OBVIOUS
<1>2. PICK f : f = FixTimestamp(data)
  OBVIOUS
<1>3. CASE data = <<>>
  <2>1. f = <<>> /\ n = 0
    BY <1>1, <1>2, <1>3 DEF FixTimestamp
  <2>2. f \in Seq(Nat) /\ Len(f) = 0 /\ NonDecreasing(f)
    BY <2>1 DEF NonDecreasing
  <2>3. ASSUME NEW S \in SUBSET (1 .. n)
        PROVE  Cardinality({k \in 1 .. n : f[k] = data[k]}) >= Cardinality(S)
    <3> DEFINE Same == {k \in 1 .. n : f[k] = data[k]}
    <3>1. S = {} /\ Same = {}
      BY <2>1
    <3>2. Cardinality({}) = 0
      BY FS_EmptySet
    <3> HIDE DEF Same
    <3>3. Cardinality(Same) = 0 /\ Cardinality(S) = 0
      BY <3>1, <3>2
    <3>4. Cardinality(Same) >= Cardinality(S)
      BY <3>3
    <3>5. QED
      BY <3>4 DEF Same
  <2>4. QED
    BY <1>1, <1>2, <1>3, <2>1, <2>2, <2>3 DEF Repairs
<1>4. CASE data # <<>>
  <2>1. PICK K : K = KeptPositions(data, RunUpTo(data))
    OBVIOUS
  <2>2. Kept(K, data)
    BY <1>4, <2>1, KeptIs
  <2>3. f = [k \in 1 .. n |-> FixedStamp(data, K, k)]
    BY <1>1, <1>2, <1>4, <2>1 DEF FixTimestamp, FixedStamps
  <2>4. \A k \in 1 .. n : StampAt(f[k], data, K, k)
    BY <1>1, <2>2, <2>3, StampIs
  <2>5. \A k \in 1 .. n : f[k] \in Nat /\ (k \in K => f[k] = data[k])
    BY <1>1, <2>2, <2>4, StampType
  <2>6. f \in Seq(Nat) /\ Len(f) = n
    <3>1. f \in [1 .. n -> Nat]
      BY <2>3, <2>5
    <3>2. QED
      BY <3>1
  <2>7. NonDecreasing(f)
    <3>1. ASSUME NEW k \in 1 .. n - 1 PROVE f[k] <= f[k + 1]
      <4>1. k \in 1 .. n /\ k + 1 \in 1 .. n
        OBVIOUS
      <4>2. QED
        BY <1>1, <2>2, <2>4, <4>1, StampsGrow
    <3>2. QED
      BY <2>6, <3>1 DEF NonDecreasing
  <2>8. /\ K \in SUBSET (1 .. n)
        /\ \A S \in SUBSET (1 .. n) :
             (\A a, b \in S : a < b => data[a] <= data[b]) => Cardinality(S) <= Cardinality(K)
    BY <1>1, <2>2 DEF Kept
  <2>9. IsFiniteSet(1 .. n) /\ Cardinality(1 .. n) = n
    BY FS_Interval
  <2>10. ASSUME NonDecreasing(data) PROVE f = data
    <3>1. \A a, b \in 1 .. n : a < b => data[a] <= data[b]
      BY <1>1, <2>10, GrowFar
    <3>2. 1 .. n \in SUBSET (1 .. n)
      OBVIOUS
    <3>3. n <= Cardinality(K)
      BY <2>8, <2>9, <3>1, <3>2
    <3>4. Cardinality(K) <= n /\ Cardinality(K) \in Nat
      BY <2>8, FiniteUpTo
    <3>5. Cardinality(K) = Cardinality(1 .. n)
      BY <2>9, <3>3, <3>4
    <3>6. K = 1 .. n
      BY <2>8, <2>9, <3>5, FS_Subset
    <3>7. \A k \in 1 .. n : f[k] = data[k]
      BY <2>5, <3>6
    <3>8. QED
      BY <1>1, <2>6, <3>7
  <2>11. ASSUME NEW S \in SUBSET (1 .. n), \A a, b \in S : a < b => data[a] <= data[b]
         PROVE  Cardinality({k \in 1 .. n : f[k] = data[k]}) >= Cardinality(S)
    <3> DEFINE Same == {k \in 1 .. n : f[k] = data[k]}
    <3>1. Same \in SUBSET (1 .. n) /\ K \in SUBSET Same
      BY <2>5, <2>8
    <3> HIDE DEF Same
    <3>2. IsFiniteSet(Same) /\ Cardinality(Same) \in Nat
      BY <3>1, FiniteUpTo
    <3>3. Cardinality(K) <= Cardinality(Same)
      BY <3>1, <3>2, FS_Subset
    <3>4. Cardinality(S) <= Cardinality(K)
      BY <2>8, <2>11
    <3>5. Cardinality(S) \in Nat /\ Cardinality(K) \in Nat
      BY <2>8, FiniteUpTo
    <3>6. Cardinality(Same) >= Cardinality(S)
      BY <3>2, <3>3, <3>4, <3>5
    <3>7. QED
      BY <3>6 DEF Same
  <2>12. QED
    BY <1>1, <1>2, <2>6, <2>7, <2>10, <2>11 DEF Repairs
<1>5. QED
  BY <1>3, <1>4

\* The first k stamps taken over unchanged.
Begun(ms, fixed, k) == Len(ms) = k /\ \A j \in 1 .. k : ms[j] = fixed[j]

PutStamp(ms, x) == Append(ms, Most(x, IF ms = <<>> THEN 0 ELSE ms[Len(ms)]))

LEMMA PutStampIs ==
  ASSUME NEW fixed \in Seq(Nat), NonDecreasing(fixed), NEW k \in 1 .. Len(fixed),
         NEW ms \in Seq(Nat), Begun(ms, fixed, k - 1),
         NEW new, new = PutStamp(ms, fixed[k])
  PROVE  new \in Seq(Nat) /\ Begun(new, fixed, k)
<1>1. PICK x \in Nat : x = fixed[k]
  OBVIOUS
<1>2. Len(ms) = k - 1 /\ \A j \in 1 .. k - 1 : ms[j] = fixed[j]
  BY DEF Begun
<1>3. PICK below : below = IF ms = <<>> THEN 0 ELSE ms[Len(ms)]
  OBVIOUS
<1>4. below \in Nat /\ below <= x
  <2>1. CASE ms = <<>>
    BY <1>1, <1>3, <2>1
  <2>2. CASE ms # <<>>
    <3>1. Len(ms) \in 1 .. Len(fixed) - 1 /\ k - 1 + 1 = k
      <4>1. k - 1 # 0
        BY <1>2, <2>2
      <4>2. QED
        BY <1>2, <4>1
    <3>2. below = fixed[k - 1] /\ k - 1 \in 1 .. Len(fixed) - 1 /\ k - 1 \in 1 .. Len(fixed)
      BY <1>2, <1>3, <2>2, <3>1
    <3>3. fixed[k - 1] <= fixed[k]
      BY <3>1, <3>2 DEF NonDecreasing
    <3>4. QED
      BY <1>1, <3>2, <3>3
  <2>3. QED
    BY <2>1, <2>2
<1>5. new = Append(ms, x)
  <2>1. new = Append(ms, Most(x, below))
    BY <1>1, <1>3 DEF PutStamp
  <2>2. Most(x, below) = x
    BY <1>4 DEF Most
  <2>3. QED
    BY <2>1, <2>2
<1>6. Longer(new, ms, x, Nat)
  BY <1>5, AppendIs
<1>7. new \in Seq(Nat) /\ Len(new) = k /\ new[k] = x /\ \A j \in 1 .. k - 1 : new[j] = ms[j]
  <2>1. /\ new \in Seq(Nat) /\ Len(new) = Len(ms) + 1 /\ new[Len(ms) + 1] = x
        /\ \A j \in 1 .. Len(ms) : new[j] = ms[j]
    BY <1>6 DEF Longer
  <2>2. Len(ms) + 1 = k /\ Len(ms) = k - 1
    BY <1>2
  <2>3. QED
    BY <2>1, <2>2
<1>8. ASSUME NEW j \in 1 .. k PROVE new[j] = fixed[j]
  <2>1. CASE j = k
    BY <1>1, <1>7, <2>1
  <2>2. CASE j # k
    <3>1. j \in 1 .. k - 1
      BY <2>2
    <3>2. QED
      BY <1>2, <1>7, <3>1
  <2>3. QED
    BY <2>1, <2>2
<1>9. QED
  BY <1>7, <1>8 DEF Begun

LEMMA ClampedSo ==
  ASSUME NEW fixed \in Seq(Nat), NonDecreasing(fixed)
  PROVE  Clamped(fixed) \in Seq(Nat) /\ Begun(Clamped(fixed), fixed, Len(fixed))
<1> DEFINE n == Len(fixed)
           F(f) == f = [k \in 0 .. n |-> IF k = 0 THEN <<>> ELSE PutStamp(f[k-1], fixed[k])]
           after == CHOOSE f : F(f)
           Part(k) == {v \in Seq(Nat) : Begun(v, fixed, k)}
           W == [k \in 0 .. n |-> Part(k)]
           next == [p \in (1 .. n) \X Seq(Nat) |-> PutStamp(p[2], fixed[p[1]])]
<1>1. n \in Nat /\ \A k \in 1 .. n : k \in 0 .. n /\ k - 1 \in 0 .. n
  OBVIOUS
<1>2. \A k \in 0 .. n : W[k] = Part(k)
  OBVIOUS
<1>3. \A k \in 1 .. n, v \in Seq(Nat) : next[<<k, v>>] = PutStamp(v, fixed[k])
  OBVIOUS
<1>4. Clamped(fixed) = after[n]
  BY Zenon DEF Clamped, PutStamp
<1> HIDE DEF n, F, after, W, next
<1>5. <<>> \in W[0]
  <2>1. <<>> \in Part(0)
    BY DEF Begun
  <2>2. 0 \in 0 .. n
    BY <1>1
  <2> HIDE DEF Part
  <2>3. QED
    BY <1>2, <2>1, <2>2
<1>6. ASSUME NEW k \in 1 .. n, NEW v \in W[k-1]
      PROVE  v \in Seq(Nat) /\ next[<<k, v>>] = PutStamp(v, fixed[k]) /\ next[<<k, v>>] \in W[k]
  <2>1. v \in Seq(Nat) /\ Begun(v, fixed, k - 1)
    BY <1>1, <1>2
  <2>2. PICK new : new = PutStamp(v, fixed[k])
    OBVIOUS
  <2>3. new \in Seq(Nat) /\ Begun(new, fixed, k)
    BY <1>1, <2>1, <2>2, PutStampIs DEF n
  <2>4. QED
    BY <1>1, <1>2, <1>3, <2>1, <2>2, <2>3
<1>7. Steps(n, W, <<>>, next)
  BY <1>1, <1>5, <1>6 DEF Steps
<1>8. \E f : F(f)
  <2>1. PICK f : RunThrough(f, n, W, <<>>, next)
    BY <1>7, Recursion
  <2>2. ASSUME NEW k \in 0 .. n PROVE f[k] = IF k = 0 THEN <<>> ELSE PutStamp(f[k-1], fixed[k])
    <3>1. CASE k = 0
      BY <2>1, <3>1 DEF RunThrough
    <3>2. CASE k # 0
      <4>1. k \in 1 .. n
        BY <3>2
      <4>2. f[k-1] \in W[k-1] /\ f[k] = next[<<k, f[k-1]>>]
        BY <2>1, <4>1 DEF RunThrough
      <4>3. QED
        BY <1>6, <3>2, <4>1, <4>2
    <3>3. QED
      BY <3>1, <3>2
  <2>3. f = [k \in 0 .. n |-> f[k]]
    BY <2>1 DEF RunThrough
  <2>4. F(f)
    BY <2>2, <2>3 DEF F
  <2>5. QED
    BY <2>4
<1>9. F(after)
  BY <1>8 DEF after
<1>10. Follows(after, n, W, <<>>, next)
  <2>1. \A k \in 0 .. n : after[k] = IF k = 0 THEN <<>> ELSE PutStamp(after[k-1], fixed[k])
    BY <1>9 DEF F
  <2>2. after[0] = <<>>
    BY <1>1, <2>1
  <2>3. ASSUME NEW k \in 1 .. n, after[k-1] \in W[k-1] PROVE after[k] = next[<<k, after[k-1]>>]
    <3>1. after[k] = PutStamp(after[k-1], fixed[k])
      BY <1>1, <2>1
    <3>2. QED
      BY <1>6, <2>3, <3>1
  <2>4. QED
    BY <2>2, <2>3 DEF Follows
<1>11. n \in 0 .. n /\ \A k \in 0 .. n : after[k] \in W[k]
  BY <1>1, <1>7, <1>10, Recursion
<1>12. after[n] \in Part(n)
  BY <1>2, <1>11
<1>13. QED
  BY <1>4, <1>12 DEF n


\* Clamping changes nothing when the stamps are in order.
LEMMA ClampedIs ==
  ASSUME NEW fixed \in Seq(Nat), NonDecreasing(fixed)
  PROVE  Clamped(fixed) = fixed
<1>1. PICK c : c = Clamped(fixed)
  OBVIOUS
<1>2. c \in Seq(Nat) /\ Begun(c, fixed, Len(fixed))
  BY <1>1, ClampedSo
<1>3. c \in Seq(Nat) /\ Len(c) = Len(fixed) /\ \A j \in 1 .. Len(fixed) : c[j] = fixed[j]
  BY <1>2 DEF Begun
<1>4. c = fixed
  BY <1>3
<1>5. QED
  BY <1>1, <1>4

\* The items of answers: a word, and when it starts and ends.
Stretches == [of : Nat, from : Nat, to : Nat]
Items == [word : Stretches \X Nat, start : Nat, end : Nat]

\* A position among the stamps is that of the start or of the end of an item.
LEMMA StartOrEnd ==
  ASSUME NEW n \in Nat, NEW k \in 1 .. 2 * n
  PROVE  \E w \in 1 .. n : k = 2 * w - 1 \/ k = 2 * w
<1>1. CASE k % 2 = 1
  <2>1. (k + 1) \div 2 \in 1 .. n /\ k = 2 * ((k + 1) \div 2) - 1
    BY <1>1
  <2>2. QED
    BY <2>1
<1>2. CASE k % 2 # 1
  <2>1. k \div 2 \in 1 .. n /\ k = 2 * (k \div 2)
    BY <1>2
  <2>2. QED
    BY <2>1
<1>3. QED
  BY <1>1, <1>2

\* The stamps ms are those of the items.
StampsAre(ms, items) ==
  /\ ms \in Seq(Nat) /\ Len(ms) = 2 * Len(items)
  /\ \A w \in 1 .. Len(items) : ms[2 * w - 1] = items[w].start /\ ms[2 * w] = items[w].end

LEMMA ItemIs ==
  ASSUME NEW items \in Seq(Items), NEW w \in 1 .. Len(items)
  PROVE  items[w] \in Items /\ items[w].start \in Nat /\ items[w].end \in Nat
<1> DEFINE I == Items
<1>1. items \in Seq(I)
  OBVIOUS
<1> HIDE DEF I
<1>2. items[w] \in I
  BY <1>1
<1>3. QED
  BY <1>2 DEF I, Items

LEMMA StampsOfAre ==
  ASSUME NEW items \in Seq(Items)
  PROVE  StampsAre(StampsOf(items), items)
<1>1. PICK n \in Nat : n = Len(items)
  OBVIOUS
<1> DEFINE at(k) == IF k % 2 = 1 THEN items[(k + 1) \div 2].start ELSE items[k \div 2].end
           ms == [k \in 1 .. 2 * n |-> at(k)]
<1>2. StampsOf(items) = ms
  BY <1>1 DEF StampsOf
<1>3. ASSUME NEW w \in 1 .. n
      PROVE  /\ 2 * w - 1 \in 1 .. 2 * n /\ at(2 * w - 1) = items[w].start
             /\ 2 * w \in 1 .. 2 * n /\ at(2 * w) = items[w].end
  <2>1. /\ 2 * w - 1 \in 1 .. 2 * n /\ (2 * w - 1) % 2 = 1 /\ (2 * w - 1 + 1) \div 2 = w
        /\ 2 * w \in 1 .. 2 * n /\ (2 * w) % 2 = 0 /\ (2 * w) \div 2 = w
    OBVIOUS
  <2>2. QED
    BY <2>1
<1>4. ASSUME NEW k \in 1 .. 2 * n PROVE at(k) \in Nat
  <2>1. PICK w \in 1 .. n : k = 2 * w - 1 \/ k = 2 * w
    BY StartOrEnd
  <2>2. items[w].start \in Nat /\ items[w].end \in Nat
    BY <1>1, ItemIs
  <2>3. QED
    BY <1>3, <2>1, <2>2
<1> HIDE DEF at
<1>5. ms \in Seq(Nat) /\ Len(ms) = 2 * n
  <2>1. ms \in [1 .. 2 * n -> Nat]
    BY <1>4
  <2>2. 2 * n \in Nat
    OBVIOUS
  <2>3. QED
    BY <2>1, <2>2
<1>6. \A w \in 1 .. n : ms[2 * w - 1] = items[w].start /\ ms[2 * w] = items[w].end
  BY <1>3
<1> HIDE DEF ms
<1>7. StampsAre(ms, items)
  BY <1>1, <1>5, <1>6 DEF StampsAre
<1>8. QED
  BY <1>2, <1>7

\* The items of an audio with other stamps.
LEMMA RestampedIs ==
  ASSUME NEW items \in Seq(Items), NEW ms \in Seq(Nat), Len(ms) = 2 * Len(items),
         NEW new, new = Restamped(items, ms)
  PROVE  /\ new \in Seq(Items) /\ Len(new) = Len(items)
         /\ \A w \in 1 .. Len(items) : new[w].word = items[w].word
         /\ StampsOf(new) = ms
<1>1. PICK n \in Nat : n = Len(items)
  OBVIOUS
<1> DEFINE item(w) == [items[w] EXCEPT !.start = ms[2 * w - 1], !.end = ms[2 * w]]
<1>2. new = [w \in 1 .. n |-> item(w)]
  BY <1>1 DEF Restamped
<1>3. ASSUME NEW w \in 1 .. n
      PROVE  /\ item(w) \in Items /\ item(w).word = items[w].word
             /\ item(w).start = ms[2 * w - 1] /\ item(w).end = ms[2 * w]
  <2>1. 2 * w - 1 \in 1 .. Len(ms) /\ 2 * w \in 1 .. Len(ms)
    BY <1>1
  <2>2. ms[2 * w - 1] \in Nat /\ ms[2 * w] \in Nat
    BY <2>1
  <2>3. items[w] \in Items
    BY <1>1, ItemIs
  <2>4. QED
    BY <2>2, <2>3 DEF Items
<1> HIDE DEF item
<1>4. new \in Seq(Items) /\ Len(new) = n
  <2>1. new \in [1 .. n -> Items]
    BY <1>2, <1>3
  <2>2. QED
    BY <1>2, <2>1
<1>5. ASSUME NEW w \in 1 .. n
      PROVE  new[w].word = items[w].word /\ new[w].start = ms[2 * w - 1] /\ new[w].end = ms[2 * w]
  BY <1>2, <1>3
<1>6. PICK all : all = StampsOf(new)
  OBVIOUS
<1>7. all \in Seq(Nat) /\ Len(all) = 2 * n /\ \A w \in 1 .. n : all[2 * w - 1] = new[w].start /\ all[2 * w] = new[w].end
  BY <1>4, <1>6, StampsOfAre DEF StampsAre
<1>8. ASSUME NEW k \in 1 .. 2 * n PROVE all[k] = ms[k]
  <2>1. PICK w \in 1 .. n : k = 2 * w - 1 \/ k = 2 * w
    BY StartOrEnd
  <2>2. QED
    BY <1>5, <1>7, <2>1
<1>9. all = ms
  BY <1>1, <1>7, <1>8
<1>10. QED
  BY <1>1, <1>4, <1>5, <1>6, <1>9

\* Stamps that are in order are a repair of themselves.
LEMMA OwnRepair ==
  ASSUME NEW data \in Seq(Nat), NonDecreasing(data)
  PROVE  Repairs(data, data)
<1>1. PICK n \in Nat : n = Len(data)
  OBVIOUS
<1> DEFINE Same == {k \in 1 .. n : data[k] = data[k]}
<1>2. Same = 1 .. n
  OBVIOUS
<1>3. Cardinality(1 .. n) = n
  BY FS_Interval
<1> HIDE DEF Same
<1>4. ASSUME NEW S \in SUBSET (1 .. n) PROVE Cardinality(Same) >= Cardinality(S)
  <2>1. Cardinality(S) \in Nat /\ Cardinality(S) <= n
    BY FiniteUpTo
  <2>2. QED
    BY <1>2, <1>3, <2>1
<1>5. QED
  BY <1>1, <1>4 DEF Repairs, Same

\* The items of an audio are put in order: same words, stamps repaired.
LEMMA RepairMergedIs ==
  ASSUME NEW items \in Seq(Items), NEW new, new = RepairMerged(items)
  PROVE  /\ new \in Seq(Items) /\ Len(new) = Len(items)
         /\ \A w \in 1 .. Len(items) : new[w].word = items[w].word
         /\ Repairs(StampsOf(new), StampsOf(items))
<1>1. PICK ms : ms = StampsOf(items)
  OBVIOUS
<1>2. ms \in Seq(Nat) /\ Len(ms) = 2 * Len(items)
  BY <1>1, StampsOfAre DEF StampsAre
<1>3. CASE NonDecreasing(ms)
  <2>1. new = items
    BY <1>1, <1>3 DEF RepairMerged
  <2>2. Repairs(ms, ms)
    BY <1>2, <1>3, OwnRepair
  <2>3. QED
    BY <1>1, <2>1, <2>2
<1>4. CASE ~ NonDecreasing(ms)
  <2>1. PICK fixed : fixed = FixTimestamp(ms)
    OBVIOUS
  <2>2. Repairs(fixed, ms)
    BY <1>2, <2>1, FixIs
  <2>3. fixed \in Seq(Nat) /\ Len(fixed) = 2 * Len(items) /\ NonDecreasing(fixed)
    BY <1>2, <2>2 DEF Repairs
  <2>4. Clamped(fixed) = fixed
    BY <2>3, ClampedIs
  <2>5. new = Restamped(items, fixed)
    BY <1>1, <1>4, <2>1, <2>4 DEF RepairMerged
  <2>6. /\ new \in Seq(Items) /\ Len(new) = Len(items)
        /\ \A w \in 1 .. Len(items) : new[w].word = items[w].word
        /\ StampsOf(new) = fixed
    BY <2>3, <2>5, RestampedIs
  <2>7. QED
    BY <1>1, <2>2, <2>6
<1>5. QED
  BY <1>3, <1>4

\* The items of a chunk.
Itemised(items, c, fixed) ==
  /\ items \in Seq(Items) /\ 2 * Len(items) = Len(fixed)
  /\ \A w \in 1 .. Len(items) :
       /\ items[w].word = <<Stretch(c), w>>
       /\ items[w].start = fixed[2 * w - 1] + c.offset
       /\ items[w].end = fixed[2 * w] + c.offset

LEMMA ItemsOfAre ==
  ASSUME NEW c \in Chunks, NEW fixed \in Seq(Nat), Len(fixed) % 2 = 0
  PROVE  Itemised(ItemsOf(c, fixed), c, fixed)
<1>1. PICK n \in Nat : n = Len(fixed) \div 2 /\ 2 * n = Len(fixed)
  OBVIOUS
<1> DEFINE item(w) == [word |-> <<Stretch(c), w>>,
                       start |-> fixed[2 * w - 1] + c.offset, end |-> fixed[2 * w] + c.offset]
           items == [w \in 1 .. n |-> item(w)]
<1>2. ItemsOf(c, fixed) = items
  BY <1>1 DEF ItemsOf
<1>3. c.of \in Nat /\ c.from \in Nat /\ c.to \in Nat /\ c.offset \in Nat
  BY DEF Chunks
<1>4. Stretch(c) \in Stretches
  BY <1>3 DEF Stretch, Stretches
<1>5. ASSUME NEW w \in 1 .. n PROVE item(w) \in Items
  <2>1. 2 * w - 1 \in 1 .. Len(fixed) /\ 2 * w \in 1 .. Len(fixed)
    BY ONLY <1>1
  <2>2. fixed[2 * w - 1] \in Nat /\ fixed[2 * w] \in Nat
    BY <2>1
  <2>3. PICK a \in Nat, b \in Nat, off \in Nat :
            a = fixed[2 * w - 1] /\ b = fixed[2 * w] /\ off = c.offset
    BY <1>3, <2>2
  <2>4. a + off \in Nat /\ b + off \in Nat /\ w \in Nat
    OBVIOUS
  <2>5. QED
    BY <1>4, <2>3, <2>4 DEF Items
<1>6. ASSUME NEW w \in 1 .. n
      PROVE  /\ item(w).word = <<Stretch(c), w>>
             /\ item(w).start = fixed[2 * w - 1] + c.offset
             /\ item(w).end = fixed[2 * w] + c.offset
  OBVIOUS
<1> HIDE DEF item
<1>7. items \in Seq(Items) /\ Len(items) = n
  <2>1. items \in [1 .. n -> Items]
    BY <1>5
  <2>2. QED
    BY <2>1
<1>8. \A w \in 1 .. n : items[w] = item(w)
  OBVIOUS
<1> HIDE DEF items
<1>9. Itemised(items, c, fixed)
  BY <1>1, <1>6, <1>7, <1>8 DEF Itemised
<1>10. QED
  BY <1>2, <1>9

Shifted(data, off) == [j \in 1 .. Len(data) |-> data[j] + off]

LEMMA ShiftedIs ==
  ASSUME NEW data \in Seq(Nat), NEW off \in Nat
  PROVE  /\ Shifted(data, off) \in Seq(Nat) /\ Len(Shifted(data, off)) = Len(data)
         /\ \A j \in 1 .. Len(data) : Shifted(data, off)[j] = data[j] + off /\ data[j] \in Nat
<1>1. PICK n \in Nat : n = Len(data)
  OBVIOUS
<1>2. ASSUME NEW j \in 1 .. n PROVE data[j] \in Nat
  BY <1>1
<1> DEFINE s == [j \in 1 .. n |-> data[j] + off]
<1>3. Shifted(data, off) = s
  BY <1>1 DEF Shifted
<1>4. \A j \in 1 .. n : s[j] = data[j] + off /\ data[j] + off \in Nat
  BY <1>2
<1>5. s \in Seq(Nat) /\ Len(s) = n
  <2>1. s \in [1 .. n -> Nat]
    BY <1>4
  <2>2. QED
    BY <2>1
<1> HIDE DEF s
<1>6. QED
  BY <1>1, <1>2, <1>3, <1>4, <1>5

\* The items and the predicted stamps of the chunks c of an audio, laid end to end.
Laid(st, items, raw, c, data) ==
  /\ st \in [0 .. Len(c) -> Nat]
  /\ items \in Seq(Items) /\ raw \in Seq(Nat) /\ Len(raw) = 2 * Len(items)
  /\ \A k \in 1 .. Len(c) : \A w \in Nat : 1 <= w /\ 2 * w <= Len(data[k]) =>
       /\ st[k-1] + w \in 1 .. Len(items)
       /\ items[st[k-1] + w].word = <<Stretch(c[k]), w>>
       /\ items[st[k-1] + w].start = FixTimestamp(data[k])[2 * w - 1] + c[k].offset
       /\ items[st[k-1] + w].end = FixTimestamp(data[k])[2 * w] + c[k].offset
  /\ \A k \in 1 .. Len(c) : \A j \in 1 .. Len(data[k]) :
       2 * st[k-1] + j \in 1 .. Len(raw) /\ raw[2 * st[k-1] + j] = data[k][j] + c[k].offset
  /\ \A m \in 1 .. Len(items) : \E k \in 1 .. Len(c) : \E w \in Nat :
       1 <= w /\ 2 * w <= Len(data[k]) /\ m = st[k-1] + w
  /\ \A k \in 1 .. Len(c) : \A l \in 1 .. Len(c) : \A v, w \in Nat :
       1 <= v /\ 2 * v <= Len(data[k]) /\ 1 <= w /\ 2 * w <= Len(data[l]) =>
         (st[k-1] + v < st[l-1] + w => k < l \/ (k = l /\ v < w))

\* Where everything is in the concatenation of the sequences s.
Placed(flat, st, s) ==
  /\ Len(flat) = st[Len(s)]
  /\ \A k \in 1 .. Len(s) : \A j \in 1 .. Len(s[k]) :
       st[k-1] + j \in 1 .. Len(flat) /\ flat[st[k-1] + j] = s[k][j]
  /\ \A m \in 1 .. Len(flat) : \E k \in 1 .. Len(s) : \E j \in 1 .. Len(s[k]) : m = st[k-1] + j
  /\ \A k \in 1 .. Len(s) : \A l \in 1 .. Len(s) : \A v \in 1 .. Len(s[k]) : \A w \in 1 .. Len(s[l]) :
       st[k-1] + v < st[l-1] + w => k < l \/ (k = l /\ v < w)

LEMMA FlattenPlaced ==
  ASSUME NEW V, NEW s \in Seq(Seq(V)), NEW st, StartsAt(st, s)
  PROVE  FlattenSeq(s) \in Seq(V) /\ Placed(FlattenSeq(s), st, s)
<1>1. PICK flat : flat = FlattenSeq(s)
  OBVIOUS
<1>2. flat \in Seq(V) /\ Spread(flat, st, s, Len(s))
  BY <1>1, FlattenAt
<1>3. ASSUME NEW k \in 1 .. Len(s), NEW j \in 1 .. Len(s[k])
      PROVE  st[k-1] + j \in 1 .. Len(flat) /\ flat[st[k-1] + j] = s[k][j]
  BY <1>2, SpreadAt
<1>4. ASSUME NEW k \in 1 .. Len(s), NEW l \in 1 .. Len(s), NEW v \in 1 .. Len(s[k]), NEW w \in 1 .. Len(s[l])
      PROVE  st[k-1] + v < st[l-1] + w => k < l \/ (k = l /\ v < w)
  BY StartsApart
<1>5. /\ Len(flat) = st[Len(s)]
      /\ \A m \in 1 .. Len(flat) : \E k \in 1 .. Len(s) : \E j \in 1 .. Len(s[k]) : m = st[k-1] + j
  BY <1>2 DEF Spread
<1>6. Placed(flat, st, s)
  BY <1>3, <1>4, <1>5 DEF Placed
<1>7. QED
  BY <1>1, <1>2, <1>6

LEMMA PartsLaid ==
  ASSUME NEW c \in Seq(Chunks), NEW data \in Seq(Seq(Nat)), Len(data) = Len(c),
         \A k \in 1 .. Len(c) : Len(data[k]) % 2 = 0,
         NEW P, P = [k \in 1 .. Len(c) |-> AlignItems(c[k], data[k])],
         NEW R, R = [k \in 1 .. Len(c) |-> Shifted(data[k], c[k].offset)]
  PROVE  \E st : Laid(st, FlattenSeq(P), FlattenSeq(R), c, data)
<1>1. PICK n \in Nat : n = Len(c)
  OBVIOUS
<1>2. ASSUME NEW k \in 1 .. n
      PROVE  /\ data[k] \in Seq(Nat) /\ Len(data[k]) \in Nat /\ Len(data[k]) % 2 = 0
             /\ c[k] \in Chunks /\ c[k].offset \in Nat
  <2>1. data[k] \in Seq(Nat)
    BY <1>1
  <2>2. c[k] \in Chunks
    <3> DEFINE C == Chunks
    <3>1. c \in Seq(C)
      OBVIOUS
    <3> HIDE DEF C
    <3>2. c[k] \in C
      BY <1>1, <3>1
    <3>3. QED
      BY <3>2 DEF C
  <2>3. c[k].offset \in Nat
    BY <2>2 DEF Chunks
  <2>4. PICK d \in Seq(Nat) : d = data[k]
    BY <2>1
  <2>5. Len(d) \in Nat
    OBVIOUS
  <2>6. Len(data[k]) % 2 = 0
    BY <1>1
  <2>7. QED
    BY <2>2, <2>3, <2>4, <2>5, <2>6
<1>3. ASSUME NEW k \in 1 .. n PROVE Itemised(P[k], c[k], FixTimestamp(data[k])) /\ 2 * Len(P[k]) = Len(data[k])
  <2>1. PICK f : f = FixTimestamp(data[k])
    OBVIOUS
  <2>2. f \in Seq(Nat) /\ Len(f) = Len(data[k])
    BY <1>2, <2>1, FixIs DEF Repairs
  <2>3. P[k] = ItemsOf(c[k], f)
    BY <1>1, <2>1 DEF AlignItems
  <2>4. Len(f) % 2 = 0 /\ c[k] \in Chunks
    BY <1>2, <2>2
  <2>5. Itemised(P[k], c[k], f)
    BY <2>2, <2>3, <2>4, ItemsOfAre
  <2>6. QED
    BY <2>1, <2>2, <2>5 DEF Itemised
<1>4. ASSUME NEW k \in 1 .. n PROVE P[k] \in Seq(Items) /\ Len(P[k]) \in Nat
  <2>1. P[k] \in Seq(Items)
    BY <1>3 DEF Itemised
  <2>2. QED
    BY <2>1
<1>5. P \in Seq(Seq(Items)) /\ Len(P) = n
  <2>1. P = [k \in 1 .. n |-> P[k]]
    BY <1>1
  <2>2. P \in [1 .. n -> Seq(Items)]
    BY <1>4, <2>1
  <2>3. QED
    BY <2>1, <2>2
<1>6. ASSUME NEW k \in 1 .. n
      PROVE  /\ R[k] \in Seq(Nat) /\ Len(R[k]) = Len(data[k])
             /\ \A j \in 1 .. Len(data[k]) : R[k][j] = data[k][j] + c[k].offset
  <2>1. R[k] = Shifted(data[k], c[k].offset)
    BY <1>1
  <2>6. PICK d \in Seq(Nat) : d = data[k]
    BY <1>2
  <2>7. PICK off \in Nat : off = c[k].offset
    BY <1>2
  <2>2. PICK r : d = data[k] /\ off = c[k].offset /\ r = R[k]
    BY <2>6, <2>7
  <2>3. r = Shifted(d, off)
    BY <2>1, <2>2
  <2>4. r \in Seq(Nat) /\ Len(r) = Len(d) /\ \A j \in 1 .. Len(d) : r[j] = d[j] + off
    BY <2>3, ShiftedIs
  <2>5. QED
    BY <2>2, <2>4
<1>7. R \in Seq(Seq(Nat)) /\ Len(R) = n
  <2>1. R = [k \in 1 .. n |-> R[k]]
    BY <1>1
  <2>2. R \in [1 .. n -> Seq(Nat)]
    BY <1>6, <2>1
  <2>3. QED
    BY <2>1, <2>2
<1>8. PICK st : StartsAt(st, P)
  BY <1>5, StartsExist
<1>9. st \in [0 .. n -> Nat] /\ st[0] = 0 /\ \A k \in 1 .. n : st[k-1] \in Nat /\ st[k] \in Nat /\ st[k] = st[k-1] + Len(P[k])
  BY <1>5, <1>8, StartsType DEF StartsAt
<1> DEFINE twice == [k \in 0 .. n |-> 2 * st[k]]
<1>10. \A k \in 1 .. n : twice[k-1] = 2 * st[k-1] /\ twice[k] = 2 * st[k]
  OBVIOUS
<1>11. StartsAt(twice, R)
  <2>1. twice \in [0 .. n -> Nat] /\ twice[0] = 0
    BY <1>9
  <2> HIDE DEF twice
  <2>2. ASSUME NEW k \in 1 .. n PROVE twice[k] = twice[k-1] + Len(R[k])
    <3>1. st[k] = st[k-1] + Len(P[k]) /\ st[k-1] \in Nat /\ Len(P[k]) \in Nat
      BY <1>4, <1>9
    <3>2. Len(R[k]) = 2 * Len(P[k])
      BY <1>3, <1>6
    <3>3. QED
      BY <1>10, <3>1, <3>2
  <2>3. QED
    BY <1>7, <2>1, <2>2 DEF StartsAt
<1>12. PICK items, raw : items = FlattenSeq(P) /\ raw = FlattenSeq(R)
  OBVIOUS
<1>13. items \in Seq(Items) /\ Placed(items, st, P)
  BY <1>5, <1>8, <1>12, FlattenPlaced
<1> HIDE DEF twice
<1>14. raw \in Seq(Nat) /\ Placed(raw, twice, R)
  BY <1>7, <1>11, <1>12, FlattenPlaced
<1>15. Len(raw) = 2 * Len(items)
  <2>1. Len(items) = st[n] /\ Len(raw) = twice[n]
    BY <1>5, <1>7, <1>13, <1>14 DEF Placed
  <2>2. n = 0 \/ n \in 1 .. n
    OBVIOUS
  <2>3. twice[n] = 2 * st[n]
    BY <1>9, <1>10, <1>11, <2>2 DEF StartsAt
  <2>4. QED
    BY <2>1, <2>3
<1>16. ASSUME NEW k \in 1 .. n, NEW w \in Nat, 1 <= w, 2 * w <= Len(data[k])
       PROVE  /\ w \in 1 .. Len(P[k])
              /\ st[k-1] + w \in 1 .. Len(items)
              /\ items[st[k-1] + w].word = <<Stretch(c[k]), w>>
              /\ items[st[k-1] + w].start = FixTimestamp(data[k])[2 * w - 1] + c[k].offset
              /\ items[st[k-1] + w].end = FixTimestamp(data[k])[2 * w] + c[k].offset
  <2>1. w \in 1 .. Len(P[k]) /\ k \in 1 .. Len(P)
    <3>1. PICK p \in Nat : p = Len(P[k])
      BY <1>4
    <3>2. 2 * p = Len(data[k])
      BY <1>3, <3>1
    <3>3. w \in 1 .. p
      BY <1>16, <3>2
    <3>4. QED
      BY <1>5, <3>1, <3>3
  <2>2. st[k-1] + w \in 1 .. Len(items) /\ items[st[k-1] + w] = P[k][w]
    <3>1. Placed(items, st, P)
      BY <1>13
    <3>2. \A i \in 1 .. Len(P[k]) : st[k-1] + i \in 1 .. Len(items) /\ items[st[k-1] + i] = P[k][i]
      BY <2>1, <3>1, Zenon DEF Placed
    <3>3. QED
      BY <2>1, <3>2, Zenon
  <2>3. /\ P[k][w].word = <<Stretch(c[k]), w>>
        /\ P[k][w].start = FixTimestamp(data[k])[2 * w - 1] + c[k].offset
        /\ P[k][w].end = FixTimestamp(data[k])[2 * w] + c[k].offset
    BY <1>3, <2>1 DEF Itemised
  <2>4. QED
    BY <2>1, <2>2, <2>3
<1>17. ASSUME NEW k \in 1 .. n, NEW j \in 1 .. Len(data[k])
       PROVE  2 * st[k-1] + j \in 1 .. Len(raw) /\ raw[2 * st[k-1] + j] = data[k][j] + c[k].offset
  <2>1. j \in 1 .. Len(R[k]) /\ k \in 1 .. Len(R) /\ R[k][j] = data[k][j] + c[k].offset
    <3>1. Len(R[k]) = Len(data[k]) /\ R[k][j] = data[k][j] + c[k].offset
      BY <1>6
    <3>2. QED
      BY <1>7, <3>1
  <2>2. twice[k-1] + j \in 1 .. Len(raw) /\ raw[twice[k-1] + j] = R[k][j]
    <3>1. k \in 1 .. Len(R) /\ j \in 1 .. Len(R[k])
      BY <2>1
    <3>2. Placed(raw, twice, R)
      BY <1>14
    <3>3. \A i \in 1 .. Len(R[k]) :
            twice[k-1] + i \in 1 .. Len(raw) /\ raw[twice[k-1] + i] = R[k][i]
      BY <3>1, <3>2, Zenon DEF Placed
    <3>4. QED
      BY <3>1, <3>3, Zenon
  <2>3. QED
    BY <1>10, <2>1, <2>2
<1>18. ASSUME NEW m \in 1 .. Len(items)
       PROVE  \E k \in 1 .. n : \E w \in Nat : 1 <= w /\ 2 * w <= Len(data[k]) /\ m = st[k-1] + w
  <2>1. PICK k \in 1 .. n : \E w \in 1 .. Len(P[k]) : m = st[k-1] + w
    BY <1>5, <1>13 DEF Placed
  <2>2. PICK w \in 1 .. Len(P[k]) : m = st[k-1] + w
    BY <2>1
  <2>3. w \in Nat /\ 1 <= w /\ 2 * w <= Len(data[k])
    <3>1. PICK p \in Nat : p = Len(P[k])
      BY <1>4
    <3>2. 2 * p = Len(data[k])
      BY <1>3, <3>1
    <3>3. w \in 1 .. p
      BY <3>1
    <3>4. QED
      BY <3>2, <3>3
  <2>4. QED
    BY <2>2, <2>3
<1>19. ASSUME NEW k \in 1 .. n, NEW l \in 1 .. n, NEW v \in Nat, NEW w \in Nat,
              1 <= v, 2 * v <= Len(data[k]), 1 <= w, 2 * w <= Len(data[l]), st[k-1] + v < st[l-1] + w
       PROVE  k < l \/ (k = l /\ v < w)
  <2>1. v \in 1 .. Len(P[k]) /\ w \in 1 .. Len(P[l]) /\ k \in 1 .. Len(P) /\ l \in 1 .. Len(P)
    BY <1>5, <1>16, <1>19
  <2>2. st[k-1] + v < st[l-1] + w => (k < l \/ (k = l /\ v < w))
    BY <1>13, <2>1 DEF Placed
  <2>3. QED
    BY <1>19, <2>2
<1>20. Laid(st, items, raw, c, data)
  <2>1. st \in [0 .. Len(c) -> Nat] /\ items \in Seq(Items) /\ raw \in Seq(Nat) /\ Len(raw) = 2 * Len(items)
    BY <1>1, <1>9, <1>13, <1>14, <1>15
  <2>2. \A k \in 1 .. Len(c) : \A w \in Nat : 1 <= w /\ 2 * w <= Len(data[k]) =>
          /\ st[k-1] + w \in 1 .. Len(items)
          /\ items[st[k-1] + w].word = <<Stretch(c[k]), w>>
          /\ items[st[k-1] + w].start = FixTimestamp(data[k])[2 * w - 1] + c[k].offset
          /\ items[st[k-1] + w].end = FixTimestamp(data[k])[2 * w] + c[k].offset
    BY <1>1, <1>16, Zenon
  <2>3. \A k \in 1 .. Len(c) : \A j \in 1 .. Len(data[k]) :
          2 * st[k-1] + j \in 1 .. Len(raw) /\ raw[2 * st[k-1] + j] = data[k][j] + c[k].offset
    BY <1>1, <1>17, Zenon
  <2>4. \A m \in 1 .. Len(items) : \E k \in 1 .. Len(c) : \E w \in Nat :
          1 <= w /\ 2 * w <= Len(data[k]) /\ m = st[k-1] + w
    BY <1>1, <1>18, Zenon
  <2>5. \A k \in 1 .. Len(c) : \A l \in 1 .. Len(c) : \A v, w \in Nat :
          1 <= v /\ 2 * v <= Len(data[k]) /\ 1 <= w /\ 2 * w <= Len(data[l]) =>
            (st[k-1] + v < st[l-1] + w => k < l \/ (k = l /\ v < w))
    BY <1>1, <1>19, Zenon
  <2>6. QED
    BY <2>1, <2>2, <2>3, <2>4, <2>5, Zenon DEF Laid
<1>21. QED
  BY <1>12, <1>20

\* The predicted stamps of every chunk.
Predictions(data, n) ==
  /\ data \in Seq(Seq(Nat)) /\ Len(data) = n
  /\ \A k \in 1 .. n : data[k] \in Seq(Nat) /\ Len(data[k]) \in Nat /\ Len(data[k]) % 2 = 0

\* Where the stamps of the items are: each chunk repaired by itself.
StampsLaid(pre, st, c, data) ==
  /\ \A k \in 1 .. Len(c) : \A j \in 1 .. Len(data[k]) :
       2 * st[k-1] + j \in 1 .. Len(pre) /\ pre[2 * st[k-1] + j] = FixTimestamp(data[k])[j] + c[k].offset
  /\ \A m \in 1 .. Len(pre) : \E k \in 1 .. Len(c) : \E j \in 1 .. Len(data[k]) : m = 2 * st[k-1] + j

LEMMA Halves ==
  ASSUME NEW n \in Nat, n % 2 = 0
  PROVE  \E h \in Nat : n = 2 * h
<1>1. n \div 2 \in Nat /\ n = 2 * (n \div 2)
  OBVIOUS
<1>2. QED
  BY <1>1

LEMMA SameStamps ==
  ASSUME NEW s \in Seq(Nat), NEW t \in Seq(Nat), Len(s) = Len(t),
         \A k \in 1 .. Len(t) : s[k] = t[k]
  PROVE  s = t
<1>1. s = [k \in 1 .. Len(s) |-> s[k]] /\ t = [k \in 1 .. Len(t) |-> t[k]]
  OBVIOUS
<1>2. QED
  BY <1>1

LEMMA StampsLaidOut ==
  ASSUME NEW c \in Seq(Chunks), NEW data, Predictions(data, Len(c)),
         NEW items, NEW raw, NEW st, Laid(st, items, raw, c, data),
         NEW pre, pre = StampsOf(items)
  PROVE  pre \in Seq(Nat) /\ Len(pre) = Len(raw) /\ StampsLaid(pre, st, c, data)
<1>1. /\ st \in [0 .. Len(c) -> Nat] /\ items \in Seq(Items) /\ Len(raw) = 2 * Len(items)
  BY DEF Laid
<1>2. PICK n \in Nat : n = Len(items)
  BY <1>1
<1>3. /\ pre \in Seq(Nat) /\ Len(pre) = 2 * n
      /\ \A w \in 1 .. n : pre[2 * w - 1] = items[w].start /\ pre[2 * w] = items[w].end
  BY <1>1, <1>2, StampsOfAre DEF StampsAre
<1>4. ASSUME NEW k \in 1 .. Len(c)
      PROVE  st[k-1] \in Nat /\ data[k] \in Seq(Nat) /\ Len(data[k]) \in Nat /\ Len(data[k]) % 2 = 0
  <2>1. k - 1 \in 0 .. Len(c)
    OBVIOUS
  <2>2. QED
    BY <1>1, <2>1 DEF Predictions
<1>5. ASSUME NEW k \in 1 .. Len(c), NEW j \in 1 .. Len(data[k])
      PROVE  2 * st[k-1] + j \in 1 .. 2 * n /\ pre[2 * st[k-1] + j] = FixTimestamp(data[k])[j] + c[k].offset
  <2>1. PICK h \in Nat : Len(data[k]) = 2 * h
    <3>1. PICK len \in Nat : len = Len(data[k]) /\ len % 2 = 0
      BY <1>4
    <3>2. \E h \in Nat : len = 2 * h
      BY <3>1, Halves
    <3>3. QED
      BY <3>1, <3>2
  <2>2. PICK w \in 1 .. h : j = 2 * w - 1 \/ j = 2 * w
    BY <2>1, StartOrEnd
  <2>3. w \in Nat /\ 1 <= w /\ 2 * w <= Len(data[k])
    BY <2>1
  <2>4. /\ st[k-1] + w \in 1 .. n
        /\ items[st[k-1] + w].start = FixTimestamp(data[k])[2 * w - 1] + c[k].offset
        /\ items[st[k-1] + w].end = FixTimestamp(data[k])[2 * w] + c[k].offset
    BY <1>2, <2>3 DEF Laid
  <2>5. PICK s \in Nat : s = st[k-1]
    BY <1>4
  <2>6. 2 * (s + w) - 1 = 2 * s + (2 * w - 1) /\ 2 * (s + w) = 2 * s + 2 * w
    BY <2>3
  <2>7. s + w \in 1 .. n
    BY <2>4, <2>5
  <2>8. pre[2 * (s + w) - 1] = items[s + w].start /\ pre[2 * (s + w)] = items[s + w].end
    BY <1>3, <2>7
  <2>9. 2 * s + (2 * w - 1) \in 1 .. 2 * n /\ 2 * s + 2 * w \in 1 .. 2 * n
    BY <2>3, <2>7
  <2>10. CASE j = 2 * w - 1
    <3>1. pre[2 * s + j] = FixTimestamp(data[k])[j] + c[k].offset
      BY <2>4, <2>5, <2>6, <2>8, <2>10
    <3>2. QED
      BY <2>5, <2>9, <2>10, <3>1
  <2>11. CASE j = 2 * w
    <3>1. pre[2 * s + j] = FixTimestamp(data[k])[j] + c[k].offset
      BY <2>4, <2>5, <2>6, <2>8, <2>11
    <3>2. QED
      BY <2>5, <2>9, <2>11, <3>1
  <2>12. QED
    BY <2>2, <2>10, <2>11
<1>6. ASSUME NEW m \in 1 .. 2 * n
      PROVE  \E k \in 1 .. Len(c) : \E j \in 1 .. Len(data[k]) : m = 2 * st[k-1] + j
  <2>1. PICK x \in 1 .. n : m = 2 * x - 1 \/ m = 2 * x
    BY StartOrEnd
  <2>2. PICK k \in 1 .. Len(c) : \E w \in Nat : 1 <= w /\ 2 * w <= Len(data[k]) /\ x = st[k-1] + w
    BY <1>2 DEF Laid
  <2>3. PICK w \in Nat : 1 <= w /\ 2 * w <= Len(data[k]) /\ x = st[k-1] + w
    BY <2>2
  <2>4. PICK s \in Nat, h \in Nat : s = st[k-1] /\ h = Len(data[k])
    BY <1>4
  <2>5. 2 * w - 1 \in 1 .. h /\ 2 * w \in 1 .. h /\ x = s + w
    BY <2>3, <2>4
  <2>6. m = 2 * s + (2 * w - 1) \/ m = 2 * s + 2 * w
    BY <2>1, <2>3, <2>5
  <2>7. QED
    BY <2>4, <2>5, <2>6
<1>7. Len(pre) = 2 * n /\ Len(raw) = 2 * n
  BY <1>1, <1>2, <1>3
<1>8. StampsLaid(pre, st, c, data)
  BY <1>5, <1>6, <1>7 DEF StampsLaid
<1>9. QED
  BY <1>3, <1>7, <1>8

\* A chunk of an audio whose stamps are in order was predicted in order, so that no
\* stamp is changed.
LEMMA OrderKeptBy ==
  ASSUME NEW c \in Seq(Chunks), NEW data, Predictions(data, Len(c)),
         NEW items, NEW raw, NEW st, Laid(st, items, raw, c, data), NonDecreasing(raw),
         NEW pre \in Seq(Nat), Len(pre) = Len(raw), StampsLaid(pre, st, c, data)
  PROVE  pre = raw
<1>1. raw \in Seq(Nat) /\ st \in [0 .. Len(c) -> Nat]
  BY DEF Laid
<1>2. ASSUME NEW k \in 1 .. Len(c)
      PROVE  st[k-1] \in Nat /\ data[k] \in Seq(Nat) /\ Len(data[k]) \in Nat /\ c[k].offset \in Nat
  <2>1. k - 1 \in 0 .. Len(c)
    OBVIOUS
  <2>2. c[k] \in Chunks
    <3> DEFINE C == Chunks
    <3>1. c \in Seq(C)
      OBVIOUS
    <3> HIDE DEF C
    <3>2. c[k] \in C
      BY <3>1
    <3>3. QED
      BY <3>2 DEF C
  <2>3. c[k].offset \in Nat
    BY <2>2 DEF Chunks
  <2>4. data[k] \in Seq(Nat) /\ Len(data[k]) \in Nat
    BY DEF Predictions
  <2>5. QED
    BY <1>1, <2>1, <2>3, <2>4
<1>3. ASSUME NEW k \in 1 .. Len(c) PROVE FixTimestamp(data[k]) = data[k]
  <2>1. PICK d \in Seq(Nat) : d = data[k]
    BY <1>2
  <2>2. PICK s \in Nat, off \in Nat : s = st[k-1] /\ off = c[k].offset
    BY <1>2
  <2>3. \A j \in 1 .. Len(d) : 2 * s + j \in 1 .. Len(raw) /\ raw[2 * s + j] = d[j] + off
    BY <2>1, <2>2 DEF Laid
  <2>4. ASSUME NEW j \in 1 .. Len(d) - 1 PROVE d[j] <= d[j + 1]
    <3>1. j \in 1 .. Len(d) /\ j + 1 \in 1 .. Len(d) /\ d[j] \in Nat /\ d[j + 1] \in Nat
      OBVIOUS
    <3>2. 2 * s + j \in 1 .. Len(raw) - 1
      <4>1. 2 * s + j \in 1 .. Len(raw) /\ 2 * s + (j + 1) \in 1 .. Len(raw)
        BY <2>3, <3>1
      <4>2. Len(raw) \in Nat
        BY <1>1
      <4>3. QED
        BY <4>1, <4>2
    <3>3. raw[2 * s + j] <= raw[(2 * s + j) + 1]
      BY <3>2 DEF NonDecreasing
    <3>4. (2 * s + j) + 1 = 2 * s + (j + 1)
      OBVIOUS
    <3>5. raw[2 * s + j] = d[j] + off /\ raw[2 * s + (j + 1)] = d[j + 1] + off
      BY <2>3, <3>1
    <3>6. d[j] + off <= d[j + 1] + off
      BY <3>3, <3>4, <3>5
    <3>7. QED
      BY <3>1, <3>6
  <2>5. NonDecreasing(d)
    BY <2>4 DEF NonDecreasing
  <2>6. Repairs(FixTimestamp(d), d)
    BY FixIs
  <2>7. FixTimestamp(d) = d
    BY <2>5, <2>6 DEF Repairs
  <2>8. QED
    BY <2>1, <2>7
<1>4. ASSUME NEW m \in 1 .. Len(raw) PROVE pre[m] = raw[m]
  <2>1. PICK k \in 1 .. Len(c) : \E j \in 1 .. Len(data[k]) : m = 2 * st[k-1] + j
    BY DEF StampsLaid
  <2>2. PICK j \in 1 .. Len(data[k]) : m = 2 * st[k-1] + j
    BY <2>1
  <2>3. pre[2 * st[k-1] + j] = FixTimestamp(data[k])[j] + c[k].offset
    BY DEF StampsLaid
  <2>4. raw[2 * st[k-1] + j] = data[k][j] + c[k].offset
    BY DEF Laid
  <2>5. QED
    BY <1>3, <2>2, <2>3, <2>4
<1>5. PICK r \in Seq(Nat) : r = raw
  BY <1>1
<1>6. pre = r
  BY <1>4, <1>5, SameStamps
<1>7. QED
  BY <1>5, <1>6

\* The words of an answer are in the order of the audio, those of a chunk in the
\* order of its text.
WordsInOrder(items) ==
  \A a, b \in 1..Len(items) :
     a < b => \E v, w \in {items[a].word, items[b].word} :
                /\ v = items[a].word /\ w = items[b].word
                /\ \/ v[1].to <= w[1].from
                   \/ v[1] = w[1] /\ v[2] < w[2]

LEMMA WordsOrdered ==
  ASSUME NEW c, \A k, l \in 1 .. Len(c) : k < l => c[k].to <= c[l].from,
         NEW data, NEW items, NEW raw, NEW st, Laid(st, items, raw, c, data),
         NEW new, Len(new) = Len(items), \A w \in 1 .. Len(items) : new[w].word = items[w].word
  PROVE  WordsInOrder(new)
<1>1. SUFFICES ASSUME NEW a \in 1 .. Len(new), NEW b \in 1 .. Len(new), a < b
               PROVE  \E v, w \in {new[a].word, new[b].word} :
                        /\ v = new[a].word /\ w = new[b].word
                        /\ \/ v[1].to <= w[1].from
                           \/ v[1] = w[1] /\ v[2] < w[2]
  BY DEF WordsInOrder
<1>2. a \in 1 .. Len(items) /\ b \in 1 .. Len(items)
  OBVIOUS
<1>3. PICK k \in 1 .. Len(c) : \E v \in Nat : 1 <= v /\ 2 * v <= Len(data[k]) /\ a = st[k-1] + v
  BY <1>2 DEF Laid
<1>4. PICK v \in Nat : 1 <= v /\ 2 * v <= Len(data[k]) /\ a = st[k-1] + v
  BY <1>3
<1>5. PICK l \in 1 .. Len(c) : \E w \in Nat : 1 <= w /\ 2 * w <= Len(data[l]) /\ b = st[l-1] + w
  BY <1>2 DEF Laid
<1>6. PICK w \in Nat : 1 <= w /\ 2 * w <= Len(data[l]) /\ b = st[l-1] + w
  BY <1>5
<1>7. k < l \/ (k = l /\ v < w)
  <2>1. st[k-1] + v < st[l-1] + w
    BY <1>1, <1>4, <1>6
  <2>2. \A x, y \in Nat : 1 <= x /\ 2 * x <= Len(data[k]) /\ 1 <= y /\ 2 * y <= Len(data[l]) =>
          (st[k-1] + x < st[l-1] + y => k < l \/ (k = l /\ x < y))
    BY Zenon DEF Laid
  <2>3. QED
    BY <1>4, <1>6, <2>1, <2>2
<1>8. items[a].word = <<Stretch(c[k]), v>>
  <2>1. items[st[k-1] + v].word = <<Stretch(c[k]), v>>
    BY <1>4 DEF Laid
  <2>2. QED
    BY <1>4, <2>1
<1>9. items[b].word = <<Stretch(c[l]), w>>
  <2>1. items[st[l-1] + w].word = <<Stretch(c[l]), w>>
    BY <1>6 DEF Laid
  <2>2. QED
    BY <1>6, <2>1
<1>10. new[a].word = <<Stretch(c[k]), v>> /\ new[b].word = <<Stretch(c[l]), w>>
  BY <1>2, <1>8, <1>9
<1>11. PICK x, y : x = new[a].word /\ y = new[b].word
  OBVIOUS
<1>12. x[1] = Stretch(c[k]) /\ x[2] = v /\ y[1] = Stretch(c[l]) /\ y[2] = w
  BY <1>10, <1>11
<1>13. x[1].to <= y[1].from \/ (x[1] = y[1] /\ x[2] < y[2])
  <2>1. CASE k < l
    <3>1. c[k].to <= c[l].from
      BY <2>1
    <3>2. Stretch(c[k]).to = c[k].to /\ Stretch(c[l]).from = c[l].from
      BY DEF Stretch
    <3>3. QED
      BY <1>12, <3>1, <3>2
  <2>2. CASE k = l /\ v < w
    BY <1>12, <2>2
  <2>3. QED
    BY <1>7, <2>1, <2>2
<1>14. QED
  BY <1>11, <1>13

\* The repair final of the stamps raw changes as few of them as it can.
FewChanges(final, raw) ==
  \A S \in SUBSET (1..Len(raw)) :
    (\A a, b \in S : a < b => raw[a] <= raw[b]) =>
        Cardinality({k \in 1..Len(raw) : final[k] = raw[k]}) >= Cardinality(S)

\* If one chunk of the audio was aligned, its stamps are those of the answer.
LEMMA OneChunk ==
  ASSUME NEW c \in Seq(Chunks), NEW data, Predictions(data, Len(c)),
         NEW items, NEW raw, NEW st, Laid(st, items, raw, c, data),
         NEW pre \in Seq(Nat), Len(pre) = Len(raw), StampsLaid(pre, st, c, data),
         NEW one \in 1 .. Len(c), \A k \in 1 .. Len(c) : k # one => data[k] = <<>>,
         NEW final, Repairs(final, pre)
  PROVE  FewChanges(final, raw)
<1>1. raw \in Seq(Nat) /\ st \in [0 .. Len(c) -> Nat]
  BY DEF Laid
<1>2. PICK n \in Nat : n = Len(raw)
  BY <1>1
<1>3. PICK d \in Seq(Nat) : d = data[one]
  BY DEF Predictions
<1>4. PICK s \in Nat : s = st[one - 1]
  <2>1. one - 1 \in 0 .. Len(c)
    OBVIOUS
  <2>2. QED
    BY <1>1, <2>1
<1>5. PICK off \in Nat : off = c[one].offset
  <2>1. c[one] \in Chunks
    <3> DEFINE C == Chunks
    <3>1. c \in Seq(C)
      OBVIOUS
    <3> HIDE DEF C
    <3>2. c[one] \in C
      BY <3>1
    <3>3. QED
      BY <3>2 DEF C
  <2>2. QED
    BY <2>1 DEF Chunks
<1>6. PICK f : f = FixTimestamp(d)
  OBVIOUS
<1>7. Repairs(f, d)
  BY <1>6, FixIs
<1>8. f \in Seq(Nat) /\ Len(f) = Len(d) /\ NonDecreasing(f)
  BY <1>7 DEF Repairs
<1>9. \A m \in 1 .. n : \E j \in 1 .. Len(d) : m = 2 * s + j
  <2>1. ASSUME NEW m \in 1 .. n PROVE \E j \in 1 .. Len(d) : m = 2 * s + j
    <3>1. PICK k \in 1 .. Len(c) : \E j \in 1 .. Len(data[k]) : m = 2 * st[k-1] + j
      BY <1>2 DEF StampsLaid
    <3>2. k = one
      <4>1. CASE data[k] = <<>>
        <5>1. 1 .. Len(data[k]) = {}
          BY <4>1
        <5>2. QED
          BY <3>1, <5>1
      <4>2. CASE data[k] # <<>>
        BY <4>2
      <4>3. QED
        BY <4>1, <4>2
    <3>3. QED
      BY <1>3, <1>4, <3>1, <3>2
  <2>2. QED
    BY <2>1
<1>10. \A j \in 1 .. Len(d) : 2 * s + j \in 1 .. n /\ raw[2 * s + j] = d[j] + off
  BY <1>2, <1>3, <1>4, <1>5 DEF Laid
<1>11. \A j \in 1 .. Len(d) : pre[2 * s + j] = f[j] + off
  BY <1>3, <1>4, <1>5, <1>6 DEF StampsLaid
<1>12. CASE n = 0
  <2>1. Cardinality({}) = 0
    BY FS_EmptySet
  <2>2. ASSUME NEW S \in SUBSET (1 .. n)
        PROVE  Cardinality({k \in 1 .. n : final[k] = raw[k]}) >= Cardinality(S)
    <3> DEFINE Same == {k \in 1 .. n : final[k] = raw[k]}
    <3>1. S = {} /\ Same = {}
      BY <1>12
    <3> HIDE DEF Same
    <3>2. Cardinality(Same) = 0 /\ Cardinality(S) = 0
      BY <2>1, <3>1
    <3>3. Cardinality(Same) >= Cardinality(S)
      BY <3>2
    <3>4. QED
      BY <3>3 DEF Same
  <2>3. QED
    BY <1>2, <2>2 DEF FewChanges
<1>13. CASE n # 0
  <2>1. s = 0
    <3>1. 1 \in 1 .. n
      BY <1>13
    <3>2. PICK j \in 1 .. Len(d) : 1 = 2 * s + j
      BY <1>9, <3>1
    <3>3. QED
      BY <3>2
  <2>2. \A j \in 1 .. Len(d) : 2 * s + j = j
    BY <2>1
  <2>3. Len(d) = n
    <3>1. n \in 1 .. n
      BY <1>13
    <3>2. PICK j \in 1 .. Len(d) : n = 2 * s + j
      BY <1>9, <3>1
    <3>3. PICK h \in Nat : h = Len(d)
      OBVIOUS
    <3>4. n <= h /\ h \in 1 .. h
      BY <2>1, <3>2, <3>3
    <3>5. 2 * s + h \in 1 .. n
      BY <1>10, <3>3, <3>4
    <3>6. QED
      BY <2>1, <3>3, <3>4, <3>5
  <2>4. ASSUME NEW k \in 1 .. n
        PROVE  raw[k] = d[k] + off /\ pre[k] = f[k] + off /\ d[k] \in Nat /\ f[k] \in Nat
    <3>1. k \in 1 .. Len(d) /\ k \in 1 .. Len(f)
      BY <1>8, <2>3
    <3>2. 2 * s + k = k
      BY <2>2, <3>1
    <3>3. raw[2 * s + k] = d[k] + off /\ pre[2 * s + k] = f[k] + off
      BY <1>10, <1>11, <3>1
    <3>4. d[k] \in Nat /\ f[k] \in Nat
      BY <1>8, <3>1
    <3>5. QED
      BY <3>2, <3>3, <3>4
  <2>5. NonDecreasing(pre)
    <3>1. ASSUME NEW k \in 1 .. n - 1 PROVE pre[k] <= pre[k + 1]
      <4>1. k \in 1 .. n /\ k + 1 \in 1 .. n /\ k \in 1 .. Len(f) - 1
        BY <1>8, <2>3
      <4>2. f[k] <= f[k + 1]
        BY <1>8, <4>1 DEF NonDecreasing
      <4>3. PICK x \in Nat, y \in Nat : x = f[k] /\ y = f[k + 1]
        BY <2>4, <4>1
      <4>4. pre[k] = x + off /\ pre[k + 1] = y + off
        BY <2>4, <4>1, <4>3
      <4>5. QED
        BY <4>2, <4>3, <4>4
    <3>2. QED
      BY <1>2, <3>1 DEF NonDecreasing
  <2>6. final = pre
    BY <2>5 DEF Repairs
  <2>7. ASSUME NEW S \in SUBSET (1 .. n), \A a, b \in S : a < b => raw[a] <= raw[b]
        PROVE  Cardinality({k \in 1 .. n : final[k] = raw[k]}) >= Cardinality(S)
    <3> DEFINE Same == {k \in 1 .. n : final[k] = raw[k]}
               Kin == {k \in 1 .. n : f[k] = d[k]}
    <3>1. ASSUME NEW k \in 1 .. n PROVE final[k] = raw[k] <=> f[k] = d[k]
      <4>1. PICK x \in Nat, y \in Nat : x = f[k] /\ y = d[k]
        BY <2>4
      <4>2. final[k] = x + off /\ raw[k] = y + off
        BY <2>4, <2>6, <4>1
      <4>3. x + off = y + off <=> x = y
        BY ONLY off \in Nat, x \in Nat, y \in Nat
      <4>4. QED
        BY <4>1, <4>2, <4>3
    <3>2. Same = Kin
      BY <3>1
    <3>3. ASSUME NEW a \in S, NEW b \in S, a < b PROVE d[a] <= d[b]
      <4>1. PICK x \in Nat, y \in Nat : x = d[a] /\ y = d[b]
        BY <2>4
      <4>2. raw[a] = x + off /\ raw[b] = y + off
        BY <2>4, <4>1
      <4>3. x + off <= y + off
        BY <2>7, <3>3, <4>2
      <4>4. x <= y
        BY <4>3
      <4>5. QED
        BY <4>1, <4>4
    <3>4. \A a, b \in S : a < b => d[a] <= d[b]
      BY <3>3
    <3>5. Cardinality({k \in 1 .. Len(d) : f[k] = d[k]}) >= Cardinality(S)
      BY <1>7, <2>3, <3>4 DEF Repairs
    <3>6. Cardinality(Kin) >= Cardinality(S)
      BY <2>3, <3>5
    <3>7. QED
      BY <3>2, <3>6
  <2>8. QED
    BY <1>2, <2>7 DEF FewChanges
<1>14. QED
  BY <1>12, <1>13

\* What is returned for an audio, whose chunks c follow each other.
StampsGood(items, raw) ==
  /\ Len(StampsOf(items)) = Len(raw) /\ NonDecreasing(StampsOf(items))
  /\ NonDecreasing(raw) => StampsOf(items) = raw
  /\ WordsInOrder(items)

LEMMA MergeIs ==
  ASSUME NEW c \in Seq(Chunks), \A k, l \in 1 .. Len(c) : k < l => c[k].to <= c[l].from,
         NEW data, Predictions(data, Len(c)),
         NEW P, P = [k \in 1 .. Len(c) |-> AlignItems(c[k], data[k])],
         NEW R, R = [k \in 1 .. Len(c) |-> Shifted(data[k], c[k].offset)],
         NEW new, new = RepairMerged(FlattenSeq(P)), NEW raw, raw = FlattenSeq(R)
  PROVE  /\ StampsGood(new, raw)
         /\ \A one \in 1 .. Len(c) :
              (\A k \in 1 .. Len(c) : k # one => data[k] = <<>>) => FewChanges(StampsOf(new), raw)
<1>1. data \in Seq(Seq(Nat)) /\ Len(data) = Len(c) /\ \A k \in 1 .. Len(c) : Len(data[k]) % 2 = 0
  BY DEF Predictions
<1>2. PICK items : items = FlattenSeq(P)
  OBVIOUS
<1>3. \E st : Laid(st, items, raw, c, data)
  <2>1. \E st : Laid(st, FlattenSeq(P), FlattenSeq(R), c, data)
    BY <1>1, PartsLaid
  <2>2. QED
    BY <1>2, <2>1
<1>4. PICK st : Laid(st, items, raw, c, data)
  BY <1>3
<1>5. PICK pre : pre = StampsOf(items)
  OBVIOUS
<1>6. pre \in Seq(Nat) /\ Len(pre) = Len(raw) /\ StampsLaid(pre, st, c, data)
  BY <1>4, <1>5, StampsLaidOut
<1>7. items \in Seq(Items)
  BY <1>4 DEF Laid
<1>8. PICK final : final = StampsOf(new)
  OBVIOUS
<1>9. /\ Len(new) = Len(items)
      /\ \A w \in 1 .. Len(items) : new[w].word = items[w].word
      /\ Repairs(final, pre)
  BY <1>2, <1>5, <1>7, <1>8, RepairMergedIs
<1>10. Len(final) = Len(raw) /\ NonDecreasing(final) /\ (NonDecreasing(pre) => final = pre)
  BY <1>6, <1>9 DEF Repairs
<1>11. NonDecreasing(raw) => pre = raw
  BY <1>4, <1>6, OrderKeptBy
<1>12. WordsInOrder(new)
  BY <1>4, <1>9, WordsOrdered
<1>13. StampsGood(new, raw)
  BY <1>8, <1>10, <1>11, <1>12 DEF StampsGood
<1>14. ASSUME NEW one \in 1 .. Len(c), \A k \in 1 .. Len(c) : k # one => data[k] = <<>>
       PROVE  FewChanges(final, raw)
  BY <1>4, <1>6, <1>9, <1>14, OneChunk
<1>15. QED
  BY <1>8, <1>13, <1>14

\* What the aligner predicted for the chunks that have a text, and the items made of it.
AlignedAs(items, stamps, cs) ==
  /\ DOMAIN items = DOMAIN stamps /\ DOMAIN stamps \subseteq 1 .. Len(cs)
  /\ \A i \in DOMAIN stamps : /\ stamps[i] \in Stampings
                              /\ items[i] = AlignItems(cs[i], stamps[i])

AlignedKept ==
  /\ status = "called" => aligned = Nothing /\ predicted = Nothing
  /\ Prepared => AlignedAs(aligned, predicted, chunks)

\* A group is aligned.
LEMMA AlignKeeps ==
  ASSUME NEW cs, NEW f, NEW h, AlignedAs(f, h, cs),
         NEW S \in SUBSET (1 .. Len(cs)), NEW stamps \in [S -> Stampings]
  PROVE  AlignedAs(Added(f, [i \in DOMAIN stamps |-> AlignItems(cs[i], stamps[i])]),
                   Added(h, stamps), cs)
<1> DEFINE fn == Added(f, [i \in DOMAIN stamps |-> AlignItems(cs[i], stamps[i])])
           hn == Added(h, stamps)
<1>0. /\ DOMAIN f = DOMAIN h /\ DOMAIN h \subseteq 1 .. Len(cs)
      /\ \A i \in DOMAIN h : h[i] \in Stampings /\ f[i] = AlignItems(cs[i], h[i])
  BY DEF AlignedAs
<1> DEFINE items == [i \in DOMAIN stamps |-> AlignItems(cs[i], stamps[i])]
<1>1. DOMAIN stamps = S /\ DOMAIN items = S
  OBVIOUS
<1>2. \A i \in S : items[i] = AlignItems(cs[i], stamps[i]) /\ stamps[i] \in Stampings
  OBVIOUS
<1>3. fn = Added(f, items)
  OBVIOUS
<1>3a. hn = Added(h, stamps)
  OBVIOUS
<1> HIDE DEF items, fn, hn
<1>4. DOMAIN fn = DOMAIN h \cup S /\ DOMAIN hn = DOMAIN h \cup S
  BY <1>0, <1>1, <1>3, <1>3a DEF Added
<1>5. ASSUME NEW i \in DOMAIN h PROVE fn[i] = f[i] /\ hn[i] = h[i]
  BY <1>0, <1>1, <1>3, <1>3a, <1>5 DEF Added
<1>6. ASSUME NEW i \in S, i \notin DOMAIN h PROVE fn[i] = items[i] /\ hn[i] = stamps[i]
  BY <1>0, <1>1, <1>3, <1>3a, <1>6 DEF Added
<1>7. ASSUME NEW i \in DOMAIN hn PROVE hn[i] \in Stampings /\ fn[i] = AlignItems(cs[i], hn[i])
  <2>1. CASE i \in DOMAIN h
    BY <1>0, <1>5, <2>1
  <2>2. CASE i \notin DOMAIN h
    <3>1. i \in S
      BY <1>4, <1>7, <2>2
    <3>2. QED
      BY <1>2, <1>6, <2>2, <3>1
  <2>3. QED
    BY <2>1, <2>2
<1>8. AlignedAs(fn, hn, cs)
  BY <1>0, <1>4, <1>7 DEF AlignedAs
<1>9. QED
  BY <1>8 DEF fn, hn

LEMMA AlignedStays ==
  ASSUME CutForCall, GroupsKept, AlignedKept, [OfflineNext]_offlineVars
  PROVE  AlignedKept'
<1>1. CASE Prepare
  <2>1. aligned' = Nothing /\ predicted' = Nothing /\ status' = "running"
    BY <1>1 DEF Prepare, AlignedKept
  <2>2. DOMAIN Nothing = {}
    BY DEF Nothing
  <2>3. QED
    BY <2>1, <2>2 DEF AlignedKept, AlignedAs
<1>2. CASE /\ chunks' = chunks /\ aligned' = aligned /\ predicted' = predicted
           /\ (Prepared' => Prepared) /\ (status' = "called" => status = "called")
  BY <1>2 DEF AlignedKept
<1>3. CASE Delegate \/ Refuse \/ FailGroup \/ AsrGroup \/ Merge \/ UNCHANGED offlineVars
  BY <1>2, <1>3 DEF Delegate, Refuse, FailGroup, AsrGroup, Answer, Merge, offlineVars, Prepared
<1>4. CASE AlignedGroup
  <2> DEFINE g == Head(groups)
  <2>1. status = "running" /\ groups # <<>>
    BY <1>4 DEF AlignedGroup
  <2>2. PICK says : \E texts \in {GroupAnswers(g, says)} :
          /\ Answer(g, says, texts)
          /\ \E stamps \in [ToAlign(texts) -> Stampings] :
              /\ aligned' = Added(aligned,
                    [i \in DOMAIN stamps |-> AlignItems(chunks[i], stamps[i])])
              /\ predicted' = Added(predicted, stamps)
    BY <1>4 DEF AlignedGroup
  <2>3. PICK texts : texts = GroupAnswers(g, says)
    OBVIOUS
  <2>4. Answer(g, says, texts)
    BY <2>2, <2>3
  <2>5. PICK stamps \in [ToAlign(texts) -> Stampings] :
              /\ aligned' = Added(aligned,
                    [i \in DOMAIN stamps |-> AlignItems(chunks[i], stamps[i])])
              /\ predicted' = Added(predicted, stamps)
    BY <2>2, <2>3
  <2>6. chunks' = chunks /\ status' = "running"
    BY <2>1, <2>4 DEF Answer
  <2>7. ToAlign(texts) \in SUBSET (1 .. Len(chunks))
    <3>1. groups \in Seq(Seq(1 .. Len(chunks)))
      BY <2>1 DEF GroupsKept
    <3>2. g \in Seq(1 .. Len(chunks))
      BY <2>1, <3>1
    <3>3. DOMAIN texts = ToSet(g)
      BY <2>3 DEF GroupAnswers
    <3>4. ToSet(g) \subseteq 1 .. Len(chunks)
      BY <3>2, ElementsOf
    <3>5. QED
      BY <3>3, <3>4 DEF ToAlign
  <2>8. AlignedAs(aligned, predicted, chunks)
    BY <2>1 DEF AlignedKept, Prepared
  <2> HIDE DEF g
  <2>9. AlignedAs(Added(aligned, [i \in DOMAIN stamps |-> AlignItems(chunks[i], stamps[i])]),
                  Added(predicted, stamps), chunks)
    <3>1. PICK S : S = ToAlign(texts)
      OBVIOUS
    <3>2. S \in SUBSET (1 .. Len(chunks)) /\ stamps \in [S -> Stampings]
      BY <2>5, <2>7, <3>1
    <3>3. QED
      BY Zenon, <2>8, <3>2, AlignKeeps
  <2>10. AlignedAs(aligned', predicted', chunks)
    BY <2>5, <2>9
  <2>11. QED
    BY <2>6, <2>10 DEF AlignedKept, Prepared
<1>5. QED
  BY <1>1, <1>3, <1>4 DEF OfflineNext, Transcribe, TranscribeTimed,
     TranscribeAligned, TranscribeAlignedTimed, RunAsr, RunAsrTimed, RunAligned,
     RunAlignedTimed, MergeOutputs, MergeOutputsTimed, MergeAligned, MergeAlignedTimed

LEMMA AlignedFirst == OfflineInit => AlignedKept
  BY DEF OfflineInit, AlignedKept, Prepared

LEMMA AlignedAlways == OfflineSpec => []AlignedKept
<1>1. CutForCall /\ GroupsKept /\ AlignedKept /\ [OfflineNext]_offlineVars => AlignedKept'
  BY AlignedStays
<1>2. QED
  BY <1>1, AlignedFirst, CutAlways, GroupsAlways, PTL DEF OfflineSpec

\* The chunks of an audio lie behind one another.
LEMMA ChunksApart ==
  ASSUME NEW s \in Seq(Chunks), NEW audio, NEW max, Tiles(s, audio, max)
  PROVE  \A k, l \in 1 .. Len(s) : k < l => s[k].to <= s[l].from
<1>1. PICK n \in Nat : n = Len(s)
  OBVIOUS
<1>2. ASSUME NEW k \in 1 .. n
      PROVE  s[k].from \in Nat /\ s[k].to \in Nat /\ s[k].from <= s[k].to
  <2> DEFINE C == Chunks
  <2>1. s \in Seq(C)
    OBVIOUS
  <2>2. \A x \in C : x.from \in Nat /\ x.to \in Nat
    BY DEF Chunks
  <2> HIDE DEF C
  <2>3. s[k] \in C
    BY <1>1, <2>1
  <2>4. s[k].from <= s[k].to
    BY <1>1 DEF Tiles
  <2>5. QED
    BY <2>2, <2>3, <2>4
<1>3. ASSUME NEW k \in 1 .. n - 1 PROVE s[k + 1].from = s[k].to
  BY <1>1 DEF Tiles
<1>4. ASSUME NEW k \in 1 .. n PROVE \A l \in 1 .. n : k < l => s[k].to <= s[l].from
  <2> DEFINE Good == {l \in 0 .. n : k < l => s[k].to <= s[l].from}
  <2>1. 0 \in Good
    OBVIOUS
  <2>2. ASSUME NEW l \in 1 .. n, l - 1 \in Good PROVE l \in Good
    <3>1. CASE k < l - 1
      <4>1. l - 1 \in 1 .. n - 1 /\ l - 1 + 1 = l /\ l - 1 \in 1 .. n
        BY <3>1
      <4>2. s[l].from = s[l - 1].to
        BY <1>3, <4>1
      <4>3. s[k].to <= s[l - 1].from
        BY <2>2, <3>1
      <4>4. s[l - 1].from <= s[l - 1].to /\ s[l - 1].from \in Nat /\ s[l - 1].to \in Nat
        BY <1>2, <4>1
      <4>5. s[k].to \in Nat
        BY <1>2
      <4>6. s[k].to <= s[l - 1].to
        BY <4>3, <4>4, <4>5
      <4>7. QED
        BY <4>2, <4>6
    <3>2. CASE k = l - 1
      <4>1. k \in 1 .. n - 1 /\ k + 1 = l
        BY <3>2
      <4>2. s[l].from = s[k].to
        BY <1>3, <4>1
      <4>3. s[k].to \in Nat
        BY <1>2
      <4>4. QED
        BY <4>2, <4>3
    <3>3. CASE k > l - 1
      BY <3>3
    <3>4. QED
      BY <3>1, <3>2, <3>3
  <2> HIDE DEF Good
  <2>3. \A l \in 0 .. n : l \in Good
    BY <2>1, <2>2, UpTo
  <2>4. QED
    BY <2>3 DEF Good
<1>5. QED
  BY <1>1, <1>4

\* Two stamps a word, or none.
LEMMA PairsOfStamps ==
  \A d : d \in Stampings \/ d = <<>> => d \in Seq(Nat) /\ Len(d) \in Nat /\ Len(d) % 2 = 0
<1>1. ASSUME NEW d \in Stampings PROVE d \in Seq(Nat) /\ Len(d) \in Nat /\ Len(d) % 2 = 0
  <2>1. d \in Seq(Nat) /\ Len(d) % 2 = 0
    BY OfflineAssumption
  <2>2. QED
    BY <2>1
<1>2. <<>> \in Seq(Nat) /\ Len(<<>>) \in Nat /\ Len(<<>>) % 2 = 0
  OBVIOUS
<1>3. QED
  BY <1>1, <1>2

\* A chunk that was not aligned has neither items nor stamps.
LEMMA NoStamps == \A c, off : AlignItems(c, <<>>) = <<>> /\ Shifted(<<>>, off) = <<>>
<1>1. ASSUME NEW c, NEW off PROVE AlignItems(c, <<>>) = <<>> /\ Shifted(<<>>, off) = <<>>
  <2>1. FixTimestamp(<<>>) = <<>>
    BY DEF FixTimestamp
  <2>2. Len(<<>>) = 0 /\ Len(<<>>) \div 2 = 0
    OBVIOUS
  <2>3. 1 .. 0 = {}
    OBVIOUS
  <2>4. ItemsOf(c, <<>>) = <<>>
    BY <2>2, <2>3 DEF ItemsOf
  <2>5. Shifted(<<>>, off) = <<>>
    BY <2>2, <2>3 DEF Shifted
  <2>6. QED
    BY <2>1, <2>4, <2>5 DEF AlignItems
<1>2. QED
  BY <1>1

\* The stamps data predicted for the chunks c of audio i, and what was made of them.
PartsAre(i, c, data) ==
  /\ Predictions(data, Len(c))
  /\ MergedAudio(i).items =
       RepairMerged(FlattenSeq([k \in 1 .. Len(c) |-> AlignItems(c[k], data[k])]))
  /\ MovedStamps(i) = FlattenSeq([k \in 1 .. Len(c) |-> Shifted(data[k], c[k].offset)])
  /\ Cardinality(DOMAIN predicted \cap ToSet(OwnChunks(i))) = 1 =>
       \E one \in 1 .. Len(c) : \A k \in 1 .. Len(c) : k # one => data[k] = <<>>

\* The stamps predicted for the chunks oc, none for those that were not aligned.
PredictedFor(oc) ==
  [k \in 1 .. Len(oc) |-> IF oc[k] \in DOMAIN predicted THEN predicted[oc[k]] ELSE <<>>]

LEMMA OwnParts ==
  ASSUME AlignedKept, status = "answered", Len(chunks) \in Nat,
         NEW i, NEW st, NEW c, OwnAre(i, st, c), NEW oc, oc = OwnChunks(i),
         NEW data, data = PredictedFor(oc)
  PROVE  PartsAre(i, c, data)
<1>1. AlignedAs(aligned, predicted, chunks)
  BY DEF AlignedKept, Prepared
<1>2. PICK s \in Nat : s = st[i-1]
  BY DEF OwnAre
<1>3. PICK n \in Nat : n = Len(c)
  BY DEF OwnAre
<1>4. /\ oc = [m \in 1 .. n |-> s + m]
      /\ \A m \in 1 .. n : chunks[s + m] = c[m]
      /\ \A m \in 1 .. n : c[m].offset = c[m].from
  BY <1>2, <1>3 DEF OwnAre, Tiles
<1>4a. \A m \in 1 .. n : c[m].offset = c[m].from
  BY <1>4
<1>5. Len(oc) = n /\ \A m \in 1 .. n : oc[m] = s + m /\ chunks[oc[m]] = c[m]
  BY <1>4
<1>6. \A x \in DOMAIN predicted : /\ x \in 1 .. Len(chunks) /\ x \in DOMAIN aligned
                                  /\ predicted[x] \in Stampings
                                  /\ aligned[x] = AlignItems(chunks[x], predicted[x])
  BY <1>1 DEF AlignedAs
<1>7. ASSUME NEW k \in 1 .. n, oc[k] \in DOMAIN predicted
      PROVE  /\ data[k] = predicted[oc[k]] /\ data[k] \in Stampings
             /\ aligned[oc[k]] = AlignItems(c[k], data[k])
  <2>1. data[k] = predicted[oc[k]]
    BY <1>5, <1>7 DEF PredictedFor
  <2>2. QED
    BY <1>5, <1>6, <1>7, <2>1
<1>8. ASSUME NEW k \in 1 .. n, oc[k] \notin DOMAIN predicted PROVE data[k] = <<>>
  BY <1>5, <1>8 DEF PredictedFor
<1>9. Predictions(data, n)
  <2>1. ASSUME NEW k \in 1 .. n
        PROVE  data[k] \in Seq(Nat) /\ Len(data[k]) \in Nat /\ Len(data[k]) % 2 = 0
    <3>1. data[k] \in Stampings \/ data[k] = <<>>
      BY <1>7, <1>8
    <3>2. QED
      BY Zenon, <3>1, PairsOfStamps
  <2>2. data = [k \in 1 .. n |-> data[k]]
    BY <1>5 DEF PredictedFor
  <2>3. data \in [1 .. n -> Seq(Nat)]
    BY <2>1, <2>2
  <2>4. data \in Seq(Seq(Nat)) /\ Len(data) = n
    BY <2>2, <2>3
  <2>5. QED
    BY <2>1, <2>4 DEF Predictions
<1>10. MergedAudio(i).items = RepairMerged(FlattenSeq([k \in 1 .. n |-> AlignItems(c[k], data[k])]))
  <2> DEFINE F == [k \in 1 .. Len(oc) |-> IF oc[k] \in DOMAIN aligned THEN aligned[oc[k]] ELSE <<>>]
             H == [k \in 1 .. n |-> AlignItems(c[k], data[k])]
  <2>1. MergedAudio(i).items = RepairMerged(FlattenSeq(F))
    BY DEF MergedAudio
  <2>2. ASSUME NEW k \in 1 .. n PROVE F[k] = H[k]
    <3>1. CASE oc[k] \in DOMAIN predicted
      <4>1. oc[k] \in DOMAIN aligned
        BY <1>6, <3>1
      <4>2. F[k] = aligned[oc[k]]
        BY <1>5, <4>1
      <4>3. QED
        BY <1>7, <3>1, <4>2
    <3>2. CASE oc[k] \notin DOMAIN predicted
      <4>1. oc[k] \notin DOMAIN aligned
        BY <1>1, <3>2 DEF AlignedAs
      <4>2. F[k] = <<>>
        BY <1>5, <4>1
      <4>3. H[k] = AlignItems(c[k], <<>>)
        BY <1>8, <3>2
      <4>4. QED
        BY <4>2, <4>3, NoStamps
    <3>3. QED
      BY <3>1, <3>2
  <2>3. F = [k \in 1 .. n |-> F[k]] /\ H = [k \in 1 .. n |-> H[k]]
    BY <1>5
  <2> HIDE DEF F, H
  <2>4. F = H
    BY <2>2, <2>3
  <2>5. QED
    BY <2>1, <2>4 DEF H
<1>11. MovedStamps(i) = FlattenSeq([k \in 1 .. n |-> Shifted(data[k], c[k].offset)])
  <2> DEFINE M(x) == IF x \in DOMAIN predicted
                     THEN [j \in 1..Len(predicted[x]) |-> predicted[x][j] + chunks[x].from]
                     ELSE <<>>
             F == [k \in 1 .. Len(oc) |-> M(oc[k])]
             H == [k \in 1 .. n |-> Shifted(data[k], c[k].offset)]
  <2>1. MovedStamps(i) = FlattenSeq(F)
    BY DEF MovedStamps
  <2>2. ASSUME NEW k \in 1 .. n PROVE F[k] = H[k]
    <3>0. F[k] = M(oc[k])
      BY <1>5
    <3>1. CASE oc[k] \in DOMAIN predicted
      <4>1. data[k] = predicted[oc[k]] /\ c[k].offset = chunks[oc[k]].from
        BY <1>4a, <1>5, <1>7, <3>1
      <4>2. H[k] = Shifted(predicted[oc[k]], chunks[oc[k]].from)
        BY <4>1
      <4>3. M(oc[k]) = Shifted(predicted[oc[k]], chunks[oc[k]].from)
        BY <3>1 DEF Shifted
      <4>4. QED
        BY <3>0, <4>2, <4>3
    <3>2. CASE oc[k] \notin DOMAIN predicted
      <4>1. M(oc[k]) = <<>>
        BY <3>2
      <4>2. H[k] = Shifted(<<>>, c[k].offset)
        BY <1>8, <3>2
      <4>3. QED
        BY <3>0, <4>1, <4>2, NoStamps
    <3>3. QED
      BY <3>1, <3>2
  <2>3. F = [k \in 1 .. n |-> F[k]] /\ H = [k \in 1 .. n |-> H[k]]
    BY <1>5
  <2> HIDE DEF F, H, M
  <2>4. F = H
    BY <2>2, <2>3
  <2>5. QED
    BY <2>1, <2>4 DEF H
<1>12. ASSUME Cardinality(DOMAIN predicted \cap ToSet(oc)) = 1
       PROVE  \E one \in 1 .. n : \A k \in 1 .. n : k # one => data[k] = <<>>
  <2>1. PICK D : D = DOMAIN predicted \cap ToSet(oc)
    OBVIOUS
  <2>2. IsFiniteSet(D)
    <3>1. D \in SUBSET (1 .. Len(chunks))
      BY <1>6, <2>1
    <3>2. QED
      BY <3>1, FiniteUpTo
  <2>3. PICK x : D = {x}
    BY <1>12, <2>1, <2>2, FS_Singleton
  <2>4. PICK one \in 1 .. n : oc[one] = x
    <3>1. x \in ToSet(oc)
      BY <2>1, <2>3
    <3>2. DOMAIN oc = 1 .. n
      BY <1>4
    <3>3. QED
      BY <3>1, <3>2 DEF ToSet
  <2>5. ASSUME NEW k \in 1 .. n, k # one PROVE data[k] = <<>>
    <3>1. oc[k] \in ToSet(oc)
      BY <1>4 DEF ToSet
    <3>2. oc[k] # x
      BY <1>5, <2>4, <2>5
    <3>3. oc[k] \notin DOMAIN predicted
      BY <2>1, <2>3, <3>1, <3>2
    <3>4. QED
      BY <1>8, <3>3
  <2>6. QED
    BY <2>5
<1>13. QED
  BY <1>3, <1>9, <1>10, <1>11, <1>12 DEF PartsAre

\* r answers an audio whose predicted stamps, moved to their places, are raw; alone says
\* whether they are those of one chunk.
StampsMerged(r, raw, alone) ==
  /\ StampsGood(r.items, raw)
  /\ alone => FewChanges(StampsOf(r.items), raw)

LEMMA AudioStamps ==
  ASSUME CutForCall, AnswersRead, AlignedKept, status = "answered", NEW i \in 1 .. Len(call.audios)
  PROVE  StampsMerged(result[i], MovedStamps(i),
                      Cardinality(DOMAIN predicted \cap ToSet(OwnChunks(i))) = 1)
<1>1. PICK st : ChunksAre(chunks, st, call.audios, ChunkMax)
  BY ChunksKnown DEF Prepared
<1>2. PICK c : c = SplitAudio(i, call.audios[i], ChunkMax)
  OBVIOUS
<1>3. OwnAre(i, st, c)
  BY <1>1, <1>2, OwnChunksAre
<1>4. Len(chunks) \in Nat
  BY <1>1 DEF ChunksAre
<1>5. PICK oc : oc = OwnChunks(i)
  OBVIOUS
<1>6. PICK data : data = PredictedFor(oc)
  OBVIOUS
<1>7. PartsAre(i, c, data)
  BY <1>3, <1>4, <1>5, <1>6, OwnParts
<1>8. c \in Seq(Chunks) /\ Tiles(c, call.audios[i], ChunkMax)
  BY <1>3 DEF OwnAre
<1>9. \A k, l \in 1 .. Len(c) : k < l => c[k].to <= c[l].from
  BY <1>8, ChunksApart
<1>10. PICK P : P = [k \in 1 .. Len(c) |-> AlignItems(c[k], data[k])]
  OBVIOUS
<1>11. PICK R : R = [k \in 1 .. Len(c) |-> Shifted(data[k], c[k].offset)]
  OBVIOUS
<1>12. PICK new, raw : new = RepairMerged(FlattenSeq(P)) /\ raw = FlattenSeq(R)
  OBVIOUS
<1>13. /\ MergedAudio(i).items = new /\ MovedStamps(i) = raw
       /\ Cardinality(DOMAIN predicted \cap ToSet(OwnChunks(i))) = 1 =>
            \E one \in 1 .. Len(c) : \A k \in 1 .. Len(c) : k # one => data[k] = <<>>
  BY <1>7, <1>10, <1>11, <1>12 DEF PartsAre
<1>14. Predictions(data, Len(c))
  BY <1>7 DEF PartsAre
<1>15. /\ StampsGood(new, raw)
       /\ \A one \in 1 .. Len(c) :
            (\A k \in 1 .. Len(c) : k # one => data[k] = <<>>) => FewChanges(StampsOf(new), raw)
  BY <1>8, <1>9, <1>10, <1>11, <1>12, <1>14, MergeIs
<1>16. result[i] = MergedAudio(i)
  BY DEF AnswersRead
<1>17. result[i].items = new
  BY <1>13, <1>16
<1>18. QED
  BY <1>13, <1>15, <1>17, Zenon DEF StampsMerged

\* Whatever the aligner predicts, the stamps of an answer are in order over all chunks of
\* the audio, those that were in order stay as they are, the words keep the order of the
\* text, and within one chunk as few stamps as possible are changed (fix_timestamp,
\* offset_align_items, repair_merged_align_items).
THEOREM StampsAlwaysRepaired == OfflineSpec => []StampsRepaired
<1>1. ASSUME CutForCall, AnswersRead, AlignedKept PROVE StampsRepaired
  <2>1. ASSUME status = "answered", NEW i \in 1 .. Len(call.audios)
        PROVE  \E raw \in {MovedStamps(i)} : \E final \in {StampsOf(result[i].items)} :
                 /\ Len(final) = Len(raw) /\ NonDecreasing(final)
                 /\ NonDecreasing(raw) => final = raw
                 /\ WordsInOrder(result[i].items)
                 /\ (Cardinality(DOMAIN predicted \cap ToSet(OwnChunks(i))) = 1) =>
                      FewChanges(final, raw)
    <3>1. StampsMerged(result[i], MovedStamps(i),
                       Cardinality(DOMAIN predicted \cap ToSet(OwnChunks(i))) = 1)
      BY <1>1, <2>1, AudioStamps
    <3>2. QED
      BY Zenon, <3>1 DEF StampsMerged, StampsGood
  <2>2. QED
    BY Zenon, <2>1 DEF StampsRepaired, WordsInOrder, FewChanges
<1>2. QED
  BY <1>1, CutAlways, ReadAlways, AlignedAlways, PTL

--------------------------------------------------------------------------------
\* The offline pipeline with tasks.

Spans == [start : Nat, end : Nat]
Waveforms == [dur : Nat, segs : Seq(Spans)]

\* m are the first j of the segments segs, some of them merged: in order, none of them
\* lost, and none too long unless it was found so.
MergedFrom(m, segs, j) ==
  /\ m \in Seq(Spans) /\ (j > 0 => m # <<>> /\ m[Len(m)].end = segs[j].end)
  /\ \A k \in 1 .. Len(m) : m[k].start <= m[k].end
  /\ \A k \in 1 .. Len(m) - 1 : m[k].end <= m[k+1].start
  /\ \A i \in 1 .. j : \E k \in 1 .. Len(m) : m[k].start <= segs[i].start /\ segs[i].end <= m[k].end
  /\ \A k \in 1 .. Len(m) : \/ m[k].end - m[k].start <= MergeMax
                            \/ \E i \in 1 .. j : segs[i] = m[k]
  /\ j = 0 => m = <<>>

SpansInOrder(segs) ==
  /\ segs \in Seq(Spans) /\ \A k \in 1 .. Len(segs) : segs[k].start <= segs[k].end
  /\ \A k \in 1 .. Len(segs) - 1 : segs[k].end <= segs[k+1].start

LEMMA SpanTyped ==
  ASSUME NEW s \in Seq(Spans), NEW k \in 1 .. Len(s)
  PROVE  s[k] \in Spans /\ s[k].start \in Nat /\ s[k].end \in Nat
<1> DEFINE S == Spans
<1>1. s \in Seq(S) /\ \A x \in S : x.start \in Nat /\ x.end \in Nat
  BY DEF Spans
<1> HIDE DEF S
<1>2. s[k] \in S
  BY <1>1
<1>3. QED
  BY <1>1, <1>2 DEF S

LEMMA JoinedIs ==
  ASSUME NEW segs, SpansInOrder(segs), NEW j \in 1 .. Len(segs),
         NEW m, MergedFrom(m, segs, j - 1), NEW new, new = Joined(m, segs[j])
  PROVE  MergedFrom(new, segs, j)
<1>1. segs \in Seq(Spans) /\ m \in Seq(Spans)
  BY DEF SpansInOrder, MergedFrom
<1>2. PICK s : s = segs[j]
  OBVIOUS
<1>3. s \in Spans /\ s.start \in Nat /\ s.end \in Nat /\ s.start <= s.end
  BY <1>1, <1>2, SpanTyped DEF SpansInOrder
<1>4. PICK n \in Nat : n = Len(m)
  BY <1>1
<1>5. \A k \in 1 .. n : m[k] \in Spans /\ m[k].start \in Nat /\ m[k].end \in Nat
  BY <1>1, <1>4, SpanTyped
<1>6. n # 0 => m[n].end <= s.start
  <2>1. CASE j = 1
    BY <1>4, <2>1 DEF MergedFrom
  <2>2. CASE j # 1
    <3>1. j - 1 \in 1 .. Len(segs) - 1 /\ j - 1 > 0
      BY <1>1, <2>2
    <3>2. m[n].end = segs[j-1].end /\ segs[j-1].end <= segs[j-1+1].start
      BY <1>4, <3>1 DEF MergedFrom, SpansInOrder
    <3>3. j - 1 + 1 = j
      BY <1>1
    <3>4. QED
      BY <1>2, <3>2, <3>3
  <2>3. QED
    BY <2>1, <2>2
<1>7. /\ \A k \in 1 .. n : m[k].start <= m[k].end
      /\ \A k \in 1 .. n - 1 : m[k].end <= m[k+1].start
      /\ \A i \in 1 .. j - 1 : \E k \in 1 .. n : m[k].start <= segs[i].start /\ segs[i].end <= m[k].end
      /\ \A k \in 1 .. n : m[k].end - m[k].start <= MergeMax \/ \E i \in 1 .. j - 1 : segs[i] = m[k]
  BY <1>4 DEF MergedFrom
<1>8. j \in Nat /\ j > 0 /\ MergeMax \in Nat /\ MergeGap \in Nat
  BY <1>1, AsyncAssumption
<1>9. CASE m # <<>> /\ s.start - m[n].end <= MergeGap /\ s.end - m[n].start <= MergeMax
  <2>1. n # 0
    BY <1>1, <1>4, <1>9
  <2>2. PICK l : l = [m[n] EXCEPT !.end = s.end]
    OBVIOUS
  <2>3. n \in 1 .. n
    BY <2>1
  <2>4. l \in Spans /\ l.start = m[n].start /\ l.end = s.end
    BY <1>3, <1>5, <2>2, <2>3 DEF Spans
  <2>5. Later(m[n].end, s.end) = s.end
    BY <1>3, <1>5, <1>6, <2>3 DEF Later
  <2>6. new = [m EXCEPT ![n] = l]
    <3>1. new = [m EXCEPT ![n].end = Later(m[n].end, s.end)]
      BY <1>2, <1>4, <1>9 DEF Joined
    <3>2. QED
      BY <2>2, <2>5, <3>1
  <2>7. new \in Seq(Spans) /\ Len(new) = n /\ new[n] = l /\ \A k \in 1 .. n : k # n => new[k] = m[k]
    <3> DEFINE S == Spans
    <3>1. m \in Seq(S) /\ l \in S
      BY <1>1, <2>4
    <3> HIDE DEF S
    <3>2. new \in Seq(S) /\ Len(new) = n /\ new[n] = l /\ \A k \in 1 .. n : k # n => new[k] = m[k]
      BY <1>4, <2>3, <2>6, <3>1
    <3>3. QED
      BY <3>2 DEF S
  <2>8. \A k \in 1 .. n : new[k].start = m[k].start
    BY <2>4, <2>7
  <2>9. m[n].end <= s.end
    BY <1>3, <1>5, <1>6, <2>3
  <2>10. \A k \in 1 .. n : new[k].end >= m[k].end
    BY <1>5, <2>4, <2>7, <2>9
  <2>11. ASSUME NEW k \in 1 .. n PROVE new[k].start <= new[k].end
    <3>1. new[k].end \in Nat
      BY <1>3, <1>5, <2>4, <2>7
    <3>2. QED
      BY <1>5, <1>7, <2>8, <2>10, <3>1, SMTT(30)
  <2>12. ASSUME NEW k \in 1 .. n - 1 PROVE new[k].end <= new[k+1].start
    <3>1. k \in 1 .. n /\ k # n /\ k + 1 \in 1 .. n
      OBVIOUS
    <3>2. QED
      BY <1>7, <2>7, <2>8, <3>1
  <2>13. ASSUME NEW i \in 1 .. j
         PROVE  \E k \in 1 .. n : new[k].start <= segs[i].start /\ segs[i].end <= new[k].end
    <3>1. CASE i = j
      <4>1. new[n].start <= s.start /\ s.end <= new[n].end
        BY <1>3, <1>5, <1>6, <1>7, <2>1, <2>3, <2>4, <2>7
      <4>2. QED
        BY <1>2, <2>3, <3>1, <4>1
    <3>2. CASE i # j
      <4>1. i \in 1 .. j - 1 /\ i \in 1 .. Len(segs)
        BY <1>8, <3>2
      <4>2. PICK k \in 1 .. n : m[k].start <= segs[i].start /\ segs[i].end <= m[k].end
        BY <1>7, <4>1
      <4>3. segs[i].end \in Nat /\ m[k].end \in Nat /\ new[k].end \in Nat
        BY <1>1, <1>3, <1>5, <2>4, <2>7, <4>1, SpanTyped
      <4>4. QED
        BY <2>8, <2>10, <4>2, <4>3
    <3>3. QED
      BY <3>1, <3>2
  <2>14. ASSUME NEW k \in 1 .. n
         PROVE  new[k].end - new[k].start <= MergeMax \/ \E i \in 1 .. j : segs[i] = new[k]
    <3>1. CASE k = n
      BY <1>9, <2>4, <2>7, <3>1
    <3>2. CASE k # n
      <4>1. new[k] = m[k]
        BY <2>7, <3>2
      <4>2. \A i \in 1 .. j - 1 : i \in 1 .. j
        BY <1>8
      <4>3. QED
        BY <1>7, <4>1, <4>2
    <3>3. QED
      BY <3>1, <3>2
  <2>15. new # <<>> /\ new[Len(new)].end = segs[j].end
    BY <1>2, <2>1, <2>4, <2>7
  <2>16. QED
    BY <1>8, <2>7, <2>11, <2>12, <2>13, <2>14, <2>15 DEF MergedFrom
<1>10. CASE ~(m # <<>> /\ s.start - m[n].end <= MergeGap /\ s.end - m[n].start <= MergeMax)
  <2>1. new = Append(m, s)
    BY <1>2, <1>4, <1>10 DEF Joined
  <2>2. /\ new \in Seq(Spans) /\ Len(new) = n + 1 /\ new[n+1] = s
        /\ \A k \in 1 .. n : new[k] = m[k]
    <3> DEFINE S == Spans
    <3>1. m \in Seq(S) /\ s \in S
      BY <1>1, <1>3
    <3> HIDE DEF S
    <3>2. new \in Seq(S) /\ Len(new) = n + 1 /\ new[n+1] = s /\ \A k \in 1 .. n : new[k] = m[k]
      BY <1>4, <2>1, <3>1
    <3>3. QED
      BY <3>2 DEF S
  <2>3. n + 1 \in 1 .. n + 1 /\ \A k \in 1 .. n + 1 : k = n + 1 \/ k \in 1 .. n
    OBVIOUS
  <2>4. \A k \in 1 .. n + 1 : new[k].start <= new[k].end
    BY <1>3, <1>7, <2>2, <2>3
  <2>5. ASSUME NEW k \in 1 .. n PROVE new[k].end <= new[k+1].start
    <3>1. CASE k = n
      BY <1>6, <2>2, <3>1
    <3>2. CASE k # n
      <4>1. k \in 1 .. n - 1 /\ k + 1 \in 1 .. n
        BY <3>2
      <4>2. QED
        BY <1>7, <2>2, <4>1
    <3>3. QED
      BY <3>1, <3>2
  <2>6. ASSUME NEW i \in 1 .. j
        PROVE  \E k \in 1 .. n + 1 : new[k].start <= segs[i].start /\ segs[i].end <= new[k].end
    <3>1. CASE i = j
      <4>1. new[n+1].start <= s.start /\ s.end <= new[n+1].end
        BY <1>3, <2>2
      <4>2. QED
        BY <1>2, <2>3, <3>1, <4>1
    <3>2. CASE i # j
      <4>1. i \in 1 .. j - 1
        BY <1>8, <3>2
      <4>2. PICK k \in 1 .. n : m[k].start <= segs[i].start /\ segs[i].end <= m[k].end
        BY <1>7, <4>1
      <4>3. k \in 1 .. n + 1 /\ new[k] = m[k]
        BY <2>2
      <4>4. QED
        BY <4>2, <4>3
    <3>3. QED
      BY <3>1, <3>2
  <2>7. ASSUME NEW k \in 1 .. n + 1
        PROVE  new[k].end - new[k].start <= MergeMax \/ \E i \in 1 .. j : segs[i] = new[k]
    <3>1. CASE k = n + 1
      <4>1. segs[j] = new[k] /\ j \in 1 .. j
        BY <1>2, <1>8, <2>2, <3>1
      <4>2. QED
        BY <4>1
    <3>2. CASE k # n + 1
      <4>1. new[k] = m[k] /\ k \in 1 .. n
        BY <2>2, <2>3, <3>2
      <4>2. \A i \in 1 .. j - 1 : i \in 1 .. j
        BY <1>8
      <4>3. QED
        BY <1>7, <4>1, <4>2
    <3>3. QED
      BY <3>1, <3>2
  <2>8. new # <<>> /\ new[Len(new)].end = segs[j].end
    BY <1>2, <2>2
  <2>9. Len(new) - 1 = n
    BY <2>2
  <2>10. QED
    BY <1>8, <2>2, <2>4, <2>5, <2>6, <2>7, <2>8, <2>9 DEF MergedFrom
<1>11. QED
  BY <1>9, <1>10

LEMMA NothingMerged == \A segs : MergedFrom(<<>>, segs, 0)
  BY DEF MergedFrom

\* merge_vad_segments_for_asr, when it is not switched off.
LEMMA MergedLoop ==
  ASSUME NEW segs, SpansInOrder(segs), Len(segs) \in Nat, MergeGap # 0, MergeMax # 0
  PROVE  MergedFrom(MergedSegments(segs), segs, Len(segs))
<1> DEFINE n == Len(segs)
           F(f) == f = [k \in 0 .. n |-> IF k = 0 THEN <<>> ELSE Joined(f[k-1], segs[k])]
           after == CHOOSE f : F(f)
           Part(k) == {v \in Seq(Spans) : MergedFrom(v, segs, k)}
           W == [k \in 0 .. n |-> Part(k)]
           next == [p \in (1 .. n) \X Seq(Spans) |-> Joined(p[2], segs[p[1]])]
<1>1. n \in Nat /\ \A k \in 1 .. n : k \in 0 .. n /\ k - 1 \in 0 .. n
  OBVIOUS
<1>2. \A k \in 0 .. n : W[k] = Part(k)
  OBVIOUS
<1>3. \A k \in 1 .. n, v \in Seq(Spans) : next[<<k, v>>] = Joined(v, segs[k])
  OBVIOUS
<1>4. MergedSegments(segs) = after[n]
  BY Zenon DEF MergedSegments
<1> HIDE DEF n, F, after, W, next
<1>5. <<>> \in W[0]
  <2>1. <<>> \in Part(0)
    BY NothingMerged DEF MergedFrom
  <2>2. 0 \in 0 .. n
    BY <1>1
  <2> HIDE DEF Part
  <2>3. QED
    BY <1>2, <2>1, <2>2
<1>6. ASSUME NEW k \in 1 .. n, NEW v \in W[k-1]
      PROVE  v \in Seq(Spans) /\ next[<<k, v>>] = Joined(v, segs[k]) /\ next[<<k, v>>] \in W[k]
  <2>1. v \in Seq(Spans) /\ MergedFrom(v, segs, k - 1)
    BY <1>1, <1>2
  <2>2. PICK new : new = Joined(v, segs[k])
    OBVIOUS
  <2>3. new \in Seq(Spans) /\ MergedFrom(new, segs, k)
    <3>1. k \in 1 .. Len(segs)
      BY DEF n
    <3>2. MergedFrom(new, segs, k)
      BY <2>1, <2>2, <3>1, JoinedIs
    <3>3. QED
      BY <3>2 DEF MergedFrom
  <2>4. QED
    BY <1>1, <1>2, <1>3, <2>1, <2>2, <2>3
<1>7. Steps(n, W, <<>>, next)
  BY <1>1, <1>5, <1>6 DEF Steps
<1>8. \E f : F(f)
  <2>1. PICK f : RunThrough(f, n, W, <<>>, next)
    BY <1>7, Recursion
  <2>2. ASSUME NEW k \in 0 .. n PROVE f[k] = IF k = 0 THEN <<>> ELSE Joined(f[k-1], segs[k])
    <3>1. CASE k = 0
      BY <2>1, <3>1 DEF RunThrough
    <3>2. CASE k # 0
      <4>1. k \in 1 .. n
        BY <3>2
      <4>2. f[k-1] \in W[k-1] /\ f[k] = next[<<k, f[k-1]>>]
        BY <2>1, <4>1 DEF RunThrough
      <4>3. QED
        BY <1>6, <3>2, <4>1, <4>2
    <3>3. QED
      BY <3>1, <3>2
  <2>3. f = [k \in 0 .. n |-> f[k]]
    BY <2>1 DEF RunThrough
  <2>4. F(f)
    BY <2>2, <2>3 DEF F
  <2>5. QED
    BY <2>4
<1>9. F(after)
  BY <1>8 DEF after
<1>10. Follows(after, n, W, <<>>, next)
  <2>1. \A k \in 0 .. n : after[k] = IF k = 0 THEN <<>> ELSE Joined(after[k-1], segs[k])
    BY <1>9 DEF F
  <2>2. after[0] = <<>>
    BY <1>1, <2>1
  <2>3. ASSUME NEW k \in 1 .. n, after[k-1] \in W[k-1] PROVE after[k] = next[<<k, after[k-1]>>]
    <3>1. after[k] = Joined(after[k-1], segs[k])
      BY <1>1, <2>1
    <3>2. QED
      BY <1>6, <2>3, <3>1
  <2>4. QED
    BY <2>2, <2>3 DEF Follows
<1>11. n \in 0 .. n /\ \A k \in 0 .. n : after[k] \in W[k]
  BY <1>1, <1>7, <1>10, Recursion
<1>12. after[n] \in Part(n)
  BY <1>2, <1>11
<1>13. QED
  BY <1>4, <1>12 DEF n

\* What merging makes of the segments of a waveform.
MergedWell(m, segs, dur) ==
  /\ m \in Seq(Spans) /\ (segs # <<>> => m # <<>>)
  /\ \A k \in 1 .. Len(m) : m[k].start <= m[k].end /\ m[k].end <= dur
  /\ \A k \in 1 .. Len(m) - 1 : m[k].end <= m[k+1].start
  /\ \A i \in 1 .. Len(segs) : \E k \in 1 .. Len(m) :
       m[k].start <= segs[i].start /\ segs[i].end <= m[k].end
  /\ \A k \in 1 .. Len(m) : \/ m[k].end - m[k].start <= MergeMax
                            \/ \E i \in 1 .. Len(segs) : segs[i] = m[k]

LEMMA MergedIs ==
  ASSUME NEW segs, SpansInOrder(segs), NEW dur \in Nat,
         \A k \in 1 .. Len(segs) : segs[k].end <= dur
  PROVE  MergedWell(MergedSegments(segs), segs, dur)
<1>1. PICK n \in Nat : n = Len(segs)
  BY DEF SpansInOrder
<1>2. segs \in Seq(Spans)
  BY DEF SpansInOrder
<1>3. PICK m : m = MergedSegments(segs)
  OBVIOUS
<1>4. CASE MergeGap = 0 \/ MergeMax = 0
  <2>1. m = segs
    BY <1>3, <1>4 DEF MergedSegments
  <2>2. \A k \in 1 .. n : segs[k].start <= segs[k].start /\ segs[k].end <= segs[k].end
    BY <1>1, <1>2, SpanTyped
  <2>3. QED
    BY <1>1, <1>2, <1>3, <2>1, <2>2 DEF MergedWell, SpansInOrder
<1>5. CASE MergeGap # 0 /\ MergeMax # 0
  <2>1. MergedFrom(m, segs, n)
    BY <1>1, <1>3, <1>5, MergedLoop
  <2>2. m \in Seq(Spans) /\ Len(m) \in Nat
    BY <2>1 DEF MergedFrom
  <2>3. segs # <<>> => n > 0
    BY <1>1, <1>2
  <2>4. n = 0 => m = <<>>
    BY <2>1 DEF MergedFrom
  <2>5. ASSUME NEW k \in 1 .. Len(m) PROVE m[k].end <= dur
    <3>1. n > 0
      <4>1. m # <<>>
        BY <2>2
      <4>2. QED
        BY <2>4, <4>1
    <3>2. m[Len(m)].end = segs[n].end /\ segs[n].end <= dur
      BY <1>1, <2>1, <3>1 DEF MergedFrom
    <3>3. PICK c \in Nat : c = Len(m)
      BY <2>2
    <3>4. \A l \in 1 .. c : m[l].start \in Nat /\ m[l].end \in Nat /\ m[l].start <= m[l].end
      BY <2>1, <2>2, <3>3, SpanTyped DEF MergedFrom
    <3>5. \A l \in 1 .. c - 1 : m[l].end <= m[l+1].start
      BY <2>1, <3>3 DEF MergedFrom
    <3> DEFINE Good == {d \in 0 .. c - 1 : m[c - d].end <= dur}
    <3>6. c - 1 \in Nat
      BY <2>2, <3>3
    <3>7. 0 \in Good
      BY <3>2, <3>3, <3>6
    <3>8. ASSUME NEW d \in 1 .. c - 1, d - 1 \in Good PROVE d \in Good
      <4>1. c - d \in 1 .. c - 1 /\ c - d + 1 = c - (d - 1) /\ c - d + 1 \in 1 .. c /\ c - d \in 1 .. c
        OBVIOUS
      <4>2. m[c - d].end <= m[c - d + 1].start
        BY <3>5, <4>1
      <4>3. m[c - d + 1].start <= m[c - d + 1].end /\ m[c - d + 1].end <= dur
        BY <3>4, <3>8, <4>1
      <4>4. m[c - d].end \in Nat /\ m[c - d + 1].start \in Nat /\ m[c - d + 1].end \in Nat
        BY <3>4, <4>1
      <4>5. m[c - d].end <= dur
        BY <4>2, <4>3, <4>4
      <4>6. QED
        BY <4>5
    <3> HIDE DEF Good
    <3>9. \A d \in 0 .. c - 1 : d \in Good
      BY <3>6, <3>7, <3>8, UpTo
    <3>10. c - k \in 0 .. c - 1 /\ c - (c - k) = k
      BY <3>3, <3>6
    <3>11. QED
      BY <3>9, <3>10 DEF Good
  <2>6. QED
    BY <1>1, <1>3, <2>1, <2>2, <2>3, <2>5 DEF MergedFrom, MergedWell
<1>6. QED
  BY <1>4, <1>5

\* A waveform as the detector leaves it.
LEMMA WaveIs ==
  ASSUME NEW w \in Waveforms, InOrder(w)
  PROVE  /\ w.dur \in Nat /\ w.segs \in Seq(Spans) /\ Len(w.segs) \in Nat
         /\ MergedWell(MergedSegments(w.segs), w.segs, w.dur)
<1>1. w.dur \in Nat /\ w.segs \in Seq(Spans)
  <2> DEFINE S == Spans
  <2>1. w \in [dur : Nat, segs : Seq(S)]
    BY DEF Waveforms
  <2> HIDE DEF S
  <2>2. w.dur \in Nat /\ w.segs \in Seq(S)
    BY <2>1
  <2>3. QED
    BY <2>2 DEF S
<1>2. SpansInOrder(w.segs)
  BY <1>1 DEF SpansInOrder, InOrder
<1>3. \A k \in 1 .. Len(w.segs) : w.segs[k].end <= w.dur
  BY DEF InOrder
<1>4. PICK s, d : s = w.segs /\ d = w.dur
  OBVIOUS
<1>5. MergedWell(MergedSegments(s), s, d)
  BY <1>1, <1>2, <1>3, <1>4, MergedIs
<1>6. QED
  BY <1>1, <1>4, <1>5

\* The stretches that are recognised.
LEMMA RangesAre ==
  ASSUME NEW w \in Waveforms, InOrder(w), NEW m, m = MergedSegments(w.segs),
         NEW ranges, ranges = Ranges(w)
  PROVE  /\ ranges \in Seq(Spans) /\ Len(ranges) = Len(m) /\ Len(m) \in Nat
         /\ \A k \in 1 .. Len(m) : /\ ranges[k] = PaddedRange(w, m[k])
                                   /\ ranges[k].start = Later(m[k].start - Pad, 0)
                                   /\ ranges[k].end = Earlier(m[k].end + Pad, w.dur)
                                   /\ m[k].start \in Nat /\ m[k].end \in Nat
         /\ w.segs # <<>> => ranges # <<>>
<1>1. m \in Seq(Spans) /\ (w.segs # <<>> => m # <<>>) /\ w.dur \in Nat /\ Pad \in Nat
  BY WaveIs, AsyncAssumption DEF MergedWell
<1>2. PICK n \in Nat : n = Len(m)
  BY <1>1
<1>3. ranges = [k \in 1 .. n |-> PaddedRange(w, m[k])]
  BY <1>2 DEF Ranges
<1>4. ASSUME NEW k \in 1 .. n
      PROVE  /\ m[k].start \in Nat /\ m[k].end \in Nat
             /\ PaddedRange(w, m[k]).start = Later(m[k].start - Pad, 0)
             /\ PaddedRange(w, m[k]).end = Earlier(m[k].end + Pad, w.dur)
             /\ PaddedRange(w, m[k]) \in Spans
  <2>1. m[k].start \in Nat /\ m[k].end \in Nat
    BY <1>1, <1>2, SpanTyped
  <2>2. Later(m[k].start - Pad, 0) \in Nat /\ Earlier(m[k].end + Pad, w.dur) \in Nat
    BY <1>1, <2>1 DEF Later, Earlier
  <2>3. QED
    BY <2>1, <2>2 DEF PaddedRange, Spans
<1>5. ranges \in Seq(Spans) /\ Len(ranges) = n
  <2> DEFINE S == Spans
  <2>1. \A k \in 1 .. n : PaddedRange(w, m[k]) \in S
    BY <1>4
  <2> HIDE DEF S
  <2>2. ranges \in [1 .. n -> S]
    BY <1>3, <2>1
  <2>3. ranges \in Seq(S) /\ Len(ranges) = n
    BY <1>3, <2>2
  <2>4. QED
    BY <2>3 DEF S
<1>6. w.segs # <<>> => ranges # <<>>
  BY <1>1, <1>2, <1>5
<1>7. QED
  BY <1>2, <1>3, <1>4, <1>5, <1>6

\* What the ranges of a waveform cover.
Covers(w) ==
  \E ranges \in {Ranges(w)} :
    /\ \A s \in ToSet(w.segs) : \E r \in ToSet(ranges) : r.start <= s.start /\ s.end <= r.end
    /\ \A r \in ToSet(ranges) : 0 <= r.start /\ r.end <= w.dur
    /\ \A k \in 1 .. Len(ranges) - 1 :
         /\ ranges[k].start <= ranges[k+1].start /\ ranges[k].end <= ranges[k+1].end
         /\ ranges[k+1].start >= ranges[k].end - 2 * Pad
    /\ \A r \in ToSet(ranges) : \/ r.end - r.start <= MergeMax + 2 * Pad
                                \/ \E s \in ToSet(w.segs) : PaddedRange(w, s) = r

LEMMA RangesCover ==
  ASSUME NEW w \in Waveforms, InOrder(w)
  PROVE  Covers(w)
<1>1. PICK m, ranges : m = MergedSegments(w.segs) /\ ranges = Ranges(w)
  OBVIOUS
<1>2. PICK d, segs : d = w.dur /\ segs = w.segs
  OBVIOUS
<1>3. d \in Nat /\ segs \in Seq(Spans) /\ Pad \in Nat /\ MergeMax \in Nat
  BY <1>2, WaveIs, AsyncAssumption
<1>4. MergedWell(m, segs, d)
  BY <1>1, <1>2, WaveIs
<1>5. PICK n \in Nat : n = Len(m)
  BY <1>4 DEF MergedWell
<1>6. ranges \in Seq(Spans) /\ Len(ranges) = n
  BY <1>1, <1>5, RangesAre, Zenon
<1>7. ASSUME NEW k \in 1 .. n
      PROVE  /\ ranges[k] = PaddedRange(w, m[k])
             /\ ranges[k].start = (IF m[k].start - Pad < 0 THEN 0 ELSE m[k].start - Pad)
             /\ ranges[k].end = (IF m[k].end + Pad < d THEN m[k].end + Pad ELSE d)
             /\ m[k].start \in Nat /\ m[k].end \in Nat
  <2>1. \A j \in 1 .. n : /\ ranges[j] = PaddedRange(w, m[j])
                           /\ ranges[j].start = Later(m[j].start - Pad, 0)
                           /\ ranges[j].end = Earlier(m[j].end + Pad, w.dur)
                           /\ m[j].start \in Nat /\ m[j].end \in Nat
    <3>1. \A j \in 1 .. Len(m) : /\ ranges[j] = PaddedRange(w, m[j])
                                  /\ ranges[j].start = Later(m[j].start - Pad, 0)
                                  /\ ranges[j].end = Earlier(m[j].end + Pad, w.dur)
                                  /\ m[j].start \in Nat /\ m[j].end \in Nat
      <4>1. PICK ww : ww = w
        OBVIOUS
      <4>2. ww \in Waveforms /\ InOrder(ww) /\ m = MergedSegments(ww.segs) /\ ranges = Ranges(ww)
        BY <1>1, <4>1
      <4>3. QED
        BY <4>1, <4>2, RangesAre, SMT
    <3>2. QED
      BY <1>5, <3>1, Zenon
  <2>2. PICK a, b : a = m[k].start /\ b = m[k].end
    OBVIOUS
  <2>3. a \in Nat /\ b \in Nat
    BY <2>1, <2>2
  <2>4. /\ Later(a - Pad, 0) = (IF a - Pad < 0 THEN 0 ELSE a - Pad)
        /\ Earlier(b + Pad, d) = (IF b + Pad < d THEN b + Pad ELSE d)
    BY DEF Earlier, Later
  <2>5. /\ ranges[k].start = Later(m[k].start - Pad, 0)
        /\ ranges[k].end = Earlier(m[k].end + Pad, w.dur)
    BY <2>1, Zenon
  <2>6. /\ ranges[k].start = (IF a - Pad < 0 THEN 0 ELSE a - Pad)
        /\ ranges[k].end = (IF b + Pad < d THEN b + Pad ELSE d)
    BY <1>2, <2>2, <2>4, <2>5, Zenon
  <2>7. QED
    BY <2>1, <2>2, <2>6, Zenon
<1>8. ToSet(ranges) = {ranges[k] : k \in 1 .. n}
  BY <1>6 DEF ToSet
<1>9. ToSet(segs) = {segs[i] : i \in 1 .. Len(segs)}
  BY <1>3 DEF ToSet
<1>10. PICK l \in Nat : l = Len(segs)
  BY <1>3
<1>11. ASSUME NEW i \in 1 .. l
       PROVE  segs[i].start \in Nat /\ segs[i].end \in Nat
  BY <1>3, <1>10, SpanTyped
<1>12. ASSUME NEW k \in 1 .. n
       PROVE  m[k].start <= m[k].end /\ m[k].end <= d
  BY <1>4, <1>5 DEF MergedWell
<1>13. \A s \in ToSet(segs) : \E r \in ToSet(ranges) : r.start <= s.start /\ s.end <= r.end
  <2>1. SUFFICES ASSUME NEW i \in 1 .. l
                 PROVE  \E r \in ToSet(ranges) : r.start <= segs[i].start /\ segs[i].end <= r.end
    BY <1>9, <1>10
  <2>2. PICK k \in 1 .. n : m[k].start <= segs[i].start /\ segs[i].end <= m[k].end
    <3>1. \A j \in 1 .. l : \E k \in 1 .. n : m[k].start <= segs[j].start /\ segs[j].end <= m[k].end
      BY <1>4, <1>5, <1>10, Zenon DEF MergedWell
    <3>2. QED
      BY <3>1
  <2>3. ranges[k].start <= segs[i].start /\ segs[i].end <= ranges[k].end
    <3>1. PICK x, y, a, b : x = segs[i].start /\ y = segs[i].end /\ a = m[k].start /\ b = m[k].end
      OBVIOUS
    <3>2. x \in Nat /\ y \in Nat /\ a \in Nat /\ b \in Nat /\ a <= x /\ y <= b /\ b <= d
      BY <1>7, <1>11, <1>12, <2>2, <3>1
    <3>3. /\ ranges[k].start = (IF a - Pad < 0 THEN 0 ELSE a - Pad)
          /\ ranges[k].end = (IF b + Pad < d THEN b + Pad ELSE d)
      BY <1>7, <2>2, <3>1, Zenon
    <3>4. (IF a - Pad < 0 THEN 0 ELSE a - Pad) <= x /\ y <= (IF b + Pad < d THEN b + Pad ELSE d)
      BY <1>3, <3>2
    <3>5. QED
      BY <3>1, <3>3, <3>4, Zenon
  <2>4. QED
    BY <1>8, <2>3
<1>14. \A r \in ToSet(ranges) : 0 <= r.start /\ r.end <= d
  <2>1. ASSUME NEW k \in 1 .. n
        PROVE  0 <= ranges[k].start /\ ranges[k].end <= d
    BY <1>3, <1>7, SMTT(30)
  <2>2. QED
    BY <1>8, <2>1
<1>15. ASSUME NEW k \in 1 .. n - 1
       PROVE  /\ ranges[k].start <= ranges[k+1].start /\ ranges[k].end <= ranges[k+1].end
              /\ ranges[k+1].start >= ranges[k].end - 2 * Pad
  <2>1. k \in 1 .. n /\ k + 1 \in 1 .. n
    BY <1>5
  <2>2. m[k].end <= m[k+1].start
    BY <1>4, <1>5 DEF MergedWell
  <2>3. m[k].start <= m[k].end /\ m[k+1].start <= m[k+1].end
    BY <1>12, <2>1
  <2>4. PICK a, b, a1, b1 : a = m[k].start /\ b = m[k].end /\ a1 = m[k+1].start /\ b1 = m[k+1].end
    OBVIOUS
  <2>5. a \in Nat /\ b \in Nat /\ a1 \in Nat /\ b1 \in Nat
    BY <1>7, <2>1, <2>4
  <2>6. /\ ranges[k].start = (IF a - Pad < 0 THEN 0 ELSE a - Pad)
        /\ ranges[k].end = (IF b + Pad < d THEN b + Pad ELSE d)
    BY <1>7, <2>1, <2>4
  <2>7. /\ ranges[k+1].start = (IF a1 - Pad < 0 THEN 0 ELSE a1 - Pad)
        /\ ranges[k+1].end = (IF b1 + Pad < d THEN b1 + Pad ELSE d)
    BY <1>7, <2>1, <2>4
  <2>8. PICK s, e, s1, e1 : /\ s = ranges[k].start /\ e = ranges[k].end
                            /\ s1 = ranges[k+1].start /\ e1 = ranges[k+1].end
    OBVIOUS
  <2>9. PICK p : p = Pad
    OBVIOUS
  <2>10. s <= s1 /\ e <= e1 /\ s1 >= e - 2 * p
    <3>1. a <= b /\ b <= a1 /\ a1 <= b1 /\ p \in Nat /\ d \in Nat
      BY <1>3, <2>2, <2>3, <2>4, <2>9
    <3>2. s = (IF a - p < 0 THEN 0 ELSE a - p) /\ e = (IF b + p < d THEN b + p ELSE d)
      BY <2>6, <2>8, <2>9
    <3>3. s1 = (IF a1 - p < 0 THEN 0 ELSE a1 - p) /\ e1 = (IF b1 + p < d THEN b1 + p ELSE d)
      BY <2>7, <2>8, <2>9
    <3>4. QED
      BY <2>5, <3>1, <3>2, <3>3
  <2>11. QED
    BY <2>8, <2>9, <2>10
<1>16. ASSUME NEW k \in 1 .. n
       PROVE  \/ ranges[k].end - ranges[k].start <= MergeMax + 2 * Pad
              \/ \E s \in ToSet(segs) : PaddedRange(w, s) = ranges[k]
  <2>1. CASE m[k].end - m[k].start <= MergeMax
    <3>1. PICK a, b : a = m[k].start /\ b = m[k].end
      OBVIOUS
    <3>2. PICK s, e : s = ranges[k].start /\ e = ranges[k].end
      OBVIOUS
    <3>3. PICK p, x : p = Pad /\ x = MergeMax
      OBVIOUS
    <3>4. p \in Nat /\ x \in Nat /\ a \in Nat /\ b \in Nat /\ b - a <= x /\ a <= b
      BY <1>3, <1>7, <1>12, <2>1, <3>1, <3>3
    <3>5. s = (IF a - p < 0 THEN 0 ELSE a - p) /\ e = (IF b + p < d THEN b + p ELSE d)
      BY <1>7, <3>1, <3>2, <3>3, Zenon
    <3>6. e - s <= x + 2 * p
      BY <1>3, <3>4, <3>5
    <3>7. QED
      BY <3>2, <3>3, <3>6
  <2>2. CASE \E i \in 1 .. l : segs[i] = m[k]
    BY <1>7, <1>9, <1>10, <2>2
  <2>3. QED
    BY <1>4, <1>5, <1>10, <2>1, <2>2 DEF MergedWell
<1>17. \A r \in ToSet(ranges) : \/ r.end - r.start <= MergeMax + 2 * Pad
                                \/ \E s \in ToSet(segs) : PaddedRange(w, s) = r
  BY <1>8, <1>16
<1>18. \A k \in 1 .. Len(ranges) - 1 :
         /\ ranges[k].start <= ranges[k+1].start /\ ranges[k].end <= ranges[k+1].end
         /\ ranges[k+1].start >= ranges[k].end - 2 * Pad
  BY <1>6, <1>15
<1>19. QED
  BY <1>1, <1>2, <1>13, <1>14, <1>17, <1>18, Zenon DEF Covers

\* The waveforms of a call stay what they are.
WavesKept == detector \in BOOLEAN /\ waves \in WaveCalls

LEMMA WavesTyped ==
  ASSUME WavesKept
  PROVE  /\ waves \in Seq(Waveforms) /\ Len(waves) \in Nat
         /\ \A i \in Jobs : waves[i] \in Waveforms /\ InOrder(waves[i])
<1> DEFINE W == Waveforms
<1>1. waves \in Seq(W) /\ \A i \in 1 .. Len(waves) : InOrder(waves[i])
  BY AsyncAssumption DEF WavesKept, Waveforms, Spans
<1> HIDE DEF W
<1>2. \A i \in Jobs : waves[i] \in W
  BY <1>1 DEF Jobs
<1>3. QED
  BY <1>1, <1>2 DEF W, Jobs

LEMMA WavesStay ==
  ASSUME [AsyncNext]_asyncVars
  PROVE  waves' = waves /\ detector' = detector
BY Zenon DEF AsyncNext, VadTask, AsrTask, CallerTask, Detect, DetectFails, Send, VadDone, ReceiveMessage,
   Collect, Collected, RunJobs, RunJobsFails, RunJobsPanics, RunSegments, RunSegmentsFails,
   AsrDone, Single, CollectResults, Deliver, Return, FailAndReturn, asyncVars

\* RangesCoverSpeech: what is recognised of a waveform covers its speech, stays inside it and
\* in order, and is no longer than merge_vad_segments_for_asr allows unless the detector found
\* it so, whatever the gap and the length at which segments are merged and the padding are.
THEOREM RangesAlwaysCover == AsyncSpec => []RangesCoverSpeech
<1>1. AsyncInit => WavesKept
  BY DEF AsyncInit, CallInit, WavesKept
<1>2. WavesKept /\ [AsyncNext]_asyncVars => WavesKept'
  BY WavesStay DEF WavesKept
<1>3. WavesKept => RangesCoverSpeech
  <2>1. ASSUME WavesKept
        PROVE  \A i \in Jobs : Covers(waves[i])
    BY <2>1, WavesTyped, RangesCover
  <2>2. QED
    BY <2>1, Zenon DEF RangesCoverSpeech, Covers
<1>4. QED
  BY <1>1, <1>2, <1>3, PTL DEF AsyncSpec

--------------------------------------------------------------------------------
\* The messages of a call, one after the other.

\* What a timeline is made of.
Notes == {<<"speech", s>> : s \in Spans} \cup {TextOf(s) : s \in Spans}

\* The messages for a waveform: there is one, a job, or one for every stretch.
Told(i) ==
  /\ Len(MessagesOf(i)) \in Nat /\ Len(MessagesOf(i)) >= 1
  /\ SpeechAnnotations(waves[i]) \in Seq(Notes)
  /\ Preparation(waves[i]) # "Speech" =>
       /\ Len(MessagesOf(i)) = 1
       /\ MessagesOf(i)[1].kind = "job" /\ MessagesOf(i)[1].index = i
  /\ Preparation(waves[i]) = "Speech" =>
       /\ Len(MessagesOf(i)) = Len(Ranges(waves[i]))
       /\ SpeechAnnotations(waves[i]) # <<>>
       /\ \A k \in 1 .. Len(Ranges(waves[i])) :
            /\ TextOf(Ranges(waves[i])[k]) \in Notes
            /\ MessagesOf(i)[k].kind = "segment" /\ MessagesOf(i)[k].index = i
            /\ MessagesOf(i)[k].count = Len(Ranges(waves[i]))
            /\ MessagesOf(i)[k].range = Ranges(waves[i])[k]
            /\ MessagesOf(i)[k].speech = IF k = 1 THEN SpeechAnnotations(waves[i]) ELSE <<>>

LEMMA MessagesTold ==
  ASSUME WavesKept, NEW i \in Jobs
  PROVE  Told(i) /\ MessagesOf(i) \in Seq({MessagesOf(i)[k] : k \in 1 .. Len(MessagesOf(i))})
<1>1. PICK w : w = waves[i]
  OBVIOUS
<1>2. w \in Waveforms /\ InOrder(w)
  BY <1>1, WavesTyped
<1>3. w.segs \in Seq(Spans) /\ Len(w.segs) \in Nat
  BY <1>2, WaveIs
<1>4. PICK ranges, m : ranges = Ranges(w) /\ m = MergedSegments(w.segs)
  OBVIOUS
<1>5. ranges \in Seq(Spans) /\ (w.segs # <<>> => ranges # <<>>)
  BY <1>2, <1>4, RangesAre
<1>6. PICK n \in Nat : n = Len(ranges)
  BY <1>5
<1>7. SpeechAnnotations(w) \in Seq(Notes) /\ Len(SpeechAnnotations(w)) = Len(w.segs)
  <2>1. PICK l \in Nat : l = Len(w.segs)
    BY <1>3
  <2>2. \A k \in 1 .. l : <<"speech", w.segs[k]>> \in Notes
    <3>1. \A k \in 1 .. l : w.segs[k] \in Spans
      BY <1>3, <2>1, SpanTyped
    <3>2. QED
      BY <3>1 DEF Notes
  <2>3. SpeechAnnotations(w) = [k \in 1 .. l |-> <<"speech", w.segs[k]>>]
    BY <2>1 DEF SpeechAnnotations
  <2> DEFINE f == [k \in 1 .. l |-> <<"speech", w.segs[k]>>]
  <2>4. \A k \in 1 .. l : f[k] \in Notes
    BY <2>2
  <2>5. f = [k \in 1 .. l |-> f[k]]
    OBVIOUS
  <2> HIDE DEF f, Notes
  <2>6. f \in Seq(Notes) /\ Len(f) = l
    BY <2>4, <2>5
  <2>7. QED
    BY <2>1, <2>3, <2>6 DEF f
<1>8. \A k \in 1 .. n : TextOf(ranges[k]) \in Notes
  <2>1. \A k \in 1 .. n : ranges[k] \in Spans
    BY <1>5, <1>6, SpanTyped
  <2>2. QED
    BY <2>1 DEF Notes
<1>9. CASE Preparation(w) # "Speech"
  <2>1. MessagesOf(i) = <<[kind |-> "job", index |-> i]>>
    BY <1>1, <1>9 DEF MessagesOf
  <2>2. QED
    BY <1>1, <1>7, <1>9, <2>1 DEF Told
<1>10. CASE Preparation(w) = "Speech"
  <2> DEFINE e(k) == [kind |-> "segment", index |-> i, count |-> n, range |-> ranges[k],
                      speech |-> IF k = 1 THEN SpeechAnnotations(waves[i]) ELSE <<>>]
             f == [k \in 1 .. n |-> e(k)]
  <2>1. MessagesOf(i) = f
    BY <1>1, <1>4, <1>6, <1>10 DEF MessagesOf
  <2>2. f \in Seq({e(k) : k \in 1 .. n}) /\ Len(f) = n /\ \A k \in 1 .. n : f[k] = e(k)
    <3> HIDE DEF e
    <3>1. QED
      BY <1>6
  <2>3. w.segs # <<>>
    BY <1>10 DEF Preparation
  <2>4. n >= 1 /\ Len(w.segs) # 0
    BY <1>3, <1>5, <1>6, <2>3
  <2>5. SpeechAnnotations(w) # <<>>
    BY <1>7, <2>4
  <2>6. \A k \in 1 .. n :
          /\ f[k].kind = "segment" /\ f[k].index = i /\ f[k].count = n /\ f[k].range = ranges[k]
          /\ f[k].speech = IF k = 1 THEN SpeechAnnotations(waves[i]) ELSE <<>>
    BY <2>2
  <2>7. MessagesOf(i) \in Seq({MessagesOf(i)[k] : k \in 1 .. Len(MessagesOf(i))})
    <3> HIDE DEF f
    <3>1. QED
      BY <2>1, <2>2
  <2> HIDE DEF f, e
  <2>8. Told(i)
    BY <1>1, <1>4, <1>6, <1>7, <1>8, <1>10, <2>1, <2>2, <2>4, <2>5, <2>6 DEF Told
  <2>9. QED
    BY <2>7, <2>8
<1>11. QED
  BY <1>9, <1>10

Messages == UNION {{MessagesOf(i)[k] : k \in 1 .. Len(MessagesOf(i))} : i \in Jobs}

Order == [i \in Jobs |-> MessagesOf(i)]

\* How many messages there are for the first waveforms.
Begin == CHOOSE st : StartsAt(st, Order)

LEMMA OrderIs ==
  ASSUME WavesKept
  PROVE  /\ Order \in Seq(Seq(Messages)) /\ Len(Order) = Len(waves)
         /\ \A i \in Jobs : Order[i] = MessagesOf(i) /\ MessagesOf(i) \in Seq(Messages)
         /\ StartsAt(Begin, Order)
<1>1. PICK n \in Nat : n = Len(waves)
  BY WavesTyped
<1>2. ASSUME NEW i \in Jobs PROVE MessagesOf(i) \in Seq(Messages)
  <2> DEFINE S == {MessagesOf(i)[k] : k \in 1 .. Len(MessagesOf(i))}
  <2>1. MessagesOf(i) \in Seq(S)
    BY MessagesTold
  <2>2. S \subseteq Messages
    BY DEF Messages
  <2> HIDE DEF S
  <2>3. QED
    BY <2>1, <2>2
<1> DEFINE M == Seq(Messages)
<1>3. \A i \in 1 .. n : MessagesOf(i) \in M
  BY <1>1, <1>2 DEF Jobs
<1> HIDE DEF M
<1>4. Order = [i \in 1 .. n |-> MessagesOf(i)]
  BY <1>1 DEF Order, Jobs
<1>5. Order \in Seq(M) /\ Len(Order) = n /\ \A i \in 1 .. n : Order[i] = MessagesOf(i)
  BY <1>3, <1>4
<1>6. Order \in Seq(Seq(Messages))
  BY <1>5 DEF M
<1>7. \E st : StartsAt(st, Order)
  BY <1>6, StartsExist
<1>8. StartsAt(Begin, Order)
  BY <1>7 DEF Begin
<1>9. QED
  BY <1>1, <1>2, <1>5, <1>6, <1>8 DEF Jobs

LEMMA BeginIs ==
  ASSUME WavesKept
  PROVE  /\ Len(waves) \in Nat /\ \A i \in 0 .. Len(waves) : Begin[i] \in Nat
         /\ Begin[0] = 0
         /\ \A i \in Jobs : /\ i \in 1 .. Len(waves)
                            /\ Begin[i] = Begin[i-1] + Len(MessagesOf(i)) /\ Begin[i-1] < Begin[i]
                            /\ Begin[i-1] \in Nat /\ Begin[i] \in Nat
<1>1. PICK n \in Nat : n = Len(waves)
  BY WavesTyped
<1>2. /\ Begin \in [0 .. n -> Nat] /\ Begin[0] = 0
      /\ \A i \in 1 .. n : Begin[i] = Begin[i-1] + Len(Order[i])
  BY <1>1, OrderIs DEF StartsAt
<1>3. Jobs = 1 .. n
  BY <1>1 DEF Jobs
<1>4. ASSUME NEW i \in 1 .. n
      PROVE  /\ Begin[i] = Begin[i-1] + Len(MessagesOf(i)) /\ Begin[i-1] < Begin[i]
             /\ Begin[i-1] \in Nat /\ Begin[i] \in Nat
  <2>1. Len(MessagesOf(i)) \in Nat /\ Len(MessagesOf(i)) >= 1
    BY <1>3, MessagesTold DEF Told
  <2>2. Order[i] = MessagesOf(i)
    BY <1>3, OrderIs
  <2>3. i \in 0 .. n /\ i - 1 \in 0 .. n
    BY <1>1
  <2>4. Begin[i] \in Nat /\ Begin[i-1] \in Nat
    BY <1>2, <2>3
  <2>5. QED
    BY <1>2, <2>1, <2>2, <2>4
<1>5. \A i \in 0 .. n : Begin[i] \in Nat
  BY <1>2
<1>6. QED
  BY <1>1, <1>2, <1>3, <1>4, <1>5

LEMMA BeginGrows ==
  ASSUME WavesKept, NEW a \in 0 .. Len(waves), NEW b \in 0 .. Len(waves), a < b
  PROVE  Begin[a] < Begin[b] /\ (b # a + 1 => Begin[a+1] < Begin[b])
<1>1. PICK n \in Nat : n = Len(waves)
  BY WavesTyped
<1>2. ASSUME NEW c \in 0 .. n, NEW d \in 0 .. n, c < d PROVE Begin[c] < Begin[d]
  <2>1. c + 1 \in 1 .. n /\ c + 1 \in 0 .. n /\ c + 1 <= d /\ (c + 1) - 1 = c
    BY <1>1, <1>2
  <2>2. Begin[c] < Begin[c+1] /\ Begin[c] \in Nat /\ Begin[c+1] \in Nat
    BY <1>1, <2>1, BeginIs DEF Jobs
  <2>3. Begin[c+1] <= Begin[d]
    BY <1>1, <2>1, OrderIs, StartsGrow
  <2>4. Begin[d] \in Nat
    BY <1>1, BeginIs
  <2>5. QED
    BY <2>2, <2>3, <2>4
<1>3. QED
  BY <1>1, <1>2

LEMMA BeginApart ==
  ASSUME WavesKept, NEW x \in Jobs, NEW y \in Jobs, x < y
  PROVE  Begin[x] <= Begin[y-1]
<1>1. x \in 0 .. Len(waves) /\ y - 1 \in 0 .. Len(waves) /\ x <= y - 1
  BY BeginIs
<1>2. Begin[x] \in Nat /\ Begin[y-1] \in Nat
  BY BeginIs
<1>3. CASE x = y - 1
  BY <1>2, <1>3
<1>4. CASE x # y - 1
  <2>1. x < y - 1
    BY <1>1, <1>4, BeginIs
  <2>2. Begin[x] < Begin[y-1]
    BY <1>1, <2>1, BeginGrows
  <2>3. QED
    BY <1>2, <2>2
<1>5. QED
  BY <1>3, <1>4

\* Message number q.
At(q, m) == \E i \in Jobs : /\ Begin[i-1] < q /\ q <= Begin[i]
                            /\ m = MessagesOf(i)[q - Begin[i-1]]

\* The state of a waveform of which k segments have been recognised.
Partial(i, k) ==
  [speech |-> SpeechAnnotations(waves[i]), count |-> Len(Ranges(waves[i])), done |-> k,
   timeline |-> SpeechAnnotations(waves[i]) \o [j \in 1 .. k |-> TextOf(Ranges(waves[i])[j])]]

\* The states when the messages up to lo are recognised and those up to hi prepared.
Touched(lo, hi) == {i \in Jobs : Begin[i-1] < hi /\ lo < Begin[i]}
SegState(lo, hi) == [i \in Touched(lo, hi) |-> Partial(i, Later(lo - Begin[i-1], 0))]

LEMMA AtIs ==
  ASSUME WavesKept, NEW q \in Nat, NEW m, At(q, m)
  PROVE  \E i \in Jobs :
           /\ Begin[i-1] < q /\ q <= Begin[i] /\ Begin[i-1] \in Nat /\ Begin[i] \in Nat
           /\ q - Begin[i-1] \in 1 .. Len(MessagesOf(i))
           /\ m = MessagesOf(i)[q - Begin[i-1]] /\ m.index = i
           /\ Begin[i] = Begin[i-1] + Len(MessagesOf(i))
           /\ m.kind = "segment" <=> Preparation(waves[i]) = "Speech"
           /\ m.kind = "job" <=> Preparation(waves[i]) # "Speech"
<1>1. PICK i \in Jobs : Begin[i-1] < q /\ q <= Begin[i] /\ m = MessagesOf(i)[q - Begin[i-1]]
  BY DEF At
<1>2. /\ Begin[i-1] \in Nat /\ Begin[i] \in Nat /\ Begin[i] = Begin[i-1] + Len(MessagesOf(i))
  BY BeginIs
<1>3. Told(i)
  BY MessagesTold
<1>4. PICK l \in Nat : l = Len(MessagesOf(i))
  BY <1>3 DEF Told
<1>5. PICK k : k = q - Begin[i-1]
  OBVIOUS
<1>6. k \in 1 .. l
  BY <1>1, <1>2, <1>4, <1>5
<1>7. CASE Preparation(waves[i]) # "Speech"
  <2>1. l = 1 /\ MessagesOf(i)[1].kind = "job" /\ MessagesOf(i)[1].index = i
    BY <1>3, <1>4, <1>7 DEF Told
  <2>2. k = 1
    BY <1>6, <2>1
  <2>3. m.kind = "job" /\ m.index = i
    BY <1>1, <1>5, <2>1, <2>2
  <2>4. QED
    BY <1>1, <1>2, <1>4, <1>5, <1>6, <1>7, <2>3
<1>8. CASE Preparation(waves[i]) = "Speech"
  <2>1. k \in 1 .. Len(Ranges(waves[i]))
    BY <1>3, <1>4, <1>6, <1>8 DEF Told
  <2>2. m.kind = "segment" /\ m.index = i
    BY <1>1, <1>3, <1>5, <1>8, <2>1 DEF Told
  <2>3. QED
    BY <1>1, <1>2, <1>4, <1>5, <1>6, <1>8, <2>2
<1>9. QED
  BY <1>7, <1>8

LEMMA PartialIs ==
  ASSUME WavesKept, NEW i \in Jobs, Preparation(waves[i]) = "Speech"
  PROVE  /\ Partial(i, 0).timeline = SpeechAnnotations(waves[i])
         /\ \A k \in 0 .. Len(Ranges(waves[i])) :
              Partial(i, k).timeline \in Seq(Notes) /\ Partial(i, k).timeline # <<>>
         /\ \A k \in 1 .. Len(Ranges(waves[i])) :
              Append(Partial(i, k - 1).timeline, TextOf(Ranges(waves[i])[k])) = Partial(i, k).timeline
         /\ Partial(i, Len(Ranges(waves[i]))).timeline = TimelineOf(waves[i])
<1>1. PICK s, n, t : /\ s = SpeechAnnotations(waves[i]) /\ n = Len(Ranges(waves[i]))
                     /\ t = [j \in 1 .. n |-> TextOf(Ranges(waves[i])[j])]
  OBVIOUS
<1>2. s \in Seq(Notes) /\ s # <<>> /\ \A j \in 1 .. n : TextOf(Ranges(waves[i])[j]) \in Notes
  BY <1>1, MessagesTold DEF Told
<1>3. n \in Nat
  BY <1>1, MessagesTold DEF Told
<1>4. \A j \in 1 .. n : t[j] = TextOf(Ranges(waves[i])[j]) /\ t[j] \in Notes
  BY <1>1, <1>2
<1> DEFINE N == Notes
           first(k) == [j \in 1 .. k |-> t[j]]
           line(k) == s \o first(k)
<1> HIDE DEF N
<1>5. s \in Seq(N) /\ \A j \in 1 .. n : t[j] \in N
  BY <1>2, <1>4 DEF N
<1>6. \A k \in 0 .. n : first(k) \in Seq(N) /\ Len(first(k)) = k /\ \A j \in 1 .. k : first(k)[j] = t[j]
  BY <1>3, <1>5
<1>7. ASSUME NEW k \in 0 .. n PROVE Partial(i, k).timeline = line(k)
  <2>1. \A j \in 1 .. k : j \in 1 .. n
    BY <1>3
  <2>2. [j \in 1 .. k |-> TextOf(Ranges(waves[i])[j])] = first(k)
    BY <1>4, <2>1
  <2>3. Partial(i, k).timeline = s \o [j \in 1 .. k |-> TextOf(Ranges(waves[i])[j])]
    BY <1>1 DEF Partial
  <2>4. QED
    BY <2>2, <2>3
<1>8. \A k \in 0 .. n : line(k) \in Seq(N) /\ Len(line(k)) = Len(s) + k
  <2> HIDE DEF first
  <2>1. SUFFICES ASSUME NEW k \in 0 .. n
                 PROVE  line(k) \in Seq(N) /\ Len(line(k)) = Len(s) + k
    OBVIOUS
  <2>2. PICK u \in Seq(N) : u = first(k) /\ Len(u) = k
    BY <1>6
  <2>3. s \o u \in Seq(N) /\ Len(s \o u) = Len(s) + Len(u)
    BY <1>5
  <2>4. QED
    BY <2>2, <2>3
<1>9. line(0) = s
  <2>1. first(0) = <<>>
    BY <1>3, <1>6
  <2> HIDE DEF first
  <2>2. QED
    BY <1>5, <2>1
<1>10. ASSUME NEW k \in 1 .. n PROVE Append(line(k - 1), t[k]) = line(k)
  <2>1. k - 1 \in 0 .. n /\ k \in 0 .. n
    BY <1>3
  <2>2. PICK a, b, x : a = first(k - 1) /\ b = first(k) /\ x = t[k]
    OBVIOUS
  <2>3. a \in Seq(N) /\ b \in Seq(N) /\ Len(a) = k - 1 /\ Len(b) = k /\ x \in N
    BY <1>5, <1>6, <2>1, <2>2
  <2>4. b[k] = x /\ \A j \in 1 .. k - 1 : b[j] = a[j]
    BY <1>6, <2>1, <2>2
  <2>5. b = Append(a, x)
    BY <2>3, <2>4
  <2>6. s \o Append(a, x) = Append(s \o a, x)
    BY <1>5, <2>3
  <2>7. QED
    BY <2>2, <2>5, <2>6
<1>11. s \o t = line(n)
  <2>1. first(n) = t
    BY <1>1
  <2>2. QED
    BY <2>1
<1>12. TimelineOf(waves[i]) = s \o t
  BY <1>1 DEF TimelineOf
<1> HIDE DEF line, first
<1>13. 0 \in 0 .. n /\ n \in 0 .. n /\ \A k \in 1 .. n : k \in 0 .. n /\ k - 1 \in 0 .. n
  BY <1>3
<1>14. \A k \in 0 .. n : Partial(i, k).timeline \in Seq(Notes) /\ Partial(i, k).timeline # <<>>
  <2>1. Len(s) \in Nat /\ Len(s) # 0
    BY <1>2
  <2>2. \A k \in 0 .. n : line(k) \in Seq(N) /\ Len(line(k)) # 0
    BY <1>8, <2>1
  <2>3. QED
    BY <1>7, <2>2 DEF N
<1>15. \A k \in 1 .. n :
         Append(Partial(i, k - 1).timeline, TextOf(Ranges(waves[i])[k])) = Partial(i, k).timeline
  BY <1>4, <1>7, <1>10, <1>13
<1>16. QED
  BY <1>1, <1>7, <1>9, <1>11, <1>12, <1>13, <1>14, <1>15

\* Preparing the next segment.
LEMMA OpenedIs ==
  ASSUME WavesKept, NEW lo \in Nat, NEW hi \in Nat, lo <= hi, NEW m, At(hi + 1, m),
         m.kind = "segment"
  PROVE  Opened(SegState(lo, hi), m) = SegState(lo, hi + 1)
<1>1. PICK i \in Jobs :
        /\ Begin[i-1] < hi + 1 /\ hi + 1 <= Begin[i] /\ Begin[i-1] \in Nat /\ Begin[i] \in Nat
        /\ hi + 1 - Begin[i-1] \in 1 .. Len(MessagesOf(i))
        /\ m = MessagesOf(i)[hi + 1 - Begin[i-1]] /\ m.index = i
        /\ Preparation(waves[i]) = "Speech"
  <2>1. hi + 1 \in Nat
    OBVIOUS
  <2>2. QED
    BY <2>1, AtIs
<1>2. PICK speech, n, b, k :
        /\ speech = SpeechAnnotations(waves[i]) /\ n = Len(Ranges(waves[i]))
        /\ b = Begin[i-1] /\ k = hi + 1 - b
  OBVIOUS
<1>3. /\ n \in Nat /\ k \in 1 .. n /\ speech # <<>> /\ m.count = n
      /\ m.speech = IF k = 1 THEN speech ELSE <<>>
  <2>1. Told(i)
    BY MessagesTold
  <2>2. n = Len(MessagesOf(i)) /\ n \in Nat /\ speech # <<>>
    BY <1>1, <1>2, <2>1 DEF Told
  <2>3. k \in 1 .. n /\ m = MessagesOf(i)[k]
    BY <1>1, <1>2, <2>2
  <2>4. m.count = n /\ m.speech = IF k = 1 THEN speech ELSE <<>>
    BY <1>1, <1>2, <2>1, <2>3 DEF Told
  <2>5. QED
    BY <2>2, <2>3, <2>4
<1>4. Touched(lo, hi + 1) = Touched(lo, hi) \cup {i}
  <2>1. ASSUME NEW x \in Jobs, Begin[x-1] < hi + 1, lo < Begin[x], x # i PROVE Begin[x-1] < hi
    <3>1. CASE x < i
      <4>2. Begin[x] <= Begin[i-1]
        BY <3>1, BeginApart
      <4>3. Begin[x-1] < Begin[x] /\ Begin[x-1] \in Nat /\ Begin[x] \in Nat
        BY BeginIs
      <4>4. QED
        BY <1>1, <4>2, <4>3
    <3>2. CASE i < x
      <4>2. Begin[i] <= Begin[x-1]
        BY <3>2, BeginApart
      <4>3. Begin[x-1] \in Nat
        BY BeginIs
      <4>4. QED
        BY <1>1, <2>1, <4>2, <4>3
    <3>3. QED
      BY <2>1, <3>1, <3>2, BeginIs
  <2>2. \A x \in Jobs : Begin[x-1] \in Nat /\ Begin[x] \in Nat
    BY BeginIs
  <2>3. i \in Touched(lo, hi + 1)
    BY <1>1 DEF Touched
  <2>4. \A x \in Jobs : Begin[x-1] < hi => Begin[x-1] < hi + 1
    BY <2>2
  <2>5. QED
    BY <2>1, <2>3, <2>4 DEF Touched
<1> DEFINE jobs == SegState(lo, hi)
           entry == IF m.index \in DOMAIN jobs THEN jobs[m.index]
                    ELSE [speech |-> m.speech, timeline |-> <<>>, count |-> m.count, done |-> 0]
           said == IF m.speech # <<>> THEN m.speech ELSE entry.speech
           new == [speech |-> said, count |-> m.count, done |-> entry.done,
                   timeline |-> IF entry.timeline = <<>> THEN said ELSE entry.timeline]
           p(x) == Partial(x, Later(lo - Begin[x-1], 0))
<1>5. DOMAIN jobs = Touched(lo, hi) /\ \A x \in Touched(lo, hi) : jobs[x] = p(x)
  BY DEF SegState
<1>6. Opened(jobs, m) = [x \in DOMAIN jobs \cup {i} |-> IF x # i THEN jobs[x] ELSE new]
  BY <1>1 DEF Opened
<1>7. PICK d : d = Later(lo - b, 0)
  OBVIOUS
<1>8. d \in 0 .. n /\ (k = 1 => d = 0)
  <2>1. lo < b + k /\ b \in Nat /\ k = hi + 1 - b
    BY <1>1, <1>2, <1>3
  <2>2. QED
    BY <1>3, <1>7, <2>1 DEF Later
<1>9. /\ Partial(i, d).timeline # <<>> /\ Partial(i, 0).timeline = speech
      /\ Partial(i, d).speech = speech /\ Partial(i, d).count = n /\ Partial(i, d).done = d
  <2>1. Partial(i, d).timeline # <<>> /\ Partial(i, 0).timeline = speech
    BY <1>1, <1>2, <1>8, PartialIs
  <2>2. QED
    BY <1>2, <2>1 DEF Partial
<1>10. p(i) = Partial(i, d)
  BY <1>2, <1>7
<1>11. Partial(i, d) = [speech |-> speech, count |-> n, done |-> d, timeline |-> Partial(i, d).timeline]
  BY <1>2 DEF Partial
<1>12. new = p(i)
  <2>1. CASE i \in Touched(lo, hi)
    <3>1. entry = Partial(i, d)
      BY <1>1, <1>5, <1>10, <2>1
    <3> HIDE DEF entry
    <3>2. said = speech
      BY <1>3, <1>9, <3>1
    <3>3. entry.timeline = Partial(i, d).timeline /\ entry.timeline # <<>> /\ entry.done = d
      BY <1>9, <3>1
    <3> HIDE DEF said
    <3>4. new = [speech |-> speech, count |-> n, done |-> d, timeline |-> Partial(i, d).timeline]
      BY <1>3, <3>2, <3>3
    <3>5. QED
      BY <1>10, <1>11, <3>4
  <2>2. CASE i \notin Touched(lo, hi)
    <3>1. ~ (b < hi) /\ k = 1
      <4>1. lo < Begin[i]
        BY <1>1
      <4>2. ~ (Begin[i-1] < hi)
        BY <2>2, <4>1 DEF Touched
      <4>3. QED
        BY <1>1, <1>2, <4>2
    <3>2. d = 0 /\ m.speech = speech
      BY <1>3, <1>8, <3>1
    <3>3. entry = [speech |-> m.speech, timeline |-> <<>>, count |-> m.count, done |-> 0]
      BY <1>1, <1>5, <2>2
    <3> HIDE DEF entry
    <3>4. entry.timeline = <<>> /\ entry.done = 0
      BY <3>3
    <3>5. said = speech
      BY <1>3, <3>2
    <3> HIDE DEF said
    <3>6. new = [speech |-> speech, count |-> n, done |-> d, timeline |-> Partial(i, d).timeline]
      BY <1>3, <1>9, <3>2, <3>4, <3>5
    <3>7. QED
      BY <1>10, <1>11, <3>6
  <2>3. QED
    BY <2>1, <2>2
<1> HIDE DEF jobs, entry, said, new
<1>13. Opened(jobs, m) = [x \in Touched(lo, hi + 1) |-> p(x)]
  <2>1. DOMAIN jobs \cup {i} = Touched(lo, hi + 1)
    BY <1>4, <1>5
  <2>2. \A x \in Touched(lo, hi + 1) : (IF x # i THEN jobs[x] ELSE new) = p(x)
    BY <1>4, <1>5, <1>12
  <2> HIDE DEF p
  <2>3. QED
    BY <1>6, <2>1, <2>2
<1>14. QED
  BY <1>13 DEF jobs, SegState

\* Sequences, whatever their elements are.
IsList(s) == s \in Seq({s[k] : k \in 1 .. Len(s)})

LEMMA ListAny ==
  ASSUME NEW S, NEW u \in Seq(S)
  PROVE  IsList(u)
<1> DEFINE T == {u[k] : k \in 1 .. Len(u)}
<1>1. u = [k \in 1 .. Len(u) |-> u[k]] /\ Len(u) \in Nat
  OBVIOUS
<1>2. \A k \in 1 .. Len(u) : u[k] \in T
  OBVIOUS
<1> HIDE DEF T
<1>3. u \in Seq(T)
  BY <1>1, <1>2
<1>4. QED
  BY <1>3 DEF IsList, T

LEMMA ListAppend ==
  ASSUME NEW s, IsList(s), NEW x
  PROVE  /\ IsList(Append(s, x)) /\ Len(s) \in Nat /\ Len(Append(s, x)) = Len(s) + 1
         /\ \A k \in 1 .. Len(s) : Append(s, x)[k] = s[k]
         /\ Append(s, x)[Len(s) + 1] = x
<1> DEFINE S == {s[k] : k \in 1 .. Len(s)} \cup {x}
<1>1. s \in Seq(S) /\ x \in S
  <2>1. PICK T : T = {s[k] : k \in 1 .. Len(s)}
    OBVIOUS
  <2>2. s \in Seq(T) /\ S = T \cup {x}
    BY <2>1 DEF IsList
  <2> HIDE DEF S
  <2>3. T \subseteq S /\ x \in S
    BY <2>2
  <2>4. QED
    BY <2>2, <2>3
<1> HIDE DEF S
<1>2. PICK t \in Seq(S) : t = Append(s, x)
  <2>1. Append(s, x) \in Seq(S)
    BY <1>1
  <2>2. QED
    BY <2>1, Zenon
<1>3. IsList(t)
  BY <1>2, ListAny
<1>4. QED
  BY <1>1, <1>2, <1>3

LEMMA ListJoin ==
  ASSUME NEW s, IsList(s), NEW t, IsList(t)
  PROVE  /\ IsList(s \o t) /\ Len(s) \in Nat /\ Len(t) \in Nat /\ Len(s \o t) = Len(s) + Len(t)
         /\ \A k \in 1 .. Len(s) : (s \o t)[k] = s[k]
         /\ \A k \in 1 .. Len(t) : (s \o t)[Len(s) + k] = t[k]
         /\ s \o <<>> = s
<1> DEFINE A == {s[k] : k \in 1 .. Len(s)}
           B == {t[k] : k \in 1 .. Len(t)}
           S == A \cup B
<1>1. s \in Seq(A) /\ t \in Seq(B)
  BY DEF IsList
<1> HIDE DEF A, B
<1>2. s \in Seq(S) /\ t \in Seq(S)
  <2>1. A \subseteq S /\ B \subseteq S
    OBVIOUS
  <2> HIDE DEF S
  <2>2. QED
    BY <1>1, <2>1
<1> HIDE DEF S
<1>3. PICK u \in Seq(S) : u = s \o t
  <2>1. s \o t \in Seq(S)
    BY <1>2
  <2>2. QED
    BY <2>1, Zenon
<1>4. IsList(u)
  BY <1>3, ListAny
<1>5. QED
  BY <1>2, <1>3, <1>4

LEMMA JoinAppend ==
  ASSUME NEW s, IsList(s), NEW t, IsList(t), NEW x
  PROVE  s \o Append(t, x) = Append(s \o t, x)
<1> DEFINE A == {s[k] : k \in 1 .. Len(s)}
           B == {t[k] : k \in 1 .. Len(t)}
           S == A \cup B \cup {x}
<1>1. s \in Seq(A) /\ t \in Seq(B)
  BY DEF IsList
<1>2. A \subseteq S /\ B \subseteq S /\ x \in S
  OBVIOUS
<1> HIDE DEF A, B, S
<1>3. s \in Seq(S) /\ t \in Seq(S)
  BY <1>1, <1>2
<1>4. QED
  BY <1>2, <1>3

LEMMA ListOf ==
  ASSUME NEW n \in Nat, NEW f, f = [k \in 1 .. n |-> f[k]]
  PROVE  IsList(f) /\ Len(f) = n
<1> DEFINE S == {f[k] : k \in 1 .. n}
<1>1. \A k \in 1 .. n : f[k] \in S
  OBVIOUS
<1> HIDE DEF S
<1>2. f \in Seq(S) /\ Len(f) = n
  BY <1>1
<1>3. QED
  BY <1>2 DEF IsList, S

\* The first d waveforms are answered, and these are those whose messages end with the
\* first q.
Answers(d) == [r \in 1 .. d |-> Ready(r, TimelineOf(waves[r]))]
Ended(d, q) == Begin[d] <= q /\ (d < Len(waves) => q < Begin[d+1])
Delivered(rs, q) == \E d \in 0 .. Len(waves) : Ended(d, q) /\ rs = Answers(d)

LEMMA AnswersAre ==
  ASSUME NEW d \in Nat
  PROVE  /\ IsList(Answers(d)) /\ Len(Answers(d)) = d
         /\ Append(Answers(d), Ready(d + 1, TimelineOf(waves[d+1]))) = Answers(d + 1)
<1> DEFINE e(r) == Ready(r, TimelineOf(waves[r]))
           f == [r \in 1 .. d |-> e(r)]
           g == [r \in 1 .. d + 1 |-> e(r)]
           x == e(d + 1)
<1>1. f = Answers(d) /\ g = Answers(d + 1) /\ x = Ready(d + 1, TimelineOf(waves[d+1]))
  BY DEF Answers
<1> HIDE DEF e
<1>2. f = [k \in 1 .. d |-> f[k]] /\ g = [k \in 1 .. d + 1 |-> g[k]]
  OBVIOUS
<1>3. g[d+1] = x /\ \A k \in 1 .. d : g[k] = f[k]
  OBVIOUS
<1> HIDE DEF f, g, x
<1>4. IsList(f) /\ Len(f) = d
  BY <1>2, ListOf
<1>5. IsList(g) /\ Len(g) = d + 1
  BY <1>2, ListOf
<1>6. PICK h : h = Append(f, x)
  OBVIOUS
<1>7. /\ IsList(h) /\ Len(h) = d + 1
      /\ \A k \in 1 .. d : h[k] = f[k]
      /\ h[d+1] = x
  BY <1>4, <1>6, ListAppend
<1>8. \A k \in 1 .. d + 1 : h[k] = g[k]
  BY <1>3, <1>7
<1> DEFINE G == {g[k] : k \in 1 .. Len(g)}
           H == {h[k] : k \in 1 .. Len(h)}
<1>9. g \in Seq(G) /\ h \in Seq(H)
  BY <1>5, <1>7 DEF IsList
<1> HIDE DEF G, H
<1>10. h = g
  BY <1>5, <1>7, <1>8, <1>9
<1>11. QED
  BY <1>1, <1>4, <1>6, <1>10

\* One more text in a state of a waveform.
Raise(r, x) == [r EXCEPT !.timeline = Append(@, x), !.done = @ + 1]

IsState(r, s, n, d, t) == r = [speech |-> s, count |-> n, done |-> d, timeline |-> t]

LEMMA Raised ==
  ASSUME NEW s, NEW n, NEW d, NEW t, NEW x, NEW r, IsState(r, s, n, d, t)
  PROVE  IsState(Raise(r, x), s, n, d + 1, Append(t, x))
<1>1. PICK y, z : y = Append(t, x) /\ z = d + 1
  OBVIOUS
<1>2. r.timeline = t /\ r.done = d
  BY DEF IsState
<1>3. PICK r1 : r1 = [r EXCEPT !.timeline = y]
  OBVIOUS
<1>4. r1 = [speech |-> s, count |-> n, done |-> d, timeline |-> y]
  BY <1>3 DEF IsState
<1>5. [r1 EXCEPT !.done = z] = [speech |-> s, count |-> n, done |-> z, timeline |-> y]
  BY <1>4
<1>6. [r EXCEPT !.timeline = Append(@, x), !.done = @ + 1] = [r1 EXCEPT !.done = z]
  <2>1. [r EXCEPT !.timeline = Append(@, x), !.done = @ + 1]
           = [[r EXCEPT !.timeline = Append(r.timeline, x)] EXCEPT !.done = r.done + 1]
    BY DEF IsState
  <2>2. QED
    BY <1>1, <1>2, <1>3, <2>1, Zenon
<1>7. QED
  BY <1>1, <1>5, <1>6, Zenon DEF Raise, IsState

LEMMA PartialMore ==
  ASSUME NEW i, NEW k \in Nat, NEW x, Append(Partial(i, k - 1).timeline, x) = Partial(i, k).timeline
  PROVE  Raise(Partial(i, k - 1), x) = Partial(i, k)
<1>1. PICK s, n, d, t, r : /\ s = SpeechAnnotations(waves[i]) /\ n = Len(Ranges(waves[i]))
                           /\ d = k - 1 /\ t = Partial(i, k - 1).timeline /\ r = Partial(i, k - 1)
  OBVIOUS
<1>2. IsState(r, s, n, d, t)
  BY <1>1 DEF Partial, IsState
<1>3. IsState(Partial(i, k), s, n, k, Append(t, x))
  BY <1>1 DEF Partial, IsState
<1>4. d + 1 = k
  BY <1>1
<1>5. IsState(Raise(r, x), s, n, d + 1, Append(t, x))
  BY <1>2, Raised
<1>6. Raise(r, x) = Partial(i, k)
  BY <1>3, <1>4, <1>5, Zenon DEF IsState
<1>7. QED
  BY <1>1, <1>6

\* Putting the next recognised segment in its timeline.
LEMMA FinishedIs ==
  ASSUME WavesKept, NEW q \in Nat, NEW hi \in Nat, q < hi, NEW m, At(q + 1, m),
         m.kind = "segment", NEW rs, IsList(rs), NEW ready, IsList(ready),
         Delivered(rs \o ready, q)
  PROVE  \E more : /\ Finished([jobs |-> SegState(q, hi), ready |-> ready], m)
                        = [jobs |-> SegState(q + 1, hi), ready |-> more]
                   /\ IsList(more) /\ Delivered(rs \o more, q + 1)
<1>1. PICK i \in Jobs :
        /\ Begin[i-1] < q + 1 /\ q + 1 <= Begin[i] /\ Begin[i-1] \in Nat /\ Begin[i] \in Nat
        /\ q + 1 - Begin[i-1] \in 1 .. Len(MessagesOf(i))
        /\ m = MessagesOf(i)[q + 1 - Begin[i-1]] /\ m.index = i
        /\ Begin[i] = Begin[i-1] + Len(MessagesOf(i))
        /\ Preparation(waves[i]) = "Speech"
  <2>1. q + 1 \in Nat
    OBVIOUS
  <2>2. QED
    BY <2>1, AtIs
<1>2. PICK n, b, k, e : n = Len(Ranges(waves[i])) /\ b = Begin[i-1] /\ k = q + 1 - b /\ e = Begin[i]
  OBVIOUS
<1>3. /\ n = Len(MessagesOf(i)) /\ n \in Nat /\ k \in 1 .. n
      /\ m.range = Ranges(waves[i])[k]
  <2>1. Told(i)
    BY MessagesTold
  <2>2. n = Len(MessagesOf(i)) /\ n \in Nat
    BY <1>1, <1>2, <2>1 DEF Told
  <2>3. k \in 1 .. n /\ m = MessagesOf(i)[k]
    BY <1>1, <1>2, <2>2
  <2>4. m.range = Ranges(waves[i])[k]
    BY <1>1, <1>2, <2>1, <2>3 DEF Told
  <2>5. QED
    BY <2>2, <2>3, <2>4
<1>4. b \in Nat /\ e \in Nat /\ e = b + n /\ q = b + k - 1
  BY <1>1, <1>2, <1>3
<1>5. ASSUME NEW x \in Jobs, q < Begin[x], x # i
      PROVE  i < x /\ e <= Begin[x-1] /\ Begin[x-1] \in Nat /\ q + 1 < Begin[x]
  <2>1. Begin[x-1] \in Nat /\ Begin[x] \in Nat /\ Begin[x-1] < Begin[x]
    BY BeginIs
  <2>2. ~ (x < i)
    <3>1. x < i => Begin[x] <= b
      BY <1>2, BeginApart
    <3>2. QED
      BY <1>3, <1>4, <1>5, <2>1, <3>1
  <2>3. i < x
    BY <1>5, <2>2, BeginIs
  <2>4. e <= Begin[x-1]
    BY <1>2, <2>3, BeginApart
  <2>5. QED
    BY <1>1, <1>2, <2>1, <2>3, <2>4
<1> DEFINE p(x) == Partial(x, Later(q - Begin[x-1], 0))
           p1(x) == Partial(x, Later((q + 1) - Begin[x-1], 0))
           S == Touched(q, hi)
           T == Touched(q + 1, hi)
           old == [x \in S |-> p(x)]
           next == [x \in T |-> p1(x)]
<1>6. SegState(q, hi) = old /\ SegState(q + 1, hi) = next
  BY Zenon DEF SegState
<1>7. i \in S
  BY <1>1 DEF Touched
<1>8. p(i) = Partial(i, k - 1) /\ p1(i) = Partial(i, k)
  <2>1. Later(q - b, 0) = k - 1 /\ Later((q + 1) - b, 0) = k
    BY <1>3, <1>4 DEF Later
  <2>2. QED
    BY <1>2, <2>1
<1>9. ASSUME NEW x \in S, x # i PROVE p(x) = p1(x) /\ x \in T
  <2>1. x \in Jobs /\ q < Begin[x] /\ Begin[x-1] < hi
    BY DEF Touched
  <2>2. e <= Begin[x-1] /\ Begin[x-1] \in Nat /\ q + 1 < Begin[x]
    BY <1>5, <1>9, <2>1
  <2>3. Later(q - Begin[x-1], 0) = 0 /\ Later((q + 1) - Begin[x-1], 0) = 0
    BY <1>1, <1>2, <2>2 DEF Later
  <2>4. QED
    BY <2>1, <2>2, <2>3 DEF Touched
<1>10. T = IF k = n THEN S \ {i} ELSE S
  <2>1. ASSUME NEW x \in T PROVE x \in S
    <3>1. x \in Jobs /\ q + 1 < Begin[x] /\ Begin[x-1] < hi /\ Begin[x] \in Nat
      BY BeginIs DEF Touched
    <3>2. q < Begin[x]
      BY <3>1
    <3>3. QED
      BY <3>1, <3>2 DEF Touched
  <2>2. i \in T <=> k # n
    <3>1. i \in T <=> q + 1 < e
      BY <1>2, <1>7 DEF Touched
    <3>2. QED
      BY <1>3, <1>4, <3>1
  <2>3. \A x \in S : x # i => x \in T
    BY <1>9
  <2> HIDE DEF S, T
  <2>4. QED
    BY <1>7, <2>1, <2>2, <2>3
<1> DEFINE job == Partial(i, k - 1)
           line == Partial(i, k).timeline
           grown == Raise(job, TextOf(m.range))
<1>11. grown = Partial(i, k)
  <2>1. Append(Partial(i, k - 1).timeline, TextOf(m.range)) = Partial(i, k).timeline
    BY <1>1, <1>2, <1>3, PartialIs
  <2>2. k \in Nat
    BY <1>3
  <2>3. QED
    BY <2>1, <2>2, PartialMore
<1>12. old[i] = job /\ DOMAIN old = S
  BY <1>7, <1>8
<1>13. PICK d \in 0 .. Len(waves) : Ended(d, q) /\ rs \o ready = Answers(d)
  BY DEF Delivered
<1>14. d = i - 1
  <2>1. i - 1 \in 0 .. Len(waves) /\ i \in 0 .. Len(waves) /\ i \in 1 .. Len(waves)
    BY BeginIs
  <2>2. ~ (i <= d)
    <3>1. i < d => e < Begin[d]
      BY <1>2, <1>13, <2>1, BeginGrows
    <3>2. i = d => e = Begin[d]
      BY <1>2
    <3>3. Begin[d] <= q /\ Begin[d] \in Nat
      BY <1>13, BeginIs DEF Ended
    <3>4. q < e
      BY <1>3, <1>4
    <3>5. QED
      BY <1>4, <2>1, <3>1, <3>2, <3>3, <3>4
  <2>3. ~ (d < i - 1)
    <3>1. SUFFICES ASSUME d < i - 1 PROVE FALSE
      OBVIOUS
    <3>2. d < Len(waves) /\ d + 1 \in 0 .. Len(waves) /\ d + 1 <= i - 1
      BY <2>1, <3>1, BeginIs
    <3>3. q < Begin[d+1] /\ Begin[d+1] \in Nat
      BY <1>13, <3>2, BeginIs DEF Ended
    <3>4. Begin[d+1] <= b
      <4>1. d + 1 < i - 1 => Begin[d+1] < Begin[i-1]
        BY <2>1, <3>2, BeginGrows
      <4>2. d + 1 = i - 1 => Begin[d+1] = b
        BY <1>2
      <4>3. d + 1 < i - 1 \/ d + 1 = i - 1
        BY <2>1, <3>2, BeginIs
      <4>4. PICK c \in Nat : c = Begin[d+1]
        BY <3>3
      <4>5. c < b \/ c = b
        BY <1>2, <4>1, <4>2, <4>3, <4>4, Zenon
      <4>6. QED
        BY <1>4, <4>4, <4>5
    <3>5. QED
      BY <1>3, <1>4, <3>3, <3>4
  <2>4. QED
    BY <2>1, <2>2, <2>3
<1>15. d \in Nat /\ d < Len(waves) /\ d + 1 = i /\ d + 1 \in 0 .. Len(waves) /\ Len(waves) \in Nat
  BY <1>14, BeginIs
<1> DEFINE acc == [jobs |-> old, ready |-> ready]
<1>16. Finished(acc, m) = IF n <= k
                          THEN [jobs |-> Without(old, i), ready |-> Append(ready, Ready(i, line))]
                          ELSE [acc EXCEPT !.jobs[i] = Partial(i, k)]
  <2>1. acc.jobs = old /\ acc.ready = ready
    OBVIOUS
  <2>2. Partial(i, k).done = k /\ Partial(i, k).count = n
    BY <1>2 DEF Partial
  <2> HIDE DEF acc, old, S, job
  <2>3. Finished(acc, m) =
          IF grown.done >= grown.count
          THEN [jobs |-> Without(old, i), ready |-> Append(ready, Ready(i, grown.timeline))]
          ELSE [acc EXCEPT !.jobs[i] = grown]
    BY <1>1, <1>7, <1>12, <2>1, Zenon DEF Finished, Raise
  <2> HIDE DEF grown
  <2>4. QED
    BY <1>3, <1>11, <2>2, <2>3
<1>17. CASE k = n
  <2> DEFINE more == Append(ready, Ready(i, line))
  <2>1. Finished(acc, m) = [jobs |-> Without(old, i), ready |-> more]
    BY <1>3, <1>16, <1>17
  <2>2. Without(old, i) = next
    <3>1. Without(old, i) = [x \in S \ {i} |-> old[x]]
      BY <1>12 DEF Without
    <3>2. T = S \ {i}
      BY <1>10, <1>17
    <3>3. \A x \in T : old[x] = p1(x)
      BY <1>9, <3>2
    <3> HIDE DEF T, S, p1, old
    <3>4. QED
      BY <3>1, <3>2, <3>3
  <2>3. line = TimelineOf(waves[i])
    BY <1>1, <1>2, <1>17, PartialIs
  <2>4. IsList(more) /\ rs \o more = Append(rs \o ready, Ready(i, line))
    <3>1. PICK x : x = Ready(i, line)
      OBVIOUS
    <3>2. IsList(Append(ready, x))
      BY ListAppend, Zenon
    <3>3. rs \o Append(ready, x) = Append(rs \o ready, x)
      BY JoinAppend
    <3>4. QED
      BY <3>1, <3>2, <3>3, Zenon
  <2>5. rs \o more = Answers(i)
    BY <1>13, <1>15, <2>3, <2>4, AnswersAre
  <2>6. Ended(i, q + 1)
    <3>1. e = q + 1
      BY <1>3, <1>4, <1>17
    <3>2. i < Len(waves) => e < Begin[i+1]
      BY <1>2, <1>15, BeginGrows
    <3>3. QED
      BY <1>2, <1>4, <3>1, <3>2 DEF Ended
  <2>7. Delivered(rs \o more, q + 1)
    BY <1>15, <2>5, <2>6 DEF Delivered
  <2> HIDE DEF more, next, old
  <2>8. QED
    BY <1>6, <2>1, <2>2, <2>4, <2>7
<1>18. CASE k # n
  <2>1. Finished(acc, m) = [acc EXCEPT !.jobs[i] = Partial(i, k)]
    BY <1>3, <1>16, <1>18
  <2>2. [old EXCEPT ![i] = Partial(i, k)] = next
    <3>1. T = S
      BY <1>10, <1>18
    <3>2. \A x \in S : IF x = i THEN Partial(i, k) = p1(x) ELSE old[x] = p1(x)
      BY <1>8, <1>9
    <3>3. [old EXCEPT ![i] = Partial(i, k)] = [x \in S |-> IF x = i THEN Partial(i, k) ELSE old[x]]
      BY <1>12
    <3> HIDE DEF T, S, p1, old
    <3>4. QED
      BY <3>1, <3>2, <3>3
  <2>3. [acc EXCEPT !.jobs[i] = Partial(i, k)]
          = [jobs |-> [old EXCEPT ![i] = Partial(i, k)], ready |-> ready]
    <3> HIDE DEF old
    <3>1. QED
      OBVIOUS
  <2>4. Ended(d, q + 1)
    <3>1. q + 1 < e
      BY <1>3, <1>4, <1>18
    <3>2. Begin[d] <= q /\ Begin[d] \in Nat
      BY <1>13, BeginIs DEF Ended
    <3>3. QED
      BY <1>2, <1>15, <3>1, <3>2 DEF Ended
  <2>5. Delivered(rs \o ready, q + 1)
    BY <1>13, <2>4 DEF Delivered
  <2> HIDE DEF old, next
  <2>6. QED
    BY <1>6, <2>1, <2>2, <2>3, <2>5
<1>19. QED
  BY <1>17, <1>18

\* The turns of the two loops over a batch.
LEMMA OpenedRuns ==
  ASSUME Len(batch) \in Nat
  PROVE  \E f : /\ f[0] = segments
                /\ \A k \in 1 .. Len(batch) : f[k] = Opened(f[k-1], batch[k])
                /\ OpenedAll = f[Len(batch)]
<1> DEFINE n == Len(batch)
           start == segments
           F(f) == f = [k \in 0 .. n |-> IF k = 0 THEN start ELSE Opened(f[k-1], batch[k])]
           after == CHOOSE f : F(f)
           Goes(g, k) == g[0] = start /\ \A j \in 1 .. k : g[j] = Opened(g[j-1], batch[j])
           S == {k \in 0 .. n : \E g : Goes(g, k)}
<1>1. OpenedAll = after[n]
  BY Zenon DEF OpenedAll
<1> HIDE DEF n, start, F, after
<1>2. n \in Nat /\ n = Len(batch)
  BY DEF n
<1>3. 0 \in S
  <2>1. [j \in 0 .. 0 |-> start][0] = start
    OBVIOUS
  <2>2. \E g : g[0] = start
    BY <2>1
  <2>3. \E g : Goes(g, 0)
    BY <2>2
  <2>4. 0 \in 0 .. n
    BY <1>2
  <2> HIDE DEF Goes
  <2>5. QED
    BY <2>3, <2>4
<1>4. ASSUME NEW k \in 1 .. n, k - 1 \in S PROVE k \in S
  <2>1. PICK g : Goes(g, k - 1)
    BY <1>4
  <2>2. PICK x : x = Opened(g[k-1], batch[k])
    OBVIOUS
  <2> DEFINE h == [j \in 0 .. k |-> IF j = k THEN x ELSE g[j]]
  <2>3. k \in Nat /\ k >= 1 /\ k \in 0 .. n
    BY <1>2
  <2>4. h[k] = x /\ \A j \in 0 .. k - 1 : h[j] = g[j]
    BY <2>3
  <2> HIDE DEF h
  <2>5. h[0] = start
    BY <2>1, <2>3, <2>4
  <2>6. ASSUME NEW j \in 1 .. k PROVE h[j] = Opened(h[j-1], batch[j])
    <3>1. j - 1 \in 0 .. k - 1 /\ h[j-1] = g[j-1]
      BY <2>3, <2>4
    <3>2. CASE j = k
      BY <2>2, <2>4, <3>1, <3>2
    <3>3. CASE j # k
      <4>1. j \in 1 .. k - 1 /\ j \in 0 .. k - 1
        BY <2>3, <3>3
      <4>2. g[j] = Opened(g[j-1], batch[j]) /\ h[j] = g[j]
        BY <2>1, <2>4, <4>1
      <4>3. QED
        BY <3>1, <4>2
    <3>4. QED
      BY <3>2, <3>3
  <2>7. Goes(h, k)
    BY <2>5, <2>6
  <2> HIDE DEF Goes
  <2>8. QED
    BY <2>3, <2>7
<1>5. n \in S
  <2> HIDE DEF S
  <2>1. \A k \in 0 .. n : k \in S
    BY <1>2, <1>3, <1>4, UpTo
  <2>2. QED
    BY <1>2, <2>1
<1>6. PICK g : Goes(g, n)
  BY <1>5
<1>7. \E f : F(f)
  <2> DEFINE f == [j \in 0 .. n |-> g[j]]
  <2>1. ASSUME NEW k \in 0 .. n PROVE f[k] = IF k = 0 THEN start ELSE Opened(f[k-1], batch[k])
    <3>1. CASE k = 0
      BY <1>6, <3>1
    <3>2. CASE k # 0
      <4>1. k \in 1 .. n /\ k - 1 \in 0 .. n
        BY <1>2, <3>2
      <4>2. g[k] = Opened(g[k-1], batch[k])
        BY <1>6, <4>1
      <4>3. f[k] = g[k] /\ f[k-1] = g[k-1]
        BY <4>1
      <4>4. QED
        BY <3>2, <4>2, <4>3
    <3>3. QED
      BY <3>1, <3>2
  <2>2. f = [k \in 0 .. n |-> f[k]]
    OBVIOUS
  <2> HIDE DEF f
  <2>3. F(f)
    BY <2>1, <2>2 DEF F
  <2>4. QED
    BY <2>3
<1>8. F(after)
  BY <1>7 DEF after
<1>9. after[0] = start /\ \A k \in 1 .. n : after[k] = Opened(after[k-1], batch[k])
  BY <1>2, <1>8 DEF F
<1>10. QED
  BY <1>1, <1>9 DEF n, start

LEMMA FinishedRuns ==
  ASSUME Len(batch) \in Nat, NEW jobs
  PROVE  \E f : /\ f[0] = [jobs |-> jobs, ready |-> <<>>]
                /\ \A k \in 1 .. Len(batch) : f[k] = Finished(f[k-1], batch[k])
                /\ FinishedAll(jobs) = f[Len(batch)]
<1> DEFINE n == Len(batch)
           start == [jobs |-> jobs, ready |-> <<>>]
           F(f) == f = [k \in 0 .. n |-> IF k = 0 THEN start ELSE Finished(f[k-1], batch[k])]
           after == CHOOSE f : F(f)
           Goes(g, k) == g[0] = start /\ \A j \in 1 .. k : g[j] = Finished(g[j-1], batch[j])
           S == {k \in 0 .. n : \E g : Goes(g, k)}
<1>1. FinishedAll(jobs) = after[n]
  BY Zenon DEF FinishedAll
<1> HIDE DEF n, start, F, after
<1>2. n \in Nat /\ n = Len(batch)
  BY DEF n
<1>3. 0 \in S
  <2>1. [j \in 0 .. 0 |-> start][0] = start
    OBVIOUS
  <2>2. \E g : g[0] = start
    BY <2>1
  <2>3. \E g : Goes(g, 0)
    BY <2>2
  <2>4. 0 \in 0 .. n
    BY <1>2
  <2> HIDE DEF Goes
  <2>5. QED
    BY <2>3, <2>4
<1>4. ASSUME NEW k \in 1 .. n, k - 1 \in S PROVE k \in S
  <2>1. PICK g : Goes(g, k - 1)
    BY <1>4
  <2>2. PICK x : x = Finished(g[k-1], batch[k])
    OBVIOUS
  <2> DEFINE h == [j \in 0 .. k |-> IF j = k THEN x ELSE g[j]]
  <2>3. k \in Nat /\ k >= 1 /\ k \in 0 .. n
    BY <1>2
  <2>4. h[k] = x /\ \A j \in 0 .. k - 1 : h[j] = g[j]
    BY <2>3
  <2> HIDE DEF h
  <2>5. h[0] = start
    BY <2>1, <2>3, <2>4
  <2>6. ASSUME NEW j \in 1 .. k PROVE h[j] = Finished(h[j-1], batch[j])
    <3>1. j - 1 \in 0 .. k - 1 /\ h[j-1] = g[j-1]
      BY <2>3, <2>4
    <3>2. CASE j = k
      BY <2>2, <2>4, <3>1, <3>2
    <3>3. CASE j # k
      <4>1. j \in 1 .. k - 1 /\ j \in 0 .. k - 1
        BY <2>3, <3>3
      <4>2. g[j] = Finished(g[j-1], batch[j]) /\ h[j] = g[j]
        BY <2>1, <2>4, <4>1
      <4>3. QED
        BY <3>1, <4>2
    <3>4. QED
      BY <3>2, <3>3
  <2>7. Goes(h, k)
    BY <2>5, <2>6
  <2> HIDE DEF Goes
  <2>8. QED
    BY <2>3, <2>7
<1>5. n \in S
  <2> HIDE DEF S
  <2>1. \A k \in 0 .. n : k \in S
    BY <1>2, <1>3, <1>4, UpTo
  <2>2. QED
    BY <1>2, <2>1
<1>6. PICK g : Goes(g, n)
  BY <1>5
<1>7. \E f : F(f)
  <2> DEFINE f == [j \in 0 .. n |-> g[j]]
  <2>1. ASSUME NEW k \in 0 .. n PROVE f[k] = IF k = 0 THEN start ELSE Finished(f[k-1], batch[k])
    <3>1. CASE k = 0
      BY <1>6, <3>1
    <3>2. CASE k # 0
      <4>1. k \in 1 .. n /\ k - 1 \in 0 .. n
        BY <1>2, <3>2
      <4>2. g[k] = Finished(g[k-1], batch[k])
        BY <1>6, <4>1
      <4>3. f[k] = g[k] /\ f[k-1] = g[k-1]
        BY <4>1
      <4>4. QED
        BY <3>2, <4>2, <4>3
    <3>3. QED
      BY <3>1, <3>2
  <2>2. f = [k \in 0 .. n |-> f[k]]
    OBVIOUS
  <2> HIDE DEF f
  <2>3. F(f)
    BY <2>1, <2>2 DEF F
  <2>4. QED
    BY <2>3
<1>8. F(after)
  BY <1>7 DEF after
<1>9. after[0] = start /\ \A k \in 1 .. n : after[k] = Finished(after[k-1], batch[k])
  BY <1>2, <1>8 DEF F
<1>10. QED
  BY <1>1, <1>9 DEF n, start

Runs(s, p) == \A k \in 1 .. Len(s) : At(p + k, s[k])

\* A batch of recognised segments leaves the states of the messages up to its last one, and
\* answers the waveforms that end in it.
LEMMA SegmentsRun ==
  ASSUME WavesKept, NEW n \in Nat, n = Len(batch), NEW p \in Nat, Runs(batch, p),
         \A k \in 1 .. n : batch[k].kind = "segment",
         segments = SegState(p, p), IsList(results), Delivered(results, p)
  PROVE  \E more : /\ FinishedAll(OpenedAll) = [jobs |-> SegState(p + n, p + n), ready |-> more]
                   /\ IsList(more) /\ Delivered(results \o more, p + n)
<1>1. \A k \in 1 .. n : At(p + k, batch[k])
  BY DEF Runs
<1>2. OpenedAll = SegState(p, p + n)
  <2>1. PICK f : /\ f[0] = segments /\ OpenedAll = f[n]
                 /\ \A k \in 1 .. n : f[k] = Opened(f[k-1], batch[k])
    BY OpenedRuns
  <2> DEFINE S == {k \in 0 .. n : f[k] = SegState(p, p + k)}
  <2>2. 0 \in S
    <3>1. f[0] = SegState(p, p + 0)
      BY <2>1
    <3>2. QED
      BY <3>1
  <2>3. ASSUME NEW k \in 1 .. n, k - 1 \in S PROVE k \in S
    <3>1. PICK hi \in Nat : hi = p + (k - 1)
      OBVIOUS
    <3>2. p <= hi /\ hi + 1 = p + k
      BY <3>1
    <3>3. f[k-1] = SegState(p, hi)
      BY <2>3, <3>1
    <3>4. At(hi + 1, batch[k]) /\ batch[k].kind = "segment"
      BY <1>1, <3>2
    <3>5. Opened(SegState(p, hi), batch[k]) = SegState(p, hi + 1)
      BY <3>2, <3>4, OpenedIs
    <3>6. f[k] = SegState(p, p + k)
      BY <2>1, <3>2, <3>3, <3>5
    <3>7. QED
      BY <3>6
  <2>4. n \in S
    <3> HIDE DEF S
    <3>1. \A k \in 0 .. n : k \in S
      BY <2>2, <2>3, UpTo
    <3>2. QED
      BY <3>1
  <2>5. QED
    BY <2>1, <2>4
<1>3. PICK jobs : jobs = OpenedAll
  OBVIOUS
<1>4. PICK f : /\ f[0] = [jobs |-> jobs, ready |-> <<>>] /\ FinishedAll(jobs) = f[n]
               /\ \A k \in 1 .. n : f[k] = Finished(f[k-1], batch[k])
  BY FinishedRuns
<1> DEFINE Good(k, more) == /\ f[k] = [jobs |-> SegState(p + k, p + n), ready |-> more]
                            /\ IsList(more) /\ Delivered(results \o more, p + k)
           S == {k \in 0 .. n : \E more : Good(k, more)}
<1>5. 0 \in S
  <2>1. IsList(<<>>)
    <3>1. <<>> \in Seq({})
      OBVIOUS
    <3>2. QED
      BY <3>1, ListAny
  <2>2. results \o <<>> = results
    BY <2>1, ListJoin
  <2>3. p + 0 = p
    OBVIOUS
  <2>4. f[0] = [jobs |-> SegState(p + 0, p + n), ready |-> <<>>]
    BY <1>2, <1>3, <1>4, <2>3, Zenon
  <2>5. Delivered(results \o <<>>, p + 0)
    BY <2>2, <2>3, Zenon
  <2>6. Good(0, <<>>)
    BY <2>1, <2>4, <2>5, Zenon
  <2> HIDE DEF Good
  <2>7. QED
    BY <2>6
<1>6. ASSUME NEW k \in 1 .. n, k - 1 \in S PROVE k \in S
  <2>1. PICK old : Good(k - 1, old)
    BY <1>6
  <2>2. PICK q, hi : q = p + (k - 1) /\ hi = p + n
    OBVIOUS
  <2>3. q \in Nat /\ hi \in Nat /\ q < hi /\ q + 1 = p + k
    BY <2>2
  <2>4. /\ f[k-1] = [jobs |-> SegState(q, hi), ready |-> old]
        /\ IsList(old) /\ Delivered(results \o old, q)
    BY <2>1, <2>2, Zenon
  <2> HIDE DEF Good
  <2>5. At(q + 1, batch[k]) /\ batch[k].kind = "segment"
    BY <1>1, <2>3
  <2>6. PICK more : /\ Finished([jobs |-> SegState(q, hi), ready |-> old], batch[k])
                         = [jobs |-> SegState(q + 1, hi), ready |-> more]
                    /\ IsList(more) /\ Delivered(results \o more, q + 1)
    BY <2>3, <2>4, <2>5, FinishedIs
  <2>7. f[k] = [jobs |-> SegState(q + 1, hi), ready |-> more]
    <3>1. f[k] = Finished(f[k-1], batch[k])
      BY <1>4
    <3>2. QED
      BY <2>4, <2>6, <3>1, Zenon
  <2>8. Good(k, more)
    BY <2>2, <2>3, <2>6, <2>7, Zenon DEF Good
  <2>9. k \in 0 .. n
    OBVIOUS
  <2>10. QED
    BY <2>8, <2>9
<1>7. n \in S
  <2> HIDE DEF S
  <2>1. \A k \in 0 .. n : k \in S
    BY <1>5, <1>6, UpTo
  <2>2. QED
    BY <2>1
<1>8. PICK more : Good(n, more)
  BY <1>7
<1>9. QED
  BY <1>3, <1>4, <1>8, Zenon

\* Whatever the states are, a batch of segments has a list of results.
LEMMA ReadyList ==
  ASSUME Len(batch) \in Nat, NEW jobs
  PROVE  IsList(FinishedAll(jobs).ready)
<1>1. PICK n \in Nat : n = Len(batch)
  OBVIOUS
<1>2. PICK f : /\ f[0] = [jobs |-> jobs, ready |-> <<>>] /\ FinishedAll(jobs) = f[n]
               /\ \A k \in 1 .. n : f[k] = Finished(f[k-1], batch[k])
  BY <1>1, FinishedRuns
<1> DEFINE Pair(v) == v = [jobs |-> v.jobs, ready |-> v.ready] /\ IsList(v.ready)
           S == {k \in 0 .. n : Pair(f[k])}
<1>3. 0 \in S
  <2>1. PICK v : v = f[0]
    OBVIOUS
  <2>2. v.jobs = jobs /\ v.ready = <<>>
    BY <1>2, <2>1
  <2>3. IsList(<<>>)
    <3>1. <<>> \in Seq({})
      OBVIOUS
    <3>2. QED
      BY <3>1, ListAny
  <2>4. v = [jobs |-> v.jobs, ready |-> v.ready]
    BY <1>2, <2>1, <2>2, Zenon
  <2>5. Pair(f[0])
    BY <2>1, <2>2, <2>3, <2>4, Zenon
  <2> HIDE DEF Pair
  <2>6. QED
    BY <2>5
<1>4. ASSUME NEW v, Pair(v), NEW m PROVE Pair(Finished(v, m))
  <2>1. PICK old, ready : old = v.jobs /\ ready = v.ready
    OBVIOUS
  <2>2. v = [jobs |-> old, ready |-> ready] /\ IsList(ready)
    BY <1>4, <2>1
  <2> DEFINE more == [old[m.index] EXCEPT !.timeline = Append(@, TextOf(m.range)), !.done = @ + 1]
             x == Ready(m.index, more.timeline)
  <2>3. \/ Finished(v, m) = v
        \/ Finished(v, m) = [jobs |-> Without(old, m.index), ready |-> Append(ready, x)]
        \/ Finished(v, m) = [v EXCEPT !.jobs[m.index] = more]
    BY <2>1, Zenon DEF Finished
  <2> HIDE DEF more, x
  <2>4. CASE Finished(v, m) = v
    BY <1>4, <2>4
  <2>5. CASE Finished(v, m) = [jobs |-> Without(old, m.index), ready |-> Append(ready, x)]
    <3>1. PICK a, b : a = Without(old, m.index) /\ b = Append(ready, x)
      OBVIOUS
    <3>2. IsList(b)
      BY <2>2, <3>1, ListAppend
    <3>3. Finished(v, m) = [jobs |-> a, ready |-> b]
      BY <2>5, <3>1
    <3>4. PICK r : r = Finished(v, m)
      OBVIOUS
    <3>5. r.jobs = a /\ r.ready = b
      BY <3>3, <3>4
    <3>6. QED
      BY <3>2, <3>3, <3>4, <3>5, Zenon
  <2>6. CASE Finished(v, m) = [v EXCEPT !.jobs[m.index] = more]
    <3>1. PICK a : a = [old EXCEPT ![m.index] = more]
      OBVIOUS
    <3>2. [v EXCEPT !.jobs[m.index] = more] = [jobs |-> a, ready |-> ready]
      BY <2>2, <3>1
    <3>3. PICK r : r = Finished(v, m)
      OBVIOUS
    <3>4. r = [jobs |-> a, ready |-> ready]
      BY <2>6, <3>2, <3>3
    <3>5. r.jobs = a /\ r.ready = ready
      BY <3>4
    <3>6. QED
      BY <2>2, <3>3, <3>4, <3>5, Zenon
  <2>7. QED
    BY <2>3, <2>4, <2>5, <2>6
<1> HIDE DEF Pair
<1>5. ASSUME NEW k \in 1 .. n, k - 1 \in S PROVE k \in S
  <2>1. Pair(f[k-1])
    BY <1>5
  <2>2. f[k] = Finished(f[k-1], batch[k])
    BY <1>2
  <2>3. Pair(f[k]) /\ k \in 0 .. n
    BY <1>4, <2>1, <2>2
  <2>4. QED
    BY <2>3
<1>6. n \in S
  <2> HIDE DEF S
  <2>1. \A k \in 0 .. n : k \in S
    BY <1>3, <1>5, UpTo
  <2>2. QED
    BY <2>1
<1>7. QED
  BY <1>2, <1>6 DEF Pair

LEMMA ListSame ==
  ASSUME NEW s, IsList(s), NEW t, IsList(t), Len(s) = Len(t),
         \A k \in 1 .. Len(s) : s[k] = t[k]
  PROVE  s = t
<1> DEFINE A == {s[k] : k \in 1 .. Len(s)}
           B == {t[k] : k \in 1 .. Len(t)}
<1>1. s \in Seq(A) /\ t \in Seq(B)
  BY DEF IsList
<1> HIDE DEF A, B
<1>2. QED
  BY <1>1

LEMMA NoStates ==
  ASSUME WavesKept, NEW c \in 0 .. Len(waves), NEW q, q = Begin[c]
  PROVE  SegState(q, q) = <<>>
<1>1. ASSUME NEW i \in Jobs, Begin[i-1] < q, q < Begin[i] PROVE FALSE
  <2>1. i - 1 \in 0 .. Len(waves) /\ i \in 0 .. Len(waves) /\ Len(waves) \in Nat
    BY BeginIs
  <2>2. Begin[c] \in Nat /\ Begin[i] \in Nat /\ Begin[i-1] \in Nat
    BY BeginIs
  <2>3. CASE i < c
    <3>1. Begin[i] < Begin[c]
      BY <2>1, <2>3, BeginGrows
    <3>2. QED
      BY <1>1, <2>2, <3>1
  <2>4. CASE i = c
    BY <1>1, <2>2, <2>4
  <2>5. CASE c = i - 1
    BY <1>1, <2>2, <2>5
  <2>6. CASE c < i - 1
    <3>1. Begin[c] < Begin[i-1]
      BY <2>1, <2>6, BeginGrows
    <3>2. QED
      BY <1>1, <2>2, <3>1
  <2>7. QED
    BY <2>1, <2>3, <2>4, <2>5, <2>6
<1>2. Touched(q, q) = {}
  BY <1>1 DEF Touched
<1>3. SegState(q, q) = [i \in {} |-> Partial(i, Later(q - Begin[i-1], 0))]
  BY <1>2 DEF SegState
<1>4. QED
  BY <1>3

LEMMA EndedAt ==
  ASSUME WavesKept, NEW c \in 0 .. Len(waves), NEW d \in 0 .. Len(waves), NEW q, q = Begin[c],
         Ended(d, q)
  PROVE  d = c
<1>1. Begin[c] \in Nat /\ Begin[d] \in Nat /\ Len(waves) \in Nat
  BY BeginIs
<1>2. CASE c < d
  <2>1. Begin[c] < Begin[d]
    BY <1>2, BeginGrows
  <2>2. Begin[d] <= q
    BY DEF Ended
  <2>3. QED
    BY <1>1, <2>1, <2>2
<1>3. CASE d < c
  <2>1. d + 1 \in 0 .. Len(waves) /\ d < Len(waves)
    BY <1>1, <1>3
  <2>2. q < Begin[d+1] /\ Begin[d+1] \in Nat
    BY <2>1, BeginIs DEF Ended
  <2>3. d + 1 = c \/ d + 1 < c
    BY <1>1, <1>3
  <2>4. Begin[d+1] <= Begin[c]
    <3>1. CASE d + 1 = c
      BY <2>2, <3>1
    <3>2. CASE d + 1 < c
      <4>1. Begin[d+1] < Begin[c]
        BY <2>1, <3>2, BeginGrows
      <4>2. QED
        BY <1>1, <2>2, <4>1
    <3>3. QED
      BY <2>3, <3>1, <3>2
  <2>5. QED
    BY <1>1, <2>2, <2>4
<1>4. QED
  BY <1>1, <1>2, <1>3

\* What a job is answered with.
JobLine(m) ==
  IF Silent(m) THEN <<>>
  ELSE (IF Preparation(waves[m.index]) = "FullSpeech" THEN SpeechAnnotations(waves[m.index])
        ELSE <<>>) \o <<TextOf(Whole(waves[m.index]))>>

LEMMA JobLineIs ==
  ASSUME WavesKept, NEW m, m.index \in Jobs, Preparation(waves[m.index]) # "Speech"
  PROVE  JobLine(m) = TimelineOf(waves[m.index])
<1>1. PICK i, w : i = m.index /\ w = waves[i]
  OBVIOUS
<1>2. PICK s, x : s = SpeechAnnotations(w) /\ x = TextOf(Whole(w))
  OBVIOUS
<1>3. s \in Seq(Notes)
  BY <1>1, <1>2, MessagesTold DEF Told
<1>4. s \o <<x>> = Append(s, x)
  <2> DEFINE S == Notes \cup {x}
  <2>1. s \in Seq(S) /\ x \in S
    <3>1. Notes \subseteq S /\ x \in S
      OBVIOUS
    <3> HIDE DEF S
    <3>2. QED
      BY <1>3, <3>1
  <2> HIDE DEF S
  <2>2. QED
    BY <2>1
<1>5. <<>> \o <<x>> = <<x>>
  OBVIOUS
<1>6. Preparation(w) \in {"Disabled", "NoSpeech", "FullSpeech", "Speech"}
  BY Zenon DEF Preparation
<1>7. CASE Preparation(w) = "Disabled"
  <2>1. JobLine(m) = <<>> \o <<x>>
    BY <1>1, <1>2, <1>7 DEF JobLine, Silent
  <2>2. TimelineOf(w) = <<x>>
    BY <1>2, <1>7 DEF TimelineOf
  <2>3. QED
    BY <1>1, <1>5, <2>1, <2>2
<1>8. CASE Preparation(w) = "NoSpeech"
  <2>1. JobLine(m) = <<>>
    BY <1>1, <1>8 DEF JobLine, Silent
  <2>2. TimelineOf(w) = <<>>
    BY <1>8 DEF TimelineOf
  <2>3. QED
    BY <1>1, <2>1, <2>2
<1>9. CASE Preparation(w) = "FullSpeech"
  <2>1. JobLine(m) = s \o <<x>>
    BY <1>1, <1>2, <1>9 DEF JobLine, Silent
  <2>2. TimelineOf(w) = Append(s, x)
    BY <1>2, <1>9 DEF TimelineOf
  <2>3. QED
    BY <1>1, <1>4, <2>1, <2>2
<1>10. QED
  BY <1>1, <1>6, <1>7, <1>8, <1>9

\* A batch of jobs answers the waveforms that come next.
LEMMA JobsRun ==
  ASSUME WavesKept, NEW n \in Nat, n = Len(batch), n >= 1, NEW p \in Nat, Runs(batch, p),
         \A k \in 1 .. n : batch[k].kind = "job",
         IsList(results), Delivered(results, p),
         NEW rs, rs = [k \in 1 .. n |-> Ready(batch[k].index, JobLine(batch[k]))]
  PROVE  /\ IsList(rs) /\ Delivered(results \o rs, p + n)
         /\ SegState(p, p) = <<>> /\ SegState(p + n, p + n) = <<>>
<1>1. PICK d \in 0 .. Len(waves) : Ended(d, p) /\ results = Answers(d)
  BY DEF Delivered
<1>2. Len(waves) \in Nat /\ d \in Nat
  BY BeginIs
<1>3. ASSUME NEW k \in 1 .. n
      PROVE  \E i \in Jobs : /\ Begin[i-1] = p + (k - 1) /\ Begin[i] = p + k
                             /\ batch[k].index = i /\ Preparation(waves[i]) # "Speech"
  <2>1. PICK q \in Nat : q = p + k
    OBVIOUS
  <2>2. PICK m : m = batch[k]
    OBVIOUS
  <2>3. At(q, m) /\ m.kind = "job"
    BY <2>1, <2>2 DEF Runs
  <2>4. PICK i \in Jobs :
           /\ Begin[i-1] < q /\ q <= Begin[i] /\ Begin[i-1] \in Nat /\ Begin[i] \in Nat
           /\ m.index = i
           /\ Begin[i] = Begin[i-1] + Len(MessagesOf(i))
           /\ m.kind = "job" <=> Preparation(waves[i]) # "Speech"
    BY <2>3, AtIs
  <2>5. Len(MessagesOf(i)) = 1
    BY <2>3, <2>4, MessagesTold DEF Told
  <2>6. Begin[i-1] = p + (k - 1) /\ Begin[i] = p + k
    <3>1. PICK b \in Nat, e \in Nat : b = Begin[i-1] /\ e = Begin[i]
      BY <2>4
    <3>2. b < q /\ q <= e /\ e = b + 1
      BY <2>4, <2>5, <3>1
    <3>3. b = p + (k - 1) /\ e = p + k
      BY <2>1, <3>2
    <3>4. QED
      BY <3>1, <3>3
  <2>7. QED
    BY <2>2, <2>3, <2>4, <2>6
<1> DEFINE S == {k \in 0 .. n : d + k \in 0 .. Len(waves) /\ Begin[d+k] = p + k}
<1>4. 0 \in S
  <2>1. 1 \in 1 .. n
    OBVIOUS
  <2>2. PICK i \in Jobs : Begin[i-1] = p + (1 - 1)
    BY <1>3, <2>1
  <2>3. i - 1 \in 0 .. Len(waves) /\ Begin[i-1] = p
    BY <2>2, BeginIs
  <2>4. d = i - 1
    BY <1>1, <2>3, EndedAt
  <2>5. d + 0 = d /\ p + 0 = p
    BY <1>2
  <2>6. QED
    BY <2>3, <2>4, <2>5
<1>5. ASSUME NEW k \in 1 .. n, k - 1 \in S
      PROVE  k \in S /\ batch[k].index = d + k /\ d + k \in Jobs
             /\ Preparation(waves[d+k]) # "Speech"
  <2>1. PICK i \in Jobs : /\ Begin[i-1] = p + (k - 1) /\ Begin[i] = p + k
                          /\ batch[k].index = i /\ Preparation(waves[i]) # "Speech"
    BY <1>3
  <2>2. PICK c : c = d + (k - 1)
    OBVIOUS
  <2>3. c \in 0 .. Len(waves) /\ Begin[c] = p + (k - 1)
    BY <1>5, <2>2
  <2>4. i - 1 \in 0 .. Len(waves) /\ i \in 1 .. Len(waves) /\ i \in 0 .. Len(waves)
    BY BeginIs
  <2>5. c = i - 1
    <3>1. ~ (c < i - 1)
      <4>1. c < i - 1 => Begin[c] < Begin[i-1]
        BY <2>3, <2>4, BeginGrows
      <4>2. QED
        BY <2>1, <2>3, <4>1
    <3>2. ~ (i - 1 < c)
      <4>1. i - 1 < c => Begin[i-1] < Begin[c]
        BY <2>3, <2>4, BeginGrows
      <4>2. QED
        BY <2>1, <2>3, <4>1
    <3>3. QED
      BY <1>2, <2>3, <2>4, <3>1, <3>2
  <2>6. d + k = i
    BY <1>2, <2>2, <2>4, <2>5
  <2>7. k \in 0 .. n
    OBVIOUS
  <2>8. QED
    BY <2>1, <2>4, <2>6, <2>7
<1>6. ASSUME NEW k \in 0 .. n PROVE d + k \in 0 .. Len(waves) /\ Begin[d+k] = p + k
  <2>1. k \in S
    <3> HIDE DEF S
    <3>1. \A j \in 0 .. n : j \in S
      BY <1>4, <1>5, UpTo
    <3>2. QED
      BY <3>1
  <2>2. QED
    BY <2>1
<1>7. ASSUME NEW k \in 1 .. n
      PROVE  rs[k] = Ready(d + k, TimelineOf(waves[d+k]))
  <2>1. k - 1 \in S
    <3>1. k - 1 \in 0 .. n
      OBVIOUS
    <3>2. QED
      BY <1>6, <3>1
  <2>2. batch[k].index = d + k /\ d + k \in Jobs /\ Preparation(waves[d+k]) # "Speech"
    BY <1>5, <2>1
  <2>3. JobLine(batch[k]) = TimelineOf(waves[d+k])
    BY <2>2, JobLineIs
  <2>4. rs[k] = Ready(batch[k].index, JobLine(batch[k]))
    OBVIOUS
  <2>5. QED
    BY <2>2, <2>3, <2>4
<1>8. rs = [k \in 1 .. n |-> rs[k]]
  OBVIOUS
<1>9. IsList(rs) /\ Len(rs) = n
  BY <1>8, ListOf
<1>10. PICK c, u : c = d + n /\ u = results \o rs
  OBVIOUS
<1>11. c \in 0 .. Len(waves) /\ Begin[c] = p + n /\ c \in Nat
  BY <1>6, <1>10
<1>12. u = Answers(c)
  <2>1. PICK a, t : a = Answers(d) /\ t = Answers(c)
    OBVIOUS
  <2>2. IsList(a) /\ Len(a) = d /\ IsList(t) /\ Len(t) = c
    BY <1>2, <1>11, <2>1, AnswersAre
  <2>3. /\ IsList(u) /\ Len(u) = d + n
        /\ \A k \in 1 .. d : u[k] = a[k]
        /\ \A k \in 1 .. n : u[d + k] = rs[k]
    <3>1. IsList(results) /\ Len(results) = d /\ u = results \o rs
      BY <1>1, <1>10, <2>1, <2>2
    <3>2. /\ IsList(results \o rs) /\ Len(results \o rs) = Len(results) + Len(rs)
          /\ \A k \in 1 .. Len(results) : (results \o rs)[k] = results[k]
          /\ \A k \in 1 .. Len(rs) : (results \o rs)[Len(results) + k] = rs[k]
      BY <1>9, ListJoin
    <3>3. QED
      BY <1>1, <1>9, <2>1, <3>1, <3>2
  <2>4. ASSUME NEW r \in 1 .. c PROVE t[r] = Ready(r, TimelineOf(waves[r]))
    BY <2>1 DEF Answers
  <2>5. ASSUME NEW r \in 1 .. d PROVE a[r] = Ready(r, TimelineOf(waves[r]))
    BY <2>1 DEF Answers
  <2>6. ASSUME NEW r \in 1 .. c PROVE u[r] = t[r]
    <3>1. CASE r <= d
      <4>1. r \in 1 .. d
        BY <1>2, <3>1
      <4>2. QED
        BY <2>3, <2>4, <2>5, <4>1
    <3>2. CASE ~ (r <= d)
      <4>1. PICK k : k = r - d
        OBVIOUS
      <4>2. k \in 1 .. n /\ d + k = r
        BY <1>2, <1>10, <3>2, <4>1
      <4>3. QED
        BY <1>7, <2>3, <2>4, <4>2
    <3>3. QED
      BY <3>1, <3>2
  <2>7. Len(u) = c
    BY <1>10, <2>3
  <2>8. u = t
    BY <2>2, <2>3, <2>6, <2>7, ListSame
  <2>9. QED
    BY <2>1, <2>8
<1>13. Ended(c, p + n)
  <2>1. c < Len(waves) => Begin[c] < Begin[c+1]
    <3>1. c < Len(waves) => c + 1 \in 0 .. Len(waves) /\ c < c + 1
      BY <1>2, <1>11
    <3>2. QED
      BY <1>11, <3>1, BeginGrows
  <2>2. QED
    BY <1>11, <2>1 DEF Ended
<1>14. Delivered(results \o rs, p + n)
  BY <1>10, <1>11, <1>12, <1>13 DEF Delivered
<1>15. SegState(p, p) = <<>>
  <2>1. Begin[d] = p
    <3>1. 0 \in 0 .. n /\ d + 0 = d /\ p + 0 = p
      BY <1>2
    <3>2. QED
      BY <1>6, <3>1
  <2>2. QED
    BY <2>1, NoStates
<1>16. SegState(p + n, p + n) = <<>>
  BY <1>11, NoStates
<1>17. QED
  BY <1>9, <1>14, <1>15, <1>16

Flows(p) ==
  /\ p + Len(batch) + Len(pending) + Len(chan) + Len(toSend) = Begin[upcoming-1]
  /\ Runs(batch, p) /\ Runs(pending, p + Len(batch))
  /\ Runs(chan, p + Len(batch) + Len(pending))
  /\ Runs(toSend, p + Len(batch) + Len(pending) + Len(chan))

\* The queues hold messages of the call.
Queued ==
  /\ toSend \in Seq(Messages) /\ chan \in Seq(Messages)
  /\ pending \in Seq(Messages) /\ batch \in Seq(Messages)
  /\ IsList(results) /\ upcoming \in 1 .. Len(waves) + 1 /\ broken \in BOOLEAN

\* A call of one waveform needs no tasks.
Quiet == Len(waves) <= 1 =>
  asr = "waiting" /\ vad = "running" /\ toSend = <<>> /\ chan = <<>> /\ pending = <<>>

Phases ==
  /\ asr \in {"waiting", "collecting", "running", "done"}
  /\ asr \in {"waiting", "done"} => batch = <<>>
  /\ asr \in {"collecting", "running"} =>
       batch # <<>> /\ \A k \in 1 .. Len(batch) : batch[k].kind = batch[1].kind
  /\ asr = "collecting" => pending = <<>>
  /\ Len(pending) <= 1
  /\ asr = "done" => pending = <<>> /\ chan = <<>> /\ vad # "running"
  /\ vad \in {"running", "done", "failed"}
  /\ vad = "failed" => broken
  /\ vad = "done" => toSend = <<>> /\ upcoming = Len(waves) + 1
  /\ returned # NoAnswer => asr = "done" \/ Len(waves) = 1

\* A failure is known to the caller, or will be.
Blamed == broken /\ Len(waves) # 1 =>
  vad = "failed" \/ \E k \in 1 .. Len(results) : ~results[k].ok

\* Until something fails, the first p messages are answered or in a state, and the others
\* that were made are in order in the batch, the stash, the channel and the VAD task.
Sound == ~broken /\ Len(waves) > 1 =>
  \E p \in Nat : Flows(p) /\ Delivered(results, p) /\ segments = SegState(p, p)

AsyncInv == WavesKept /\ Queued /\ Quiet /\ Phases /\ Blamed /\ Sound

LEMMA SameCall ==
  ASSUME WavesKept, waves' = waves, detector' = detector
  PROVE  /\ WavesKept' /\ Begin' = Begin /\ Messages' = Messages
         /\ \A q, m : At(q, m)' <=> At(q, m)
         /\ \A s, p : Runs(s, p)' <=> Runs(s, p)
         /\ \A a, b : SegState(a, b)' = SegState(a, b)
         /\ \A rs, q : Delivered(rs, q)' <=> Delivered(rs, q)
<1>1. Jobs' = Jobs
  BY DEF Jobs
<1>2. \A i : MessagesOf(i)' = MessagesOf(i)
  BY Zenon DEF MessagesOf, Preparation
<1>3. Order' = Order
  BY <1>1, <1>2 DEF Order
<1>4. Begin' = Begin
  BY <1>3, Zenon DEF Begin
<1>5. Messages' = Messages
  BY <1>1, <1>2 DEF Messages
<1>6. \A q, m : At(q, m)' <=> At(q, m)
  BY <1>1, <1>2, <1>4 DEF At
<1>7. \A s, p : Runs(s, p)' <=> Runs(s, p)
  BY <1>6, Zenon DEF Runs
<1>8. \A i, k : Partial(i, k)' = Partial(i, k)
  BY Zenon DEF Partial
<1>9. \A a, b : Touched(a, b)' = Touched(a, b)
  BY <1>1, <1>4 DEF Touched
<1>10. \A a, b : SegState(a, b)' = SegState(a, b)
  BY <1>4, <1>8, <1>9 DEF SegState
<1>11. \A i : TimelineOf(waves[i])' = TimelineOf(waves[i])
  BY Zenon DEF TimelineOf, Preparation
<1>12. \A d : Answers(d)' = Answers(d)
  BY <1>11 DEF Answers
<1>13. \A d, q : Ended(d, q)' <=> Ended(d, q)
  BY <1>4 DEF Ended
<1>14. \A rs, q : Delivered(rs, q)' <=> Delivered(rs, q)
  BY <1>12, <1>13 DEF Delivered
<1>15. WavesKept'
  BY DEF WavesKept
<1>16. QED
  BY <1>4, <1>5, <1>6, <1>7, <1>10, <1>14, <1>15

LEMMA AsyncFirst == AsyncInit => AsyncInv
<1> SUFFICES ASSUME AsyncInit PROVE AsyncInv
  OBVIOUS
<1>1. WavesKept
  BY DEF AsyncInit, CallInit, WavesKept
<1>2. Len(waves) \in Nat /\ Begin[0] = 0
  BY <1>1, BeginIs
<1>3. IsList(<<>>)
  <2>1. <<>> \in Seq({})
    OBVIOUS
  <2>2. QED
    BY <2>1, ListAny
<1>4. Queued
  <2>1. /\ toSend = <<>> /\ chan = <<>> /\ pending = <<>> /\ batch = <<>> /\ results = <<>>
        /\ broken = FALSE /\ upcoming = 1
    BY DEF AsyncInit, CallInit
  <2>2. <<>> \in Seq(Messages)
    OBVIOUS
  <2>3. 1 \in 1 .. Len(waves) + 1
    BY <1>2
  <2>4. QED
    BY <1>3, <2>1, <2>2, <2>3, Zenon DEF Queued
<1>5. Quiet /\ Phases /\ Blamed
  BY DEF AsyncInit, CallInit, Quiet, Phases, Blamed
<1>6. Flows(0)
  <2>1. upcoming - 1 = 0 /\ batch = <<>> /\ pending = <<>> /\ chan = <<>> /\ toSend = <<>>
    BY DEF AsyncInit
  <2>2. QED
    BY <1>2, <2>1 DEF Flows, Runs
<1>7. Answers(0) = <<>>
  <2>1. IsList(Answers(0)) /\ Len(Answers(0)) = 0
    BY AnswersAre
  <2>2. PICK s, t : s = Answers(0) /\ t = <<>>
    OBVIOUS
  <2>3. Len(s) = 0 /\ Len(t) = 0 /\ IsList(s) /\ IsList(t)
    BY <1>3, <2>1, <2>2
  <2>4. s = t
    BY <2>3, ListSame
  <2>5. QED
    BY <2>2, <2>4
<1>8. Delivered(<<>>, 0)
  <2>1. 0 < Len(waves) => Begin[0] < Begin[1]
    <3>1. 0 < Len(waves) => 1 \in 0 .. Len(waves) /\ 0 \in 0 .. Len(waves)
      BY <1>2
    <3>2. QED
      BY <1>1, <3>1, BeginGrows
  <2>2. Ended(0, 0)
    BY <1>2, <2>1 DEF Ended
  <2>3. 0 \in 0 .. Len(waves)
    BY <1>2
  <2>4. QED
    BY <1>7, <2>2, <2>3 DEF Delivered
<1>9. SegState(0, 0) = <<>>
  BY <1>1, <1>2, NoStates
<1>10. Sound
  <2>1. results = <<>> /\ segments = <<>>
    BY DEF AsyncInit
  <2>2. QED
    BY <1>6, <1>8, <1>9, <2>1 DEF Sound
<1>11. QED
  BY <1>1, <1>4, <1>5, <1>10 DEF AsyncInv

LEMMA RunsParts ==
  ASSUME NEW M, NEW s \in Seq(M), NEW p \in Nat, Runs(s, p)
  PROVE  /\ s # <<>> => /\ At(p + 1, Head(s)) /\ Runs(Tail(s), p + 1)
                        /\ Head(s) \in M /\ Tail(s) \in Seq(M) /\ Len(s) \in Nat
                        /\ Len(Tail(s)) = Len(s) - 1 /\ Len(s) >= 1 /\ Head(s) = s[1]
         /\ \A m : At((p + Len(s)) + 1, m) => Runs(Append(s, m), p)
<1>1. PICK n \in Nat : n = Len(s)
  OBVIOUS
<1>2. \A k \in 1 .. n : At(p + k, s[k])
  BY <1>1 DEF Runs
<1>3. ASSUME s # <<>>
      PROVE  /\ At(p + 1, Head(s)) /\ Runs(Tail(s), p + 1)
             /\ Head(s) \in M /\ Tail(s) \in Seq(M)
             /\ Len(Tail(s)) = n - 1 /\ n >= 1 /\ Head(s) = s[1]
  <2>1. PICK h, t : h = Head(s) /\ t = Tail(s)
    OBVIOUS
  <2>2. h = s[1] /\ n >= 1 /\ t \in Seq(M) /\ Len(t) = n - 1 /\ h \in M
        /\ \A k \in 1 .. n - 1 : t[k] = s[k+1]
    BY <1>1, <1>3, <2>1
  <2>3. At(p + 1, h)
    BY <1>2, <2>2
  <2>4. ASSUME NEW k \in 1 .. n - 1 PROVE At((p + 1) + k, t[k])
    <3>1. k + 1 \in 1 .. n /\ (p + 1) + k = p + (k + 1)
      OBVIOUS
    <3>2. At(p + (k + 1), s[k+1])
      BY <1>2, <3>1
    <3>3. QED
      BY <2>2, <3>1, <3>2
  <2>5. Runs(t, p + 1)
    BY <2>2, <2>4 DEF Runs
  <2>6. QED
    BY <2>1, <2>2, <2>3, <2>5
<1>4. ASSUME NEW m, At((p + n) + 1, m) PROVE Runs(Append(s, m), p)
  <2>1. IsList(s)
    BY ListAny
  <2>2. PICK t : t = Append(s, m)
    OBVIOUS
  <2>3. Len(t) = n + 1 /\ (\A k \in 1 .. n : t[k] = s[k]) /\ t[n + 1] = m
    BY <1>1, <2>1, <2>2, ListAppend
  <2>4. ASSUME NEW k \in 1 .. n + 1 PROVE At(p + k, t[k])
    <3>1. CASE k \in 1 .. n
      BY <1>2, <2>3, <3>1
    <3>2. CASE k = n + 1
      <4>1. p + k = (p + n) + 1
        BY <3>2
      <4>2. QED
        BY <1>4, <2>3, <3>2, <4>1
    <3>3. QED
      BY <3>1, <3>2
  <2>5. QED
    BY <2>2, <2>3, <2>4 DEF Runs
<1>5. QED
  BY <1>1, <1>3, <1>4

\* What a step that leaves the results alone leaves of an account.
LEMMA SoundBy ==
  ASSUME WavesKept, waves' = waves, detector' = detector, broken' = broken,
         Sound, results' = results, segments' = segments,
         ~broken /\ Len(waves) > 1 => \A p \in Nat : Flows(p) => Flows(p)'
  PROVE  Sound'
<1>1. SUFFICES ASSUME ~broken, Len(waves) > 1
               PROVE  \E p \in Nat : Flows(p)' /\ Delivered(results, p)' /\ (segments = SegState(p, p))'
  BY DEF Sound
<1>2. PICK p \in Nat : Flows(p) /\ Delivered(results, p) /\ segments = SegState(p, p)
  BY <1>1 DEF Sound
<1>3. Flows(p)'
  BY <1>1, <1>2
<1>4. PICK rs, s : rs = results /\ s = segments
  OBVIOUS
<1>5. Delivered(rs, p)' /\ s = SegState(p, p)'
  BY <1>2, <1>4, SameCall
<1>6. results' = rs /\ segments' = s
  BY <1>4
<1>7. QED
  BY <1>3, <1>5, <1>6

LEMMA SingleKeeps ==
  ASSUME AsyncInv, Single
  PROVE  AsyncInv'
<1>1. waves' = waves /\ detector' = detector /\ Len(waves) = 1
  BY DEF Single, Return, FailAndReturn
<1>2. WavesKept' /\ Messages' = Messages
  BY <1>1, SameCall DEF AsyncInv
<1>3. UNCHANGED taskVars /\ broken' \in BOOLEAN
  BY DEF AsyncInv, Queued, Single, Return, FailAndReturn
<1>4. Queued'
  BY <1>1, <1>2, <1>3 DEF AsyncInv, Queued, taskVars, IsList
<1>5. Quiet' /\ Blamed' /\ Sound'
  BY <1>1, <1>3 DEF AsyncInv, Quiet, Blamed, Sound, taskVars
<1>6. Phases'
  BY <1>1, <1>3 DEF AsyncInv, Quiet, Phases, taskVars
<1>7. QED
  BY <1>2, <1>4, <1>5, <1>6 DEF AsyncInv

LEMMA DetectKeeps ==
  ASSUME AsyncInv, Detect
  PROVE  AsyncInv'
<1>1. waves' = waves /\ detector' = detector
  BY DEF Detect
<1>2. WavesKept' /\ Messages' = Messages /\ Begin' = Begin
  BY <1>1, SameCall DEF AsyncInv
<1>3. Len(waves) \in Nat /\ upcoming \in Jobs
  BY BeginIs DEF AsyncInv, Queued, Detect, Jobs
<1>4. PICK u, t : u = upcoming /\ t = MessagesOf(u)
  OBVIOUS
<1>5. t \in Seq(Messages)
  BY <1>3, <1>4, OrderIs DEF AsyncInv
<1>6. Queued'
  <2>1. toSend' = t /\ upcoming' = u + 1 /\ u + 1 \in 1 .. Len(waves) + 1
    BY <1>3, <1>4 DEF Detect, Jobs
  <2>2. UNCHANGED <<chan, pending, batch, results, broken>>
    BY DEF Detect
  <2>3. QED
    BY <1>1, <1>2, <1>5, <2>1, <2>2 DEF AsyncInv, Queued, IsList
<1>7. Quiet' /\ Blamed'
  BY DEF AsyncInv, Quiet, Blamed, Detect
<1>8. Phases'
  BY DEF AsyncInv, Phases, Detect
<1>9. Sound'
  <2>1. ASSUME NEW p \in Nat, Flows(p) PROVE Flows(p)'
    <3>1. PICK a, b, c, q : /\ a = p + Len(batch) /\ b = a + Len(pending) /\ c = b + Len(chan)
                            /\ q = Begin[u-1]
      OBVIOUS
    <3>2. Len(batch) \in Nat /\ Len(pending) \in Nat /\ Len(chan) \in Nat
      BY DEF AsyncInv, Queued
    <3>3. Len(toSend) = 0
      BY DEF Detect
    <3>4. a + Len(pending) + Len(chan) + Len(toSend) = q
      BY <1>4, <2>1, <3>1 DEF Flows
    <3>5. c = q /\ a \in Nat /\ b \in Nat /\ c \in Nat
      BY <3>1, <3>2, <3>3, <3>4
    <3>6. Runs(batch, p) /\ Runs(pending, a) /\ Runs(chan, b)
      BY <2>1, <3>1, Zenon DEF Flows
    <3>7. Begin[u] = q + Len(t) /\ Len(t) \in Nat
      <4>1. Len(t) \in Nat
        BY <1>5
      <4>2. QED
        BY <1>3, <1>4, <3>1, <4>1, BeginIs DEF AsyncInv
    <3>8. Runs(t, c)
      <4>1. ASSUME NEW k \in 1 .. Len(t) PROVE At(c + k, t[k])
        <5>1. q < q + k /\ q + k <= Begin[u] /\ (q + k) - q = k
          BY <3>5, <3>7
        <5>2. u \in Jobs /\ q = Begin[u-1] /\ t = MessagesOf(u)
          BY <1>3, <1>4, <3>1
        <5>3. QED
          BY <3>5, <5>1, <5>2 DEF At
      <4>2. QED
        BY <4>1 DEF Runs
    <3>9. /\ toSend' = t /\ upcoming' = u + 1 /\ batch' = batch /\ pending' = pending
          /\ chan' = chan
      BY <1>4 DEF Detect
    <3>10. PICK s1, s2, s3 : s1 = batch /\ s2 = pending /\ s3 = chan
      OBVIOUS
    <3>11. Runs(s1, p)' /\ Runs(s2, a)' /\ Runs(s3, b)' /\ Runs(t, c)'
      BY <1>1, <3>6, <3>8, <3>10, SameCall DEF AsyncInv
    <3>12. p + Len(s1) + Len(s2) + Len(s3) + Len(t) = Begin[(u + 1) - 1]
      <4>1. (u + 1) - 1 = u
        BY <1>3, <1>4 DEF Jobs
      <4>2. QED
        BY <3>1, <3>2, <3>5, <3>7, <3>10, <4>1
    <3>13. QED
      <4>1. /\ batch' = s1 /\ pending' = s2 /\ chan' = s3 /\ a = p + Len(s1)
            /\ b = p + Len(s1) + Len(s2) /\ c = p + Len(s1) + Len(s2) + Len(s3)
        BY <3>1, <3>9, <3>10
      <4>2. QED
        BY <1>2, <3>9, <3>11, <3>12, <4>1, Zenon DEF Flows
  <2>2. UNCHANGED <<broken, results, segments>>
    BY DEF Detect
  <2>3. QED
    BY <1>1, <2>1, <2>2, SoundBy DEF AsyncInv
<1>10. QED
  BY <1>2, <1>6, <1>7, <1>8, <1>9 DEF AsyncInv

LEMMA DetectFailsKeeps ==
  ASSUME AsyncInv, DetectFails
  PROVE  AsyncInv'
<1>1. waves' = waves /\ detector' = detector /\ broken' = TRUE /\ vad' = "failed"
  BY DEF DetectFails
<1>2. WavesKept' /\ Messages' = Messages
  BY <1>1, SameCall DEF AsyncInv
<1>3. Queued'
  BY <1>1, <1>2 DEF AsyncInv, Queued, DetectFails, IsList
<1>4. Quiet' /\ Blamed' /\ Sound'
  BY <1>1 DEF AsyncInv, Quiet, Blamed, Sound, DetectFails
<1>5. Phases'
  BY DEF AsyncInv, Phases, DetectFails
<1>6. QED
  BY <1>2, <1>3, <1>4, <1>5 DEF AsyncInv

LEMMA SendKeeps ==
  ASSUME AsyncInv, Send
  PROVE  AsyncInv'
<1>1. waves' = waves /\ detector' = detector
  BY DEF Send
<1>2. WavesKept' /\ Messages' = Messages /\ Begin' = Begin
  BY <1>1, SameCall DEF AsyncInv
<1>3. PICK s, t, h, c : s = toSend /\ t = Tail(toSend) /\ h = Head(toSend) /\ c = Append(chan, h)
  OBVIOUS
<1>4. s \in Seq(Messages) /\ chan \in Seq(Messages) /\ s # <<>>
  BY <1>3 DEF AsyncInv, Queued, Send
<1>5. h \in Messages /\ t \in Seq(Messages) /\ Len(t) = Len(s) - 1 /\ Len(s) \in Nat /\ Len(s) >= 1
  BY <1>3, <1>4
<1>6. c \in Seq(Messages) /\ Len(c) = Len(chan) + 1 /\ Len(chan) \in Nat
  BY <1>3, <1>4, <1>5
<1>7. toSend' = t /\ chan' = c /\ UNCHANGED <<upcoming, pending, batch, results, segments, broken>>
  BY <1>3 DEF Send
<1>8. Queued'
  BY <1>1, <1>2, <1>5, <1>6, <1>7 DEF AsyncInv, Queued, IsList
<1>9. Quiet' /\ Blamed'
  BY DEF AsyncInv, Quiet, Blamed, Send
<1>10. Phases'
  BY DEF AsyncInv, Phases, Send
<1>11. ASSUME NEW p \in Nat, Flows(p) PROVE Flows(p)'
  <2>1. PICK a, b, x : a = p + Len(batch) /\ b = a + Len(pending) /\ x = b + Len(chan)
    OBVIOUS
  <2>2. Len(batch) \in Nat /\ Len(pending) \in Nat
    BY DEF AsyncInv, Queued
  <2>3. a \in Nat /\ b \in Nat /\ x \in Nat
    BY <1>6, <2>1, <2>2
  <2>4. /\ x + Len(s) = Begin[upcoming-1]
        /\ Runs(batch, p) /\ Runs(pending, a) /\ Runs(chan, b) /\ Runs(s, x)
    BY <1>3, <1>11, <2>1, Zenon DEF Flows
  <2>5. At(x + 1, h) /\ Runs(t, x + 1)
    BY <1>3, <1>4, <2>3, <2>4, RunsParts
  <2>6. Runs(c, b)
    BY <1>3, <1>4, <2>1, <2>3, <2>4, <2>5, RunsParts
  <2>7. PICK s1, s2 : s1 = batch /\ s2 = pending
    OBVIOUS
  <2>8. Runs(s1, p)' /\ Runs(s2, a)' /\ Runs(c, b)' /\ Runs(t, x + 1)'
    BY <1>1, <2>4, <2>5, <2>6, <2>7, SameCall DEF AsyncInv
  <2>9. /\ p + Len(s1) = a /\ a + Len(s2) = b /\ b + Len(c) = x + 1
        /\ (x + 1) + Len(t) = Begin[upcoming-1]
    BY <1>5, <1>6, <2>1, <2>3, <2>4, <2>7
  <2>10. batch' = s1 /\ pending' = s2 /\ upcoming' = upcoming
    BY <1>7, <2>7
  <2>11. QED
    BY <1>2, <1>7, <2>8, <2>9, <2>10, Zenon DEF Flows
<1>12. Sound'
  BY <1>1, <1>7, <1>11, SoundBy DEF AsyncInv
<1>13. QED
  BY <1>2, <1>8, <1>9, <1>10, <1>12 DEF AsyncInv

\* Steps that move no message.
LEMMA StillFlows ==
  ASSUME AsyncInv, waves' = waves, detector' = detector, UNCHANGED <<upcoming, toSend, chan, pending, batch>>,
         NEW p \in Nat, Flows(p)
  PROVE  Flows(p)'
<1>1. Begin' = Begin
  BY SameCall DEF AsyncInv
<1>2. PICK s1, s2, s3, s4 : s1 = batch /\ s2 = pending /\ s3 = chan /\ s4 = toSend
  OBVIOUS
<1>3. PICK a, b, c : a = p + Len(batch) /\ b = a + Len(pending) /\ c = b + Len(chan)
  OBVIOUS
<1>4. /\ Runs(s1, p) /\ Runs(s2, a) /\ Runs(s3, b) /\ Runs(s4, c)
      /\ c + Len(s4) = Begin[upcoming-1]
  BY <1>2, <1>3, Zenon DEF Flows
<1>5. Runs(s1, p)' /\ Runs(s2, a)' /\ Runs(s3, b)' /\ Runs(s4, c)'
  BY <1>4, SameCall DEF AsyncInv
<1>6. batch' = s1 /\ pending' = s2 /\ chan' = s3 /\ toSend' = s4 /\ upcoming' = upcoming
  BY <1>2
<1>7. QED
  BY <1>1, <1>2, <1>3, <1>4, <1>5, <1>6, Zenon DEF Flows

\* The steps that end a task, the one that ends a batch, and the answer.
LEMMA EndKeeps ==
  ASSUME AsyncInv, VadDone \/ Collected \/ AsrDone \/ CollectResults \/ UNCHANGED asyncVars
  PROVE  AsyncInv'
<1>1. /\ waves' = waves /\ detector' = detector
      /\ UNCHANGED <<upcoming, toSend, chan, pending, batch, broken, results, segments>>
  BY DEF VadDone, Collected, AsrDone, CollectResults, asyncVars, taskVars
<1>2. WavesKept' /\ Messages' = Messages
  BY <1>1, SameCall DEF AsyncInv
<1>3. Queued'
  BY <1>1, <1>2 DEF AsyncInv, Queued, IsList
<1>4. Len(waves) \in Nat /\ upcoming \in 1 .. Len(waves) + 1
  BY BeginIs DEF AsyncInv, Queued
<1>5. Quiet'
  BY DEF AsyncInv, Quiet, Phases, VadDone, Collected, AsrDone, CollectResults, asyncVars, taskVars
<1>6. Blamed'
  BY DEF AsyncInv, Blamed, VadDone, Collected, AsrDone, CollectResults, asyncVars, taskVars
<1>7. Phases'
  <2>1. CASE VadDone
    BY <1>4, <2>1 DEF AsyncInv, Phases, VadDone
  <2>2. CASE Collected
    BY <2>2 DEF AsyncInv, Phases, Collected
  <2>3. CASE AsrDone
    BY <2>3 DEF AsyncInv, Phases, AsrDone, Closed
  <2>4. CASE CollectResults
    BY <2>4 DEF AsyncInv, Phases, CollectResults, taskVars
  <2>5. CASE UNCHANGED asyncVars
    BY <2>5 DEF AsyncInv, Phases, asyncVars, taskVars
  <2>6. QED
    BY <2>1, <2>2, <2>3, <2>4, <2>5
<1>8. Sound'
  BY <1>1, StillFlows, SoundBy DEF AsyncInv
<1>9. QED
  BY <1>2, <1>3, <1>5, <1>6, <1>7, <1>8 DEF AsyncInv

LEMMA OneRuns ==
  ASSUME NEW p \in Nat, NEW m, At(p + 1, m)
  PROVE  Runs(<<m>>, p)
<1>1. PICK s : s = <<m>>
  OBVIOUS
<1>2. Len(s) = 1 /\ s[1] = m
  BY <1>1
<1>3. Runs(s, p)
  BY <1>2 DEF Runs
<1>4. QED
  BY <1>1, <1>3

LEMMA EmptyRuns == \A p : Runs(<<>>, p)
BY DEF Runs

LEMMA ReceiveKeeps ==
  ASSUME AsyncInv, ReceiveMessage
  PROVE  AsyncInv'
<1>1. waves' = waves /\ detector' = detector
  BY DEF ReceiveMessage
<1>2. WavesKept' /\ Messages' = Messages /\ Begin' = Begin
  BY <1>1, SameCall DEF AsyncInv
<1> DEFINE s == IF pending # <<>> THEN pending ELSE chan
           from == IF pending # <<>> THEN "stash" ELSE "channel"
<1>3. /\ s # <<>> /\ batch' = <<Head(s)>>
      /\ from \in {"stash", "channel"}
      /\ from = "stash" => s = pending /\ pending' = Tail(s) /\ chan' = chan
      /\ from = "channel" => /\ pending = <<>> /\ pending' = pending
                             /\ s = chan /\ chan' = Tail(s)
  <2>1. CASE pending # <<>> /\ batch' = <<Head(pending)>> /\ pending' = Tail(pending) /\ chan' = chan
    BY <2>1
  <2>2. CASE pending = <<>> /\ chan # <<>> /\ batch' = <<Head(chan)>> /\ chan' = Tail(chan) /\ pending' = pending
    BY <2>2
  <2>3. QED
    BY <2>1, <2>2, Zenon DEF ReceiveMessage
<1> HIDE DEF s, from
<1>4. PICK h, t : h = Head(s) /\ t = Tail(s)
  OBVIOUS
<1>5. s \in Seq(Messages) /\ pending \in Seq(Messages) /\ chan \in Seq(Messages) /\ Len(pending) \in Nat
      /\ Len(pending) <= 1
  BY <1>3 DEF AsyncInv, Queued, Phases
<1>6. h \in Messages /\ t \in Seq(Messages) /\ Len(t) = Len(s) - 1 /\ Len(s) \in Nat /\ Len(s) >= 1
      /\ Len(chan) \in Nat
  BY <1>3, <1>4, <1>5
<1>7. /\ asr = "waiting" /\ asr' = "collecting" /\ batch = <<>> /\ batch' = <<h>>
      /\ UNCHANGED <<upcoming, toSend, vad, broken, returned, segments, results>>
  BY <1>3, <1>4 DEF ReceiveMessage, AsyncInv, Phases
<1>8. <<h>> \in Seq(Messages) /\ Len(<<h>>) = 1 /\ <<h>>[1] = h
  BY <1>6
<1>9. pending' \in Seq(Messages) /\ chan' \in Seq(Messages)
  BY <1>3, <1>4, <1>5, <1>6
<1>10. Queued'
  BY <1>1, <1>2, <1>7, <1>8, <1>9 DEF AsyncInv, Queued, IsList
<1>11. Quiet'
  <2>1. Len(waves) <= 1 => pending = <<>> /\ chan = <<>>
    BY DEF AsyncInv, Quiet
  <2>2. ~ (Len(waves) <= 1)
    BY <1>3, <2>1
  <2>3. QED
    BY <1>1, <2>2 DEF Quiet
<1>12. Blamed'
  BY <1>1, <1>7 DEF AsyncInv, Blamed
<1>13. pending' = <<>>
  <2>1. CASE from = "stash"
    <3>1. Len(t) = 0
      BY <1>3, <1>5, <1>6, <2>1
    <3>2. t = <<>>
      BY <1>6, <3>1
    <3>3. QED
      BY <1>3, <1>4, <2>1, <3>2
  <2>2. CASE from = "channel"
    BY <1>3, <2>2
  <2>3. QED
    BY <1>3, <2>1, <2>2
<1>14. Phases'
  <2>1. batch' # <<>> /\ \A k \in 1 .. Len(batch') : batch'[k].kind = batch'[1].kind
    <3>1. \A k \in 1 .. Len(<<h>>) : <<h>>[k].kind = <<h>>[1].kind
      BY <1>8
    <3>2. QED
      BY <1>7, <3>1
  <2>2. Len(pending') <= 1
    BY <1>13
  <2>3. QED
    BY <1>1, <1>7, <1>13, <2>1, <2>2 DEF AsyncInv, Phases
<1>15. ASSUME NEW p \in Nat, Flows(p) PROVE Flows(p)'
  <2>1. PICK b, x : b = p + Len(pending) /\ x = b + Len(chan)
    OBVIOUS
  <2>2. Len(batch) = 0
    BY <1>7
  <2>3. b \in Nat /\ x \in Nat /\ p + Len(batch) = p
    BY <1>5, <1>6, <2>1, <2>2
  <2>4. PICK s4 : s4 = toSend
    OBVIOUS
  <2>5. /\ x + Len(s4) = Begin[upcoming-1]
        /\ Runs(pending, p) /\ Runs(chan, b) /\ Runs(s4, x)
    <3>1. /\ p + Len(batch) + Len(pending) + Len(chan) + Len(toSend) = Begin[upcoming-1]
          /\ Runs(pending, p + Len(batch)) /\ Runs(chan, p + Len(batch) + Len(pending))
          /\ Runs(toSend, p + Len(batch) + Len(pending) + Len(chan))
      BY <1>15, Zenon DEF Flows
    <3>2. QED
      BY <2>1, <2>3, <2>4, <3>1, Zenon
  <2>6. PICK s2, s3 : s2 = pending' /\ s3 = chan'
    OBVIOUS
  <2>7. s2 = <<>> /\ Len(s2) = 0
    BY <1>13, <2>6
  <2>8. Runs(<<h>>, p) /\ Runs(s2, p + 1) /\ Runs(s3, p + 1) /\ (p + 1) + Len(s3) = x
    <3>1. CASE from = "stash"
      <4>1. At(p + 1, h)
        BY <1>3, <1>4, <1>5, <2>5, <3>1, RunsParts
      <4>2. Len(pending) = 1 /\ s3 = chan
        BY <1>3, <1>5, <1>6, <2>6, <3>1
      <4>3. b = p + 1
        BY <2>1, <4>2
      <4>4. QED
        BY <2>1, <2>5, <2>7, <4>1, <4>2, <4>3, OneRuns, EmptyRuns
    <3>2. CASE from = "channel"
      <4>1. pending = <<>> /\ s = chan /\ s3 = t
        BY <1>3, <1>4, <2>6, <3>2
      <4>2. b = p
        <5>1. Len(pending) = 0
          BY <4>1
        <5>2. QED
          BY <2>1, <5>1
      <4>3. At(p + 1, h) /\ Runs(s3, p + 1)
        BY <1>3, <1>4, <1>5, <2>5, <4>1, <4>2, RunsParts
      <4>4. (p + 1) + Len(s3) = x
        BY <1>6, <2>1, <4>1, <4>2
      <4>5. QED
        BY <2>7, <4>3, <4>4, OneRuns, EmptyRuns
    <3>3. QED
      BY <1>3, <3>1, <3>2
  <2>9. Runs(<<h>>, p)' /\ Runs(s2, p + 1)' /\ Runs(s3, p + 1)' /\ Runs(s4, x)'
    BY <1>1, <2>5, <2>8, SameCall DEF AsyncInv
  <2>10. PICK s1 : s1 = <<h>>
    OBVIOUS
  <2>11. p + Len(s1) = p + 1 /\ (p + 1) + Len(s2) = p + 1
    BY <1>8, <2>7, <2>10
  <2>12. /\ batch' = s1 /\ pending' = s2 /\ chan' = s3 /\ toSend' = s4 /\ upcoming' = upcoming
    BY <1>7, <2>4, <2>6, <2>10
  <2>13. QED
    BY <1>2, <2>5, <2>8, <2>9, <2>10, <2>11, <2>12, Zenon DEF Flows
<1>16. Sound'
  BY <1>1, <1>7, <1>15, SoundBy DEF AsyncInv
<1>17. QED
  BY <1>2, <1>10, <1>11, <1>12, <1>14, <1>16 DEF AsyncInv

LEMMA CollectKeeps ==
  ASSUME AsyncInv, Collect
  PROVE  AsyncInv'
<1>1. waves' = waves /\ detector' = detector
  BY DEF Collect
<1>2. WavesKept' /\ Messages' = Messages /\ Begin' = Begin
  BY <1>1, SameCall DEF AsyncInv
<1>3. PICK s, h, t : s = chan /\ h = Head(chan) /\ t = Tail(chan)
  OBVIOUS
<1>4. s \in Seq(Messages) /\ s # <<>> /\ batch \in Seq(Messages) /\ batch # <<>> /\ pending = <<>>
      /\ asr = "collecting"
  BY <1>3 DEF AsyncInv, Queued, Phases, Collect
<1>5. h \in Messages /\ t \in Seq(Messages) /\ Len(t) = Len(s) - 1 /\ Len(s) \in Nat /\ Len(s) >= 1
      /\ Len(batch) \in Nat /\ Len(batch) >= 1
  BY <1>3, <1>4
<1>6. PICK s1 : s1 = Append(batch, h)
  OBVIOUS
<1>7. /\ s1 \in Seq(Messages) /\ Len(s1) = Len(batch) + 1 /\ s1 # <<>>
      /\ \A k \in 1 .. Len(batch) : s1[k] = batch[k]
      /\ s1[Len(batch) + 1] = h
  BY <1>4, <1>5, <1>6
<1>8. PICK s2 : s2 = <<h>>
  OBVIOUS
<1>9. s2 \in Seq(Messages) /\ Len(s2) = 1 /\ s2 = <<h>> \o pending
  BY <1>4, <1>5, <1>8
<1>10. /\ chan' = t /\ UNCHANGED <<upcoming, toSend, vad, broken, returned, segments, results>>
       /\ \/ h.kind = batch[1].kind /\ batch' = s1 /\ asr' = asr /\ pending' = pending
          \/ pending' = s2 /\ asr' = "running" /\ batch' = batch
  BY <1>3, <1>6, <1>9 DEF Collect
<1>11. Queued'
  <2>1. batch' \in Seq(Messages) /\ pending' \in Seq(Messages)
    <3>1. <<>> \in Seq(Messages)
      OBVIOUS
    <3>2. QED
      BY <1>4, <1>7, <1>9, <1>10, <3>1
  <2>2. QED
    BY <1>1, <1>2, <1>5, <1>10, <2>1 DEF AsyncInv, Queued, IsList
<1>12. Quiet'
  <2>1. Len(waves) <= 1 => asr = "waiting"
    BY DEF AsyncInv, Quiet
  <2>2. ~ (Len(waves) <= 1)
    BY <1>4, <2>1
  <2>3. QED
    BY <1>1, <2>2 DEF Quiet
<1>13. Blamed'
  BY <1>1, <1>10 DEF AsyncInv, Blamed
<1>14. Phases'
  <2>1. \A k \in 1 .. Len(batch) : batch[k].kind = batch[1].kind
    BY <1>4 DEF AsyncInv, Phases
  <2>2. batch' # <<>> /\ \A k \in 1 .. Len(batch') : batch'[k].kind = batch'[1].kind
    <3>1. CASE h.kind = batch[1].kind /\ batch' = s1
      <4>1. s1[1] = batch[1]
        BY <1>5, <1>7
      <4>2. \A k \in 1 .. Len(s1) : s1[k].kind = s1[1].kind
        <5>1. SUFFICES ASSUME NEW k \in 1 .. Len(batch) + 1 PROVE s1[k].kind = s1[1].kind
          BY <1>7
        <5>2. CASE k = Len(batch) + 1
          BY <1>7, <3>1, <4>1, <5>2
        <5>3. CASE k # Len(batch) + 1
          <6>1. k \in 1 .. Len(batch)
            BY <1>5, <5>3
          <6>2. QED
            BY <1>7, <2>1, <4>1, <6>1
        <5>4. QED
          BY <5>2, <5>3
      <4>3. QED
        BY <1>7, <3>1, <4>2
    <3>2. CASE batch' = batch
      BY <1>4, <2>1, <3>2
    <3>3. QED
      BY <1>10, <3>1, <3>2
  <2>3. Len(pending') <= 1 /\ (asr' = "collecting" => pending' = <<>>) /\ asr' \in {"collecting", "running"}
    <3>1. CASE asr' = asr /\ pending' = pending
      BY <1>4, <3>1
    <3>2. CASE pending' = s2 /\ asr' = "running"
      BY <1>9, <3>2
    <3>3. QED
      BY <1>10, <3>1, <3>2, Zenon
  <2>4. asr' # "waiting" /\ asr' # "done" /\ asr' \in {"waiting", "collecting", "running", "done"}
    BY <2>3
  <2>5. /\ vad' \in {"running", "done", "failed"} /\ (vad' = "failed" => broken')
        /\ (vad' = "done" => toSend' = <<>> /\ upcoming' = Len(waves') + 1)
        /\ (returned' # NoAnswer => asr' = "done" \/ Len(waves') = 1)
    BY <1>1, <1>4, <1>10 DEF AsyncInv, Phases
  <2>6. QED
    BY <2>2, <2>3, <2>4, <2>5 DEF Phases
<1>15. ASSUME NEW p \in Nat, Flows(p) PROVE Flows(p)'
  <2>1. PICK a, x : a = p + Len(batch) /\ x = a + Len(s)
    OBVIOUS
  <2>2. PICK s0, s4 : s0 = batch /\ s4 = toSend
    OBVIOUS
  <2>3. a \in Nat /\ x \in Nat /\ a + Len(pending) = a
    <3>1. Len(pending) = 0
      BY <1>4
    <3>2. QED
      BY <1>5, <2>1, <3>1
  <2>4. x + Len(s4) = Begin[upcoming-1] /\ Runs(s0, p) /\ Runs(s, a) /\ Runs(s4, x)
    <3>1. /\ p + Len(batch) + Len(pending) + Len(chan) + Len(toSend) = Begin[upcoming-1]
          /\ Runs(batch, p) /\ Runs(chan, p + Len(batch) + Len(pending))
          /\ Runs(toSend, p + Len(batch) + Len(pending) + Len(chan))
      BY <1>15, Zenon DEF Flows
    <3>2. QED
      BY <1>3, <2>1, <2>2, <2>3, <3>1, Zenon
  <2>5. At(a + 1, h) /\ Runs(t, a + 1)
    BY <1>3, <1>4, <2>3, <2>4, RunsParts
  <2>6. Runs(s1, p) /\ Runs(s2, a) /\ Runs(<<>>, a + 1)
    <3>1. Runs(s1, p)
      BY <1>4, <1>6, <2>1, <2>2, <2>4, <2>5, RunsParts
    <3>2. QED
      BY <1>8, <2>3, <2>5, <3>1, OneRuns, EmptyRuns
  <2>7. /\ Runs(s0, p)' /\ Runs(s1, p)' /\ Runs(s2, a)' /\ Runs(<<>>, a + 1)'
        /\ Runs(t, a + 1)' /\ Runs(s4, x)'
    BY <1>1, <2>4, <2>5, <2>6, SameCall DEF AsyncInv
  <2>8. PICK e : e = <<>>
    OBVIOUS
  <2>9. /\ p + Len(s1) = a + 1 /\ (a + 1) + Len(e) = a + 1 /\ (a + 1) + Len(t) = x
        /\ p + Len(s0) = a /\ a + Len(s2) = a + 1
    <3>1. Len(e) = 0
      BY <2>8
    <3>2. QED
      BY <1>5, <1>7, <1>9, <2>1, <2>2, <2>3, <3>1
  <2>10. chan' = t /\ toSend' = s4 /\ upcoming' = upcoming
    BY <1>10, <2>2
  <2>11. CASE batch' = s1 /\ pending' = pending
    <3>1. pending' = e
      BY <1>4, <2>8, <2>11
    <3>2. QED
      BY <1>2, <2>4, <2>7, <2>8, <2>9, <2>10, <2>11, <3>1, Zenon DEF Flows
  <2>12. CASE batch' = batch /\ pending' = s2
    <3>1. batch' = s0
      BY <2>2, <2>12
    <3>2. QED
      BY <1>2, <2>4, <2>7, <2>9, <2>10, <2>12, <3>1, Zenon DEF Flows
  <2>13. QED
    BY <1>10, <2>11, <2>12
<1>16. Sound'
  BY <1>1, <1>10, <1>15, SoundBy DEF AsyncInv
<1>17. QED
  BY <1>2, <1>11, <1>12, <1>13, <1>14, <1>16 DEF AsyncInv

\* What is known of a batch that is recognised.
LEMMA Recognised ==
  ASSUME AsyncInv, asr = "running"
  PROVE  /\ Len(batch) \in Nat /\ Len(batch) >= 1
         /\ Len(waves) \in Nat /\ Len(waves) > 1 /\ Len(waves) # 1 /\ IsList(results)
         /\ \A k \in 1 .. Len(batch) : batch[k].kind = batch[1].kind
<1>1. batch \in Seq(Messages) /\ batch # <<>> /\ IsList(results)
      /\ \A k \in 1 .. Len(batch) : batch[k].kind = batch[1].kind
  BY DEF AsyncInv, Queued, Phases
<1>2. Len(batch) \in Nat /\ Len(batch) >= 1
  BY <1>1
<1>3. Len(waves) \in Nat
  BY BeginIs DEF AsyncInv
<1>4. ~ (Len(waves) <= 1)
  BY DEF AsyncInv, Quiet
<1>5. Len(waves) > 1 /\ Len(waves) # 1
  <2>1. PICK l : l = Len(waves)
    OBVIOUS
  <2>2. l \in Nat /\ ~ (l <= 1)
    BY <1>3, <1>4, <2>1
  <2>3. l > 1 /\ l # 1
    BY <2>2
  <2>4. QED
    BY <2>1, <2>3, Zenon
<1>6. QED
  BY <1>1, <1>2, <1>3, <1>5, Zenon

\* Delivering answers that tell of a failure there was keeps all but the account.
LEMMA DeliverKeeps ==
  ASSUME NEW rs, IsList(rs), AsyncInv, asr = "running", Deliver(rs), broken' \in BOOLEAN,
         broken => broken', broken' => broken \/ \E k \in 1 .. Len(rs) : ~rs[k].ok,
         Sound'
  PROVE  AsyncInv'
<1>1. /\ waves' = waves /\ detector' = detector
      /\ UNCHANGED <<returned, upcoming, toSend, vad, chan, pending>>
      /\ results' = results \o rs /\ batch' = <<>> /\ asr' = "waiting"
  BY DEF Deliver
<1>2. WavesKept' /\ Messages' = Messages
  BY <1>1, SameCall DEF AsyncInv
<1>3. /\ IsList(results \o rs) /\ Len(results) \in Nat /\ Len(rs) \in Nat
      /\ Len(results \o rs) = Len(results) + Len(rs)
      /\ \A k \in 1 .. Len(results) : (results \o rs)[k] = results[k]
      /\ \A k \in 1 .. Len(rs) : (results \o rs)[Len(results) + k] = rs[k]
  <2>1. PICK s : s = results
    OBVIOUS
  <2>2. IsList(s)
    BY <2>1, Recognised
  <2>3. QED
    BY <2>1, <2>2, ListJoin
<1>4. PICK rs0, rs1 : rs0 = results /\ rs1 = results \o rs
  OBVIOUS
<1>5. Queued'
  <2>1. IsList(rs1)' /\ results' = rs1
    BY <1>1, <1>3, <1>4 DEF IsList
  <2>2. <<>> \in Seq(Messages)
    OBVIOUS
  <2>3. IsList(results)'
    BY <2>1 DEF IsList
  <2>4. QED
    BY <1>1, <1>2, <2>2, <2>3 DEF AsyncInv, Queued
<1>6. Quiet'
  BY <1>1, Recognised DEF Quiet
<1>7. Phases'
  BY <1>1 DEF AsyncInv, Phases
<1>8. Blamed'
  <2>1. SUFFICES ASSUME broken', vad # "failed"
                 PROVE  \E k \in 1 .. Len(rs1) : ~rs1[k].ok
    BY <1>1, <1>4 DEF Blamed
  <2>2. CASE broken
    <3>1. PICK k \in 1 .. Len(rs0) : ~rs0[k].ok
      <4>1. Len(waves) # 1
        BY Recognised, Zenon
      <4>2. Blamed
        BY DEF AsyncInv
      <4>3. \E k \in 1 .. Len(results) : ~results[k].ok
        BY <2>1, <2>2, <4>1, <4>2, Zenon DEF Blamed
      <4>4. QED
        BY <1>4, <4>3, Zenon
    <3>2. k \in 1 .. Len(rs1) /\ rs1[k] = rs0[k]
      BY <1>3, <1>4, <3>1
    <3>3. QED
      BY <3>1, <3>2
  <2>3. CASE ~broken
    <3>1. PICK k \in 1 .. Len(rs) : ~rs[k].ok
      BY <2>1, <2>3
    <3>2. PICK j : j = Len(results) + k
      OBVIOUS
    <3>3. j \in 1 .. Len(rs1) /\ rs1[j] = rs[k]
      BY <1>3, <1>4, <3>1, <3>2
    <3>4. QED
      BY <3>1, <3>3
  <2>4. QED
    BY <2>2, <2>3
<1>9. QED
  BY <1>2, <1>5, <1>6, <1>7, <1>8 DEF AsyncInv

\* The account after a batch that is answered.
LEMMA SoundAfter ==
  ASSUME NEW rs, AsyncInv, asr = "running", Deliver(rs), broken' = broken,
         NEW n \in Nat, n = Len(batch), NEW after, after = segments',
         \A p \in Nat : Runs(batch, p) /\ Delivered(results, p) /\ segments = SegState(p, p) =>
           Delivered(results \o rs, p + n) /\ after = SegState(p + n, p + n)
  PROVE  Sound'
<1>1. /\ waves' = waves /\ detector' = detector
      /\ UNCHANGED <<upcoming, toSend, chan, pending>>
      /\ results' = results \o rs /\ batch' = <<>>
  BY DEF Deliver
<1>2. SUFFICES ASSUME ~broken
               PROVE  \E p \in Nat : Flows(p)' /\ Delivered(results, p)' /\ (segments = SegState(p, p))'
  BY DEF Sound
<1>3. PICK p \in Nat : Flows(p) /\ Delivered(results, p) /\ segments = SegState(p, p)
  BY <1>2, Recognised DEF AsyncInv, Sound
<1>4. PICK s2, s3, s4, e : s2 = pending /\ s3 = chan /\ s4 = toSend /\ e = <<>>
  OBVIOUS
<1>5. PICK q \in Nat : q = p + n
  OBVIOUS
<1>6. PICK b, c : b = q + Len(s2) /\ c = b + Len(s3)
  OBVIOUS
<1>7. /\ Runs(batch, p) /\ Runs(s2, q) /\ Runs(s3, b) /\ Runs(s4, c)
      /\ c + Len(s4) = Begin[upcoming-1]
  BY <1>3, <1>4, <1>5, <1>6, Zenon DEF Flows
<1>8. PICK rs1 : rs1 = results \o rs
  OBVIOUS
<1>9. Delivered(rs1, q) /\ after = SegState(q, q)
  <2>1. Delivered(results \o rs, p + n) /\ after = SegState(p + n, p + n)
    BY <1>3, <1>7
  <2>2. QED
    BY <1>5, <1>8, <2>1, Zenon
<1>10. /\ Runs(s2, q)' /\ Runs(s3, b)' /\ Runs(s4, c)' /\ Delivered(rs1, q)'
       /\ after = SegState(q, q)' /\ Begin' = Begin
  BY <1>1, <1>7, <1>9, SameCall DEF AsyncInv
<1>11. Runs(e, q)'
  BY <1>4, EmptyRuns DEF Runs
<1>12. q + Len(e) = q
  BY <1>4
<1>13. batch' = e /\ pending' = s2 /\ chan' = s3 /\ toSend' = s4 /\ upcoming' = upcoming
       /\ results' = rs1
  BY <1>1, <1>4, <1>8
<1>14. Flows(q)'
  BY <1>6, <1>7, <1>10, <1>11, <1>12, <1>13, Zenon DEF Flows
<1>15. Delivered(results, q)' /\ (segments = SegState(q, q))'
  BY <1>10, <1>13, Zenon
<1>16. QED
  BY <1>14, <1>15

LEMMA RunJobsKeeps ==
  ASSUME AsyncInv, RunJobs
  PROVE  AsyncInv'
<1>1. PICK n : n = Len(batch)
  OBVIOUS
<1>2. asr = "running" /\ batch[1].kind = "job" /\ broken' = broken /\ segments' = segments
  BY DEF RunJobs
<1>3. n \in Nat /\ n >= 1 /\ \A k \in 1 .. n : batch[k].kind = "job"
  <2>1. /\ Len(batch) \in Nat /\ Len(batch) >= 1
        /\ \A k \in 1 .. Len(batch) : batch[k].kind = batch[1].kind
    BY <1>2, Recognised, Zenon
  <2>2. QED
    BY <1>1, <1>2, <2>1, Zenon
<1>4. PICK rs : rs = [k \in 1 .. n |-> Ready(batch[k].index, JobLine(batch[k]))]
  OBVIOUS
<1>5. Deliver(rs)
  BY <1>1, <1>4, Zenon DEF RunJobs, JobLine
<1>6. IsList(rs)
  <2>1. rs = [k \in 1 .. n |-> rs[k]]
    BY <1>4
  <2>2. QED
    BY <1>3, <2>1, ListOf
<1>7. ASSUME NEW p \in Nat, Runs(batch, p), Delivered(results, p), segments = SegState(p, p)
      PROVE  Delivered(results \o rs, p + n) /\ segments = SegState(p + n, p + n)
  <2>1. IsList(results) /\ WavesKept
    BY DEF AsyncInv, Queued
  <2>2. /\ Delivered(results \o rs, p + n)
        /\ SegState(p, p) = <<>> /\ SegState(p + n, p + n) = <<>>
    BY <1>1, <1>3, <1>4, <1>7, <2>1, JobsRun
  <2>3. QED
    BY <1>7, <2>2, Zenon
<1>8. PICK after : after = segments
  OBVIOUS
<1>9. Sound'
  BY <1>1, <1>2, <1>3, <1>5, <1>7, <1>8, SoundAfter
<1>10. broken \in BOOLEAN
  BY DEF AsyncInv, Queued
<1>11. QED
  BY <1>2, <1>5, <1>6, <1>9, <1>10, DeliverKeeps

LEMMA RunJobsFailsKeeps ==
  ASSUME AsyncInv, RunJobsFails \/ RunJobsPanics
  PROVE  AsyncInv'
<1>1. PICK n : n = Len(batch)
  OBVIOUS
<1>2. asr = "running" /\ broken' = TRUE
  BY DEF RunJobsFails, RunJobsPanics
<1>3. n \in Nat
  BY <1>1, <1>2, Recognised, Zenon
<1>4. Sound'
  BY <1>2 DEF Sound
<1>5. \A i : Failed(i).ok = FALSE
  BY DEF Failed
<1>6. CASE RunJobsFails
  <2>1. PICK rs : rs = [k \in 1 .. n |-> IF Silent(batch[k]) THEN Ready(batch[k].index, <<>>)
                                        ELSE Failed(batch[k].index)]
    OBVIOUS
  <2>2. Deliver(rs)
    BY <1>1, <1>6, <2>1, Zenon DEF RunJobsFails
  <2>3. IsList(rs) /\ Len(rs) = n
    <3>1. rs = [k \in 1 .. n |-> rs[k]]
      BY <2>1
    <3>2. QED
      BY <1>3, <3>1, ListOf
  <2>4. PICK k \in 1 .. n : ~Silent(batch[k])
    BY <1>1, <1>6, Zenon DEF RunJobsFails
  <2>5. rs[k] = Failed(batch[k].index)
    BY <2>1, <2>4
  <2>6. ~rs[k].ok
    BY <1>5, <2>5
  <2>7. \E j \in 1 .. Len(rs) : ~rs[j].ok
    BY <2>3, <2>4, <2>6
  <2>8. QED
    BY <1>2, <1>4, <2>2, <2>3, <2>7, DeliverKeeps
<1>7. CASE RunJobsPanics
  <2>1. PICK x, rs : x = Failed(1) /\ rs = <<x>>
    OBVIOUS
  <2>2. Deliver(rs)
    BY <1>7, <2>1, Zenon DEF RunJobsPanics
  <2>3. ~x.ok
    BY <1>5, <2>1
  <2>4. rs \in Seq({x}) /\ Len(rs) = 1 /\ rs[1] = x
    BY <2>1
  <2>5. IsList(rs) /\ 1 \in 1 .. Len(rs) /\ ~rs[1].ok
    BY <2>3, <2>4, ListAny
  <2>6. \E j \in 1 .. Len(rs) : ~rs[j].ok
    BY <2>5, Zenon
  <2>7. QED
    BY <1>2, <1>4, <2>2, <2>5, <2>6, DeliverKeeps
<1>8. QED
  BY <1>6, <1>7

LEMMA RunSegmentsKeeps ==
  ASSUME AsyncInv, RunSegments
  PROVE  AsyncInv'
<1>1. PICK n : n = Len(batch)
  OBVIOUS
<1>2. asr = "running" /\ batch[1].kind = "segment" /\ broken' = broken
  BY DEF RunSegments
<1>3. n \in Nat /\ n >= 1 /\ \A k \in 1 .. n : batch[k].kind = "segment"
  <2>1. /\ Len(batch) \in Nat /\ Len(batch) >= 1
        /\ \A k \in 1 .. Len(batch) : batch[k].kind = batch[1].kind
    BY <1>2, Recognised, Zenon
  <2>2. QED
    BY <1>1, <1>2, <2>1, Zenon
<1>4. PICK acc : acc = FinishedAll(OpenedAll) /\ Deliver(acc.ready) /\ segments' = acc.jobs
  BY Zenon DEF RunSegments
<1>5. PICK rs : rs = acc.ready
  OBVIOUS
<1>6. IsList(rs) /\ Deliver(rs)
  <2>1. Len(batch) \in Nat
    BY <1>1, <1>3
  <2>2. IsList(FinishedAll(OpenedAll).ready)
    BY <2>1, ReadyList
  <2>3. QED
    BY <1>4, <1>5, <2>2, Zenon
<1>7. PICK after : after = acc.jobs
  OBVIOUS
<1>8. ASSUME NEW p \in Nat, Runs(batch, p), Delivered(results, p), segments = SegState(p, p)
      PROVE  Delivered(results \o rs, p + n) /\ after = SegState(p + n, p + n)
  <2>1. IsList(results) /\ WavesKept
    BY DEF AsyncInv, Queued
  <2>2. PICK more : /\ FinishedAll(OpenedAll) = [jobs |-> SegState(p + n, p + n), ready |-> more]
                    /\ IsList(more) /\ Delivered(results \o more, p + n)
    BY <1>1, <1>3, <1>8, <2>1, SegmentsRun
  <2>3. PICK st : st = SegState(p + n, p + n)
    OBVIOUS
  <2>4. acc = [jobs |-> st, ready |-> more]
    BY <1>4, <2>2, <2>3, Zenon
  <2>5. acc.jobs = st /\ acc.ready = more
    BY <2>4
  <2>6. QED
    BY <1>5, <1>7, <2>2, <2>3, <2>5, Zenon
<1>9. segments' = after
  BY <1>4, <1>7
<1>10. Sound'
  BY <1>1, <1>2, <1>3, <1>6, <1>8, <1>9, SoundAfter
<1>11. broken \in BOOLEAN
  BY DEF AsyncInv, Queued
<1>12. QED
  BY <1>2, <1>6, <1>10, <1>11, DeliverKeeps

LEMMA RunSegmentsFailsKeeps ==
  ASSUME AsyncInv, RunSegmentsFails
  PROVE  AsyncInv'
<1>1. asr = "running" /\ broken' = TRUE
  BY DEF RunSegmentsFails
<1>2. PICK n : n = Len(batch)
  OBVIOUS
<1>3. n \in Nat /\ n >= 1
  BY <1>1, <1>2, Recognised, Zenon
<1>4. PICK affected, order :
        /\ affected = {batch[k].index : k \in 1 .. n}
        /\ order \in [1 .. Cardinality(affected) -> affected]
        /\ {order[k] : k \in DOMAIN order} = affected
        /\ Deliver([k \in DOMAIN order |-> Failed(order[k])])
  BY <1>2, Zenon DEF RunSegmentsFails
<1>5. PICK c : c = Cardinality(affected)
  OBVIOUS
<1>6. c \in Nat
  <2> DEFINE f == [k \in 1 .. n |-> batch[k].index]
  <2>1. f \in Surjection(1 .. n, affected)
    BY <1>4 DEF Surjection
  <2>2. IsFiniteSet(1 .. n)
    BY <1>3, FS_Interval
  <2> HIDE DEF f
  <2>3. IsFiniteSet(affected)
    BY <2>1, <2>2, FS_Surjection
  <2>4. QED
    BY <1>5, <2>3, FS_CardinalityType
<1>7. DOMAIN order = 1 .. c
  BY <1>4, <1>5
<1>8. PICK rs : rs = [k \in 1 .. c |-> Failed(order[k])]
  OBVIOUS
<1>9. Deliver(rs)
  BY <1>4, <1>7, <1>8, Zenon
<1>10. IsList(rs) /\ Len(rs) = c
  <2>1. rs = [k \in 1 .. c |-> rs[k]]
    BY <1>8
  <2>2. QED
    BY <1>6, <2>1, ListOf
<1>11. \E k \in 1 .. Len(rs) : ~rs[k].ok
  <2>1. 1 \in 1 .. n
    BY <1>3
  <2>2. batch[1].index \in affected
    BY <1>4, <2>1
  <2>3. PICK k \in 1 .. c : order[k] = batch[1].index
    BY <1>4, <1>7, <2>2
  <2>4. rs[k] = Failed(order[k])
    BY <1>8
  <2>5. ~rs[k].ok
    BY <2>4 DEF Failed
  <2>6. QED
    BY <1>10, <2>5
<1>12. Sound'
  BY <1>1 DEF Sound
<1>13. QED
  BY <1>1, <1>9, <1>10, <1>11, <1>12, DeliverKeeps

LEMMA AsyncKeeps == AsyncInv /\ [AsyncNext]_asyncVars => AsyncInv'
<1> SUFFICES ASSUME AsyncInv, [AsyncNext]_asyncVars PROVE AsyncInv'
  OBVIOUS
<1>1. CASE Single
  BY <1>1, SingleKeeps
<1>2. CASE Detect
  BY <1>2, DetectKeeps
<1>3. CASE DetectFails
  BY <1>3, DetectFailsKeeps
<1>4. CASE Send
  BY <1>4, SendKeeps
<1>5. CASE ReceiveMessage
  BY <1>5, ReceiveKeeps
<1>6. CASE Collect
  BY <1>6, CollectKeeps
<1>7. CASE RunJobs
  BY <1>7, RunJobsKeeps
<1>8. CASE RunJobsFails \/ RunJobsPanics
  BY <1>8, RunJobsFailsKeeps
<1>9. CASE RunSegments
  BY <1>9, RunSegmentsKeeps
<1>10. CASE RunSegmentsFails
  BY <1>10, RunSegmentsFailsKeeps
<1>11. CASE VadDone \/ Collected \/ AsrDone \/ CollectResults \/ UNCHANGED asyncVars
  BY <1>11, EndKeeps
<1>12. QED
  BY <1>1, <1>2, <1>3, <1>4, <1>5, <1>6, <1>7, <1>8, <1>9, <1>10, <1>11, Zenon
     DEF AsyncNext, VadTask, AsrTask, CallerTask

LEMMA AsyncAlways == AsyncSpec => []AsyncInv
BY AsyncFirst, AsyncKeeps, PTL DEF AsyncSpec

\* The place of the result collected as the r-th.
Place(rs, r) ==
  CHOOSE k \in DOMAIN rs :
    Cardinality({j \in DOMAIN rs :
        \/ rs[j].index < rs[k].index
        \/ rs[j].index = rs[k].index /\ j < k}) = r - 1

\* Results that come in order are collected in order.
LEMMA InPlace ==
  ASSUME NEW n \in Nat, NEW rs, DOMAIN rs = 1 .. n, \A k \in 1 .. n : rs[k].index = k,
         NEW r \in 1 .. n
  PROVE  Place(rs, r) = r
<1> DEFINE Before(k) == {j \in DOMAIN rs : \/ rs[j].index < rs[k].index
                                           \/ rs[j].index = rs[k].index /\ j < k}
           Found(k) == Cardinality(Before(k)) = r - 1
<1>1. ASSUME NEW k \in 1 .. n PROVE Cardinality(Before(k)) = k - 1
  <2>1. Before(k) = 1 .. k - 1
    OBVIOUS
  <2>2. Cardinality(1 .. k - 1) = k - 1
    BY FS_Interval
  <2>3. QED
    BY <2>1, <2>2
<1>2. \A k \in DOMAIN rs : Found(k) <=> k = r
  BY <1>1
<1>3. r \in DOMAIN rs
  OBVIOUS
<1> HIDE DEF Found
<1>4. (CHOOSE k \in DOMAIN rs : Found(k)) = r
  BY <1>2, <1>3, Zenon
<1>5. QED
  BY <1>4, Zenon DEF Found, Place

\* What a call returns, once both tasks have ended.
CallAnswer == IF broken THEN Error ELSE Timelines([i \in 1 .. Len(waves) |-> TimelineOf(waves[i])])

LEMMA CollectedAre ==
  ASSUME AsyncInv, CollectResults
  PROVE  returned' = CallAnswer
<1>1. asr = "done"
  BY DEF CollectResults
<1>2. PICK n : n = Len(waves)
  OBVIOUS
<1>3. n \in Nat /\ WavesKept
  BY <1>2, BeginIs DEF AsyncInv
<1>4. ~ (n <= 1)
  BY <1>1, <1>2 DEF AsyncInv, Quiet
<1>5. n > 1 /\ n # 1
  BY <1>3, <1>4
<1>6. IsList(results) /\ DOMAIN results = 1 .. Len(results)
  <2>1. PICK S, s : s = results /\ s \in Seq(S)
    BY DEF AsyncInv, Queued, IsList
  <2>2. DOMAIN s = 1 .. Len(s)
    BY <2>1
  <2>3. QED
    BY <2>1, <2>2, Zenon DEF AsyncInv, Queued
<1>7. CASE broken
  <2>1. vad = "failed" \/ \E k \in 1 .. Len(results) : ~results[k].ok
    BY <1>2, <1>5, <1>7, Zenon DEF AsyncInv, Blamed
  <2>2. vad = "failed" \/ \E k \in DOMAIN results : ~results[k].ok
    BY <1>6, <2>1, Zenon
  <2>3. returned' = Error
    BY <2>2, Zenon DEF CollectResults
  <2>4. QED
    BY <1>7, <2>3 DEF CallAnswer
<1>8. CASE ~broken
  <2>1. vad = "done"
    BY <1>1, <1>8 DEF AsyncInv, Phases
  <2>2. toSend = <<>> /\ batch = <<>> /\ pending = <<>> /\ chan = <<>> /\ upcoming = n + 1
    BY <1>1, <1>2, <2>1 DEF AsyncInv, Phases
  <2>3. PICK p \in Nat : Flows(p) /\ Delivered(results, p)
    BY <1>2, <1>5, <1>8 DEF AsyncInv, Sound
  <2>4. PICK e : e = <<>>
    OBVIOUS
  <2>5. Len(e) = 0 /\ upcoming - 1 = n
    BY <1>3, <2>2, <2>4
  <2>6. p + Len(e) + Len(e) + Len(e) + Len(e) = Begin[upcoming-1]
    BY <2>2, <2>3, <2>4, Zenon DEF Flows
  <2>7. p = Begin[n]
    BY <2>5, <2>6
  <2>8. PICK d \in 0 .. n : Ended(d, p) /\ results = Answers(d)
    BY <1>2, <2>3 DEF Delivered
  <2>9. n \in 0 .. n
    BY <1>3
  <2>10. d = n
    BY <1>2, <1>3, <2>7, <2>8, <2>9, EndedAt
  <2>11. PICK rs : rs = results
    OBVIOUS
  <2>12. rs = [r \in 1 .. n |-> Ready(r, TimelineOf(waves[r]))]
    BY <2>8, <2>10, <2>11, Zenon DEF Answers
  <2>13. DOMAIN rs = 1 .. n /\ Len(rs) = n
    <3>1. Len(Answers(n)) = n
      BY <1>3, AnswersAre
    <3>2. QED
      BY <2>8, <2>10, <2>11, <2>12, <3>1
  <2>14. ASSUME NEW r \in 1 .. n
         PROVE  rs[r].ok = TRUE /\ rs[r].index = r /\ rs[r].timeline = TimelineOf(waves[r])
    <3>1. PICK t : t = TimelineOf(waves[r])
      OBVIOUS
    <3>2. rs[r] = [index |-> r, ok |-> TRUE, timeline |-> t]
      BY <2>12, <3>1 DEF Ready
    <3>3. QED
      BY <3>1, <3>2
  <2>15. \A r \in 1 .. n : Place(results, r) = r
    <3>1. DOMAIN results = 1 .. n
      BY <2>11, <2>13, Zenon
    <3>2. \A k \in 1 .. n : results[k].index = k
      BY <2>11, <2>14, Zenon
    <3>3. QED
      BY <1>3, <3>1, <3>2, InPlace, Zenon
  <2>16. returned' = Timelines([r \in 1 .. Len(results) |-> results[Place(results, r)].timeline])
    <3>1. ~ (vad = "failed" \/ \E k \in DOMAIN rs : ~rs[k].ok)
      BY <2>1, <2>13, <2>14
    <3>2. ~ (vad = "failed" \/ \E k \in DOMAIN results : ~results[k].ok)
      BY <2>11, <3>1, Zenon
    <3>3. QED
      BY <3>2, Zenon DEF CollectResults, Place
  <2>17. \A r \in 1 .. n : results[Place(results, r)].timeline = TimelineOf(waves[r])
    BY <2>11, <2>14, <2>15
  <2>18. [r \in 1 .. Len(results) |-> results[Place(results, r)].timeline] = [i \in 1 .. n |-> TimelineOf(waves[i])]
    <3>1. Len(results) = n
      BY <2>11, <2>13, Zenon
    <3>2. QED
      BY <2>17, <3>1, Zenon
  <2>19. QED
    BY <1>2, <1>8, <2>16, <2>18, Zenon DEF CallAnswer
<1>9. QED
  BY <1>7, <1>8

\* What the caller sees of a step.
LEMMA StepAsCalled ==
  ASSUME AsyncInv, [AsyncNext]_asyncVars
  PROVE  [CallNext]_callVars
<1>1. CASE Single
  BY <1>1 DEF Single, CallNext
<1>2. CASE CollectResults
  BY <1>2, CollectedAre DEF CollectResults, CallAnswer, CallNext, Return
<1>3. CASE DetectFails \/ RunJobsFails \/ RunJobsPanics \/ RunSegmentsFails
  <2>1. returned = NoAnswer
    <3>1. asr # "done" /\ Len(waves) # 1
      <4>1. CASE DetectFails
        <5>1. Len(waves) > 1 /\ vad = "running"
          BY <4>1 DEF DetectFails
        <5>2. PICK l \in Nat : l = Len(waves)
          BY BeginIs DEF AsyncInv
        <5>3. l # 1
          BY <5>1, <5>2
        <5>4. asr # "done"
          BY <5>1 DEF AsyncInv, Phases
        <5>5. QED
          BY <5>2, <5>3, <5>4, Zenon
      <4>2. CASE RunJobsFails \/ RunJobsPanics \/ RunSegmentsFails
        <5>1. asr = "running"
          BY <4>2 DEF RunJobsFails, RunJobsPanics, RunSegmentsFails
        <5>2. Len(waves) # 1
          BY <5>1, Recognised, Zenon
        <5>3. QED
          BY <5>1, <5>2
      <4>3. QED
        BY <1>3, <4>1, <4>2
    <3>2. QED
      BY <3>1 DEF AsyncInv, Phases
  <2>2. broken' = TRUE /\ UNCHANGED <<detector, waves, returned>>
    BY <1>3 DEF DetectFails, RunJobsFails, RunJobsPanics, RunSegmentsFails, Deliver
  <2>3. CASE broken
    <3>1. broken = TRUE
      BY <2>3 DEF AsyncInv, Queued
    <3>2. QED
      BY <2>2, <3>1 DEF callVars
  <2>4. CASE ~broken
    BY <2>1, <2>2, <2>4 DEF CallNext, ModelFails
  <2>5. QED
    BY <2>3, <2>4
<1>4. CASE \/ Detect \/ Send \/ VadDone \/ ReceiveMessage \/ Collect \/ Collected \/ RunJobs
           \/ RunSegments \/ AsrDone \/ UNCHANGED asyncVars
  <2>1. UNCHANGED <<detector, waves, broken, returned>>
    BY <1>4 DEF Detect, Send, VadDone, ReceiveMessage, Collect, Collected, RunJobs, RunSegments,
                AsrDone, Deliver, asyncVars
  <2>2. QED
    BY <2>1 DEF callVars
<1>5. QED
  BY <1>1, <1>2, <1>3, <1>4, Zenon DEF AsyncNext, VadTask, AsrTask, CallerTask

\* Whatever is batched with what, and whatever fails and when, the tasks give the caller what
\* OfflinePipeline would (AsyncOfflinePipeline::transcribe_many).
THEOREM TasksAsCalled == AsyncSpec => AsCalled
<1>1. AsyncInit => broken = FALSE /\ returned = NoAnswer
  BY DEF AsyncInit, CallInit
<1>2. AsyncInv /\ [AsyncNext]_asyncVars => [CallNext]_callVars
  BY StepAsCalled
<1>3. QED
  BY <1>1, <1>2, AsyncAlways, PTL DEF AsyncSpec, AsCalled, CallSpec
================================================================================
