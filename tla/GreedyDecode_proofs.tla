-------------------------- MODULE GreedyDecode_proofs ---------------------------
(***************************************************************************)
(* Proofs about decoding, for every model, every batch of prompts and      *)
(* every pool of blocks.                                                   *)
(***************************************************************************)
EXTENDS GreedyDecode, AudioLengths, PagedBlocks_proofs, FiniteSetTheorems,
        WellFoundedInduction

--------------------------------------------------------------------------------
\* The pool under the calls of the paged engine.

\* One row's turn in AllocateRows.
AllocateNext(was, i, rows, tokens) ==
  IF i \notin rows THEN was
  ELSE IF was.ok /\ CanAllocate(was.mgr, Id(i), tokens[i])
       THEN [mgr |-> Allocate(was.mgr, Id(i), tokens[i]), ok |-> TRUE]
       ELSE [mgr |-> was.mgr, ok |-> FALSE]

AllocateRun(f, m, rows, n, tokens) ==
  /\ f \in [0 .. n -> [mgr : Managers, ok : BOOLEAN]]
  /\ f[0] = [mgr |-> m, ok |-> TRUE]
  /\ \A k \in 1 .. n : f[k] = AllocateNext(f[k-1], k, rows, tokens)
  /\ AllocateRows(m, rows, tokens) = f[n]

\* AllocateRows gives the rows their turns.
LEMMA AllocateRowsIs ==
  ASSUME NEW m, Partitioned(m), NEW rows, NEW n \in Nat, NEW tokens \in [1 .. n -> Nat],
         \A i \in 1 .. n : Id(i) \in RequestIds
  PROVE  \E f : AllocateRun(f, m, rows, n, tokens)
<1> DEFINE V       == [mgr : Managers, ok : BOOLEAN]
           start   == [mgr |-> m, ok |-> TRUE]
           Then    == {p \in (1 .. n) \X V \X V : p[3] = AllocateNext(p[2], p[1], rows, tokens)}
           R(f)    == f = [k \in 0 .. n |->
                             IF k = 0 THEN start
                             ELSE IF k \notin rows THEN f[k-1]
                             ELSE LET was == f[k-1]
                                  IN IF was.ok /\ CanAllocate(was.mgr, Id(k), tokens[k])
                                     THEN [mgr |-> Allocate(was.mgr, Id(k), tokens[k]), ok |-> TRUE]
                                     ELSE [mgr |-> was.mgr, ok |-> FALSE]]
           after   == CHOOSE f : R(f)
<1>1. Len(tokens) = n
  OBVIOUS
<1>2. AllocateRows(m, rows, tokens) = after[n]
  BY <1>1, Zenon DEF AllocateRows
<1>3. start \in V
  BY InManagers
<1>4. ASSUME NEW i \in 1 .. n, NEW was \in V
      PROVE  AllocateNext(was, i, rows, tokens) \in V
  <2>1. Partitioned(was.mgr) /\ was.ok \in BOOLEAN /\ was.mgr \in Managers
    BY InManagers
  <2>2. Id(i) \in RequestIds /\ tokens[i] \in Nat
    OBVIOUS
  <2>3. Allocate(was.mgr, Id(i), tokens[i]) \in Managers
    BY <2>1, <2>2, AllocateKeeps, InManagers
  <2>4. QED
    BY <2>1, <2>3 DEF AllocateNext
<1>5. Steps(n, V, start, Then)
  <2> HIDE DEF V, start
  <2>1. QED
    BY <1>3, <1>4 DEF Steps
<1> HIDE DEF V, start, Then
<1>6. PICK f : RunThrough(f, n, V, start, Then)
  BY <1>5, Iterates
<1>7. ASSUME NEW k \in 1 .. n PROVE f[k] = AllocateNext(f[k-1], k, rows, tokens)
  <2>1. <<k, f[k-1], f[k]>> \in Then
    BY <1>6 DEF RunThrough
  <2>2. QED
    BY <2>1 DEF Then
<1>8. R(f)
  <2>1. ASSUME NEW k \in 0 .. n, k # 0
        PROVE  f[k] = IF k \notin rows THEN f[k-1]
                      ELSE IF f[k-1].ok /\ CanAllocate(f[k-1].mgr, Id(k), tokens[k])
                           THEN [mgr |-> Allocate(f[k-1].mgr, Id(k), tokens[k]), ok |-> TRUE]
                           ELSE [mgr |-> f[k-1].mgr, ok |-> FALSE]
    <3>1. k \in 1 .. n
      BY <2>1
    <3>2. QED
      BY <3>1, <1>7, Zenon DEF AllocateNext
  <2>2. f[0] = start /\ f = [k \in 0 .. n |-> f[k]]
    BY <1>6 DEF RunThrough
  <2>3. QED
    BY <2>1, <2>2
<1>9. R(after)
  <2> HIDE DEF R
  <2>1. QED
    BY <1>8
<1> HIDE DEF after
<1>10. /\ DOMAIN after = 0 .. n /\ after[0] = start
       /\ \A k \in 1 .. n : after[k] = AllocateNext(after[k-1], k, rows, tokens)
  <2>1. DOMAIN after = 0 .. n
    BY <1>9
  <2>2. after[0] = start
    <3>1. 0 \in 0 .. n
      OBVIOUS
    <3>2. QED
      BY <1>9, <3>1, Zenon
  <2>3. ASSUME NEW k \in 1 .. n PROVE after[k] = AllocateNext(after[k-1], k, rows, tokens)
    <3>1. k \in 0 .. n /\ k # 0
      OBVIOUS
    <3>2. QED
      BY <1>9, <3>1, Zenon DEF AllocateNext
  <2>4. QED
    BY <2>1, <2>2, <2>3
<1>11. \A k \in 0 .. n : after[k] = f[k]
  <2> DEFINE S == {k \in 0 .. n : after[k] = f[k]}
  <2>1. 0 \in S
    BY <1>6, <1>10 DEF RunThrough
  <2>2. ASSUME NEW k \in 1 .. n, k - 1 \in S PROVE k \in S
    <3>1. after[k-1] = f[k-1]
      BY <2>2
    <3>2. after[k] = f[k]
      BY <3>1, <1>7, <1>10, Zenon
    <3>3. QED
      BY <3>2
  <2> HIDE DEF S
  <2>3. \A k \in 0 .. n : k \in S
    BY <2>1, <2>2, UpTo
  <2>4. QED
    BY <2>3 DEF S
<1>12. AllocateRows(m, rows, tokens) = f[n]
  <2>1. n \in 0 .. n
    OBVIOUS
  <2>2. QED
    BY <2>1, <1>2, <1>11
<1>13. QED
  BY <1>6, <1>7, <1>12, Zenon DEF V, start, RunThrough, AllocateRun

\* Of tables that only shrink, too.
LEMMA SameThroughTrims ==
  ASSUME NEW a, NEW b, NEW c, IsManager(a), IsManager(b), IsManager(c),
         SameEntries(a, b), SameEntries(b, c),
         DOMAIN c.table \subseteq DOMAIN b.table,
         \A r \in DOMAIN c.table : Held(c, r) <= Held(b, r)
  PROVE  SameEntries(a, c)
<1> SUFFICES ASSUME NEW r \in DOMAIN a.table \cap DOMAIN c.table,
                    NEW x \in DOMAIN a.table[r] \cap DOMAIN c.table[r]
             PROVE  c.table[r][x] = a.table[r][x]
  BY DEF SameEntries
<1>1. r \in DOMAIN b.table /\ Len(c.table[r]) <= Len(b.table[r])
  BY DEF Held, BlocksOf
<1>2. c.table[r] \in Seq(Blocks) /\ b.table[r] \in Seq(Blocks)
  BY <1>1 DEF IsManager
<1>3. x \in DOMAIN b.table[r]
  BY <1>1, <1>2
<1>4. QED
  BY <1>1, <1>3 DEF SameEntries

\* What the first k turns of AllocateRows made of m.
Allocated(m, got, rows, k, tokens) ==
  /\ Partitioned(got.mgr)
  /\ SameEntries(m, got.mgr)
  /\ DOMAIN m.table \subseteq DOMAIN got.mgr.table
  /\ DOMAIN got.mgr.table \subseteq DOMAIN m.table \cup {Id(i) : i \in 1 .. k}
  /\ \A r \in RequestIds : Held(got.mgr, r) >= Held(m, r)
  /\ got.ok => \A i \in 1 .. k : i \in rows => Held(got.mgr, Id(i)) >= BlocksFor(tokens[i])

\* The tables grow, none but the rows' own is new, and when every row was served each
\* has the blocks its tokens need.
LEMMA AllocateRowsKeep ==
  ASSUME NEW m, Partitioned(m), NEW rows, NEW n \in Nat, NEW tokens \in [1 .. n -> Nat],
         \A i \in 1 .. n : Id(i) \in RequestIds
  PROVE  Allocated(m, AllocateRows(m, rows, tokens), rows, n, tokens)
<1>1. PICK f : AllocateRun(f, m, rows, n, tokens)
  BY AllocateRowsIs, Zenon
<1>2. /\ f \in [0 .. n -> [mgr : Managers, ok : BOOLEAN]]
      /\ f[0] = [mgr |-> m, ok |-> TRUE]
      /\ \A k \in 1 .. n : f[k] = AllocateNext(f[k-1], k, rows, tokens)
      /\ AllocateRows(m, rows, tokens) = f[n]
  BY <1>1 DEF AllocateRun
<1> DEFINE S == {k \in 0 .. n : Allocated(m, f[k], rows, k, tokens)}
<1>3. 0 \in S
  <2>1. \A r \in RequestIds : Held(m, r) \in Nat
    BY BlocksOfType DEF Partitioned
  <2>2. SameEntries(m, m)
    BY DEF SameEntries
  <2>3. f[0].mgr = m
    BY <1>2
  <2>4. \A r \in RequestIds : Held(m, r) >= Held(m, r)
    BY <2>1
  <2>5. \A i \in 1 .. 0 : FALSE
    OBVIOUS
  <2>6. Allocated(m, f[0], rows, 0, tokens)
    BY <2>2, <2>3, <2>4, <2>5 DEF Allocated
  <2>7. QED
    BY <2>6
<1>4. ASSUME NEW k \in 1 .. n, k - 1 \in S
      PROVE  k \in S
  <2> DEFINE was == f[k-1]
             got == f[k]
             r   == Id(k)
  <2>1. Allocated(m, was, rows, k - 1, tokens)
    BY <1>4
  <2>2. got = AllocateNext(was, k, rows, tokens)
    BY <1>2
  <2>3. k \in Nat /\ tokens[k] \in Nat /\ r \in RequestIds /\ k \in 0 .. n
    OBVIOUS
  <2>4. was.ok \in BOOLEAN
    <3>1. k - 1 \in 0 .. n
      OBVIOUS
    <3>2. was \in [mgr : Managers, ok : BOOLEAN]
      BY <3>1, <1>2
    <3>3. QED
      BY <3>2
  <2> HIDE DEF was, got, r
  <2>5. {Id(i) : i \in 1 .. k - 1} \subseteq {Id(i) : i \in 1 .. k}
    BY <2>3
  <2>6. r \in {Id(i) : i \in 1 .. k}
    BY <2>3 DEF r
  <2>7. \A i \in 1 .. k : i = k \/ i \in 1 .. k - 1
    BY <2>3
  <2>8. CASE k \notin rows
    <3>1. got = was
      BY <2>2, <2>8 DEF AllocateNext
    <3>2. Allocated(m, got, rows, k, tokens)
      BY <3>1, <2>1, <2>5, <2>7, <2>8 DEF Allocated
    <3>3. QED
      BY <3>2, <2>3 DEF got
  <2>9. CASE k \in rows /\ ~(was.ok /\ CanAllocate(was.mgr, r, tokens[k]))
    <3>1. got.mgr = was.mgr /\ got.ok = FALSE
      BY <2>2, <2>9 DEF AllocateNext, r
    <3>2. Allocated(m, got, rows, k, tokens)
      BY <3>1, <2>1, <2>5 DEF Allocated
    <3>3. QED
      BY <3>2, <2>3 DEF got
  <2>10. CASE k \in rows /\ was.ok /\ CanAllocate(was.mgr, r, tokens[k])
    <3> DEFINE new == Allocate(was.mgr, r, tokens[k])
    <3>1. got.mgr = new /\ got.ok = TRUE
      BY <2>2, <2>10 DEF AllocateNext, r
    <3>2. Partitioned(was.mgr) /\ IsManager(was.mgr) /\ IsManager(m)
      BY <2>1 DEF Allocated, Partitioned
    <3>3. Partitioned(new) /\ IsManager(new) /\ SameEntries(was.mgr, new)
      BY <2>3, <3>2, AllocateKeeps, AllocateSame DEF Partitioned
    <3>4. DOMAIN was.mgr.table \subseteq DOMAIN new.table
          /\ DOMAIN new.table \subseteq DOMAIN was.mgr.table \cup {r}
      BY DEF Allocate
    <3>5. /\ \A q \in RequestIds \ {r} : Held(new, q) = Held(was.mgr, q)
          /\ Held(new, r) >= Held(was.mgr, r)
          /\ Held(new, r) >= BlocksFor(tokens[k])
      BY <2>3, <2>10, <3>2, AllocateHolds
    <3>6. \A q \in RequestIds : /\ Held(new, q) \in Nat /\ Held(was.mgr, q) \in Nat
                                /\ Held(m, q) \in Nat
      BY <3>2, <3>3, BlocksOfType
    <3>7. SameEntries(m, new)
      <4>1. DOMAIN m.table \subseteq RequestIds
        BY <3>2 DEF IsManager
      <4>2. \A q \in DOMAIN m.table : Held(was.mgr, q) >= Held(m, q)
        BY <4>1, <2>1 DEF Allocated
      <4> HIDE DEF new
      <4>3. SameEntries(m, was.mgr) /\ DOMAIN m.table \subseteq DOMAIN was.mgr.table
        BY <2>1 DEF Allocated
      <4>4. QED
        BY <4>2, <4>3, <3>2, <3>3, SameThroughGrowth
    <3> HIDE DEF new
    <3>8. \A q \in RequestIds : Held(new, q) >= Held(was.mgr, q)
      <4>1. ASSUME NEW q \in RequestIds PROVE Held(new, q) >= Held(was.mgr, q)
        <5>1. CASE q = r
          BY <5>1, <3>5
        <5>2. CASE q # r
          BY <5>2, <3>5, <3>6
        <5>3. QED
          BY <5>1, <5>2
      <4>2. QED
        BY <4>1
    <3>9. \A q \in RequestIds : Held(was.mgr, q) >= Held(m, q)
      BY <2>1 DEF Allocated
    <3>10. \A q \in RequestIds : Held(new, q) >= Held(m, q)
      BY <3>6, <3>8, <3>9
    <3>11. ASSUME NEW i \in 1 .. k, i \in rows
           PROVE  Held(new, Id(i)) >= BlocksFor(tokens[i])
      <4>1. CASE i = k
        BY <4>1, <3>5 DEF r
      <4>2. CASE i # k
        <5>1. i \in 1 .. k - 1 /\ i \in 1 .. n
          BY <2>7, <4>2
        <5>2. Held(was.mgr, Id(i)) >= BlocksFor(tokens[i])
          BY <5>1, <3>11, <2>1, <2>10 DEF Allocated
        <5>3. Id(i) \in RequestIds /\ BlocksFor(tokens[i]) \in Nat
          BY <5>1, BlocksForType
        <5>4. QED
          BY <5>2, <5>3, <3>6, <3>8
      <4>3. QED
        BY <4>1, <4>2
    <3>12. DOMAIN m.table \subseteq DOMAIN new.table
           /\ DOMAIN new.table \subseteq DOMAIN m.table \cup {Id(i) : i \in 1 .. k}
      BY <2>1, <2>5, <2>6, <3>4 DEF Allocated
    <3>13. Allocated(m, got, rows, k, tokens)
      BY <3>1, <3>3, <3>7, <3>10, <3>11, <3>12 DEF Allocated
    <3>14. QED
      BY <3>13, <2>3 DEF got
  <2>11. QED
    BY <2>4, <2>8, <2>9, <2>10
<1>5. n \in S
  <2> HIDE DEF S
  <2>1. \A k \in 0 .. n : k \in S
    BY <1>3, <1>4, UpTo
  <2>2. QED
    BY <2>1
<1>6. QED
  BY <1>2, <1>5

TrimNext(was, i, rows, tokens) ==
  IF i \in rows THEN Trim(was, Id(i), tokens[i]) ELSE was

TrimRun(f, m, rows, n, tokens) ==
  /\ f \in [0 .. n -> Managers]
  /\ f[0] = m
  /\ \A k \in 1 .. n : f[k] = TrimNext(f[k-1], k, rows, tokens)
  /\ TrimRows(m, rows, tokens) = f[n]

\* TrimRows gives the rows their turns.
LEMMA TrimRowsIs ==
  ASSUME NEW m, Partitioned(m), NEW rows, NEW n \in Nat, NEW tokens \in [1 .. n -> Nat],
         \A i \in 1 .. n : Id(i) \in RequestIds
  PROVE  \E f : TrimRun(f, m, rows, n, tokens)
<1> DEFINE V     == Managers
           Then  == {p \in (1 .. n) \X V \X V : p[3] = TrimNext(p[2], p[1], rows, tokens)}
           R(f)  == f = [k \in 0 .. n |->
                           IF k = 0 THEN m
                           ELSE IF k \in rows THEN Trim(f[k-1], Id(k), tokens[k]) ELSE f[k-1]]
           after == CHOOSE f : R(f)
<1>1. Len(tokens) = n
  OBVIOUS
<1>2. TrimRows(m, rows, tokens) = after[n]
  BY <1>1, Zenon DEF TrimRows
<1>3. m \in V
  BY InManagers
<1>4. ASSUME NEW i \in 1 .. n, NEW was \in V
      PROVE  TrimNext(was, i, rows, tokens) \in V
  <2>1. Id(i) \in RequestIds /\ tokens[i] \in Nat /\ Partitioned(was)
    BY InManagers
  <2>2. Trim(was, Id(i), tokens[i]) \in Managers
    BY <2>1, TrimKeeps, InManagers
  <2>3. QED
    BY <2>2 DEF TrimNext
<1> HIDE DEF V
<1>5. Steps(n, V, m, Then)
  BY <1>3, <1>4 DEF Steps
<1> HIDE DEF Then
<1>6. PICK f : RunThrough(f, n, V, m, Then)
  BY <1>5, Iterates
<1>7. ASSUME NEW k \in 1 .. n PROVE f[k] = TrimNext(f[k-1], k, rows, tokens)
  <2>1. <<k, f[k-1], f[k]>> \in Then
    BY <1>6 DEF RunThrough
  <2>2. QED
    BY <2>1 DEF Then
<1>8. R(f)
  <2>1. ASSUME NEW k \in 0 .. n, k # 0
        PROVE  f[k] = IF k \in rows THEN Trim(f[k-1], Id(k), tokens[k]) ELSE f[k-1]
    <3>1. k \in 1 .. n
      BY <2>1
    <3>2. QED
      BY <3>1, <1>7, Zenon DEF TrimNext
  <2>2. f[0] = m /\ f = [k \in 0 .. n |-> f[k]]
    BY <1>6 DEF RunThrough
  <2>3. QED
    BY <2>1, <2>2
<1>9. R(after)
  <2> HIDE DEF R
  <2>1. QED
    BY <1>8
<1> HIDE DEF after
<1>10. after[0] = m /\ \A k \in 1 .. n : after[k] = TrimNext(after[k-1], k, rows, tokens)
  <2>1. after[0] = m
    <3>1. 0 \in 0 .. n
      OBVIOUS
    <3>2. QED
      BY <1>9, <3>1, Zenon
  <2>2. ASSUME NEW k \in 1 .. n PROVE after[k] = TrimNext(after[k-1], k, rows, tokens)
    <3>1. k \in 0 .. n /\ k # 0
      OBVIOUS
    <3>2. QED
      BY <1>9, <3>1, Zenon DEF TrimNext
  <2>3. QED
    BY <2>1, <2>2
<1>11. \A k \in 0 .. n : after[k] = f[k]
  <2> DEFINE S == {k \in 0 .. n : after[k] = f[k]}
  <2>1. 0 \in S
    BY <1>6, <1>10 DEF RunThrough
  <2>2. ASSUME NEW k \in 1 .. n, k - 1 \in S PROVE k \in S
    <3>1. after[k-1] = f[k-1]
      BY <2>2
    <3>2. after[k] = f[k]
      BY <3>1, <1>7, <1>10, Zenon
    <3>3. QED
      BY <3>2
  <2> HIDE DEF S
  <2>3. \A k \in 0 .. n : k \in S
    BY <2>1, <2>2, UpTo
  <2>4. QED
    BY <2>3 DEF S
<1>12. TrimRows(m, rows, tokens) = f[n]
  <2>1. n \in 0 .. n
    OBVIOUS
  <2>2. QED
    BY <2>1, <1>2, <1>11
<1>13. QED
  BY <1>6, <1>7, <1>12, Zenon DEF V, RunThrough, TrimRun

\* What the first k turns of TrimRows made of m.
Trimmed(m, got, rows, k) ==
  /\ Partitioned(got)
  /\ SameEntries(m, got)
  /\ DOMAIN got.table = DOMAIN m.table
  /\ \A r \in RequestIds : Held(got, r) <= Held(m, r)
  /\ \A r \in RequestIds : r \notin {Id(i) : i \in rows} => Held(got, r) = Held(m, r)

\* A trim shortens tables.
LEMMA TrimShortens ==
  ASSUME NEW m, Partitioned(m), NEW r \in RequestIds, NEW tokens \in Nat
  PROVE  Held(Trim(m, r, tokens), r) <= Held(m, r)
<1>1. IsManager(m) /\ Held(m, r) \in Nat /\ BlocksFor(tokens) \in Nat
  BY BlocksOfType, BlocksForType DEF Partitioned
<1>2. CASE BlocksFor(tokens) >= Held(m, r)
  BY <1>1, <1>2 DEF Trim
<1>3. CASE BlocksFor(tokens) < Held(m, r)
  <2>1. r \in DOMAIN m.table /\ Held(m, r) = Len(m.table[r])
    BY <1>1, <1>3 DEF Held, BlocksOf
  <2>2. m.table[r] \in Seq(Blocks)
    BY <1>1, <2>1 DEF IsManager
  <2>3. ~(BlocksFor(tokens) >= Held(m, r))
    BY <1>1, <1>3
  <2>4. Trim(m, r, tokens).table[r] = SubSeq(m.table[r], 1, BlocksFor(tokens))
        /\ r \in DOMAIN Trim(m, r, tokens).table
    BY <2>1, <2>3 DEF Trim
  <2>5. Len(SubSeq(m.table[r], 1, BlocksFor(tokens))) = BlocksFor(tokens)
    BY <1>1, <1>3, <2>1, <2>2
  <2>6. QED
    BY <2>4, <2>5, <1>1, <1>3 DEF Held, BlocksOf
<1>4. QED
  BY <1>1, <1>2, <1>3

\* Trimming rows leaves the others' tables alone, and every table its front.
LEMMA TrimRowsKeep ==
  ASSUME NEW m, Partitioned(m), NEW rows, NEW n \in Nat, NEW tokens \in [1 .. n -> Nat],
         \A i \in 1 .. n : Id(i) \in RequestIds
  PROVE  Trimmed(m, TrimRows(m, rows, tokens), rows, n)
<1>1. PICK f : TrimRun(f, m, rows, n, tokens)
  BY TrimRowsIs, Zenon
<1>2. /\ f \in [0 .. n -> Managers]
      /\ f[0] = m
      /\ \A k \in 1 .. n : f[k] = TrimNext(f[k-1], k, rows, tokens)
      /\ TrimRows(m, rows, tokens) = f[n]
  BY <1>1 DEF TrimRun
<1> DEFINE S == {k \in 0 .. n : Trimmed(m, f[k], rows, k)}
<1>3. 0 \in S
  <2>1. \A r \in RequestIds : Held(m, r) \in Nat
    BY BlocksOfType DEF Partitioned
  <2>2. SameEntries(m, m)
    BY DEF SameEntries
  <2>3. \A r \in RequestIds : Held(m, r) <= Held(m, r)
    BY <2>1
  <2>4. Trimmed(m, f[0], rows, 0)
    BY <1>2, <2>2, <2>3 DEF Trimmed
  <2>5. QED
    BY <2>4
<1>4. ASSUME NEW k \in 1 .. n, k - 1 \in S
      PROVE  k \in S
  <2> DEFINE was == f[k-1]
             got == f[k]
             r   == Id(k)
  <2>1. Trimmed(m, was, rows, k - 1)
    BY <1>4
  <2>2. got = TrimNext(was, k, rows, tokens)
    BY <1>2
  <2>3. k \in Nat /\ tokens[k] \in Nat /\ r \in RequestIds /\ k \in 0 .. n
    OBVIOUS
  <2> HIDE DEF was, got, r
  <2>4. CASE k \notin rows
    <3>1. got = was
      BY <2>2, <2>4 DEF TrimNext
    <3>2. Trimmed(m, got, rows, k)
      BY <3>1, <2>1 DEF Trimmed
    <3>3. QED
      BY <3>2, <2>3 DEF got
  <2>5. CASE k \in rows
    <3>1. got = Trim(was, r, tokens[k]) /\ r \in {Id(i) : i \in rows}
      BY <2>2, <2>5 DEF TrimNext, r
    <3>2. Partitioned(was) /\ IsManager(was) /\ IsManager(m)
      BY <2>1 DEF Trimmed, Partitioned
    <3>3. Partitioned(got) /\ IsManager(got) /\ SameEntries(was, got)
      BY <2>3, <3>1, <3>2, TrimKeeps, TrimSame DEF Partitioned
    <3>4. /\ DOMAIN got.table = DOMAIN was.table
          /\ \A q \in RequestIds \ {r} : Held(got, q) = Held(was, q)
          /\ Held(got, r) <= Held(was, r)
      BY <2>3, <3>1, <3>2, TrimHolds, TrimShortens
    <3>5. \A q \in RequestIds : Held(got, q) \in Nat /\ Held(was, q) \in Nat /\ Held(m, q) \in Nat
      BY <3>2, <3>3, BlocksOfType
    <3>6. ASSUME NEW q \in RequestIds PROVE Held(got, q) <= Held(was, q)
      <4>1. CASE q = r
        BY <4>1, <3>4
      <4>2. CASE q # r
        BY <4>2, <3>4, <3>5
      <4>3. QED
        BY <4>1, <4>2
    <3>7. SameEntries(m, got)
      <4>1. DOMAIN got.table \subseteq RequestIds
        BY <3>3 DEF IsManager
      <4>2. \A q \in DOMAIN got.table : Held(got, q) <= Held(was, q)
        BY <4>1, <3>6
      <4>3. SameEntries(m, was)
        BY <2>1 DEF Trimmed
      <4>4. QED
        BY <4>2, <4>3, <3>2, <3>3, <3>4, SameThroughTrims
    <3>8. \A q \in RequestIds : Held(got, q) <= Held(m, q)
      <4>1. \A q \in RequestIds : Held(was, q) <= Held(m, q)
        BY <2>1 DEF Trimmed
      <4>2. QED
        BY <4>1, <3>5, <3>6
    <3>9. \A q \in RequestIds : q \notin {Id(i) : i \in rows} => Held(got, q) = Held(m, q)
      BY <2>1, <3>1, <3>4 DEF Trimmed
    <3>10. Trimmed(m, got, rows, k)
      BY <2>1, <3>3, <3>4, <3>7, <3>8, <3>9 DEF Trimmed
    <3>11. QED
      BY <3>10, <2>3 DEF got
  <2>6. QED
    BY <2>4, <2>5
<1>5. n \in S
  <2> HIDE DEF S
  <2>1. \A k \in 0 .. n : k \in S
    BY <1>3, <1>4, UpTo
  <2>2. QED
    BY <2>1
<1>6. QED
  BY <1>2, <1>5

FreeRun(f, m, n) ==
  /\ f \in [0 .. n -> Managers]
  /\ f[0] = m
  /\ \A k \in 1 .. n : f[k] = FreeRequest(f[k-1], Id(k))

\* FreeRows gives the rows their turns.
LEMMA FreeRowsIs ==
  ASSUME NEW m, Partitioned(m), NEW b, Len(b) \in Nat,
         \A i \in 1 .. Len(b) : Id(i) \in RequestIds
  PROVE  \E f : FreeRun(f, m, Len(b)) /\ FreeRows(m, b) = f[Len(b)]
<1> DEFINE n     == Len(b)
           V     == Managers
           Then  == {p \in (1 .. n) \X V \X V : p[3] = FreeRequest(p[2], Id(p[1]))}
           R(f)  == f = [k \in 0 .. n |-> IF k = 0 THEN m ELSE FreeRequest(f[k-1], Id(k))]
           after == CHOOSE f : R(f)
<1>1. n \in Nat /\ (\A i \in 1 .. n : Id(i) \in RequestIds)
  OBVIOUS
<1>2. FreeRows(m, b) = after[n]
  BY Zenon DEF FreeRows
<1> HIDE DEF n
<1>3. m \in V
  BY InManagers
<1>4. ASSUME NEW i \in 1 .. n, NEW was \in V
      PROVE  FreeRequest(was, Id(i)) \in V
  <2>1. Id(i) \in RequestIds /\ Partitioned(was)
    BY <1>1, InManagers
  <2>2. QED
    BY <2>1, FreeKeeps, InManagers
<1> HIDE DEF V
<1>5. Steps(n, V, m, Then)
  BY <1>1, <1>3, <1>4 DEF Steps
<1> HIDE DEF Then
<1>6. PICK f : RunThrough(f, n, V, m, Then)
  BY <1>5, Iterates
<1>7. ASSUME NEW k \in 1 .. n PROVE f[k] = FreeRequest(f[k-1], Id(k))
  <2>1. <<k, f[k-1], f[k]>> \in Then
    BY <1>6 DEF RunThrough
  <2>2. QED
    BY <2>1 DEF Then
<1>8. R(f)
  <2>1. ASSUME NEW k \in 0 .. n, k # 0
        PROVE  f[k] = FreeRequest(f[k-1], Id(k))
    <3>1. k \in 1 .. n
      BY <1>1, <2>1
    <3>2. QED
      BY <3>1, <1>7, Zenon
  <2>2. f[0] = m /\ f = [k \in 0 .. n |-> f[k]]
    BY <1>6 DEF RunThrough
  <2>3. QED
    BY <2>1, <2>2
<1>9. R(after)
  <2> HIDE DEF R
  <2>1. QED
    BY <1>8
<1> HIDE DEF after
<1>10. after[0] = m /\ \A k \in 1 .. n : after[k] = FreeRequest(after[k-1], Id(k))
  <2>1. after[0] = m
    <3>1. 0 \in 0 .. n
      BY <1>1
    <3>2. QED
      BY <1>9, <3>1, Zenon
  <2>2. ASSUME NEW k \in 1 .. n PROVE after[k] = FreeRequest(after[k-1], Id(k))
    <3>1. k \in 0 .. n /\ k # 0
      BY <1>1
    <3>2. QED
      BY <1>9, <3>1, Zenon
  <2>3. QED
    BY <2>1, <2>2
<1>11. \A k \in 0 .. n : after[k] = f[k]
  <2> DEFINE S == {k \in 0 .. n : after[k] = f[k]}
  <2>1. 0 \in S
    BY <1>1, <1>6, <1>10 DEF RunThrough
  <2>2. ASSUME NEW k \in 1 .. n, k - 1 \in S PROVE k \in S
    <3>1. after[k-1] = f[k-1]
      BY <2>2
    <3>2. after[k] = f[k]
      BY <3>1, <1>7, <1>10, Zenon
    <3>3. k \in 0 .. n
      BY <1>1
    <3>4. QED
      BY <3>2, <3>3
  <2> HIDE DEF S
  <2>3. \A k \in 0 .. n : k \in S
    BY <1>1, <2>1, <2>2, UpTo
  <2>4. QED
    BY <2>3 DEF S
<1>12. FreeRows(m, b) = f[n]
  <2>1. n \in 0 .. n
    BY <1>1
  <2>2. QED
    BY <2>1, <1>2, <1>11
<1>13. FreeRun(f, m, n)
  BY <1>6, <1>7, Zenon DEF V, RunThrough, FreeRun
<1>14. QED
  BY <1>12, <1>13, Zenon DEF n

\* Freed rows have no table any more, and no other row loses or moves its own.
LEMMA FreeRowsKeep ==
  ASSUME NEW m, Partitioned(m), NEW b, Len(b) \in Nat,
         \A i \in 1 .. Len(b) : Id(i) \in RequestIds
  PROVE  /\ Partitioned(FreeRows(m, b))
         /\ DOMAIN FreeRows(m, b).table = DOMAIN m.table \ {Id(i) : i \in 1 .. Len(b)}
<1> DEFINE n == Len(b)
<1>1. PICK f : FreeRun(f, m, n) /\ FreeRows(m, b) = f[n]
  BY FreeRowsIs, Zenon
<1>2. /\ f \in [0 .. n -> Managers]
      /\ f[0] = m
      /\ \A k \in 1 .. n : f[k] = FreeRequest(f[k-1], Id(k))
  BY <1>1 DEF FreeRun
<1>3. n \in Nat /\ (\A i \in 1 .. n : Id(i) \in RequestIds)
  OBVIOUS
<1> HIDE DEF n
<1> DEFINE Ids(k) == {Id(i) : i \in 1 .. k}
           S == {k \in 0 .. n : DOMAIN f[k].table = DOMAIN m.table \ Ids(k)}
<1>4. 0 \in S
  <2>1. Ids(0) = {}
    OBVIOUS
  <2>2. QED
    BY <1>2, <1>3, <2>1
<1>5. ASSUME NEW k \in 1 .. n, k - 1 \in S PROVE k \in S
  <2>1. DOMAIN f[k-1].table = DOMAIN m.table \ Ids(k-1)
    BY <1>5
  <2>2. k \in Nat /\ Id(k) \in RequestIds /\ k \in 0 .. n
    BY <1>3
  <2>3. DOMAIN f[k].table = DOMAIN f[k-1].table \ {Id(k)}
    BY <1>2, <2>2, FreeHolds
  <2>4. \A i \in 1 .. k : i = k \/ i \in 1 .. k - 1
    BY <2>2
  <2>5. \A i \in 1 .. k - 1 : i \in 1 .. k
    BY <2>2
  <2>6. Ids(k) = Ids(k-1) \cup {Id(k)}
    <3>1. k \in 1 .. k
      BY <2>2
    <3>2. QED
      BY <3>1, <2>4, <2>5, Zenon
  <2> HIDE DEF Ids
  <2>7. DOMAIN f[k].table = DOMAIN m.table \ Ids(k)
    BY <2>1, <2>3, <2>6
  <2>8. QED
    BY <2>2, <2>7
<1>6. n \in S
  <2> HIDE DEF S
  <2>1. \A k \in 0 .. n : k \in S
    BY <1>3, <1>4, <1>5, UpTo
  <2>2. QED
    BY <1>3, <2>1
<1>7. f[n] \in Managers
  BY <1>2, <1>3
<1>8. QED
  BY <1>1, <1>6, <1>7, InManagers DEF n

--------------------------------------------------------------------------------
\* The blocks of the paged engine.

\* A batch a caller may ask for.
LEMMA BatchFacts ==
  ASSUME NEW b \in Batches
  PROVE  /\ Len(b) \in Nat \ {0} /\ DOMAIN b = 1 .. Len(b)
         /\ \A i \in 1 .. Len(b) : Id(i) \in RequestIds
         /\ IdsOfRows(b) = {Id(i) : i \in 1 .. Len(b)}
         /\ PromptLens(b) \in [1 .. Len(b) -> Nat \ {0}]
         /\ \A i \in 1 .. Len(b) :
              /\ b[i].ids \in Seq(Tokens) /\ Len(b[i].ids) \in Nat \ {0}
              /\ b[i].audio \in Seq(Tokens)
              /\ Cardinality({j \in DOMAIN b[i].ids : b[i].ids[j] = AudioToken})
                   = Len(b[i].audio)
<1> DEFINE Prompts == [ids : Seq(Tokens) \ {<<>>}, audio : Seq(Tokens)]
<1>1. b \in Seq(Prompts) /\ b # <<>>
  BY DecodeAssumption
<1>2. Len(b) \in Nat \ {0} /\ DOMAIN b = 1 .. Len(b)
  <2> HIDE DEF Prompts
  <2>1. QED
    BY <1>1, EmptySeq
<1>3. \A i \in 1 .. Len(b) : b[i] \in Prompts
  <2> HIDE DEF Prompts
  <2>1. QED
    BY <1>1, <1>2
<1>4. ASSUME NEW i \in 1 .. Len(b)
      PROVE  /\ b[i].ids \in Seq(Tokens) /\ Len(b[i].ids) \in Nat \ {0}
             /\ b[i].audio \in Seq(Tokens)
  <2>1. b[i].ids \in Seq(Tokens) /\ b[i].ids # <<>> /\ b[i].audio \in Seq(Tokens)
    BY <1>3
  <2>2. QED
    BY <2>1, EmptySeq
<1>5. \A i \in 1 .. Len(b) : Id(i) \in RequestIds
  <2>1. \A i \in 1 .. Len(b) : i - 1 \in 0 .. Len(b) - 1
    BY <1>2
  <2>2. QED
    BY <2>1, DecodeAssumption DEF Id
<1>6. IdsOfRows(b) = {Id(i) : i \in 1 .. Len(b)}
  BY <1>2 DEF IdsOfRows
<1>7. PromptLens(b) \in [1 .. Len(b) -> Nat \ {0}]
  BY <1>2, <1>4 DEF PromptLens
<1>8. \A i \in 1 .. Len(b) :
        Cardinality({j \in DOMAIN b[i].ids : b[i].ids[j] = AudioToken}) = Len(b[i].audio)
  BY <1>2, DecodeAssumption
<1>9. QED
  BY <1>2, <1>4, <1>5, <1>6, <1>7, <1>8

\* What the blocks depend on.
BlocksInv ==
  /\ Partitioned(mgr)
  /\ pc \in {"idle", "alone", "cached", "paged", "batch", "static"}
  /\ limit \in Nat /\ step \in Nat /\ left \subseteq RequestIds
  /\ pc # "static" => DOMAIN mgr.table \subseteq left
  /\ pc = "static" => /\ batch \in Batches
                      /\ DOMAIN mgr.table \subseteq left \cup IdsOfRows(batch)
                      /\ \E S : out \in [DOMAIN batch -> Seq(S)]

\* No block is handed out at the start.
LEMMA BlocksInit == Init => BlocksInv
<1>1. DOMAIN NewManager.table = {}
  BY DEF NewManager
<1>2. QED
  BY <1>1, NewManagerPartitioned DEF Init, BlocksInv

\* A call that fills the pool with its prompts, and trims the rows that ended.
LEMMA BlocksOfPrefill ==
  ASSUME NEW m, Partitioned(m), NEW b \in Batches, NEW tokens,
         NEW got, got = AllocateRows(m, DOMAIN b, PromptLens(b))
  PROVE  /\ Partitioned(got.mgr)
         /\ DOMAIN got.mgr.table \subseteq DOMAIN m.table \cup IdsOfRows(b)
         /\ Partitioned(TrimEnded(b, got.mgr, tokens))
         /\ DOMAIN TrimEnded(b, got.mgr, tokens).table = DOMAIN got.mgr.table
<1> DEFINE n == Len(b)
<1>1. /\ n \in Nat /\ DOMAIN b = 1 .. n /\ PromptLens(b) \in [1 .. n -> Nat]
      /\ \A i \in 1 .. n : Id(i) \in RequestIds
      /\ IdsOfRows(b) = {Id(i) : i \in 1 .. n}
  BY BatchFacts
<1> HIDE DEF n
<1>2. Allocated(m, got, DOMAIN b, n, PromptLens(b))
  BY <1>1, AllocateRowsKeep
<1>3. Partitioned(got.mgr) /\ DOMAIN got.mgr.table \subseteq DOMAIN m.table \cup IdsOfRows(b)
  BY <1>1, <1>2 DEF Allocated
<1>4. Trimmed(got.mgr, TrimEnded(b, got.mgr, tokens), {i \in DOMAIN b : tokens[i] \in EosIds}, n)
  BY <1>1, <1>3, TrimRowsKeep DEF TrimEnded
<1>5. QED
  BY <1>3, <1>4 DEF Trimmed

\* The rows' answers stay sequences when a step appends to them.
LEMMA TakenType ==
  ASSUME NEW n, DOMAIN batch = n, NEW S, out \in [n -> Seq(S)]
  PROVE  \E T : [i \in Rows |-> Taken(i)] \in [n -> Seq(T)]
<1> DEFINE T == S \cup {next[i] : i \in n}
<1>1. ASSUME NEW i \in n PROVE Taken(i) \in Seq(T)
  <2>1. out[i] \in Seq(T)
    OBVIOUS
  <2>2. next[i] \in T
    OBVIOUS
  <2> HIDE DEF T
  <2>3. Append(out[i], next[i]) \in Seq(T)
    BY <2>1, <2>2
  <2>4. QED
    BY <2>1, <2>3 DEF Taken
<1> HIDE DEF T
<1>2. QED
  BY <1>1 DEF Rows

\* A decode step gives blocks to the active rows only, all of them rows of the batch.
LEMMA BlocksOfStep ==
  ASSUME BlocksInv, pc = "static",
         NEW got, got = AllocateRows(mgr, Active, [i \in Rows |-> StepPosition(i) + 1])
  PROVE  /\ Partitioned(got.mgr)
         /\ DOMAIN got.mgr.table \subseteq left \cup IdsOfRows(batch)
         /\ \E m : /\ m = TrimRows(got.mgr, {i \in Active : Ends(i)},
                                   [i \in Rows |-> Len(batch[i].ids) + Len(out[i])])
                   /\ Partitioned(m) /\ DOMAIN m.table = DOMAIN got.mgr.table
<1> DEFINE n == Len(batch)
           before == [i \in Rows |-> StepPosition(i) + 1]
           after  == [i \in Rows |-> Len(batch[i].ids) + Len(out[i])]
<1>1. /\ n \in Nat /\ DOMAIN batch = 1 .. n /\ \A i \in 1 .. n : Id(i) \in RequestIds
      /\ IdsOfRows(batch) = {Id(i) : i \in 1 .. n}
      /\ \A i \in 1 .. n : Len(batch[i].ids) \in Nat
      /\ Partitioned(mgr) /\ step \in Nat
  BY BatchFacts DEF BlocksInv
<1>2. PICK S : out \in [1 .. n -> Seq(S)]
  BY <1>1 DEF BlocksInv
<1>3. \A i \in 1 .. n : Len(out[i]) \in Nat
  BY <1>2
<1> HIDE DEF n
<1>4. before \in [1 .. n -> Nat] /\ after \in [1 .. n -> Nat]
  <2>1. \A i \in 1 .. n : StepPosition(i) + 1 \in Nat
    BY <1>1 DEF StepPosition
  <2>2. ASSUME NEW i \in 1 .. n PROVE Len(batch[i].ids) + Len(out[i]) \in Nat
    <3>1. Len(batch[i].ids) \in Nat
      BY <1>1, Zenon
    <3>2. Len(out[i]) \in Nat
      BY <1>3
    <3>3. \A x, y \in Nat : x + y \in Nat
      OBVIOUS
    <3>4. QED
      BY <3>1, <3>2, <3>3, Zenon
  <2>3. Rows = 1 .. n
    BY <1>1 DEF Rows
  <2>4. QED
    BY <2>1, <2>2, <2>3
<1> HIDE DEF before, after
<1>5. Allocated(mgr, got, Active, n, before)
  BY <1>1, <1>4, AllocateRowsKeep DEF before
<1>6. Partitioned(got.mgr) /\ DOMAIN got.mgr.table \subseteq left \cup IdsOfRows(batch)
  BY <1>1, <1>5 DEF Allocated, BlocksInv
<1>7. Trimmed(got.mgr, TrimRows(got.mgr, {i \in Active : Ends(i)}, after), {i \in Active : Ends(i)}, n)
  BY <1>1, <1>4, <1>6, TrimRowsKeep
<1>8. QED
  BY <1>6, <1>7 DEF Trimmed, after

\* A decode step, whether it succeeds or fails, leaves blocks with the rows of its batch only.
LEMMA BlocksStaticStep == BlocksInv /\ StaticStep => BlocksInv'
<1> SUFFICES ASSUME BlocksInv, StaticStep PROVE BlocksInv'
  OBVIOUS
<1> DEFINE trimmed(got) == TrimRows(got.mgr, {i \in Active : Ends(i)},
                                    [i \in Rows |-> Len(batch[i].ids) + Len(out[i])])
<1>1. PICK got : /\ got = AllocateRows(mgr, Active, [i \in Rows |-> StepPosition(i) + 1])
                 /\ \/ /\ mgr' = trimmed(got)
                       /\ out' = [i \in Rows |-> Taken(i)]
                       /\ step' = step + 1
                       /\ UNCHANGED <<pc, left>>
                    \/ mgr' = got.mgr /\ Fail(batch) /\ UNCHANGED step
                    \/ mgr' = trimmed(got) /\ Fail(batch) /\ UNCHANGED step
  BY DEF StaticStep
<1>2. pc = "static" /\ UNCHANGED <<batch, limit>>
  BY DEF StaticStep
<1>3. /\ Partitioned(got.mgr) /\ DOMAIN got.mgr.table \subseteq left \cup IdsOfRows(batch)
      /\ Partitioned(trimmed(got)) /\ DOMAIN trimmed(got).table = DOMAIN got.mgr.table
  BY <1>1, <1>2, BlocksOfStep
<1> HIDE DEF trimmed
<1>4. batch \in Batches /\ IdsOfRows(batch) \subseteq RequestIds /\ limit \in Nat /\ step \in Nat
      /\ left \subseteq RequestIds
  BY <1>2, BatchFacts DEF BlocksInv
<1>5. Partitioned(mgr') /\ DOMAIN mgr'.table \subseteq left \cup IdsOfRows(batch)
  BY <1>1, <1>3
<1>6. CASE Fail(batch) /\ UNCHANGED step
  BY <1>2, <1>4, <1>5, <1>6 DEF Fail, BlocksInv
<1>7. CASE out' = [i \in Rows |-> Taken(i)] /\ step' = step + 1 /\ UNCHANGED <<pc, left>>
  <2>1. PICK S : out \in [DOMAIN batch -> Seq(S)]
    BY <1>2 DEF BlocksInv
  <2>2. \E T : out' \in [DOMAIN batch -> Seq(T)]
    BY <1>7, <2>1, TakenType
  <2>3. step' \in Nat
    BY <1>4, <1>7
  <2>4. QED
    BY <1>2, <1>4, <1>5, <1>7, <2>2, <2>3 DEF BlocksInv
<1>8. QED
  BY <1>1, <1>6, <1>7

\* The starts that run no paged prefill leave the pool as it is.
LEMMA BlocksDense ==
  ASSUME BlocksInv, pc = "idle", NEW max \in Nat, UNCHANGED <<mgr, left>>,
         limit' = max, step' = 0,
         pc' \in {"idle", "alone", "cached", "paged", "batch"}
  PROVE  BlocksInv'
BY DEF BlocksInv

\* The starts of the loops that do not use the shared pool.
LEMMA BlocksStarts ==
  ASSUME BlocksInv, NEW b \in Batches, NEW s \in Sides, NEW max \in Limits,
         \/ ReturnNothing(b, s) /\ max = 0
         \/ StartAlone(b, max)
         \/ StartCached(b, max)
         \/ StartPaged(b, max)
         \/ StartBatch(b, s, max)
  PROVE  BlocksInv'
<1>1. max \in Nat
  BY DecodeAssumption
<1>2. pc = "idle" /\ limit' = max /\ step' = 0
  BY DEF ReturnNothing, StartAlone, StartCached, StartPaged, StartBatch, Call
<1>3. UNCHANGED <<mgr, left>> /\ pc' \in {"idle", "alone", "cached", "paged", "batch"}
  BY <1>2 DEF ReturnNothing, StartAlone, StartCached, StartPaged, StartBatch, Enter
<1>4. QED
  BY <1>1, <1>2, <1>3, BlocksDense

\* A static run takes what a failed one left with its ids, then blocks for its prompts.
LEMMA BlocksStatic ==
  ASSUME BlocksInv, NEW b \in Batches, NEW s \in Sides, NEW max \in Limits,
         StartStatic(b, s, max)
  PROVE  BlocksInv'
<1>1. max \in Nat /\ pc = "idle" /\ limit' = max /\ step' = 0 /\ batch' = b
      /\ out' = [i \in DOMAIN b |-> <<>>]
  BY DecodeAssumption DEF StartStatic, Call
<1>2. PICK got : /\ got = AllocateRows(FreeRows(mgr, b), DOMAIN b, PromptLens(b))
                 /\ \/ /\ pc' = "static" /\ left' = left \ IdsOfRows(b)
                       /\ mgr' = TrimEnded(b, got.mgr, next')
                    \/ Fail(b) /\ mgr' = got.mgr
  BY DEF StartStatic, Enter
<1>3. /\ Partitioned(mgr) /\ DOMAIN mgr.table \subseteq left /\ left \subseteq RequestIds
  BY <1>1 DEF BlocksInv
<1>4. Len(b) \in Nat /\ (\A i \in 1 .. Len(b) : Id(i) \in RequestIds)
      /\ IdsOfRows(b) = {Id(i) : i \in 1 .. Len(b)}
  BY BatchFacts
<1>5. Partitioned(FreeRows(mgr, b)) /\ DOMAIN FreeRows(mgr, b).table \subseteq left \ IdsOfRows(b)
  BY <1>3, <1>4, FreeRowsKeep
<1>6. /\ Partitioned(got.mgr)
      /\ DOMAIN got.mgr.table \subseteq (left \ IdsOfRows(b)) \cup IdsOfRows(b)
      /\ Partitioned(TrimEnded(b, got.mgr, next'))
      /\ DOMAIN TrimEnded(b, got.mgr, next').table = DOMAIN got.mgr.table
  <2>1. PICK m : m = FreeRows(mgr, b)
    OBVIOUS
  <2>2. /\ Partitioned(got.mgr)
        /\ DOMAIN got.mgr.table \subseteq DOMAIN m.table \cup IdsOfRows(b)
        /\ Partitioned(TrimEnded(b, got.mgr, next'))
        /\ DOMAIN TrimEnded(b, got.mgr, next').table = DOMAIN got.mgr.table
    BY <2>1, <1>2, <1>5, BlocksOfPrefill
  <2>3. QED
    BY <2>1, <2>2, <1>5
<1>7. IdsOfRows(b) \subseteq RequestIds
  BY <1>4
<1>8. \E S : [i \in DOMAIN b |-> <<>>] \in [DOMAIN b -> Seq(S)]
  <2>1. <<>> \in Seq({})
    OBVIOUS
  <2>2. QED
    BY <2>1
<1>9. QED
  BY <1>1, <1>2, <1>3, <1>6, <1>7, <1>8 DEF Fail, BlocksInv

\* The hybrid start gives back the blocks it took for its prefill, or fails.
LEMMA BlocksHybrid ==
  ASSUME BlocksInv, NEW b \in Batches, NEW s \in Sides, NEW max \in Limits,
         StartHybrid(b, s, max)
  PROVE  BlocksInv'
<1>1. max \in Nat /\ pc = "idle" /\ limit' = max /\ step' = 0
  BY DecodeAssumption DEF StartHybrid, Call
<1>2. PICK got : /\ got = AllocateRows(mgr, DOMAIN b, PromptLens(b))
                 /\ \/ /\ pc' = "batch" /\ left' = left \ IdsOfRows(b)
                       /\ mgr' = FreeRows(TrimEnded(b, got.mgr, next'), b)
                    \/ Fail(b) /\ mgr' = got.mgr
  BY DEF StartHybrid, Enter
<1>3. /\ Partitioned(mgr) /\ DOMAIN mgr.table \subseteq left /\ left \subseteq RequestIds
  BY <1>1 DEF BlocksInv
<1>4. Len(b) \in Nat /\ (\A i \in 1 .. Len(b) : Id(i) \in RequestIds)
      /\ IdsOfRows(b) = {Id(i) : i \in 1 .. Len(b)}
  BY BatchFacts
<1>5. /\ Partitioned(got.mgr)
      /\ DOMAIN got.mgr.table \subseteq left \cup IdsOfRows(b)
      /\ Partitioned(TrimEnded(b, got.mgr, next'))
      /\ DOMAIN TrimEnded(b, got.mgr, next').table = DOMAIN got.mgr.table
  <2>1. /\ Partitioned(got.mgr)
        /\ DOMAIN got.mgr.table \subseteq DOMAIN mgr.table \cup IdsOfRows(b)
        /\ Partitioned(TrimEnded(b, got.mgr, next'))
        /\ DOMAIN TrimEnded(b, got.mgr, next').table = DOMAIN got.mgr.table
    BY <1>2, <1>3, BlocksOfPrefill
  <2>2. QED
    BY <2>1, <1>3
<1>6. /\ Partitioned(FreeRows(TrimEnded(b, got.mgr, next'), b))
      /\ DOMAIN FreeRows(TrimEnded(b, got.mgr, next'), b).table \subseteq left \ IdsOfRows(b)
  <2>1. PICK m : m = TrimEnded(b, got.mgr, next')
    OBVIOUS
  <2>2. Partitioned(m) /\ DOMAIN m.table \subseteq left \cup IdsOfRows(b)
    BY <1>5, <2>1
  <2>3. /\ Partitioned(FreeRows(m, b))
        /\ DOMAIN FreeRows(m, b).table = DOMAIN m.table \ {Id(i) : i \in 1 .. Len(b)}
    BY <1>4, <2>2, FreeRowsKeep
  <2>4. QED
    BY <1>4, <2>1, <2>2, <2>3
<1>7. IdsOfRows(b) \subseteq RequestIds
  BY <1>4
<1>8. (left \ IdsOfRows(b)) \subseteq RequestIds /\ (left \cup IdsOfRows(b)) \subseteq RequestIds
  BY <1>3, <1>7
<1>9. CASE /\ pc' = "batch" /\ left' = left \ IdsOfRows(b)
           /\ mgr' = FreeRows(TrimEnded(b, got.mgr, next'), b)
  BY <1>1, <1>6, <1>8, <1>9 DEF BlocksInv
<1>10. CASE Fail(b) /\ mgr' = got.mgr
  BY <1>1, <1>5, <1>8, <1>10 DEF Fail, BlocksInv
<1>11. QED
  BY <1>2, <1>9, <1>10

\* The end of a static run gives back all blocks of its rows.
LEMMA BlocksReturn == BlocksInv /\ StaticReturn => BlocksInv'
<1> SUFFICES ASSUME BlocksInv, StaticReturn PROVE BlocksInv'
  OBVIOUS
<1>1. /\ Partitioned(mgr) /\ batch \in Batches
      /\ DOMAIN mgr.table \subseteq left \cup IdsOfRows(batch)
      /\ pc' = "idle" /\ mgr' = FreeRows(mgr, batch) /\ UNCHANGED <<left, limit, step>>
  BY DEF BlocksInv, StaticReturn, Return, callVars
<1>2. Len(batch) \in Nat /\ (\A i \in 1 .. Len(batch) : Id(i) \in RequestIds)
      /\ IdsOfRows(batch) = {Id(i) : i \in 1 .. Len(batch)}
  BY <1>1, BatchFacts
<1>3. Partitioned(mgr') /\ DOMAIN mgr'.table \subseteq left
  BY <1>1, <1>2, FreeRowsKeep
<1>4. QED
  BY <1>1, <1>3 DEF BlocksInv

\* The loops without the shared pool.
LEMMA BlocksLoops ==
  ASSUME BlocksInv, AloneStep \/ CachedStep \/ PagedStep \/ BatchStep \/ BatchReturn
  PROVE  BlocksInv'
<1>1. UNCHANGED <<mgr, left, limit>>
  BY DEF AloneStep, CachedStep, PagedStep, BatchStep, BatchReturn, callVars
<1>2. step' \in Nat
  <2>1. step' = step \/ step' = step + 1
    BY DEF AloneStep, CachedStep, PagedStep, BatchStep, BatchReturn, callVars
  <2>2. QED
    BY <2>1 DEF BlocksInv
<1>3. pc # "static" /\ pc' \in {pc, "idle"}
  BY DEF AloneStep, CachedStep, PagedStep, BatchStep, BatchReturn, Return
<1>4. QED
  BY <1>1, <1>2, <1>3 DEF BlocksInv

\* Every step keeps the invariant.
LEMMA BlocksNext == BlocksInv /\ [Next]_vars => BlocksInv'
<1> SUFFICES ASSUME BlocksInv, [Next]_vars PROVE BlocksInv'
  OBVIOUS
<1>1. CASE UNCHANGED vars
  BY <1>1 DEF vars, callVars, BlocksInv
<1>2. ASSUME NEW b \in Batches, NEW s \in Sides, NEW max \in Limits,
             \/ max = 0 /\ ReturnNothing(b, s)
             \/ max > 0 /\ \/ s = "right" /\ StartAlone(b, max)
                           \/ s = "right" /\ StartCached(b, max)
                           \/ s = "right" /\ StartPaged(b, max)
                           \/ StartBatch(b, s, max)
                           \/ StartStatic(b, s, max)
                           \/ StartHybrid(b, s, max)
      PROVE  BlocksInv'
  BY <1>2, BlocksStarts, BlocksStatic, BlocksHybrid, Zenon
<1>3. CASE AloneStep \/ CachedStep \/ PagedStep \/ BatchStep \/ BatchReturn
  BY <1>3, BlocksLoops
<1>4. CASE StaticStep
  BY <1>4, BlocksStaticStep
<1>5. CASE StaticReturn
  BY <1>5, BlocksReturn
<1>6. QED
  BY <1>1, <1>2, <1>3, <1>4, <1>5 DEF Next

\* Whatever calls are made, with whichever errors, and whatever they find in the pool,
\* the blocks of a row outlive its call only if a call with its id failed
\* (paged_batch_run and rebuild_kv_cache_from_paged_prefill).
THEOREM BlocksComeBack == Spec => []BlocksLeftByFailuresOnly
<1>1. BlocksInv => BlocksLeftByFailuresOnly
  BY DEF BlocksInv, BlocksLeftByFailuresOnly
<1>2. QED
  BY <1>1, BlocksInit, BlocksNext, PTL DEF Spec

--------------------------------------------------------------------------------
\* Contexts.

\* Attend looks at the rest of a row only where it may.
LEMMA AttendSame ==
  ASSUME NEW embed, NEW position, NEW r, NEW q, NEW places,
         \A k \in places : r[k] = q[k]
  PROVE  Attend(embed, position, r, places) = Attend(embed, position, q, places)
<1> DEFINE From(seen) ==
             LET whole == {c \in seen : /\ Len(c) = position
                                        /\ seen = {SubSeq(c, 1, k) : k \in 1 .. position}}
             IN IF position = 0 /\ places = {} THEN <<embed>>
                ELSE IF Cardinality(places) = position /\ whole # {}
                THEN Append(CHOOSE c \in whole : TRUE, embed)
                ELSE Wrong
<1>1. {r[k] : k \in places} = {q[k] : k \in places}
  OBVIOUS
<1>2. /\ Attend(embed, position, r, places) = From({r[k] : k \in places})
      /\ Attend(embed, position, q, places) = From({q[k] : k \in places})
  BY Zenon DEF Attend
<1> HIDE DEF From
<1>3. QED
  BY <1>1, <1>2

\* The context of a token is a sequence of embeddings.
LEMMA AttendType ==
  ASSUME NEW embed \in Tokens, NEW position, NEW r \in Seq(Seq(Tokens)),
         NEW places, places \subseteq 1 .. Len(r)
  PROVE  Attend(embed, position, r, places) \in Seq(Tokens)
<1> DEFINE seen  == {r[k] : k \in places}
           whole == {d \in seen : Len(d) = position /\ seen = {SubSeq(d, 1, k) : k \in 1 .. position}}
<1>1. \A c \in whole : c \in Seq(Tokens)
  <2>1. \A k \in places : r[k] \in Seq(Tokens)
    OBVIOUS
  <2>2. \A c \in seen : c \in Seq(Tokens)
    BY <2>1
  <2>3. \A c \in whole : c \in seen
    <3> HIDE DEF seen
    <3>1. QED
      OBVIOUS
  <2>4. QED
    BY <2>2, <2>3
<1>2. whole # {} => (CHOOSE c \in whole : TRUE) \in Seq(Tokens)
  BY <1>1
<1>3. <<embed>> \in Seq(Tokens) /\ <<>> \in Seq(Tokens)
  OBVIOUS
<1>4. Attend(embed, position, r, places) =
        IF position = 0 /\ places = {} THEN <<embed>>
        ELSE IF Cardinality(places) = position /\ whole # {}
        THEN Append(CHOOSE d \in whole : TRUE, embed)
        ELSE <<>>
  BY Zenon DEF Attend, Wrong
<1> HIDE DEF whole
<1>5. CASE position = 0 /\ places = {}
  BY <1>3, <1>4, <1>5
<1>6. CASE ~(position = 0 /\ places = {}) /\ Cardinality(places) = position /\ whole # {}
  <2>1. Attend(embed, position, r, places) = Append(CHOOSE c \in whole : TRUE, embed)
    BY <1>4, <1>6, Zenon
  <2>2. PICK c \in Seq(Tokens) : c = (CHOOSE d \in whole : TRUE)
    BY <1>2, <1>6
  <2>3. Append(c, embed) \in Seq(Tokens)
    OBVIOUS
  <2>4. QED
    BY <2>1, <2>2, <2>3, Zenon
<1>7. CASE ~(position = 0 /\ places = {}) /\ ~(Cardinality(places) = position /\ whole # {})
  <2>1. Attend(embed, position, r, places) = <<>>
    BY <1>4, <1>7, Zenon
  <2>2. QED
    BY <1>3, <2>1
<1>8. QED
  BY <1>5, <1>6, <1>7

\* A token that attends every token before it, each once, has the context of all.
LEMMA AttendWhole ==
  ASSUME NEW embed, NEW c \in Seq(Tokens), c # <<>>, NEW r, NEW places,
         Cardinality(places) = Len(c),
         {r[k] : k \in places} = {SubSeq(c, 1, k) : k \in 1 .. Len(c)}
  PROVE  Attend(embed, Len(c), r, places) = Append(c, embed)
<1> DEFINE n     == Len(c)
           seen  == {r[k] : k \in places}
           whole == {d \in seen : Len(d) = n /\ seen = {SubSeq(d, 1, k) : k \in 1 .. n}}
<1>1. n \in Nat /\ n # 0
  BY EmptySeq
<1>2. SubSeq(c, 1, n) = c /\ n \in 1 .. n
  BY <1>1
<1>3. c \in whole
  <2>1. c \in seen
    BY <1>2
  <2>2. QED
    BY <2>1
<1>4. ASSUME NEW d \in whole PROVE d = c
  <2>1. Len(d) = n /\ d \in {SubSeq(c, 1, k) : k \in 1 .. n}
    OBVIOUS
  <2>2. PICK k \in 1 .. n : d = SubSeq(c, 1, k)
    BY <2>1
  <2>3. Len(SubSeq(c, 1, k)) = k
    BY <1>1
  <2>4. QED
    BY <2>1, <2>2, <2>3, <1>2
<1>5. whole = {c}
  <2> HIDE DEF whole
  <2>1. QED
    BY <1>3, <1>4
<1>6. Attend(embed, n, r, places) =
        IF n = 0 /\ places = {} THEN <<embed>>
        ELSE IF Cardinality(places) = n /\ whole # {}
        THEN Append(CHOOSE d \in whole : TRUE, embed)
        ELSE <<>>
  BY Zenon DEF Attend, Wrong
<1> HIDE DEF whole, seen
<1>7. (CHOOSE d \in whole : TRUE) = c
  BY <1>5
<1>8. ~(n = 0 /\ places = {}) /\ Cardinality(places) = n /\ whole # {}
  BY <1>1, <1>5
<1>9. Attend(embed, n, r, places) = Append(CHOOSE d \in whole : TRUE, embed)
  BY <1>6, <1>8, Zenon
<1>10. QED
  BY <1>7, <1>9

\* The first token attends nothing.
LEMMA AttendFirst ==
  ASSUME NEW embed, NEW r
  PROVE  Attend(embed, 0, r, {}) = <<embed>>
BY DEF Attend

\* The context of the next new token of a row.
Following(row, j, before, embeds, positions, sees) ==
  IF before + j \in sees[j]
  THEN Attend(embeds[j], positions[j], row, sees[j] \ {before + j})
  ELSE Wrong

ContextRun(f, cache, embeds, positions, sees) ==
  /\ f \in [0 .. Len(embeds) -> Seq(Seq(Tokens))]
  /\ f[0] = cache
  /\ \A j \in 1 .. Len(embeds) :
       /\ Len(f[j-1]) = Len(cache) + j - 1
       /\ f[j] = Append(f[j-1], Following(f[j-1], j, Len(cache), embeds, positions, sees))
  /\ RowContexts(cache, embeds, positions, sees) = f[Len(embeds)]

\* RowContexts appends the contexts of the new tokens to a cache, one after the other.
LEMMA RowContextsIs ==
  ASSUME NEW cache \in Seq(Seq(Tokens)), NEW embeds \in Seq(Tokens), NEW positions, NEW sees,
         \A j \in 1 .. Len(embeds) : sees[j] \subseteq 1 .. Len(cache) + j
  PROVE  \E f : ContextRun(f, cache, embeds, positions, sees)
<1> DEFINE n         == Len(embeds)
           w         == Len(cache)
           V         == Seq(Seq(Tokens))
           Next1(r, j) == Append(r, Following(r, j, w, embeds, positions, sees))
           Then      == {p \in (1 .. n) \X V \X V :
                           Len(p[2]) = w + p[1] - 1 => p[3] = Next1(p[2], p[1])}
           R(f)      == f = [j \in 0 .. n |->
                               IF j = 0 THEN cache
                               ELSE Append(f[j-1],
                                           IF w + j \in sees[j]
                                           THEN Attend(embeds[j], positions[j], f[j-1],
                                                       sees[j] \ {w + j})
                                           ELSE Wrong)]
           after     == CHOOSE f : R(f)
<1>1. n \in Nat /\ w \in Nat /\ cache \in V
  OBVIOUS
<1>2. RowContexts(cache, embeds, positions, sees) = after[n]
  BY Zenon DEF RowContexts
<1>3. ASSUME NEW j \in 1 .. n, NEW r \in V, Len(r) = w + j - 1
      PROVE  Next1(r, j) \in V
  <2>1. j \in Nat /\ sees[j] \ {w + j} \subseteq 1 .. Len(r)
    BY <1>1, <1>3
  <2>2. embeds[j] \in Tokens
    OBVIOUS
  <2>3. Attend(embeds[j], positions[j], r, sees[j] \ {w + j}) \in Seq(Tokens)
    BY <2>1, <2>2, AttendType
  <2>4. <<>> \in Seq(Tokens)
    OBVIOUS
  <2>5. Following(r, j, w, embeds, positions, sees) \in Seq(Tokens)
    BY <2>3, <2>4, Zenon DEF Following, Wrong
  <2>6. \A c \in Seq(Tokens) : Append(r, c) \in V
    OBVIOUS
  <2>7. QED
    BY <2>5, <2>6, Zenon
<1> HIDE DEF Next1, n, w
<1>4. Steps(n, V, cache, Then)
  <2>1. ASSUME NEW j \in 1 .. n, NEW r \in V PROVE \E x \in V : <<j, r, x>> \in Then
    <3>1. CASE Len(r) = w + j - 1
      <4>1. Next1(r, j) \in V
        BY <1>3, <3>1
      <4>2. <<j, r, Next1(r, j)>> \in Then
        BY <4>1
      <4>3. QED
        BY <4>1, <4>2
    <3>2. CASE Len(r) # w + j - 1
      <4>1. <<j, r, r>> \in Then
        BY <3>2
      <4>2. QED
        BY <4>1
    <3>3. QED
      BY <3>1, <3>2
  <2> HIDE DEF Then, V
  <2>2. QED
    BY <1>1, <2>1 DEF Steps
<1> HIDE DEF Then, V
<1>5. PICK f : RunThrough(f, n, V, cache, Then)
  BY <1>4, Iterates
<1>6. f \in [0 .. n -> V] /\ f[0] = cache
  BY <1>5 DEF RunThrough
<1>7. ASSUME NEW j \in 1 .. n, Len(f[j-1]) = w + j - 1
      PROVE  f[j] = Next1(f[j-1], j)
  <2>1. <<j, f[j-1], f[j]>> \in Then
    BY <1>5 DEF RunThrough
  <2>2. QED
    BY <2>1, <1>7 DEF Then
<1>8. \A j \in 0 .. n : Len(f[j]) = w + j
  <2> DEFINE S == {j \in 0 .. n : Len(f[j]) = w + j}
  <2>1. 0 \in S
    BY <1>1, <1>6 DEF w
  <2>2. ASSUME NEW j \in 1 .. n, j - 1 \in S PROVE j \in S
    <3>1. Len(f[j-1]) = w + j - 1 /\ j \in 0 .. n /\ j - 1 \in 0 .. n
      BY <1>1, <2>2
    <3>2. f[j] = Append(f[j-1], Following(f[j-1], j, w, embeds, positions, sees))
      BY <1>7, <3>1 DEF Next1
    <3>3. f[j-1] \in Seq(Seq(Tokens)) /\ f[j] \in Seq(Seq(Tokens))
      BY <3>1, <1>6 DEF V
    <3>4. ASSUME NEW c PROVE Len(Append(f[j-1], c)) = Len(f[j-1]) + 1
      BY <3>3
    <3>5. Len(f[j]) = Len(f[j-1]) + 1
      BY <3>2, <3>4, Zenon
    <3>6. Len(f[j]) = w + j
      BY <3>1, <3>5, <1>1
    <3>7. QED
      BY <3>1, <3>6
  <2> HIDE DEF S
  <2>3. \A j \in 0 .. n : j \in S
    BY <1>1, <2>1, <2>2, UpTo
  <2>4. QED
    BY <2>3 DEF S
<1>9. ASSUME NEW j \in 1 .. n
      PROVE  Len(f[j-1]) = w + j - 1 /\ f[j] = Next1(f[j-1], j)
  <2>1. j - 1 \in 0 .. n /\ w + (j - 1) = w + j - 1
    BY <1>1
  <2>2. Len(f[j-1]) = w + j - 1
    BY <1>8, <2>1
  <2>3. QED
    BY <2>2, <1>7
<1>10. R(f)
  <2>1. ASSUME NEW j \in 0 .. n, j # 0
        PROVE  f[j] = Append(f[j-1], IF w + j \in sees[j]
                                     THEN Attend(embeds[j], positions[j], f[j-1],
                                                 sees[j] \ {w + j})
                                     ELSE Wrong)
    <3>1. j \in 1 .. n
      BY <1>1, <2>1
    <3>2. f[j] = Next1(f[j-1], j)
      BY <3>1, <1>9, Zenon
    <3>3. QED
      BY <3>2, Zenon DEF Next1, Following
  <2>2. f = [j \in 0 .. n |-> f[j]]
    BY <1>6
  <2>3. QED
    BY <2>1, <2>2, <1>6
<1>11. R(after)
  <2> HIDE DEF R
  <2>1. QED
    BY <1>10
<1> HIDE DEF after
<1>12. after[0] = cache /\ \A j \in 1 .. n : after[j] = Next1(after[j-1], j)
  <2>1. after[0] = cache
    <3>1. 0 \in 0 .. n
      BY <1>1
    <3>2. QED
      BY <1>11, <3>1, Zenon
  <2>2. ASSUME NEW j \in 1 .. n PROVE after[j] = Next1(after[j-1], j)
    <3>1. j \in 0 .. n /\ j # 0
      BY <1>1
    <3>2. after[j] = Append(after[j-1], IF w + j \in sees[j]
                                        THEN Attend(embeds[j], positions[j], after[j-1],
                                                    sees[j] \ {w + j})
                                        ELSE Wrong)
      BY <1>11, <3>1, Zenon
    <3>3. QED
      BY <3>2, Zenon DEF Next1, Following
  <2>3. QED
    BY <2>1, <2>2
<1>13. \A j \in 0 .. n : after[j] = f[j]
  <2> DEFINE S == {j \in 0 .. n : after[j] = f[j]}
  <2>1. 0 \in S
    BY <1>1, <1>6, <1>12
  <2>2. ASSUME NEW j \in 1 .. n, j - 1 \in S PROVE j \in S
    <3>1. after[j-1] = f[j-1]
      BY <2>2
    <3>2. after[j] = f[j]
      BY <3>1, <1>9, <1>12, Zenon
    <3>3. j \in 0 .. n
      BY <1>1
    <3>4. QED
      BY <3>2, <3>3
  <2> HIDE DEF S
  <2>3. \A j \in 0 .. n : j \in S
    BY <1>1, <2>1, <2>2, UpTo
  <2>4. QED
    BY <2>3 DEF S
<1>14. RowContexts(cache, embeds, positions, sees) = f[n]
  <2>1. n \in 0 .. n
    BY <1>1
  <2>2. QED
    BY <2>1, <1>2, <1>13
<1>15. QED
  BY <1>6, <1>9, <1>14, Zenon DEF V, n, w, Next1, ContextRun

\* Prefixes.
LEMMA PrefixFacts ==
  ASSUME NEW S, NEW c \in Seq(S)
  PROVE  /\ \A p \in 0 .. Len(c) : SubSeq(c, 1, p) \in Seq(S) /\ Len(SubSeq(c, 1, p)) = p
         /\ \A p \in 0 .. Len(c) : \A k \in 1 .. p : SubSeq(c, 1, p)[k] = c[k]
         /\ \A p \in 0 .. Len(c) : \A k \in 0 .. p :
              SubSeq(SubSeq(c, 1, p), 1, k) = SubSeq(c, 1, k)
         /\ \A p \in 1 .. Len(c) : SubSeq(c, 1, p) = Append(SubSeq(c, 1, p - 1), c[p])
         /\ SubSeq(c, 1, Len(c)) = c
         /\ SubSeq(c, 1, 0) = <<>>
<1>1. ASSUME NEW p \in 0 .. Len(c)
      PROVE  /\ SubSeq(c, 1, p) \in Seq(S) /\ Len(SubSeq(c, 1, p)) = p
             /\ \A k \in 1 .. p : SubSeq(c, 1, p)[k] = c[k]
  OBVIOUS
<1>2. ASSUME NEW p \in 0 .. Len(c), NEW k \in 0 .. p
      PROVE  SubSeq(SubSeq(c, 1, p), 1, k) = SubSeq(c, 1, k)
  <2> DEFINE d == SubSeq(c, 1, p)
  <2>1. d \in Seq(S) /\ Len(d) = p /\ \A i \in 1 .. p : d[i] = c[i]
    BY <1>1
  <2>2. k \in 0 .. Len(c) /\ k \in 0 .. Len(d)
    BY <2>1
  <2> HIDE DEF d
  <2>3. SubSeq(d, 1, k) \in Seq(S) /\ Len(SubSeq(d, 1, k)) = k
        /\ \A i \in 1 .. k : SubSeq(d, 1, k)[i] = d[i]
    BY <2>1, <2>2
  <2>4. SubSeq(c, 1, k) \in Seq(S) /\ Len(SubSeq(c, 1, k)) = k
        /\ \A i \in 1 .. k : SubSeq(c, 1, k)[i] = c[i]
    BY <1>1, <2>2
  <2>5. \A i \in 1 .. k : i \in 1 .. p
    OBVIOUS
  <2>6. \A i \in 1 .. k : SubSeq(d, 1, k)[i] = SubSeq(c, 1, k)[i]
    BY <2>1, <2>3, <2>4, <2>5
  <2>7. SubSeq(d, 1, k) = SubSeq(c, 1, k)
    BY <2>3, <2>4, <2>6, SeqEqual
  <2>8. QED
    BY <2>7 DEF d
<1>3. ASSUME NEW p \in 1 .. Len(c)
      PROVE  SubSeq(c, 1, p) = Append(SubSeq(c, 1, p - 1), c[p])
  <2> DEFINE d == SubSeq(c, 1, p - 1)
             e == SubSeq(c, 1, p)
  <2>1. p - 1 \in 0 .. Len(c) /\ p \in 0 .. Len(c) /\ c[p] \in S
    OBVIOUS
  <2>2. d \in Seq(S) /\ Len(d) = p - 1 /\ \A i \in 1 .. p - 1 : d[i] = c[i]
    BY <1>1, <2>1
  <2>3. e \in Seq(S) /\ Len(e) = p /\ \A i \in 1 .. p : e[i] = c[i]
    BY <1>1, <2>1
  <2> HIDE DEF d, e
  <2> DEFINE a == Append(d, c[p])
  <2>4. a \in Seq(S) /\ Len(a) = p /\ \A i \in 1 .. p - 1 : a[i] = c[i]
    BY <2>1, <2>2
  <2>5. a[p] = c[p]
    BY <2>1, <2>2
  <2> HIDE DEF a
  <2>6. \A i \in 1 .. p : a[i] = e[i]
    <3>1. \A i \in 1 .. p : i = p \/ i \in 1 .. p - 1
      OBVIOUS
    <3>2. QED
      BY <3>1, <2>3, <2>4, <2>5
  <2>7. e = a
    BY <2>3, <2>4, <2>6, SeqEqual
  <2>8. QED
    BY <2>7 DEF a, d, e
<1>4. SubSeq(c, 1, Len(c)) = c /\ SubSeq(c, 1, 0) = <<>>
  OBVIOUS
<1>5. QED
  BY <1>1, <1>2, <1>3, <1>4

\* RowContexts leaves the cache as it is and appends one context for each new token.
LEMMA RowContextsKeep ==
  ASSUME NEW cache \in Seq(Seq(Tokens)), NEW embeds \in Seq(Tokens), NEW positions, NEW sees,
         \A j \in 1 .. Len(embeds) : sees[j] \subseteq 1 .. Len(cache) + j
  PROVE  /\ RowContexts(cache, embeds, positions, sees) \in Seq(Seq(Tokens))
         /\ Len(RowContexts(cache, embeds, positions, sees)) = Len(cache) + Len(embeds)
         /\ \A k \in 1 .. Len(cache) : RowContexts(cache, embeds, positions, sees)[k] = cache[k]
<1> DEFINE n == Len(embeds)
           w == Len(cache)
<1>0. PICK f : ContextRun(f, cache, embeds, positions, sees)
  BY RowContextsIs, Zenon
<1>1. /\ f \in [0 .. n -> Seq(Seq(Tokens))]
      /\ f[0] = cache
      /\ \A j \in 1 .. n :
           /\ Len(f[j-1]) = w + j - 1
           /\ f[j] = Append(f[j-1], Following(f[j-1], j, w, embeds, positions, sees))
      /\ RowContexts(cache, embeds, positions, sees) = f[n]
  BY <1>0, Zenon DEF ContextRun
<1>2. n \in Nat /\ w \in Nat
  OBVIOUS
<1>3. f \in [0 .. n -> Seq(Seq(Tokens))] /\ f[0] = cache
  BY <1>1
<1>4. \A k \in 1 .. w : cache[k] = f[0][k]
  BY <1>3
<1> HIDE DEF n, w
<1> DEFINE S == {j \in 0 .. n : Len(f[j]) = w + j /\ \A k \in 1 .. w : f[j][k] = cache[k]}
<1>5. 0 \in S
  BY <1>2, <1>3 DEF w
<1>6. ASSUME NEW j \in 1 .. n, j - 1 \in S PROVE j \in S
  <2> DEFINE x == Following(f[j-1], j, w, embeds, positions, sees)
  <2>1. f[j] = Append(f[j-1], x)
    BY <1>1, Zenon
  <2> HIDE DEF x
  <2>2. /\ Len(f[j-1]) = w + j - 1 /\ j \in 0 .. n /\ j - 1 \in 0 .. n
        /\ \A k \in 1 .. w : f[j-1][k] = cache[k]
    BY <1>2, <1>6
  <2>3. f[j-1] \in Seq(Seq(Tokens)) /\ f[j] \in Seq(Seq(Tokens))
    BY <1>3, <2>2
  <2>4. /\ Len(Append(f[j-1], x)) = Len(f[j-1]) + 1
        /\ \A k \in 1 .. Len(f[j-1]) : Append(f[j-1], x)[k] = f[j-1][k]
    BY <2>3
  <2>5. \A k \in 1 .. w : k \in 1 .. Len(f[j-1])
    BY <1>2, <2>2
  <2>6. Len(f[j]) = w + j
    BY <2>1, <2>2, <2>4, <1>2
  <2>7. \A k \in 1 .. w : f[j][k] = cache[k]
    BY <2>1, <2>2, <2>4, <2>5
  <2>8. QED
    BY <2>2, <2>6, <2>7
<1>7. n \in S
  <2> HIDE DEF S
  <2>1. \A j \in 0 .. n : j \in S
    BY <1>2, <1>5, <1>6, UpTo
  <2>2. QED
    BY <1>2, <2>1
<1>8. f[n] \in Seq(Seq(Tokens))
  BY <1>2, <1>3
<1>9. RowContexts(cache, embeds, positions, sees) = f[n]
  BY <1>1
<1>10. QED
  BY <1>7, <1>8, <1>9 DEF n, w

\* A token that sees exactly the tokens before it and itself has the context of them all.
LEMMA FollowsPrefix ==
  ASSUME NEW c \in Seq(Tokens), NEW p \in 1 .. Len(c), NEW r,
         \A k \in 1 .. p - 1 : r[k] = SubSeq(c, 1, k)
  PROVE  Attend(c[p], p - 1, r, (1 .. p) \ {p}) = SubSeq(c, 1, p)
<1> DEFINE d == SubSeq(c, 1, p - 1)
<1>1. /\ p \in Nat /\ p - 1 \in 0 .. Len(c) /\ (1 .. p) \ {p} = 1 .. p - 1
      /\ d \in Seq(Tokens) /\ Len(d) = p - 1 /\ SubSeq(c, 1, p) = Append(d, c[p])
  BY PrefixFacts
<1>2. \A k \in 1 .. p - 1 : SubSeq(d, 1, k) = SubSeq(c, 1, k)
  <2>1. \A k \in 1 .. p - 1 : k \in 0 .. p - 1
    OBVIOUS
  <2>2. QED
    BY <1>1, <2>1, PrefixFacts
<1> HIDE DEF d
<1>3. CASE p = 1
  <2>1. d = <<>> /\ 1 .. p - 1 = {}
    BY <1>1, <1>3
  <2>2. SubSeq(c, 1, p) = <<c[p]>>
    BY <1>1, <2>1
  <2>3. QED
    BY <1>1, <1>3, <2>1, <2>2, AttendFirst
<1>4. CASE p # 1
  <2>1. d # <<>>
    BY <1>1, <1>4
  <2>2. Cardinality(1 .. p - 1) = Len(d)
    BY <1>1, FS_Interval
  <2>3. {r[k] : k \in 1 .. p - 1} = {SubSeq(d, 1, k) : k \in 1 .. Len(d)}
    <3>1. \A k \in 1 .. p - 1 : r[k] = SubSeq(d, 1, k)
      BY <1>2
    <3>2. QED
      BY <3>1, <1>1
  <2>4. Attend(c[p], Len(d), r, 1 .. p - 1) = Append(d, c[p])
    BY <1>1, <2>1, <2>2, <2>3, AttendWhole
  <2>5. QED
    BY <2>4, <1>1
<1>5. QED
  BY <1>3, <1>4

\* The contexts of a row are the beginnings of what it was embedded as, up to a length.
Holds(row, c, n) == \A k \in 1 .. n : row[k] = SubSeq(c, 1, k)

\* New tokens that continue the row c from a cache of its beginning, each seeing itself
\* and what is before it; what follows them, padding, may be anything.
FillsRow(c, cache, embeds, positions, sees) ==
  /\ c \in Seq(Tokens) /\ cache \in Seq(Seq(Tokens)) /\ embeds \in Seq(Tokens)
  /\ Len(cache) <= Len(c) /\ Len(c) <= Len(cache) + Len(embeds)
  /\ Holds(cache, c, Len(cache))
  /\ \A j \in 1 .. Len(embeds) : sees[j] \subseteq 1 .. Len(cache) + j
  /\ \A j \in 1 .. Len(embeds) : Len(cache) + j <= Len(c) =>
       /\ embeds[j] = c[Len(cache) + j]
       /\ positions[j] = Len(cache) + j - 1
       /\ sees[j] = 1 .. Len(cache) + j

\* They fill the row with the contexts of its tokens.
LEMMA RowFilled ==
  ASSUME NEW c, NEW cache, NEW embeds, NEW positions, NEW sees,
         FillsRow(c, cache, embeds, positions, sees)
  PROVE  Holds(RowContexts(cache, embeds, positions, sees), c, Len(c))
<1> DEFINE n == Len(embeds)
           w == Len(cache)
           l == Len(c)
<1>0. /\ c \in Seq(Tokens) /\ cache \in Seq(Seq(Tokens)) /\ embeds \in Seq(Tokens)
      /\ w <= l /\ l <= w + n
      /\ \A k \in 1 .. w : cache[k] = SubSeq(c, 1, k)
      /\ \A j \in 1 .. n : sees[j] \subseteq 1 .. w + j
      /\ \A j \in 1 .. n : w + j <= l =>
           embeds[j] = c[w + j] /\ positions[j] = w + j - 1 /\ sees[j] = 1 .. w + j
  BY DEF FillsRow, Holds
<1>1. PICK f : ContextRun(f, cache, embeds, positions, sees)
  BY <1>0, RowContextsIs, Zenon
<1>2. /\ f \in [0 .. n -> Seq(Seq(Tokens))]
      /\ f[0] = cache
      /\ RowContexts(cache, embeds, positions, sees) = f[n]
  BY <1>1 DEF ContextRun
<1>3. \A j \in 1 .. n : /\ Len(f[j-1]) = w + j - 1
                        /\ f[j] = Append(f[j-1], Following(f[j-1], j, w, embeds, positions, sees))
  BY <1>1, Zenon DEF ContextRun
<1>4. n \in Nat /\ w \in Nat /\ l \in Nat /\ w <= l /\ l <= w + n
  BY <1>0
<1>5. \A k \in 1 .. w : f[0][k] = SubSeq(c, 1, k)
  BY <1>0, <1>2
<1>6. ASSUME NEW j \in 1 .. n, w + j <= l
      PROVE  /\ embeds[j] = c[w + j] /\ positions[j] = w + j - 1
             /\ sees[j] = 1 .. w + j /\ w + j \in 1 .. l
  BY <1>0, <1>4, <1>6
<1> HIDE DEF n, w, l
<1> DEFINE S == {j \in 0 .. n : \A k \in 1 .. l : k <= w + j => f[j][k] = SubSeq(c, 1, k)}
<1>7. 0 \in S
  <2>1. \A k \in 1 .. l : k <= w + 0 => k \in 1 .. w
    BY <1>4
  <2>2. QED
    BY <2>1, <1>4, <1>5
<1>8. ASSUME NEW j \in 1 .. n, j - 1 \in S PROVE j \in S
  <2> DEFINE x == Following(f[j-1], j, w, embeds, positions, sees)
  <2>1. f[j] = Append(f[j-1], x) /\ Len(f[j-1]) = w + j - 1
    BY <1>3, Zenon
  <2>2. j \in 0 .. n /\ j - 1 \in 0 .. n /\ w + (j - 1) = w + j - 1 /\ w + j \in Nat
    BY <1>4
  <2>3. \A k \in 1 .. l : k <= w + j - 1 => f[j-1][k] = SubSeq(c, 1, k)
    BY <1>8, <2>2
  <2>4. f[j-1] \in Seq(Seq(Tokens))
    BY <1>2, <2>2
  <2>5. w + j <= l => x = SubSeq(c, 1, w + j)
    <3> SUFFICES ASSUME w + j <= l PROVE x = SubSeq(c, 1, w + j)
      OBVIOUS
    <3>1. /\ embeds[j] = c[w + j] /\ positions[j] = w + j - 1
          /\ sees[j] = 1 .. w + j /\ w + j \in 1 .. l
      BY <1>6
    <3>2. x = Attend(c[w + j], w + j - 1, f[j-1], (1 .. w + j) \ {w + j})
      <4>1. w + j \in sees[j]
        BY <3>1, <2>2
      <4>2. QED
        BY <4>1, <3>1 DEF Following
    <3>3. \A k \in 1 .. (w + j) - 1 : f[j-1][k] = SubSeq(c, 1, k)
      <4>1. \A k \in 1 .. (w + j) - 1 : k \in 1 .. l /\ k <= w + j - 1
        BY <3>1, <1>4, <2>2
      <4>2. QED
        BY <4>1, <2>3
    <3>4. Attend(c[w + j], w + j - 1, f[j-1], (1 .. w + j) \ {w + j}) = SubSeq(c, 1, w + j)
      <4>1. \A p \in 1 .. l : p = w + j =>
              Attend(c[p], p - 1, f[j-1], (1 .. p) \ {p}) = SubSeq(c, 1, p)
        <5> SUFFICES ASSUME NEW p \in 1 .. l, p = w + j
                     PROVE  Attend(c[p], p - 1, f[j-1], (1 .. p) \ {p}) = SubSeq(c, 1, p)
          OBVIOUS
        <5>1. \A k \in 1 .. p - 1 : f[j-1][k] = SubSeq(c, 1, k)
          BY <3>3
        <5>2. QED
          BY <1>0, <5>1, FollowsPrefix DEF l
      <4>2. w + j \in 1 .. l /\ (w + j) - 1 = w + j - 1
        BY <3>1, <1>4
      <4>3. Attend(c[w + j], (w + j) - 1, f[j-1], (1 .. w + j) \ {w + j}) = SubSeq(c, 1, w + j)
        BY <4>1, <4>2, Zenon
      <4>4. QED
        BY <4>2, <4>3, Zenon
    <3>5. QED
      BY <3>2, <3>4, Zenon
  <2> HIDE DEF x
  <2>6. /\ \A k \in 1 .. Len(f[j-1]) : Append(f[j-1], x)[k] = f[j-1][k]
        /\ Append(f[j-1], x)[Len(f[j-1]) + 1] = x
    BY <2>4
  <2>7. ASSUME NEW k \in 1 .. l, k <= w + j PROVE f[j][k] = SubSeq(c, 1, k)
    <3>1. CASE k = w + j
      <4>1. f[j][k] = x
        BY <3>1, <2>1, <2>2, <2>6, <1>4
      <4>2. QED
        BY <4>1, <3>1, <2>5, <2>7
    <3>2. CASE k # w + j
      <4>1. k <= w + j - 1 /\ k \in 1 .. w + j - 1
        BY <3>2, <2>2, <2>7, <1>4
      <4>2. f[j][k] = f[j-1][k]
        BY <4>1, <2>1, <2>6
      <4>3. QED
        BY <4>1, <4>2, <2>3
    <3>3. QED
      BY <3>1, <3>2
  <2>8. QED
    BY <2>2, <2>7
<1>9. n \in S
  <2> HIDE DEF S
  <2>1. \A j \in 0 .. n : j \in S
    BY <1>4, <1>7, <1>8, UpTo
  <2>2. QED
    BY <1>4, <2>1
<1>10. \A k \in 1 .. l : k <= w + n
  BY <1>4
<1>11. QED
  BY <1>2, <1>9, <1>10 DEF l, Holds

--------------------------------------------------------------------------------
\* The audio of a prompt: what AudioLengths promises decoding, for recordings of every
\* length.

(* A whole chunk leaves thirteen embeddings, which are all the convolutions    *)
(* leave of it.                                                                *)
LEMMA WholeChunk == MaxT = 13 /\ FeatExtractOutputLength(Window) = 13
  <1>1. Conv(100) = 50 /\ Conv(50) = 25 /\ Conv(25) = 13
    BY DEF Conv
  <1>2. ASSUME NEW n \in Nat, n = 100
        PROVE  FeatExtractOutputLength(n) = 13
    <2>1. n % 100 = 0 /\ n \div 100 = 1
      BY <1>2
    <2>2. ASSUME NEW x \in Int, x < 0, x > 0 - 2
          PROVE  x \div 2 = x
      BY <2>2
    <2>3. ((n % 100) - 1) \div 2 + 1 = 0
      BY <2>1, <2>2
    <2>4. ((((n % 100) - 1) \div 2 + 1 - 1) \div 2) \div 2 + 1 = 0
      BY <2>2, <2>3
    <2> QED
      BY <2>1, <2>4 DEF FeatExtractOutputLength
  <1> QED
    BY <1>1, <1>2, AudioAssumption DEF MaxT

(* A chunk never leaves more than the convolutions do, a shorter one as many   *)
(* as its frames call for.                                                     *)
LEMMA ChunkBound ==
  ASSUME NEW n \in Nat, n < Window
  PROVE  FeatExtractOutputLength(n) \in 0..13
  BY AudioAssumption DEF FeatExtractOutputLength

(* A run of n positions from the first one holds n of them.                    *)
LEMMA RunOf ==
  ASSUME NEW n \in Nat
  PROVE  Cardinality(0..n - 1) = n
  <1>1. /\ 0 \in Int /\ n - 1 \in Int
        /\ (0 > n - 1) <=> n = 0
        /\ (n - 1) - 0 + 1 = n
    OBVIOUS
  <1> QED
    BY <1>1, FS_Interval

(* What the processor announces is thirteen for each whole chunk and what the  *)
(* rest of the frames leaves.                                                  *)
LEMMA AnnouncedByChunks ==
  ASSUME NEW n \in Nat
  PROVE  /\ FeatExtractOutputLength(n)
              = 13 * (n \div Window) + FeatExtractOutputLength(n % Window)
         /\ n % Window = 0 => FeatExtractOutputLength(n % Window) = 0
  <1>1. n \in Int /\ Window = 100
    BY AudioAssumption
  <1>2. (n % 100) % 100 = n % 100 /\ (n % 100) \div 100 = 0
    BY <1>1
  <1> QED
    BY <1>1, <1>2 DEF FeatExtractOutputLength

(* Of every number of frames that the processor leaves unmasked, the audio     *)
(* tower keeps an unbroken run of embeddings, as many as the processor wrote   *)
(* placeholders for, and no chunk holds more than the convolutions made of it. *)
THEOREM TowerReturnsAnnounced ==
  ASSUME NEW frames \in Nat
  PROVE  /\ ChunksFit(frames)
         /\ Kept(frames) = 0..FeatExtractOutputLength(frames) - 1
         /\ Embeddings(frames) = FeatExtractOutputLength(frames)
  <1> DEFINE whole == frames \div Window
             rest  == frames % Window
             last  == FeatExtractOutputLength(rest)
  <1>1. /\ whole \in Nat /\ rest \in Nat /\ rest < Window
        /\ frames = 100 * whole + rest /\ Window = 100
    BY AudioAssumption
  <1>2. /\ last \in 0..13
        /\ rest = 0 => last = 0
        /\ FeatExtractOutputLength(frames) = 13 * whole + last
    BY <1>1, ChunkBound, AnnouncedByChunks
  <1>3. ChunkNum(frames) = IF rest = 0 THEN whole ELSE whole + 1
    BY <1>1 DEF ChunkNum, CeilDiv
  <1>4. ASSUME NEW c \in 1..ChunkNum(frames)
        PROVE  AfterCnn(frames, c) = IF c <= whole THEN 13 ELSE last
    BY <1>1, <1>3, WholeChunk DEF AfterCnn, ChunkLength
  <1> HIDE DEF whole, rest, last
  <1>5. ChunksFit(frames)
    <2> SUFFICES ASSUME NEW c \in 1..ChunkNum(frames)
                 PROVE  AfterCnn(frames, c) <= MaxT
      BY DEF ChunksFit
    <2> QED
      BY <1>2, <1>4, WholeChunk
  <1>6. Kept(frames) = 0..FeatExtractOutputLength(frames) - 1
    <2>1. ASSUME NEW p \in Kept(frames)
          PROVE  p \in 0..FeatExtractOutputLength(frames) - 1
      <3>1. PICK c \in 1..ChunkNum(frames) :
              \E j \in 0..AfterCnn(frames, c) - 1 : p = (c - 1) * 13 + j
        BY WholeChunk DEF Kept
      <3>2. PICK j \in 0..AfterCnn(frames, c) - 1 : p = (c - 1) * 13 + j
        BY <3>1
      <3>3. CASE c <= whole
        BY <3>2, <3>3, <1>1, <1>2, <1>3, <1>4
      <3>4. CASE c = whole + 1
        BY <3>2, <3>4, <1>1, <1>2, <1>3, <1>4
      <3> QED
        BY <3>3, <3>4, <1>1, <1>3
    <2>2. ASSUME NEW p \in 0..FeatExtractOutputLength(frames) - 1
          PROVE  p \in Kept(frames)
      <3> DEFINE c == p \div 13 + 1
                 j == p % 13
      <3>1. p = (c - 1) * 13 + j /\ c \in Nat \ {0} /\ j \in 0..12
        BY <1>1, <1>2
      <3>2. c \in 1..ChunkNum(frames)
        BY <3>1, <1>1, <1>2, <1>3
      <3>3. j \in 0..AfterCnn(frames, c) - 1
        BY <3>1, <3>2, <1>1, <1>2, <1>3, <1>4
      <3> QED
        BY <3>1, <3>2, <3>3, WholeChunk DEF Kept
    <2> QED
      BY <2>1, <2>2
  <1>7. Embeddings(frames) = FeatExtractOutputLength(frames)
    <2>1. FeatExtractOutputLength(frames) \in Nat
      BY ONLY <1>1, <1>2
    <2> QED
      BY ONLY <1>6, <2>1, RunOf DEF Embeddings
  <1> QED
    BY <1>5, <1>6, <1>7

(* The default padding of waveforms masks the same frames of a recording as    *)
(* the mode it replaced, which computed all of them, whatever the batch.       *)
THEOREM ModesMaskTheSame ==
  ASSUME NEW samples \in Nat, NEW longest \in Nat, samples <= longest,
         NEW i \in Nat
  PROVE  (i < longest \div Hop /\ i * Hop < samples)
           <=> i < (IF samples = 0 THEN 0
                    ELSE Least(CeilDiv(samples, Hop), longest \div Hop))
  BY DEF Hop, Least, CeilDiv

(* Attention windows start at the first embedding, end with the last, and none *)
(* is empty or wider than the configuration allows.                            *)
THEOREM WindowsTileAlways ==
  ASSUME NEW total \in Nat \ {0}
  PROVE  WindowsTile(total)
  <1> DEFINE w == WindowAfterCnn
             n == CeilDiv(total, w)
  <1>1. w \in Nat \ {0}
    <2>1. WindowInfer \div Window \in Nat \ {0}
      BY AudioAssumption
    <2> QED
      BY <2>1, WholeChunk DEF WindowAfterCnn
  <1> HIDE DEF w
  <1>2. n \in Nat \ {0} /\ (n - 1) * w < total /\ total <= n * w
    <2>1. n = (total + w - 1) \div w
      BY DEF CeilDiv
    <2>2. total + w - 1 \in Nat /\ n \in Nat
      BY <1>1, <2>1
    <2>3. n * w <= total + w - 1 /\ total + w - 1 < (n + 1) * w
      BY <1>1, <2>1, <2>2
    <2>4. (n + 1) * w = n * w + w /\ (n - 1) * w = n * w - w
      BY <1>1, <2>2
    <2> QED
      BY <1>1, <2>2, <2>3, <2>4
  <1> HIDE DEF n
  <1> DEFINE ends == [k \in 1..n |-> Least(k * w, total)]
             cu   == <<0>> \o ends
  <1>3. CuSeqlens(total) = cu
    BY DEF CuSeqlens, n, w
  <1>4. ASSUME NEW k \in 0..n
        PROVE  /\ Least(k * w, total) \in Nat
               /\ k < n => Least(k * w, total) = k * w /\ k * w < total
               /\ k = n => Least(k * w, total) = total
    <2>1. k * w \in Nat
      BY <1>1
    <2>2. ASSUME k < n
          PROVE  k * w <= (n - 1) * w
      <3>1. n - 1 - k \in Nat
        BY <1>2, <2>2
      <3>2. (n - 1 - k) * w \in Nat
        BY <1>1, <3>1
      <3>3. (n - 1) * w = k * w + (n - 1 - k) * w
        BY <1>1, <1>2, <3>1
      <3> QED
        BY <1>1, <1>2, <2>1, <3>2, <3>3
    <2> QED
      BY <1>1, <1>2, <2>1, <2>2 DEF Least
  <1>5. /\ Len(cu) = n + 1
        /\ \A k \in 1..n + 1 : cu[k] = Least((k - 1) * w, total)
    <2>1. ends \in Seq(Nat) /\ Len(ends) = n
      BY <1>2, <1>4
    <2>2. Least((1 - 1) * w, total) = 0
      BY <1>1 DEF Least
    <2>3. ASSUME NEW k \in 1..n + 1
          PROVE  cu[k] = IF k = 1 THEN 0 ELSE ends[k - 1]
      BY <1>2, <2>1
    <2> QED
      BY <1>2, <2>1, <2>2, <2>3
  <1> HIDE DEF ends, cu
  <1>6. ASSUME NEW k \in 1..n
        PROVE  cu[k] < cu[k + 1] /\ cu[k + 1] - cu[k] <= w
    <2>1. cu[k] = Least((k - 1) * w, total) /\ cu[k + 1] = Least(k * w, total)
      BY <1>2, <1>5
    <2>2. k * w = (k - 1) * w + w /\ k * w \in Nat
      BY <1>1
    <2>3. cu[k] = (k - 1) * w /\ (k - 1) * w < total
      BY <1>2, <1>4, <2>1
    <2>4. cu[k + 1] = IF k * w < total THEN k * w ELSE total
      BY <2>1 DEF Least
    <2> QED
      BY <1>1, <2>2, <2>3, <2>4
  <1>7. cu[1] = 0 /\ cu[Len(cu)] = total
    BY <1>1, <1>2, <1>4, <1>5 DEF Least
  <1> QED
    BY <1>2, <1>3, <1>5, <1>6, <1>7 DEF WindowsTile, w

--------------------------------------------------------------------------------
\* Tensors of a batch.

\* A sequence of numbers has a greatest.
LEMMA MaxIs ==
  ASSUME NEW n \in Nat \ {0}, NEW f \in [1 .. n -> Nat]
  PROVE  /\ Max({f[i] : i \in 1 .. n}) \in Nat
         /\ \A i \in 1 .. n : f[i] <= Max({f[j] : j \in 1 .. n})
<1> DEFINE S == {m \in 0 .. n : m # 0 => \E x \in 1 .. m : \A i \in 1 .. m : f[i] <= f[x]}
           T == {f[i] : i \in 1 .. n}
<1>1. 0 \in S
  OBVIOUS
<1>2. ASSUME NEW m \in 1 .. n, m - 1 \in S PROVE m \in S
  <2>1. CASE m = 1
    BY <2>1
  <2>2. CASE m # 1
    <3>1. PICK x \in 1 .. m - 1 : \A i \in 1 .. m - 1 : f[i] <= f[x]
      BY <1>2, <2>2
    <3>2. x \in 1 .. m /\ f[x] \in Nat /\ f[m] \in Nat
      OBVIOUS
    <3>3. \A i \in 1 .. m : i \in 1 .. m - 1 \/ i = m
      OBVIOUS
    <3>4. CASE f[x] <= f[m]
      <4>1. \A i \in 1 .. m : f[i] <= f[m]
        BY <3>1, <3>2, <3>3, <3>4
      <4>2. QED
        BY <4>1
    <3>5. CASE f[m] <= f[x]
      <4>1. \A i \in 1 .. m : f[i] <= f[x]
        BY <3>1, <3>2, <3>3, <3>5
      <4>2. QED
        BY <4>1, <3>2
    <3>6. QED
      BY <3>2, <3>4, <3>5
  <2>3. QED
    BY <2>1, <2>2
<1>3. n \in S
  <2> HIDE DEF S
  <2>1. \A m \in 0 .. n : m \in S
    BY <1>1, <1>2, UpTo
  <2>2. QED
    BY <2>1
<1>4. PICK x \in 1 .. n : \A i \in 1 .. n : f[i] <= f[x]
  BY <1>3
<1>5. \E z \in T : \A y \in T : z >= y
  BY <1>4
<1>6. Max(T) \in T /\ \A y \in T : Max(T) >= y
  <2> HIDE DEF T
  <2>1. QED
    BY <1>5 DEF Max
<1>7. QED
  BY <1>6

\* A set of numbers has a least.
LEMMA MinIs ==
  ASSUME NEW S \in SUBSET Nat, S # {}
  PROVE  Min(S) \in S /\ \A x \in S : Min(S) <= x
<1> DEFINE below == OpToRel(<, Nat)
<1>1. IsWellFoundedOn(below, Nat)
  BY NatLessThanWellFounded
<1>2. \A i, j \in Nat : i < j => <<i, j>> \in below
  BY DEF OpToRel
<1> HIDE DEF below
<1>3. PICK k \in S : \A i \in S : ~(<<i, k>> \in below)
  BY <1>1, WFMin
<1>4. ASSUME NEW i \in S PROVE k <= i
  <2>1. i \in Nat /\ k \in Nat
    OBVIOUS
  <2>2. ~(i < k)
    BY <1>2, <1>3, <2>1
  <2>3. QED
    BY <2>1, <2>2
<1>5. QED
  BY <1>4 DEF Min

\* The columns of a batch hold every prompt.
LEMMA WidthIs ==
  ASSUME NEW b \in Batches
  PROVE  /\ Width(b) \in Nat
         /\ \A i \in 1 .. Len(b) : Len(b[i].ids) <= Width(b)
<1>1. Len(b) \in Nat \ {0} /\ DOMAIN b = 1 .. Len(b) /\ PromptLens(b) \in [1 .. Len(b) -> Nat]
  BY BatchFacts
<1>2. \A i \in 1 .. Len(b) : PromptLens(b)[i] = Len(b[i].ids)
  BY <1>1 DEF PromptLens
<1>3. {Len(b[i].ids) : i \in DOMAIN b} = {PromptLens(b)[i] : i \in 1 .. Len(b)}
  BY <1>1, <1>2
<1>4. Width(b) = Max({PromptLens(b)[i] : i \in 1 .. Len(b)})
  BY <1>3 DEF Width
<1> DEFINE f == PromptLens(b)
<1>5. f \in [1 .. Len(b) -> Nat] /\ Width(b) = Max({f[i] : i \in 1 .. Len(b)})
  BY <1>1, <1>4
<1> HIDE DEF f
<1>6. Width(b) \in Nat /\ \A i \in 1 .. Len(b) : f[i] <= Width(b)
  BY <1>1, <1>5, MaxIs
<1>7. QED
  BY <1>2, <1>6 DEF f

\* A mask of n ones and the rest of l places padding.
RightPadded(m, n, l) ==
  /\ n \in Nat /\ l \in Nat /\ n <= l
  /\ m \in Seq({0, 1}) /\ Len(m) = l
  /\ OnesIn(m) = 1 .. n

\* What the model reads off such a mask.
LEMMA MaskFacts ==
  ASSUME NEW m, NEW n, NEW l, RightPadded(m, n, l)
  PROVE  /\ DOMAIN m = 1 .. l
         /\ PromptLen(m) = n
         /\ IsRightPadded(m)
         /\ IsDense(m) => n = l
         /\ n = l => IsDense(m)
         /\ \A j \in 1 .. n : RopeIndex(m)[j] = j - 1
         /\ Len(RopeIndex(m)) = l
<1>1. DOMAIN m = 1 .. l /\ n \in Nat /\ l \in Nat /\ n <= l /\ OnesIn(m) = 1 .. n
  BY DEF RightPadded
<1>2. PromptLen(m) = n
  <2>1. Cardinality(1 .. n) = n
    BY <1>1, FS_Interval
  <2>2. QED
    BY <1>1, <2>1 DEF PromptLen
<1>3. IsRightPadded(m)
  BY <1>1, <1>2 DEF IsRightPadded
<1>4. IsDense(m) => n = l
  BY <1>1 DEF IsDense
<1>5. n = l => IsDense(m)
  BY <1>1 DEF IsDense
<1>6. ASSUME NEW j \in 1 .. n PROVE RopeIndex(m)[j] = j - 1
  <2>1. {k \in OnesIn(m) : k <= j} = 1 .. j
    BY <1>1
  <2>2. Cardinality(1 .. j) = j
    BY FS_Interval, <1>1
  <2>3. j \in DOMAIN m /\ m[j] # 0
    BY <1>1 DEF OnesIn
  <2>4. RopeIndex(m)[j] = Cardinality({k \in OnesIn(m) : k <= j}) - 1
    BY <2>3 DEF RopeIndex
  <2>5. QED
    BY <2>1, <2>2, <2>4
<1>7. Len(RopeIndex(m)) = l
  BY <1>1 DEF RopeIndex
<1>8. QED
  BY <1>1, <1>2, <1>3, <1>4, <1>5, <1>6, <1>7

\* A row without padding.
LEMMA OnesPadded ==
  ASSUME NEW n \in Nat
  PROVE  RightPadded(Ones(n), n, n)
BY DEF RightPadded, Ones, OnesIn

\* What a batch padded on the right is made of.
LEMMA PaddedRight ==
  ASSUME NEW b \in Batches, NEW i \in 1 .. Len(b),
         NEW S, NEW x \in S, NEW row \in Seq(S), Len(row) = Len(b[i].ids)
  PROVE  /\ Padded(b, "right", i, row, x) \in Seq(S)
         /\ Len(Padded(b, "right", i, row, x)) = Width(b)
         /\ \A j \in 1 .. Width(b) :
              Padded(b, "right", i, row, x)[j] = IF j <= Len(row) THEN row[j] ELSE x
<1> DEFINE n == Width(b) - Len(b[i].ids)
           pad == Fill(n, x)
<1>1. Width(b) \in Nat /\ n \in Nat
  BY WidthIs, BatchFacts
<1>2. pad \in Seq(S) /\ Len(pad) = n /\ \A j \in 1 .. n : pad[j] = x
  BY <1>1, SMTT(30) DEF Fill
<1>3. Padded(b, "right", i, row, x) = row \o pad
  BY DEF Padded
<1>4. Len(row) + n = Width(b)
  BY <1>1
<1> HIDE DEF n, pad
<1>5. /\ row \o pad \in Seq(S) /\ Len(row \o pad) = Width(b)
      /\ \A j \in 1 .. Len(row) : (row \o pad)[j] = row[j]
      /\ \A j \in 1 .. n : (row \o pad)[Len(row) + j] = x
  BY <1>1, <1>2, <1>4
<1>6. ASSUME NEW j \in 1 .. Width(b)
      PROVE  (row \o pad)[j] = IF j <= Len(row) THEN row[j] ELSE x
  <2>1. CASE j <= Len(row)
    BY <2>1, <1>5
  <2>2. CASE ~(j <= Len(row))
    <3>1. j - Len(row) \in 1 .. n /\ Len(row) + (j - Len(row)) = j
      BY <1>1, <1>4, <2>2
    <3>2. QED
      BY <1>5, <2>2, <3>1
  <2>3. QED
    BY <2>1, <2>2
<1>7. QED
  BY <1>3, <1>5, <1>6

\* The masks of a batch padded on the right.
LEMMA MasksAre ==
  ASSUME NEW b \in Batches
  PROVE  /\ DOMAIN MasksOf(b, "right") = 1 .. Len(b)
         /\ \A i \in 1 .. Len(b) :
              RightPadded(MasksOf(b, "right")[i], Len(b[i].ids), Width(b))
<1>1. DOMAIN b = 1 .. Len(b)
  BY BatchFacts
<1>2. ASSUME NEW i \in 1 .. Len(b)
      PROVE  RightPadded(MasksOf(b, "right")[i], Len(b[i].ids), Width(b))
  <2> DEFINE n == Len(b[i].ids)
             m == Padded(b, "right", i, Ones(n), 0)
  <2>1. n \in Nat /\ Width(b) \in Nat /\ n <= Width(b)
    BY BatchFacts, WidthIs
  <2> DEFINE B == {0, 1}
  <2> HIDE DEF n
  <2>2. Ones(n) \in Seq(B) /\ Len(Ones(n)) = n /\ \A j \in 1 .. n : Ones(n)[j] = 1
    BY <2>1 DEF Ones
  <2>3. 0 \in B /\ Len(Ones(n)) = Len(b[i].ids)
    BY <2>2 DEF n
  <2>7. /\ m \in Seq(B) /\ Len(m) = Width(b)
        /\ \A j \in 1 .. Width(b) : m[j] = IF j <= n THEN Ones(n)[j] ELSE 0
    <3> HIDE DEF B
    <3>1. /\ m \in Seq(B) /\ Len(m) = Width(b)
          /\ \A j \in 1 .. Width(b) : m[j] = IF j <= Len(Ones(n)) THEN Ones(n)[j] ELSE 0
      BY <2>2, <2>3, PaddedRight
    <3>2. QED
      BY <3>1, <2>2
  <2> HIDE DEF m
  <2>4. OnesIn(m) = 1 .. n
    BY <2>1, <2>2, <2>7 DEF OnesIn
  <2>5. MasksOf(b, "right")[i] = m
    BY <1>1 DEF MasksOf, m, n
  <2>6. QED
    BY <2>1, <2>7, <2>4, <2>5 DEF RightPadded, n
<1>3. QED
  BY <1>1, <1>2 DEF MasksOf

\* The ids of a batch padded on the right.
LEMMA IdsAre ==
  ASSUME NEW b \in Batches
  PROVE  /\ IdsOf(b, "right") \in Seq(Seq(Tokens)) /\ Len(IdsOf(b, "right")) = Len(b)
         /\ \A i \in 1 .. Len(b) :
              /\ Len(IdsOf(b, "right")[i]) = Width(b)
              /\ \A j \in 1 .. Width(b) :
                   IdsOf(b, "right")[i][j] = IF j <= Len(b[i].ids) THEN b[i].ids[j] ELSE PadToken
<1>1. DOMAIN b = 1 .. Len(b) /\ Len(b) \in Nat
  BY BatchFacts
<1>2. ASSUME NEW i \in 1 .. Len(b)
      PROVE  /\ IdsOf(b, "right")[i] \in Seq(Tokens)
             /\ Len(IdsOf(b, "right")[i]) = Width(b)
             /\ \A j \in 1 .. Width(b) :
                  IdsOf(b, "right")[i][j] = IF j <= Len(b[i].ids) THEN b[i].ids[j] ELSE PadToken
  <2> DEFINE row == b[i].ids
  <2>1. row \in Seq(Tokens) /\ Len(row) = Len(b[i].ids) /\ PadToken \in Tokens
    BY BatchFacts, DecodeAssumption
  <2>2. IdsOf(b, "right")[i] = Padded(b, "right", i, row, PadToken)
    BY <1>1 DEF IdsOf
  <2>3. QED
    BY <2>1, <2>2, PaddedRight
<1>3. IdsOf(b, "right") \in [1 .. Len(b) -> Seq(Tokens)]
  <2>1. IdsOf(b, "right") = [i \in 1 .. Len(b) |-> IdsOf(b, "right")[i]]
    BY <1>1 DEF IdsOf
  <2>2. QED
    BY <1>2, <2>1
<1>4. QED
  BY <1>1, <1>2, <1>3

SeesOwn(sees, n, l, cached, j) ==
  /\ sees[j] \subseteq 1 .. cached + j
  /\ (build.flash /\ cached > 0 => n = l) /\ cached + j <= n => sees[j] = 1 .. cached + j

\* The keys a new token of a row padded on the right may attend, the row's own up to it:
\* with flash attention on a cache only when the row has no padding at all.
LEMMA SeesPadded ==
  ASSUME NEW m, NEW n, NEW l, RightPadded(m, n, l), NEW cached \in 0 .. l,
         NEW j \in 1 .. l - cached
  PROVE  SeesOwn(Sees(m, cached, l - cached), n, l, cached, j)
<1>0. SUFFICES /\ Sees(m, cached, l - cached)[j] \subseteq 1 .. cached + j
               /\ (build.flash /\ cached > 0 => n = l) /\ cached + j <= n =>
                    Sees(m, cached, l - cached)[j] = 1 .. cached + j
  BY DEF SeesOwn
<1>1. /\ n \in Nat /\ l \in Nat /\ n <= l /\ cached \in Nat /\ OnesIn(m) = 1 .. n
      /\ Len(m) = l /\ PromptLen(m) = n /\ cached + j \in 1 .. l
  <2>1. PromptLen(m) = n
    BY MaskFacts
  <2>2. QED
    BY <2>1 DEF RightPadded
<1>2. CASE build.flash /\ cached > 0
  <2> DEFINE last == PromptLen(m) - (l - cached) + j
  <2>1. Sees(m, cached, l - cached)[j] =
          {k \in OnesIn(m) : Cardinality({x \in OnesIn(m) : x <= k}) <= last}
    BY <1>2 DEF Sees, BottomRight
  <2>2. last = (n - l) + (cached + j) /\ last \in Int /\ last <= cached + j
    BY <1>1
  <2> HIDE DEF last
  <2>3. ASSUME NEW k \in 1 .. n PROVE Cardinality({x \in 1 .. n : x <= k}) = k
    <3>1. {x \in 1 .. n : x <= k} = 1 .. k
      BY <1>1
    <3>2. Cardinality(1 .. k) = k
      BY <1>1, FS_Interval
    <3>3. QED
      BY <3>1, <3>2
  <2>4. Sees(m, cached, l - cached)[j] = {k \in 1 .. n : k <= last}
    <3>1. Sees(m, cached, l - cached)[j]
            = {k \in 1 .. n : Cardinality({x \in 1 .. n : x <= k}) <= last}
      BY <1>1, <2>1
    <3>2. \A k \in 1 .. n : (Cardinality({x \in 1 .. n : x <= k}) <= last) <=> (k <= last)
      BY <2>3
    <3>3. QED
      BY <3>1, <3>2
  <2>5. {k \in 1 .. n : k <= last} \subseteq 1 .. cached + j
    BY <2>2, <1>1
  <2>6. n = l => {k \in 1 .. n : k <= last} = 1 .. cached + j
    BY <2>2, <1>1
  <2>7. QED
    BY <1>2, <2>4, <2>5, <2>6
<1>3. CASE ~(build.flash /\ cached > 0) /\ build.device = "metal" /\ cached = 0
  <2>1. Sees(m, cached, l - cached)[j] = {k \in OnesIn(Ones(l)) : k <= 0 + j}
    BY <1>1, <1>3 DEF Sees, CausalMask
  <2>2. OnesIn(Ones(l)) = 1 .. l
    BY <1>1, OnesPadded DEF RightPadded
  <2>3. {k \in 1 .. l : k <= 0 + j} = 1 .. cached + j
    BY <1>1, <1>3
  <2>4. QED
    BY <2>1, <2>2, <2>3
<1>4. CASE ~(build.flash /\ cached > 0) /\ ~(build.device = "metal" /\ cached = 0)
  <2>1. Sees(m, cached, l - cached)[j] = {k \in OnesIn(m) : k <= cached + j}
    BY <1>1, <1>4 DEF Sees, CausalMask
  <2>2. {k \in 1 .. n : k <= cached + j} \subseteq 1 .. cached + j
    BY <1>1
  <2>3. cached + j <= n => {k \in 1 .. n : k <= cached + j} = 1 .. cached + j
    BY <1>1
  <2>4. QED
    BY <2>1, <2>2, <2>3, <1>1
<1>5. QED
  BY <1>2, <1>3, <1>4

\* A pass for one token lets it attend every key its mask has.
LEMMA SeesNext ==
  ASSUME NEW l \in Nat \ {0}, NEW m \in Seq({0, 1}), Len(m) = l + 1
  PROVE  Sees(m, l, 1)[1] = OnesIn(m) /\ OnesIn(m) \subseteq 1 .. l + 1
<1>1. OnesIn(m) \subseteq 1 .. l + 1
  BY DEF OnesIn
<1>2. CASE build.flash
  <2>1. Sees(m, l, 1)[1] =
          {k \in OnesIn(m) : Cardinality({x \in OnesIn(m) : x <= k}) <= PromptLen(m) - 1 + 1}
    BY <1>2 DEF Sees, BottomRight
  <2>2. IsFiniteSet(OnesIn(m))
    <3>1. IsFiniteSet(1 .. l + 1)
      BY FS_Interval
    <3>2. QED
      BY <1>1, <3>1, FS_Subset
  <2>3. PromptLen(m) \in Nat /\ PromptLen(m) - 1 + 1 = PromptLen(m)
    BY <2>2, FS_CardinalityType DEF PromptLen
  <2>4. ASSUME NEW k \in OnesIn(m)
        PROVE  Cardinality({x \in OnesIn(m) : x <= k}) <= PromptLen(m)
    <3>1. {x \in OnesIn(m) : x <= k} \in SUBSET OnesIn(m)
      OBVIOUS
    <3>2. QED
      BY <3>1, <2>2, FS_Subset DEF PromptLen
  <2>5. \A k \in OnesIn(m) :
          Cardinality({x \in OnesIn(m) : x <= k}) <= PromptLen(m) - 1 + 1
    BY <2>3, <2>4
  <2>6. OnesIn(m) = {k \in OnesIn(m) : Cardinality({x \in OnesIn(m) : x <= k})
                                          <= PromptLen(m) - 1 + 1}
    BY <2>5, Zenon
  <2>7. Sees(m, l, 1)[1] = OnesIn(m)
    BY <2>1, <2>6
  <2>8. QED
    BY <1>1, <2>7
<1>3. CASE ~build.flash
  <2>1. Sees(m, l, 1)[1] = {k \in OnesIn(m) : k <= l + 1}
    <3>1. ~(l = 0)
      OBVIOUS
    <3>2. QED
      BY <1>3, <3>1 DEF Sees, CausalMask
  <2>2. \A k \in OnesIn(m) : k <= l + 1
    BY <1>1
  <2>3. {k \in OnesIn(m) : k <= l + 1} = OnesIn(m)
    BY <2>2, Zenon
  <2>4. QED
    BY <1>1, <2>1, <2>3
<1>4. QED
  BY <1>2, <1>3

--------------------------------------------------------------------------------
\* Audio.

\* The placeholders of a row up to a column, and how many there are.
AudioUpTo(row, j) == {k \in DOMAIN row : row[k] = AudioToken /\ k <= j}
Rank(row, j) == Cardinality(AudioUpTo(row, j))

\* Placeholders are counted from one, up to as many as there are.
LEMMA RankFacts ==
  ASSUME NEW row \in Seq(Tokens)
  PROVE  /\ \A j \in Nat : IsFiniteSet(AudioUpTo(row, j)) /\ Rank(row, j) \in Nat
         /\ \A j \in 1 .. Len(row) : row[j] = AudioToken =>
              1 <= Rank(row, j) /\ Rank(row, j) <= Rank(row, Len(row))
         /\ Rank(row, Len(row)) = Cardinality({j \in DOMAIN row : row[j] = AudioToken})
<1>1. Len(row) \in Nat /\ DOMAIN row = 1 .. Len(row) /\ IsFiniteSet(1 .. Len(row))
  BY FS_Interval
<1>2. ASSUME NEW j \in Nat PROVE IsFiniteSet(AudioUpTo(row, j)) /\ Rank(row, j) \in Nat
  <2>1. AudioUpTo(row, j) \in SUBSET (1 .. Len(row))
    BY <1>1 DEF AudioUpTo
  <2>2. IsFiniteSet(AudioUpTo(row, j))
    BY <1>1, <2>1, FS_Subset
  <2>3. QED
    BY <2>2, FS_CardinalityType DEF Rank
<1>3. ASSUME NEW j \in 1 .. Len(row), row[j] = AudioToken
      PROVE  1 <= Rank(row, j) /\ Rank(row, j) <= Rank(row, Len(row))
  <2>1. j \in AudioUpTo(row, j) /\ j \in Nat
    BY <1>1, <1>3 DEF AudioUpTo
  <2>2. IsFiniteSet(AudioUpTo(row, j)) /\ Rank(row, j) \in Nat
    BY <1>2, <2>1
  <2>3. Rank(row, j) # 0
    BY <2>1, <2>2, FS_EmptySet DEF Rank
  <2>4. AudioUpTo(row, j) \in SUBSET AudioUpTo(row, Len(row)) /\ IsFiniteSet(AudioUpTo(row, Len(row)))
    BY <1>1, <1>2 DEF AudioUpTo
  <2>5. Rank(row, j) <= Rank(row, Len(row))
    BY <2>4, FS_Subset DEF Rank
  <2>6. QED
    BY <2>2, <2>3, <2>5
<1>4. AudioUpTo(row, Len(row)) = {j \in DOMAIN row : row[j] = AudioToken}
  BY <1>1 DEF AudioUpTo
<1>5. QED
  BY <1>2, <1>3, <1>4 DEF Rank

\* Shifted sets of columns have the same size.
LEMMA ShiftedCardinality ==
  ASSUME NEW S \in SUBSET Nat, IsFiniteSet(S), NEW n \in Nat, NEW T,
         T = {k + n : k \in S}
  PROVE  IsFiniteSet(T) /\ Cardinality(T) = Cardinality(S)
<1> DEFINE f == [k \in S |-> k + n]
<1>1. f \in [S -> T] /\ (\A t \in T : \E k \in S : f[k] = t)
  OBVIOUS
<1>2. \A k \in S, i \in S : f[k] = f[i] => k = i
  OBVIOUS
<1> HIDE DEF f
<1>3. f \in Bijection(S, T)
  BY <1>1, <1>2 DEF Bijection, Injection, Surjection, IsInjective
<1>4. ExistsBijection(S, T)
  BY <1>3 DEF ExistsBijection
<1>5. QED
  BY <1>4, FS_Bijection

\* A row from its n-th column on has the placeholders it had, moved, when none is before.
LEMMA RankShifted ==
  ASSUME NEW row \in Seq(Tokens), NEW other \in Seq(Tokens), NEW n \in Nat, NEW j \in Nat,
         \A k \in 1 .. Len(row) : k <= n + j /\ row[k] = AudioToken =>
           k - n \in 1 .. Len(other) /\ other[k - n] = AudioToken,
         \A k \in 1 .. Len(other) : k <= j /\ other[k] = AudioToken =>
           k + n \in 1 .. Len(row) /\ row[k + n] = AudioToken
  PROVE  Rank(other, j) = Rank(row, n + j)
<1>1. AudioUpTo(row, n + j) = {k + n : k \in AudioUpTo(other, j)}
  <2>1. ASSUME NEW k \in AudioUpTo(row, n + j)
        PROVE  k \in {i + n : i \in AudioUpTo(other, j)}
    <3>1. k \in 1 .. Len(row) /\ k <= n + j /\ row[k] = AudioToken
      BY <2>1 DEF AudioUpTo
    <3>2. k - n \in 1 .. Len(other) /\ other[k - n] = AudioToken
      BY <3>1
    <3>3. k - n <= j /\ (k - n) + n = k
      BY <3>1, <3>2
    <3>4. k - n \in AudioUpTo(other, j)
      BY <3>2, <3>3 DEF AudioUpTo
    <3>5. QED
      BY <3>3, <3>4
  <2>2. ASSUME NEW k \in AudioUpTo(other, j) PROVE k + n \in AudioUpTo(row, n + j)
    <3>1. k \in 1 .. Len(other) /\ k <= j /\ other[k] = AudioToken
      BY <2>2 DEF AudioUpTo
    <3>2. k + n \in 1 .. Len(row) /\ row[k + n] = AudioToken
      BY <3>1
    <3>3. k + n <= n + j
      BY <3>1
    <3>4. QED
      BY <3>2, <3>3 DEF AudioUpTo
  <2>3. QED
    BY <2>1, <2>2
<1>2. AudioUpTo(other, j) \in SUBSET Nat /\ IsFiniteSet(AudioUpTo(other, j))
  <2>1. IsFiniteSet(AudioUpTo(other, j))
    BY RankFacts
  <2>2. QED
    BY <2>1 DEF AudioUpTo
<1>3. QED
  <2>1. Cardinality(AudioUpTo(row, n + j)) = Cardinality(AudioUpTo(other, j))
    BY <1>1, <1>2, ShiftedCardinality
  <2>2. QED
    BY <2>1 DEF Rank

\* Rows of one length.
Tensor(ids, n, l) ==
  /\ n \in Nat \ {0} /\ l \in Nat
  /\ ids \in Seq(Seq(Tokens)) /\ Len(ids) = n
  /\ \A i \in 1 .. n : Len(ids[i]) = l

\* The placeholders of the first rows, and those of one row up to a column.
Early(ids, i) == {p \in Placeholders(ids) : p[1] <= i}
RowPlaces(ids, i, j) == {p \in Placeholders(ids) : p[1] = i /\ p[2] <= j}

\* The placeholders of a tensor, row by row.
LEMMA PlaceholdersAre ==
  ASSUME NEW ids, NEW n, NEW l, Tensor(ids, n, l)
  PROVE  /\ Placeholders(ids) = {p \in (1 .. n) \X (1 .. l) : ids[p[1]][p[2]] = AudioToken}
         /\ IsFiniteSet(Placeholders(ids))
         /\ \A i \in Nat, j \in Nat : /\ IsFiniteSet(Early(ids, i))
                                      /\ IsFiniteSet(RowPlaces(ids, i, j))
<1>1. DOMAIN ids = 1 .. n /\ Len(ids[1]) = l /\ n \in Nat /\ l \in Nat
  BY DEF Tensor
<1>2. Placeholders(ids) = {p \in (1 .. n) \X (1 .. l) : ids[p[1]][p[2]] = AudioToken}
  BY <1>1 DEF Placeholders
<1>3. IsFiniteSet((1 .. n) \X (1 .. l))
  <2>1. IsFiniteSet(1 .. n) /\ IsFiniteSet(1 .. l)
    BY <1>1, FS_Interval
  <2>2. QED
    BY <2>1, FS_Product
<1>4. IsFiniteSet(Placeholders(ids))
  <2>1. Placeholders(ids) \in SUBSET ((1 .. n) \X (1 .. l))
    BY <1>2
  <2>2. QED
    BY <1>3, <2>1, FS_Subset
<1>5. ASSUME NEW i \in Nat, NEW j \in Nat
      PROVE  IsFiniteSet(Early(ids, i)) /\ IsFiniteSet(RowPlaces(ids, i, j))
  <2>1. Early(ids, i) \in SUBSET Placeholders(ids)
    BY DEF Early
  <2>2. RowPlaces(ids, i, j) \in SUBSET Placeholders(ids)
    BY DEF RowPlaces
  <2>3. QED
    BY <1>4, <2>1, <2>2, FS_Subset
<1>6. QED
  BY <1>2, <1>4, <1>5

\* The placeholders of a row are those of the batch in it.
LEMMA RowPlacesCount ==
  ASSUME NEW ids, NEW n, NEW l, Tensor(ids, n, l), NEW i \in 1 .. n, NEW j \in Nat
  PROVE  Cardinality(RowPlaces(ids, i, j)) = Rank(ids[i], j)
<1> DEFINE S == AudioUpTo(ids[i], j)
           T == RowPlaces(ids, i, j)
           f == [k \in S |-> <<i, k>>]
<1>1. ids[i] \in Seq(Tokens) /\ Len(ids[i]) = l /\ l \in Nat
  BY DEF Tensor
<1>2. \A k : k \in S <=> k \in 1 .. l /\ ids[i][k] = AudioToken /\ k <= j
  BY <1>1 DEF AudioUpTo
<1>3. \A p : p \in T <=> /\ p \in (1 .. n) \X (1 .. l) /\ ids[p[1]][p[2]] = AudioToken
                         /\ p[1] = i /\ p[2] <= j
  <2>1. Placeholders(ids) = {p \in (1 .. n) \X (1 .. l) : ids[p[1]][p[2]] = AudioToken}
    BY PlaceholdersAre
  <2>2. \A p : p \in Placeholders(ids)
                <=> p \in (1 .. n) \X (1 .. l) /\ ids[p[1]][p[2]] = AudioToken
    BY <2>1
  <2>3. \A p : p \in T <=> p \in Placeholders(ids) /\ p[1] = i /\ p[2] <= j
    BY DEF RowPlaces
  <2>4. QED
    BY <2>2, <2>3, Zenon
<1>4. IsFiniteSet(S)
  BY <1>1, RankFacts
<1> HIDE DEF S, T
<1>5. ASSUME NEW k \in S PROVE <<i, k>> \in T
  <2>1. <<i, k>> \in (1 .. n) \X (1 .. l) /\ <<i, k>>[1] = i /\ <<i, k>>[2] = k
    BY <1>2
  <2>2. QED
    BY <1>2, <1>3, <2>1
<1>6. ASSUME NEW p \in T PROVE p[2] \in S /\ p = <<i, p[2]>>
  <2>1. p \in (1 .. n) \X (1 .. l) /\ p[1] = i /\ p[2] <= j /\ ids[p[1]][p[2]] = AudioToken
    BY <1>3
  <2>2. p[2] \in 1 .. l /\ p = <<p[1], p[2]>>
    BY <2>1
  <2>3. QED
    BY <1>2, <2>1, <2>2
<1>7. f \in [S -> T] /\ (\A t \in T : \E k \in S : f[k] = t)
      /\ \A k \in S, h \in S : f[k] = f[h] => k = h
  <2>1. f \in [S -> T]
    BY <1>5
  <2>2. ASSUME NEW t \in T PROVE \E k \in S : f[k] = t
    <3>1. f[t[2]] = t /\ t[2] \in S
      BY <1>6
    <3>2. QED
      BY <3>1, Zenon
  <2>3. \A k \in S, h \in S : f[k] = f[h] => k = h
    OBVIOUS
  <2>4. QED
    BY <2>1, <2>2, <2>3
<1> HIDE DEF f
<1>8. f \in Bijection(S, T)
  BY <1>7 DEF Bijection, Injection, Surjection, IsInjective
<1>9. Cardinality(T) = Cardinality(S)
  BY <1>4, <1>8, FS_Bijection DEF ExistsBijection
<1>10. QED
  BY <1>9 DEF S, T, Rank

\* The placeholders of one more row come after those of the rows before.
LEMMA EarlyCount ==
  ASSUME NEW ids, NEW n, NEW l, Tensor(ids, n, l), NEW i \in 1 .. n, NEW j \in Nat
  PROVE  /\ Cardinality(Early(ids, i - 1) \cup RowPlaces(ids, i, j))
              = Cardinality(Early(ids, i - 1)) + Rank(ids[i], j)
         /\ Early(ids, i) = Early(ids, i - 1) \cup RowPlaces(ids, i, l)
<1>1. i \in Nat /\ i - 1 \in Nat /\ l \in Nat
  BY DEF Tensor
<1>2. IsFiniteSet(Early(ids, i - 1)) /\ IsFiniteSet(RowPlaces(ids, i, j))
  BY <1>1, PlaceholdersAre
<1>3. Early(ids, i - 1) \cap RowPlaces(ids, i, j) = {}
  BY <1>1 DEF Early, RowPlaces
<1>4. Cardinality(Early(ids, i - 1) \cup RowPlaces(ids, i, j))
        = Cardinality(Early(ids, i - 1)) + Rank(ids[i], j)
  <2>1. Cardinality(Early(ids, i - 1)) \in Nat /\ Cardinality(RowPlaces(ids, i, j)) \in Nat
    BY <1>2, FS_CardinalityType
  <2>2. Cardinality(Early(ids, i - 1) \cup RowPlaces(ids, i, j))
          = Cardinality(Early(ids, i - 1)) + Cardinality(RowPlaces(ids, i, j)) - Cardinality({})
    BY <1>2, <1>3, FS_Union
  <2>3. Cardinality({}) = 0
    BY FS_EmptySet
  <2>4. QED
    BY <2>1, <2>2, <2>3, RowPlacesCount
<1>5. Early(ids, i) = Early(ids, i - 1) \cup RowPlaces(ids, i, l)
  <2>1. \A p \in Placeholders(ids) : p[1] \in Nat /\ p[2] \in 1 .. l
    BY PlaceholdersAre
  <2>2. \A p \in Placeholders(ids) :
          (p[1] <= i) <=> (p[1] <= i - 1 \/ (p[1] = i /\ p[2] <= l))
    BY <1>1, <2>1
  <2>3. QED
    BY <2>2 DEF Early, RowPlaces
<1>6. QED
  BY <1>4, <1>5

\* Where merge_audio_features finds the feature of a placeholder.
MergedRow(ids, l, audio, i) ==
  /\ Merged(ids, audio)[i] = [j \in 1 .. l |-> Merged(ids, audio)[i][j]]
  /\ \A j \in 1 .. l :
       Merged(ids, audio)[i][j] = IF ids[i][j] = AudioToken
                                  THEN audio[Cardinality(Early(ids, i - 1)) + Rank(ids[i], j)]
                                  ELSE ids[i][j]

\* What merge_audio_features leaves at a place.
LEMMA MergedAt ==
  ASSUME NEW ids, NEW n, NEW l, Tensor(ids, n, l), NEW audio, NEW i \in 1 .. n
  PROVE  MergedRow(ids, l, audio, i)
<1>1. DOMAIN ids = 1 .. n /\ DOMAIN ids[i] = 1 .. l /\ l \in Nat /\ n \in Nat
  BY DEF Tensor
<1> DEFINE before(j) == {p \in Placeholders(ids) : p[1] < i \/ (p[1] = i /\ p[2] <= j)}
<1>2. Merged(ids, audio)[i] = [j \in DOMAIN ids[i] |->
        IF ids[i][j] = AudioToken THEN audio[Cardinality(before(j))] ELSE ids[i][j]]
  BY <1>1, Zenon DEF Merged
<1>3. ASSUME NEW j \in 1 .. l
      PROVE  before(j) = Early(ids, i - 1) \cup RowPlaces(ids, i, j)
  <2>1. \A p \in Placeholders(ids) : p[1] \in Nat
    BY PlaceholdersAre
  <2>2. \A p \in Placeholders(ids) : (p[1] < i) <=> (p[1] <= i - 1)
    BY <2>1
  <2>3. QED
    BY <2>2 DEF Early, RowPlaces
<1>4. \A j \in 1 .. l : Cardinality(before(j)) = Cardinality(Early(ids, i - 1)) + Rank(ids[i], j)
  <2>1. ASSUME NEW j \in 1 .. l
        PROVE  Cardinality(before(j)) = Cardinality(Early(ids, i - 1)) + Rank(ids[i], j)
    <3>1. j \in Nat
      OBVIOUS
    <3>2. QED
      BY <1>3, <3>1, EarlyCount
  <2>2. QED
    BY <2>1
<1> HIDE DEF before
<1>5. QED
  BY <1>1, <1>2, <1>4 DEF MergedRow

AudioRun(f, b) ==
  /\ f \in [0 .. Len(b) -> Seq(Tokens)]
  /\ f[0] = <<>>
  /\ \A k \in 1 .. Len(b) : f[k] = f[k-1] \o b[k].audio
  /\ AudioOf(b) = f[Len(b)]

\* AudioOf joins the rows' features, one row after the other.
LEMMA AudioOfIs ==
  ASSUME NEW b \in Batches
  PROVE  \E f : AudioRun(f, b)
<1> DEFINE n     == Len(b)
           V     == Seq(Tokens)
           Then  == {p \in (1 .. n) \X V \X V : p[3] = p[2] \o b[p[1]].audio}
           R(f)  == f = [k \in 0 .. n |-> IF k = 0 THEN <<>> ELSE f[k-1] \o b[k].audio]
           after == CHOOSE f : R(f)
<1>1. n \in Nat /\ \A i \in 1 .. n : b[i].audio \in V
  BY BatchFacts
<1>2. AudioOf(b) = after[n]
  BY Zenon DEF AudioOf
<1> HIDE DEF n
<1>3. <<>> \in V /\ \A i \in 1 .. n, was \in V : was \o b[i].audio \in V
  <2>1. \A x, y \in V : x \o y \in V
    OBVIOUS
  <2>2. <<>> \in V
    OBVIOUS
  <2>3. QED
    BY <1>1, <2>1, <2>2, Zenon
<1> HIDE DEF V
<1>5. Steps(n, V, <<>>, Then)
  BY <1>1, <1>3 DEF Steps
<1> HIDE DEF Then
<1>6. PICK f : RunThrough(f, n, V, <<>>, Then)
  BY <1>5, Iterates
<1>7. ASSUME NEW k \in 1 .. n PROVE f[k] = f[k-1] \o b[k].audio
  <2>1. <<k, f[k-1], f[k]>> \in Then
    BY <1>6 DEF RunThrough
  <2>2. QED
    BY <2>1 DEF Then
<1>8. R(f)
  <2>1. ASSUME NEW k \in 0 .. n, k # 0
        PROVE  f[k] = f[k-1] \o b[k].audio
    <3>1. k \in 1 .. n
      BY <1>1, <2>1
    <3>2. QED
      BY <3>1, <1>7, Zenon
  <2>2. f[0] = <<>> /\ f = [k \in 0 .. n |-> f[k]]
    BY <1>6 DEF RunThrough
  <2>3. QED
    BY <2>1, <2>2
<1>9. R(after)
  <2> HIDE DEF R
  <2>1. QED
    BY <1>8
<1> HIDE DEF after
<1>10. after[0] = <<>> /\ \A k \in 1 .. n : after[k] = after[k-1] \o b[k].audio
  <2>1. after[0] = <<>>
    <3>1. 0 \in 0 .. n
      BY <1>1
    <3>2. QED
      BY <1>9, <3>1, Zenon
  <2>2. ASSUME NEW k \in 1 .. n PROVE after[k] = after[k-1] \o b[k].audio
    <3>1. k \in 0 .. n /\ k # 0
      BY <1>1
    <3>2. QED
      BY <1>9, <3>1, Zenon
  <2>3. QED
    BY <2>1, <2>2
<1>11. \A k \in 0 .. n : after[k] = f[k]
  <2> DEFINE S == {k \in 0 .. n : after[k] = f[k]}
  <2>1. 0 \in S
    BY <1>1, <1>6, <1>10 DEF RunThrough
  <2>2. ASSUME NEW k \in 1 .. n, k - 1 \in S PROVE k \in S
    <3>1. after[k-1] = f[k-1]
      BY <2>2
    <3>2. after[k] = f[k]
      BY <3>1, <1>7, <1>10, Zenon
    <3>3. k \in 0 .. n
      BY <1>1
    <3>4. QED
      BY <3>2, <3>3
  <2> HIDE DEF S
  <2>3. \A k \in 0 .. n : k \in S
    BY <1>1, <2>1, <2>2, UpTo
  <2>4. QED
    BY <2>3 DEF S
<1>12. AudioOf(b) = f[n]
  <2>1. n \in 0 .. n
    BY <1>1
  <2>2. QED
    BY <2>1, <1>2, <1>11
<1>13. AudioRun(f, b)
  <2>1. f \in [0 .. n -> V] /\ f[0] = <<>>
    BY <1>6 DEF RunThrough
  <2>2. QED
    BY <1>7, <1>12, <2>1, Zenon DEF AudioRun, V, n
<1>14. QED
  BY <1>13, Zenon

\* The features of a row are in the joined ones after those of the rows before.
LEMMA AudioAt ==
  ASSUME NEW b \in Batches, NEW f, AudioRun(f, b), NEW i \in 1 .. Len(b),
         NEW r \in 1 .. Len(b[i].audio)
  PROVE  AudioOf(b)[Len(f[i-1]) + r] = b[i].audio[r]
<1> DEFINE n == Len(b)
           x == b[i].audio
           S == {k \in 0 .. n : k >= i => /\ Len(f[i-1]) + r <= Len(f[k])
                                          /\ f[k][Len(f[i-1]) + r] = x[r]}
<1>1. n \in Nat /\ i \in 1 .. n /\ \A k \in 1 .. n : b[k].audio \in Seq(Tokens)
  BY BatchFacts
<1>2. \A k \in 0 .. n : f[k] \in Seq(Tokens)
  BY DEF AudioRun
<1>3. \A k \in 1 .. n : f[k] = f[k-1] \o b[k].audio
  BY DEF AudioRun
<1>4. Len(f[i-1]) \in Nat /\ Len(x) \in Nat /\ r \in 1 .. Len(x)
  BY <1>1, <1>2
<1>5. 0 \in S
  BY <1>1
<1>6. ASSUME NEW k \in 1 .. n, k - 1 \in S PROVE k \in S
  <2> DEFINE old == f[k-1]
             add == b[k].audio
  <2>1. old \in Seq(Tokens) /\ add \in Seq(Tokens) /\ f[k] = old \o add
    <3>1. k - 1 \in 0 .. n
      BY <1>1
    <3>2. QED
      BY <1>1, <1>2, <1>3, <3>1
  <2> HIDE DEF old, add
  <2>2. /\ Len(f[k]) = Len(old) + Len(add)
        /\ \A p \in 1 .. Len(old) : f[k][p] = old[p]
        /\ \A p \in 1 .. Len(add) : f[k][Len(old) + p] = add[p]
    BY <2>1
  <2>3. CASE k < i
    BY <1>1, <2>3
  <2>4. CASE k = i
    <3>1. old = f[i-1] /\ add = x
      BY <2>4 DEF old, add
    <3>2. Len(f[i-1]) + r <= Len(f[k]) /\ f[k][Len(f[i-1]) + r] = x[r]
      BY <1>4, <2>2, <3>1
    <3>3. k \in 0 .. n
      BY <1>1
    <3>4. QED
      BY <3>2, <3>3
  <2>5. CASE k > i
    <3>1. k - 1 >= i
      BY <1>1, <2>5
    <3>2. Len(f[i-1]) + r <= Len(old) /\ old[Len(f[i-1]) + r] = x[r]
      BY <1>6, <3>1 DEF old
    <3> DEFINE p == Len(f[i-1]) + r
    <3>3. p \in 1 .. Len(old) /\ Len(old) \in Nat /\ Len(add) \in Nat /\ old[p] = x[r]
      BY <1>4, <2>1, <3>2
    <3> HIDE DEF p
    <3>4. p <= Len(f[k]) /\ f[k][p] = x[r]
      BY <2>2, <3>3
    <3>5. k \in 0 .. n
      BY <1>1
    <3>6. QED
      BY <3>4, <3>5 DEF p
  <2>6. QED
    BY <1>1, <2>3, <2>4, <2>5
<1>7. n \in S
  <2> HIDE DEF S
  <2>1. \A k \in 0 .. n : k \in S
    BY <1>1, <1>5, <1>6, UpTo
  <2>2. QED
    BY <1>1, <2>1
<1>8. QED
  BY <1>1, <1>7 DEF AudioRun

\* So many placeholders are before a row as features.
LEMMA EarlyIsAudio ==
  ASSUME NEW b \in Batches, NEW f, AudioRun(f, b),
         NEW ids, NEW l, Tensor(ids, Len(b), l),
         \A i \in 1 .. Len(b) : Rank(ids[i], l) = Len(b[i].audio)
  PROVE  \A i \in 0 .. Len(b) : Cardinality(Early(ids, i)) = Len(f[i])
<1> DEFINE n == Len(b)
           S == {i \in 0 .. n : Cardinality(Early(ids, i)) = Len(f[i])}
<1>1. n \in Nat /\ l \in Nat /\ \A k \in 1 .. n : b[k].audio \in Seq(Tokens)
  BY BatchFacts DEF Tensor
<1>2. 0 \in S
  <2>1. \A p \in Placeholders(ids) : p[1] \in Nat \ {0}
    BY PlaceholdersAre
  <2>2. Early(ids, 0) = {}
    BY <2>1 DEF Early
  <2>3. Cardinality(Early(ids, 0)) = 0
    BY <2>2, FS_EmptySet, Zenon
  <2>4. Len(f[0]) = 0
    BY DEF AudioRun
  <2>5. QED
    BY <1>1, <2>3, <2>4
<1>3. ASSUME NEW i \in 1 .. n, i - 1 \in S PROVE i \in S
  <2>1. Cardinality(Early(ids, i)) = Cardinality(Early(ids, i - 1)) + Rank(ids[i], l)
    <3>1. /\ Cardinality(Early(ids, i - 1) \cup RowPlaces(ids, i, l))
               = Cardinality(Early(ids, i - 1)) + Rank(ids[i], l)
          /\ Early(ids, i) = Early(ids, i - 1) \cup RowPlaces(ids, i, l)
      <4>1. Tensor(ids, n, l) /\ i \in 1 .. n /\ l \in Nat
        BY <1>1
      <4>2. QED
        BY <4>1, EarlyCount
    <3>2. QED
      BY <3>1, Zenon
  <2>2. f[i-1] \in Seq(Tokens) /\ f[i] = f[i-1] \o b[i].audio /\ i \in 0 .. n
    <3>1. i - 1 \in 0 .. n /\ i \in 0 .. n
      BY <1>1
    <3>2. QED
      BY <3>1 DEF AudioRun
  <2>3. Len(f[i]) = Len(f[i-1]) + Len(b[i].audio)
    BY <1>1, <2>2
  <2>4. QED
    BY <1>3, <2>1, <2>2, <2>3
<1>4. QED
  <2> HIDE DEF S
  <2>1. \A i \in 0 .. n : i \in S
    BY <1>1, <1>2, <1>3, UpTo
  <2>2. QED
    BY <2>1 DEF S

\* What a prompt is embedded as.
Embeds(prompt) == Merged(<<prompt.ids>>, prompt.audio)[1]

\* One row takes its features in the order of its placeholders.
LEMMA MergedAlone ==
  ASSUME NEW ids \in Seq(Tokens), NEW audio
  PROVE  Merged(<<ids>>, audio)[1]
           = [j \in 1 .. Len(ids) |-> IF ids[j] = AudioToken THEN audio[Rank(ids, j)] ELSE ids[j]]
<1> DEFINE one == <<ids>>
           l == Len(ids)
<1>1. Tensor(one, 1, l) /\ one[1] = ids
  <2>1. one \in Seq(Seq(Tokens)) /\ Len(one) = 1 /\ one[1] = ids /\ l \in Nat
    OBVIOUS
  <2>2. \A i \in 1 .. 1 : i = 1
    OBVIOUS
  <2>3. QED
    BY <2>1, <2>2 DEF Tensor
<1>2. Cardinality(Early(one, 0)) = 0
  <2>1. \A p \in Placeholders(one) : p[1] \in Nat \ {0}
    BY <1>1, PlaceholdersAre
  <2>2. Early(one, 0) = {}
    BY <2>1 DEF Early
  <2>3. QED
    BY <2>2, FS_EmptySet, Zenon
<1>3. \A j \in 1 .. l : Rank(ids, j) \in Nat
  <2>1. \A j \in 1 .. l : j \in Nat
    OBVIOUS
  <2>2. QED
    BY <2>1, RankFacts
<1> HIDE DEF one, l
<1>4. /\ Merged(one, audio)[1] = [j \in 1 .. l |-> Merged(one, audio)[1][j]]
      /\ \A j \in 1 .. l :
           Merged(one, audio)[1][j] = IF ids[j] = AudioToken
                                      THEN audio[0 + Rank(ids, j)] ELSE ids[j]
  <2>1. 1 \in 1 .. 1 /\ 1 - 1 = 0
    OBVIOUS
  <2>2. /\ Merged(one, audio)[1] = [j \in 1 .. l |-> Merged(one, audio)[1][j]]
        /\ \A j \in 1 .. l :
             Merged(one, audio)[1][j]
               = IF one[1][j] = AudioToken
                 THEN audio[Cardinality(Early(one, 1 - 1)) + Rank(one[1], j)] ELSE one[1][j]
    <3>1. MergedRow(one, l, audio, 1)
      BY <1>1, <2>1, MergedAt, Zenon
    <3>2. QED
      BY <3>1, Zenon DEF MergedRow
  <2>3. one[1] = ids /\ Cardinality(Early(one, 1 - 1)) = 0
    BY <1>1, <1>2, <2>1, Zenon
  <2>4. ASSUME NEW j \in 1 .. l
        PROVE  Merged(one, audio)[1][j] = IF ids[j] = AudioToken
                                          THEN audio[0 + Rank(ids, j)] ELSE ids[j]
    <3>1. Cardinality(Early(one, 1 - 1)) + Rank(one[1], j) = 0 + Rank(ids, j)
      BY <2>3, Zenon
    <3>2. one[1][j] = ids[j]
      BY <2>3
    <3>3. QED
      BY <2>2, <3>1, <3>2, Zenon
  <2>5. QED
    BY <2>2, <2>4, Zenon
<1>5. \A j \in 1 .. l : 0 + Rank(ids, j) = Rank(ids, j)
  BY <1>3
<1>6. QED
  BY <1>4, <1>5 DEF one, l

\* Every placeholder of a prompt has a feature.
LEMMA PromptRanks ==
  ASSUME NEW b \in Batches, NEW i \in 1 .. Len(b)
  PROVE  /\ Rank(b[i].ids, Len(b[i].ids)) = Len(b[i].audio)
         /\ \A j \in 1 .. Len(b[i].ids) : b[i].ids[j] = AudioToken =>
              Rank(b[i].ids, j) \in 1 .. Len(b[i].audio)
<1>1. /\ b[i].ids \in Seq(Tokens) /\ Len(b[i].ids) \in Nat /\ b[i].audio \in Seq(Tokens)
      /\ Cardinality({j \in DOMAIN b[i].ids : b[i].ids[j] = AudioToken}) = Len(b[i].audio)
  BY BatchFacts
<1> DEFINE row == b[i].ids
           n == Len(b[i].audio)
<1>2. n \in Nat
  BY <1>1
<1>3. row \in Seq(Tokens) /\ Cardinality({j \in DOMAIN row : row[j] = AudioToken}) = n
  BY <1>1
<1> HIDE DEF row, n
<1>4. /\ \A j \in Nat : Rank(row, j) \in Nat
      /\ \A j \in 1 .. Len(row) : row[j] = AudioToken =>
           1 <= Rank(row, j) /\ Rank(row, j) <= Rank(row, Len(row))
      /\ Rank(row, Len(row)) = n
  BY <1>3, RankFacts
<1>5. ASSUME NEW j \in 1 .. Len(row), row[j] = AudioToken PROVE Rank(row, j) \in 1 .. n
  <2>1. j \in Nat
    OBVIOUS
  <2>2. Rank(row, j) \in Nat /\ 1 <= Rank(row, j) /\ Rank(row, j) <= n
    BY <1>4, <1>5, <2>1
  <2>3. QED
    BY <2>2, <1>2
<1>6. QED
  BY <1>4, <1>5 DEF row, n

\* A prompt is embedded as its ids, its placeholders as its features.
LEMMA EmbedsAre ==
  ASSUME NEW b \in Batches, NEW i \in 1 .. Len(b)
  PROVE  /\ Embeds(b[i]) \in Seq(Tokens) /\ Len(Embeds(b[i])) = Len(b[i].ids)
         /\ \A j \in 1 .. Len(b[i].ids) :
              Embeds(b[i])[j] = IF b[i].ids[j] = AudioToken
                                THEN b[i].audio[Rank(b[i].ids, j)] ELSE b[i].ids[j]
<1> DEFINE row == b[i].ids
           audio == b[i].audio
           e == [j \in 1 .. Len(row) |-> IF row[j] = AudioToken THEN audio[Rank(row, j)] ELSE row[j]]
<1>1. row \in Seq(Tokens) /\ Len(row) \in Nat /\ audio \in Seq(Tokens)
  BY BatchFacts
<1>2. \A j \in 1 .. Len(row) : row[j] = AudioToken => Rank(row, j) \in 1 .. Len(audio)
  BY PromptRanks
<1>3. Embeds(b[i]) = e
  BY <1>1, MergedAlone DEF Embeds
<1> HIDE DEF row, audio
<1>4. \A j \in 1 .. Len(row) : e[j] \in Tokens
  <2>1. ASSUME NEW j \in 1 .. Len(row) PROVE e[j] \in Tokens
    <3>1. CASE row[j] = AudioToken
      BY <1>1, <1>2, <3>1
    <3>2. CASE row[j] # AudioToken
      BY <1>1, <3>2
    <3>3. QED
      BY <3>1, <3>2
  <2>2. QED
    BY <2>1
<1>5. e \in Seq(Tokens) /\ Len(e) = Len(row)
      /\ \A j \in 1 .. Len(row) :
           e[j] = IF row[j] = AudioToken THEN audio[Rank(row, j)] ELSE row[j]
  BY <1>1, <1>4
<1>6. QED
  BY <1>3, <1>5 DEF row, audio

\* What a row has said goes on after its prompt: an answer has no placeholders.
LEMMA EmbedsGrow ==
  ASSUME NEW b \in Batches, NEW i \in 1 .. Len(b), NEW said \in Seq(Tokens \ {AudioToken})
  PROVE  Merged(<<b[i].ids \o said>>, b[i].audio)[1] = Embeds(b[i]) \o said
<1> DEFINE row == b[i].ids
           audio == b[i].audio
           e == Embeds(b[i])
           all == row \o said
<1>1. row \in Seq(Tokens) /\ Len(row) \in Nat /\ audio \in Seq(Tokens)
  BY BatchFacts
<1>2. /\ e \in Seq(Tokens) /\ Len(e) = Len(row)
      /\ \A j \in 1 .. Len(row) :
           e[j] = IF row[j] = AudioToken THEN audio[Rank(row, j)] ELSE row[j]
  BY EmbedsAre
<1> HIDE DEF row, audio, e
<1>3. said \in Seq(Tokens) /\ \A j \in 1 .. Len(said) : said[j] # AudioToken
  OBVIOUS
<1>4. /\ all \in Seq(Tokens) /\ Len(all) = Len(row) + Len(said)
      /\ \A j \in 1 .. Len(row) : all[j] = row[j]
      /\ \A j \in 1 .. Len(said) : all[Len(row) + j] = said[j]
  BY <1>1, <1>3
<1>5. /\ e \o said \in Seq(Tokens) /\ Len(e \o said) = Len(row) + Len(said)
      /\ \A j \in 1 .. Len(row) : (e \o said)[j] = e[j]
      /\ \A j \in 1 .. Len(said) : (e \o said)[Len(row) + j] = said[j]
  <2>1. /\ e \o said \in Seq(Tokens) /\ Len(e \o said) = Len(e) + Len(said)
        /\ \A j \in 1 .. Len(e) : (e \o said)[j] = e[j]
        /\ \A j \in 1 .. Len(said) : (e \o said)[Len(e) + j] = said[j]
    <3>1. e \in Seq(Tokens) /\ said \in Seq(Tokens)
      BY <1>2, <1>3
    <3>2. QED
      BY <3>1
  <2>2. Len(e) = Len(row)
    BY <1>2
  <2>3. QED
    BY <2>1, <2>2, Zenon
<1> HIDE DEF all
<1>6. Merged(<<all>>, audio)[1]
        = [j \in 1 .. Len(all) |-> IF all[j] = AudioToken THEN audio[Rank(all, j)] ELSE all[j]]
  BY <1>4, MergedAlone
<1>7. ASSUME NEW j \in 1 .. Len(row) PROVE Rank(all, j) = Rank(row, j)
  <2>1. AudioUpTo(all, j) = AudioUpTo(row, j)
    <3>1. \A k : k \in AudioUpTo(all, j) <=> k \in 1 .. Len(all) /\ all[k] = AudioToken /\ k <= j
      BY <1>4 DEF AudioUpTo
    <3>2. \A k : k \in AudioUpTo(row, j) <=> k \in 1 .. Len(row) /\ row[k] = AudioToken /\ k <= j
      BY <1>1 DEF AudioUpTo
    <3>3. \A k : k <= j /\ k \in 1 .. Len(all) => k \in 1 .. Len(row)
      BY <1>1, <1>4
    <3>4. \A k \in 1 .. Len(row) : k \in 1 .. Len(all)
      BY <1>1, <1>3, <1>4
    <3>5. QED
      BY <3>1, <3>2, <3>3, <3>4, <1>4
  <2>2. QED
    BY <2>1 DEF Rank
<1>8. ASSUME NEW j \in 1 .. Len(all)
      PROVE  (e \o said)[j] = IF all[j] = AudioToken THEN audio[Rank(all, j)] ELSE all[j]
  <2>1. CASE j <= Len(row)
    <3>1. j \in 1 .. Len(row)
      BY <1>1, <2>1
    <3>2. (e \o said)[j] = e[j] /\ all[j] = row[j] /\ Rank(all, j) = Rank(row, j)
      BY <1>4, <1>5, <1>7, <3>1
    <3>3. e[j] = IF row[j] = AudioToken THEN audio[Rank(row, j)] ELSE row[j]
      BY <1>2, <3>1
    <3>4. QED
      BY <3>2, <3>3, Zenon
  <2>2. CASE ~(j <= Len(row))
    <3>1. j - Len(row) \in 1 .. Len(said) /\ Len(row) + (j - Len(row)) = j
      BY <1>1, <1>3, <1>4, <2>2
    <3>2. (e \o said)[j] = said[j - Len(row)] /\ all[j] = said[j - Len(row)]
      BY <1>4, <1>5, <3>1
    <3>3. QED
      BY <1>3, <3>1, <3>2
  <2>3. QED
    BY <2>1, <2>2
<1>9. e \o said = [j \in 1 .. Len(all) |-> IF all[j] = AudioToken THEN audio[Rank(all, j)] ELSE all[j]]
  <2>1. e \o said = [j \in 1 .. Len(all) |-> (e \o said)[j]]
    <3> DEFINE x == e \o said
    <3>1. x \in Seq(Tokens) /\ Len(x) = Len(all)
      BY <1>4, <1>5
    <3> HIDE DEF x
    <3>2. x = [j \in 1 .. Len(all) |-> x[j]]
      BY <3>1
    <3>3. QED
      BY <3>2 DEF x
  <2>2. QED
    BY <2>1, <1>8, Zenon
<1>10. Merged(<<all>>, audio)[1] = e \o said
  BY <1>6, <1>9, Zenon
<1>11. QED
  BY <1>10 DEF all, row, audio, e

\* A row of a batch from a column on: what is left of its prompt, which has all its
\* placeholders, and padding.
RestOf(row, ids, from, l) ==
  /\ Len(ids) <= from + l
  /\ \A k \in 1 .. l : row[k] = IF from + k <= Len(ids) THEN ids[from + k] ELSE PadToken
  /\ \A k \in 1 .. Len(ids) : k <= from => ids[k] # AudioToken

\* Cutting a common prefix without placeholders off leaves their ranks alone.
LEMMA RestRanks ==
  ASSUME NEW ids \in Seq(Tokens), NEW row \in Seq(Tokens), NEW from \in Nat,
         RestOf(row, ids, from, Len(row))
  PROVE  /\ \A j \in Nat : Rank(row, j) = Rank(ids, from + j)
         /\ Rank(row, Len(row)) = Rank(ids, Len(ids))
<1> DEFINE l == Len(row)
           n == Len(ids)
<1>1. /\ l \in Nat /\ n \in Nat /\ n <= from + l
      /\ \A k \in 1 .. l : row[k] = IF from + k <= n THEN ids[from + k] ELSE PadToken
      /\ \A k \in 1 .. n : k <= from => ids[k] # AudioToken
  BY DEF RestOf
<1>2. PadToken # AudioToken
  BY DecodeAssumption
<1>3. ASSUME NEW j \in Nat PROVE Rank(row, j) = Rank(ids, from + j)
  <2>1. ASSUME NEW k \in 1 .. n, k <= from + j, ids[k] = AudioToken
        PROVE  k - from \in 1 .. l /\ row[k - from] = AudioToken
    <3>1. ~(k <= from)
      BY <1>1, <2>1
    <3>2. k - from \in 1 .. l /\ from + (k - from) = k
      BY <1>1, <3>1
    <3>3. row[k - from] = ids[k]
      BY <1>1, <3>2
    <3>4. QED
      BY <2>1, <3>2, <3>3
  <2>2. ASSUME NEW k \in 1 .. l, k <= j, row[k] = AudioToken
        PROVE  k + from \in 1 .. n /\ ids[k + from] = AudioToken
    <3>1. from + k <= n
      BY <1>1, <1>2, <2>2
    <3>2. k + from \in 1 .. n /\ k + from = from + k
      BY <1>1, <3>1
    <3>3. QED
      BY <1>1, <2>2, <3>1, <3>2
  <2> HIDE DEF l, n
  <2>3. QED
    BY <2>1, <2>2, RankShifted DEF l, n
<1>4. Rank(ids, from + l) = Rank(ids, n)
  <2>1. AudioUpTo(ids, from + l) = AudioUpTo(ids, n)
    <3>1. \A k \in 1 .. n : k <= from + l /\ k <= n
      BY <1>1
    <3>2. DOMAIN ids = 1 .. n
      OBVIOUS
    <3>3. QED
      BY <3>1, <3>2 DEF AudioUpTo
  <2>2. QED
    BY <2>1 DEF Rank
<1>5. QED
  BY <1>1, <1>3, <1>4

\* Every row of a batch, whole or from the end of a prefix on, takes its own features.
LEMMA MergedRest ==
  ASSUME NEW b \in Batches, NEW ids, NEW l, NEW from \in Nat, Tensor(ids, Len(b), l),
         \A i \in 1 .. Len(b) : RestOf(ids[i], b[i].ids, from, l),
         NEW i \in 1 .. Len(b)
  PROVE  /\ Merged(ids, AudioOf(b))[i] \in Seq(Tokens)
         /\ Len(Merged(ids, AudioOf(b))[i]) = l
         /\ \A j \in 1 .. l : from + j <= Len(b[i].ids) =>
              Merged(ids, AudioOf(b))[i][j] = Embeds(b[i])[from + j]
<1> DEFINE n == Len(b)
           x == Merged(ids, AudioOf(b))[i]
           row == b[i].ids
           audio == b[i].audio
           c == Cardinality(Early(ids, i - 1))
<1>1. n \in Nat /\ l \in Nat /\ \A k \in 1 .. n : ids[k] \in Seq(Tokens) /\ Len(ids[k]) = l
  BY DEF Tensor
<1>2. \A k \in 1 .. n : b[k].ids \in Seq(Tokens)
  BY BatchFacts
<1>3. PICK f : AudioRun(f, b)
  BY AudioOfIs, Zenon
<1>4. ASSUME NEW k \in 1 .. n
      PROVE  /\ \A j \in Nat : Rank(ids[k], j) = Rank(b[k].ids, from + j)
             /\ Rank(ids[k], l) = Len(b[k].audio)
  <2>1. ids[k] \in Seq(Tokens) /\ b[k].ids \in Seq(Tokens)
        /\ RestOf(ids[k], b[k].ids, from, Len(ids[k]))
    BY <1>1, <1>2
  <2>2. /\ \A j \in Nat : Rank(ids[k], j) = Rank(b[k].ids, from + j)
        /\ Rank(ids[k], Len(ids[k])) = Rank(b[k].ids, Len(b[k].ids))
    BY <2>1, RestRanks
  <2>3. Rank(b[k].ids, Len(b[k].ids)) = Len(b[k].audio)
    BY PromptRanks
  <2>4. QED
    BY <1>1, <2>2, <2>3
<1>5. \A k \in 0 .. n : Cardinality(Early(ids, k)) = Len(f[k])
  BY <1>3, <1>4, EarlyIsAudio
<1>6. c = Len(f[i-1])
  <2>1. i - 1 \in 0 .. n
    BY <1>1
  <2>2. QED
    BY <1>5, <2>1
<1>7. /\ x = [j \in 1 .. l |-> x[j]]
      /\ \A j \in 1 .. l : x[j] = IF ids[i][j] = AudioToken
                                  THEN AudioOf(b)[c + Rank(ids[i], j)] ELSE ids[i][j]
  <2>1. MergedRow(ids, l, AudioOf(b), i)
    BY MergedAt
  <2>2. QED
    BY <2>1, Zenon DEF MergedRow
<1>8. /\ Len(row) \in Nat /\ row \in Seq(Tokens) /\ audio \in Seq(Tokens)
      /\ \A j \in 1 .. Len(row) : row[j] = AudioToken => Rank(row, j) \in 1 .. Len(audio)
      /\ \A j \in 1 .. Len(row) : Embeds(b[i])[j] = IF row[j] = AudioToken
                                                    THEN audio[Rank(row, j)] ELSE row[j]
  <2>1. Len(row) \in Nat /\ row \in Seq(Tokens) /\ audio \in Seq(Tokens)
    BY BatchFacts
  <2>2. \A j \in 1 .. Len(row) : row[j] = AudioToken => Rank(row, j) \in 1 .. Len(audio)
    BY PromptRanks
  <2>3. \A j \in 1 .. Len(row) : Embeds(b[i])[j] = IF row[j] = AudioToken
                                                   THEN audio[Rank(row, j)] ELSE row[j]
    BY EmbedsAre
  <2>4. QED
    BY <2>1, <2>2, <2>3
<1>9. /\ \A k \in 1 .. l : ids[i][k] = IF from + k <= Len(row) THEN row[from + k] ELSE PadToken
      /\ \A j \in 1 .. l : j \in Nat
  BY DEF RestOf
<1>10. \A r \in 1 .. Len(audio) : AudioOf(b)[c + r] = audio[r]
  BY <1>3, <1>6, AudioAt
<1>11. \A j \in 1 .. l : Rank(ids[i], j) = Rank(row, from + j)
  BY <1>4, <1>9
<1>12. PadToken # AudioToken /\ PadToken \in Tokens
  BY DecodeAssumption
<1> HIDE DEF n, x, row, audio, c
<1>13. ASSUME NEW j \in 1 .. l
       PROVE  /\ x[j] \in Tokens
              /\ from + j <= Len(row) => x[j] = Embeds(b[i])[from + j]
  <2>1. x[j] = IF ids[i][j] = AudioToken THEN AudioOf(b)[c + Rank(ids[i], j)] ELSE ids[i][j]
    BY <1>7
  <2>2. ids[i][j] = IF from + j <= Len(row) THEN row[from + j] ELSE PadToken
    BY <1>9
  <2>3. CASE from + j <= Len(row)
    <3>1. from + j \in 1 .. Len(row)
      BY <1>8, <2>3
    <3>2. ids[i][j] = row[from + j] /\ row[from + j] \in Tokens
      BY <1>8, <2>2, <2>3, <3>1
    <3>3. CASE row[from + j] = AudioToken
      <4>1. Rank(row, from + j) \in 1 .. Len(audio)
        BY <1>8, <3>1, <3>3
      <4>2. x[j] = AudioOf(b)[c + Rank(ids[i], j)]
        BY <2>1, <3>2, <3>3
      <4>3. AudioOf(b)[c + Rank(ids[i], j)] = audio[Rank(row, from + j)]
        BY <1>10, <1>11, <4>1
      <4>4. audio[Rank(row, from + j)] \in Tokens
        BY <1>8, <4>1
      <4>5. Embeds(b[i])[from + j] = audio[Rank(row, from + j)]
        BY <1>8, <3>1, <3>3
      <4>6. QED
        BY <4>2, <4>3, <4>4, <4>5
    <3>4. CASE row[from + j] # AudioToken
      <4>1. x[j] = row[from + j]
        BY <2>1, <3>2, <3>4
      <4>2. Embeds(b[i])[from + j] = row[from + j]
        BY <1>8, <3>1, <3>4
      <4>3. QED
        BY <3>2, <4>1, <4>2
    <3>5. QED
      BY <3>3, <3>4
  <2>4. CASE ~(from + j <= Len(row))
    BY <1>12, <2>1, <2>2, <2>4
  <2>5. QED
    BY <2>3, <2>4
<1>14. x \in Seq(Tokens) /\ Len(x) = l
  <2>1. x \in [1 .. l -> Tokens]
    BY <1>7, <1>13
  <2>2. QED
    BY <1>1, <2>1
<1>15. QED
  BY <1>13, <1>14 DEF x, row

\* The batch as it is padded.
LEMMA MergedWhole ==
  ASSUME NEW b \in Batches, NEW i \in 1 .. Len(b)
  PROVE  LET x == Merged(IdsOf(b, "right"), AudioOf(b))[i] IN
         /\ x \in Seq(Tokens) /\ Len(x) = Width(b)
         /\ \A j \in 1 .. Len(b[i].ids) : x[j] = Embeds(b[i])[j]
<1> DEFINE ids == IdsOf(b, "right")
           l == Width(b)
           x == Merged(ids, AudioOf(b))[i]
<1>1. /\ ids \in Seq(Seq(Tokens)) /\ Len(ids) = Len(b)
      /\ \A k \in 1 .. Len(b) :
           /\ Len(ids[k]) = l
           /\ \A j \in 1 .. l :
                ids[k][j] = IF j <= Len(b[k].ids) THEN b[k].ids[j] ELSE PadToken
  BY IdsAre
<1>2. Len(b) \in Nat \ {0} /\ l \in Nat /\ \A k \in 1 .. Len(b) : Len(b[k].ids) \in Nat /\ Len(b[k].ids) <= l
  BY BatchFacts, WidthIs
<1> HIDE DEF ids, l
<1>3. Tensor(ids, Len(b), l)
  BY <1>1, <1>2 DEF Tensor
<1>4. ASSUME NEW k \in 1 .. Len(b) PROVE RestOf(ids[k], b[k].ids, 0, l)
  <2>1. \A j \in 1 .. l : 0 + j = j
    OBVIOUS
  <2>2. \A j \in 1 .. Len(b[k].ids) : ~(j <= 0)
    OBVIOUS
  <2>3. Len(b[k].ids) <= 0 + l
    BY <1>2
  <2>4. QED
    BY <1>1, <2>1, <2>2, <2>3 DEF RestOf
<1>5. /\ x \in Seq(Tokens) /\ Len(x) = l
      /\ \A j \in 1 .. l : 0 + j <= Len(b[i].ids) => x[j] = Embeds(b[i])[0 + j]
  <2>1. 0 \in Nat
    OBVIOUS
  <2>2. QED
    BY <1>3, <1>4, <2>1, MergedRest
<1> HIDE DEF x
<1>6. \A j \in 1 .. Len(b[i].ids) : j \in 1 .. l /\ 0 + j = j /\ 0 + j <= Len(b[i].ids)
  BY <1>2
<1>7. \A j \in 1 .. Len(b[i].ids) : x[j] = Embeds(b[i])[j]
  BY <1>5, <1>6
<1>8. QED
  BY <1>5, <1>7 DEF x, ids, l

--------------------------------------------------------------------------------
\* Prefills.

\* What is left of a row after a column.
LEMMA RestIs ==
  ASSUME NEW S, NEW row \in Seq(S), NEW from \in 0 .. Len(row)
  PROVE  /\ SubSeq(row, from + 1, Len(row)) \in Seq(S)
         /\ Len(SubSeq(row, from + 1, Len(row))) = Len(row) - from
         /\ \A j \in 1 .. Len(row) - from : SubSeq(row, from + 1, Len(row))[j] = row[from + j]
OBVIOUS

\* get_rope_index gives positions.
LEMMA RopeIndexType ==
  ASSUME NEW m, NEW n, NEW l, RightPadded(m, n, l)
  PROVE  RopeIndex(m) \in Seq(Int) /\ Len(RopeIndex(m)) = l
<1>1. DOMAIN m = 1 .. l /\ l \in Nat /\ IsFiniteSet(OnesIn(m))
  <2>1. DOMAIN m = 1 .. l /\ l \in Nat /\ n \in Nat /\ OnesIn(m) = 1 .. n
    BY MaskFacts DEF RightPadded
  <2>2. IsFiniteSet(1 .. n)
    BY <2>1, FS_Interval
  <2>3. QED
    BY <2>1, <2>2
<1> DEFINE x(j) == IF m[j] # 0 THEN Cardinality({k \in OnesIn(m) : k <= j}) - 1 ELSE 1
<1>2. ASSUME NEW j \in 1 .. l PROVE x(j) \in Int
  <2>1. {k \in OnesIn(m) : k <= j} \in SUBSET OnesIn(m)
    OBVIOUS
  <2>2. Cardinality({k \in OnesIn(m) : k <= j}) \in Nat
    BY <1>1, <2>1, FS_Subset, FS_CardinalityType
  <2>3. QED
    BY <2>2
<1>3. RopeIndex(m) = [j \in 1 .. l |-> x(j)]
  BY <1>1, Zenon DEF RopeIndex
<1> HIDE DEF x
<1>4. QED
  BY <1>1, <1>2, <1>3

\* A prefill from a cached beginning of the row, or from nothing, fills the row with the
\* contexts of its prompt, whatever the padding after it.
LEMMA RestFilled ==
  ASSUME NEW m, NEW c \in Seq(Tokens), NEW l, RightPadded(m, Len(c), l),
         NEW cache \in Seq(Seq(Tokens)), NEW embeds \in Seq(Tokens),
         Len(cache) <= Len(c), Len(cache) + Len(embeds) = l
  PROVE  LET from == Len(cache)
             at == SubSeq(RopeIndex(m), from + 1, l)
             r == RowContexts(cache, embeds, at, Sees(m, from, l - from)) IN
         /\ r \in Seq(Seq(Tokens)) /\ Len(r) = l
         /\ /\ build.flash /\ from > 0 => Len(c) = l
            /\ Holds(cache, c, from)
            /\ \A j \in 1 .. Len(embeds) : from + j <= Len(c) => embeds[j] = c[from + j]
            => Holds(r, c, Len(c))
<1> DEFINE from == Len(cache)
           n == Len(c)
           at == SubSeq(RopeIndex(m), from + 1, l)
           sees == Sees(m, from, l - from)
           r == RowContexts(cache, embeds, at, sees)
<1>1. /\ from \in Nat /\ n \in Nat /\ l \in Nat /\ from <= n /\ n <= l
      /\ Len(embeds) = l - from /\ from \in 0 .. l
  BY DEF RightPadded
<1>2. ASSUME NEW j \in 1 .. Len(embeds)
      PROVE  /\ sees[j] \subseteq 1 .. from + j
             /\ (build.flash /\ from > 0 => n = l) /\ from + j <= n => sees[j] = 1 .. from + j
  <2>1. j \in 1 .. l - from /\ from \in 0 .. l /\ RightPadded(m, n, l)
    BY <1>1
  <2> HIDE DEF from, n
  <2>2. SeesOwn(Sees(m, from, l - from), n, l, from, j)
    BY <2>1, SeesPadded, Zenon
  <2>3. QED
    BY <2>2, Zenon DEF SeesOwn
<1>3. ASSUME NEW j \in 1 .. Len(embeds), from + j <= n PROVE at[j] = from + j - 1
  <2> DEFINE rope == RopeIndex(m)
  <2>1. rope \in Seq(Int) /\ Len(rope) = l /\ \A k \in 1 .. n : rope[k] = k - 1
    BY RopeIndexType, MaskFacts
  <2> HIDE DEF rope
  <2>2. at[j] = rope[from + j]
    <3>1. \A k \in 1 .. Len(rope) - from : SubSeq(rope, from + 1, Len(rope))[k] = rope[from + k]
      BY <1>1, <2>1, RestIs
    <3>2. j \in 1 .. Len(rope) - from
      BY <1>1, <2>1
    <3>3. QED
      BY <2>1, <3>1, <3>2 DEF rope
  <2>3. from + j \in 1 .. n
    BY <1>1, <1>3
  <2>4. (from + j) - 1 = from + j - 1
    BY <1>1
  <2>5. QED
    BY <2>1, <2>2, <2>3, <2>4
<1> HIDE DEF from, n, at, sees
<1>4. r \in Seq(Seq(Tokens)) /\ Len(r) = from + Len(embeds)
  BY <1>2, RowContextsKeep DEF from
<1>5. ASSUME build.flash /\ from > 0 => n = l, Holds(cache, c, from),
             \A j \in 1 .. Len(embeds) : from + j <= n => embeds[j] = c[from + j]
      PROVE  Holds(r, c, n)
  <2>1. \A j \in 1 .. Len(embeds) : sees[j] \subseteq 1 .. from + j
    BY <1>2
  <2>2. \A j \in 1 .. Len(embeds) : from + j <= n =>
          /\ embeds[j] = c[from + j]
          /\ at[j] = from + j - 1
          /\ sees[j] = 1 .. from + j
    BY <1>2, <1>3, <1>5
  <2>3. from <= n /\ n <= from + Len(embeds)
    BY <1>1
  <2>4. FillsRow(c, cache, embeds, at, sees)
    BY <1>5, <2>1, <2>2, <2>3, Zenon DEF FillsRow, from, n
  <2>5. QED
    BY <2>4, RowFilled, Zenon DEF r, n
<1>6. from + Len(embeds) = l
  BY <1>1
<1>7. QED
  BY <1>4, <1>5, <1>6 DEF from, n, at, sees

--------------------------------------------------------------------------------
\* A token more.

\* A pass for one token appends its context.
LEMMA OneMore ==
  ASSUME NEW cache \in Seq(Seq(Tokens)), NEW x \in Tokens, NEW at, NEW sees,
         sees[1] \subseteq 1 .. Len(cache) + 1, Len(cache) + 1 \in sees[1]
  PROVE  RowContexts(cache, <<x>>, <<at>>, sees)
           = Append(cache, Attend(x, at, cache, sees[1] \ {Len(cache) + 1}))
<1> DEFINE e == <<x>>
           a == <<at>>
<1>1. e \in Seq(Tokens) /\ Len(e) = 1 /\ e[1] = x /\ a[1] = at
  OBVIOUS
<1> HIDE DEF e, a
<1>2. \A j \in 1 .. Len(e) : sees[j] \subseteq 1 .. Len(cache) + j
  <2>1. \A j \in 1 .. Len(e) : j = 1
    BY <1>1
  <2>2. QED
    BY <2>1
<1>3. PICK f : ContextRun(f, cache, e, a, sees)
  BY <1>1, <1>2, RowContextsIs, Zenon
<1>4. /\ f[0] = cache
      /\ f[1] = Append(f[1 - 1], Following(f[1 - 1], 1, Len(cache), e, a, sees))
      /\ RowContexts(cache, e, a, sees) = f[1]
  <2>1. 1 \in 1 .. Len(e)
    BY <1>1
  <2>2. f[1] = Append(f[1 - 1], Following(f[1 - 1], 1, Len(cache), e, a, sees))
    BY <1>3, <2>1, Zenon DEF ContextRun
  <2>3. f[0] = cache /\ RowContexts(cache, e, a, sees) = f[1]
    BY <1>1, <1>3 DEF ContextRun
  <2>4. QED
    BY <2>2, <2>3
<1>5. f[1] = Append(cache, Following(cache, 1, Len(cache), e, a, sees))
  <2>1. 1 - 1 = 0
    OBVIOUS
  <2>2. QED
    BY <1>4, <2>1, Zenon
<1>6. Following(cache, 1, Len(cache), e, a, sees)
        = Attend(x, at, cache, sees[1] \ {Len(cache) + 1})
  BY <1>1 DEF Following
<1>7. QED
  BY <1>4, <1>5, <1>6 DEF e, a

\* A row that has said s tokens after a prompt of n in w columns.
Gapped(row, c, n, w, s) ==
  /\ Len(row) = w + s
  /\ Holds(row, c, n)
  /\ \A t \in 1 .. s : row[w + t] = SubSeq(c, 1, n + t)

\* The places of its tokens.
Places(n, w, s) == (1 .. n) \cup (w + 1 .. w + s)

\* A cache of w columns, n of them a prompt, and s tokens more has n + s places in use.
LEMMA PlacesCount ==
  ASSUME NEW n \in Nat, NEW w \in Nat, NEW s \in Nat, n <= w
  PROVE  /\ Cardinality(Places(n, w, s)) = n + s
         /\ Places(n, w, s + 1) \ {w + s + 1} = Places(n, w, s)
         /\ w + s + 1 \in Places(n, w, s + 1)
         /\ Places(n, w, s) \subseteq 1 .. w + s
         /\ n = w => Places(n, w, s) = 1 .. w + s
<1>1. IsFiniteSet(1 .. n) /\ Cardinality(1 .. n) = n
  BY FS_Interval
<1>2. IsFiniteSet(w + 1 .. w + s) /\ Cardinality(w + 1 .. w + s) = s
  <2>1. w + 1 \in Int /\ w + s \in Int /\ (w + 1 > w + s <=> s = 0)
        /\ (w + s) - (w + 1) + 1 = s
    OBVIOUS
  <2>2. QED
    BY <2>1, FS_Interval
<1>3. (1 .. n) \cap (w + 1 .. w + s) = {}
  OBVIOUS
<1>4. Cardinality((1 .. n) \cup (w + 1 .. w + s)) = n + s - Cardinality({})
  BY <1>1, <1>2, <1>3, FS_Union
<1>5. Cardinality(Places(n, w, s)) = n + s
  BY <1>4, FS_EmptySet DEF Places
<1>6. Places(n, w, s + 1) \ {w + s + 1} = Places(n, w, s)
  BY DEF Places
<1>7. w + s + 1 \in Places(n, w, s + 1)
  BY DEF Places
<1>8. Places(n, w, s) \subseteq 1 .. w + s
  BY DEF Places
<1>9. n = w => Places(n, w, s) = 1 .. w + s
  BY DEF Places
<1>10. QED
  BY <1>5, <1>6, <1>7, <1>8, <1>9

NextReady(row, c, x, n, w, s, at, sees) ==
  /\ row \in Seq(Seq(Tokens)) /\ c \in Seq(Tokens) /\ x \in Tokens
  /\ n \in Nat \ {0} /\ w \in Nat /\ s \in Nat /\ n <= w
  /\ Len(c) = n + s /\ Gapped(row, c, n, w, s)
  /\ at = n + s /\ sees[1] = Places(n, w, s + 1)

NextHolds(r, c, x, n, w, s) ==
  /\ r \in Seq(Seq(Tokens))
  /\ Gapped(r, Append(c, x), n, w, s + 1)
  /\ Last(r) = Append(c, x)

\* The next token of such a row, attending its tokens and itself, has the context of all
\* of them.
LEMMA NextContext ==
  ASSUME NEW row, NEW c, NEW x, NEW n, NEW w, NEW s, NEW at, NEW sees,
         NextReady(row, c, x, n, w, s, at, sees)
  PROVE  NextHolds(RowContexts(row, <<x>>, <<at>>, sees), c, x, n, w, s)
<1>0. /\ row \in Seq(Seq(Tokens)) /\ c \in Seq(Tokens) /\ x \in Tokens
      /\ n \in Nat \ {0} /\ w \in Nat /\ s \in Nat /\ n <= w
      /\ Len(c) = n + s /\ Gapped(row, c, n, w, s)
      /\ at = n + s /\ sees[1] = Places(n, w, s + 1)
  BY Zenon DEF NextReady
<1> USE <1>0
<1> DEFINE r == RowContexts(row, <<x>>, <<at>>, sees)
           places == Places(n, w, s)
           d == Append(c, x)
<1>1. /\ Len(row) = w + s /\ Len(c) = n + s /\ n + s \in Nat /\ c # <<>>
      /\ \A k \in 1 .. n : row[k] = SubSeq(c, 1, k)
      /\ \A t \in 1 .. s : row[w + t] = SubSeq(c, 1, n + t)
  <2>1. n + s \in Nat /\ n + s # 0
    OBVIOUS
  <2>2. c # <<>>
    BY <2>1
  <2>3. Len(row) = w + s /\ Holds(row, c, n)
        /\ \A t \in 1 .. s : row[w + t] = SubSeq(c, 1, n + t)
    BY Zenon DEF Gapped
  <2>4. QED
    BY <2>1, <2>2, <2>3 DEF Holds
<1>2. /\ Cardinality(places) = Len(c)
      /\ sees[1] \ {Len(row) + 1} = places
      /\ Len(row) + 1 \in sees[1]
      /\ sees[1] \subseteq 1 .. Len(row) + 1
  <2>1. /\ Cardinality(places) = n + s
        /\ Places(n, w, s + 1) \ {w + s + 1} = places
        /\ w + s + 1 \in Places(n, w, s + 1)
    BY PlacesCount
  <2>2. Places(n, w, s + 1) \subseteq 1 .. w + (s + 1)
    BY PlacesCount
  <2>3. w + (s + 1) = w + s + 1 /\ Len(row) + 1 = w + s + 1
    BY <1>1
  <2>4. QED
    BY <1>1, <2>1, <2>2, <2>3
<1>3. {row[k] : k \in places} = {SubSeq(c, 1, k) : k \in 1 .. Len(c)}
  <2>1. ASSUME NEW k \in places PROVE \E p \in 1 .. Len(c) : row[k] = SubSeq(c, 1, p)
    <3>1. CASE k \in 1 .. n
      BY <1>1, <3>1
    <3>2. CASE k \in w + 1 .. w + s
      <4>1. k - w \in 1 .. s /\ w + (k - w) = k /\ n + (k - w) \in 1 .. Len(c)
        BY <1>1, <3>2
      <4>2. QED
        BY <1>1, <4>1
    <3>3. QED
      BY <3>1, <3>2 DEF Places
  <2>2. ASSUME NEW p \in 1 .. Len(c) PROVE \E k \in places : row[k] = SubSeq(c, 1, p)
    <3>1. CASE p <= n
      <4>1. p \in 1 .. n /\ p \in places
        BY <1>1, <3>1 DEF Places
      <4>2. QED
        BY <1>1, <4>1
    <3>2. CASE ~(p <= n)
      <4>1. p - n \in 1 .. s /\ n + (p - n) = p /\ w + (p - n) \in places
        BY <1>1, <3>2 DEF Places
      <4>2. row[w + (p - n)] = SubSeq(c, 1, p)
        BY <1>1, <4>1
      <4>3. QED
        BY <4>1, <4>2
    <3>3. QED
      BY <3>1, <3>2
  <2> HIDE DEF places
  <2>3. QED
    BY <2>1, <2>2
<1> HIDE DEF places
<1>4. r = Append(row, Attend(x, at, row, places))
  BY <1>2, OneMore
<1>5. Attend(x, at, row, places) = d
  <2>1. Attend(x, Len(c), row, places) = Append(c, x)
    BY <1>1, <1>2, <1>3, AttendWhole
  <2>2. QED
    BY <1>1, <2>1
<1>6. /\ d \in Seq(Tokens) /\ Len(d) = n + s + 1
      /\ \A k \in 1 .. n + s : SubSeq(d, 1, k) = SubSeq(c, 1, k)
      /\ SubSeq(d, 1, n + s + 1) = d
  <2>1. /\ d \in Seq(Tokens) /\ Len(d) = n + s + 1
        /\ \A k \in 1 .. n + s : d[k] = c[k]
    <3>1. Append(c, x) \in Seq(Tokens) /\ Len(Append(c, x)) = Len(c) + 1
          /\ \A k \in 1 .. Len(c) : Append(c, x)[k] = c[k]
      OBVIOUS
    <3>2. QED
      BY <1>1, <3>1
  <2>2. \A k \in 1 .. n + s : k \in 0 .. Len(c) /\ k \in 0 .. Len(d)
    BY <1>1, <2>1
  <2> HIDE DEF d
  <2>3. ASSUME NEW k \in 1 .. n + s PROVE SubSeq(d, 1, k) = SubSeq(c, 1, k)
    <3>1. /\ SubSeq(d, 1, k) \in Seq(Tokens) /\ Len(SubSeq(d, 1, k)) = k
          /\ SubSeq(c, 1, k) \in Seq(Tokens) /\ Len(SubSeq(c, 1, k)) = k
          /\ \A i \in 1 .. k : SubSeq(d, 1, k)[i] = d[i] /\ SubSeq(c, 1, k)[i] = c[i]
      BY <2>1, <2>2, PrefixFacts
    <3>2. \A i \in 1 .. k : SubSeq(d, 1, k)[i] = SubSeq(c, 1, k)[i]
      BY <2>1, <3>1
    <3>3. QED
      BY <3>1, <3>2
  <2>4. SubSeq(d, 1, n + s + 1) = d
    <3>1. SubSeq(d, 1, Len(d)) = d
      BY <2>1, PrefixFacts
    <3>2. QED
      BY <2>1, <3>1, Zenon
  <2>5. QED
    BY <2>1, <2>3, <2>4
<1>7. r = Append(row, d)
  BY <1>4, <1>5
<1> HIDE DEF r, d
<1>8. /\ r \in Seq(Seq(Tokens)) /\ Len(r) = w + s + 1
      /\ \A k \in 1 .. w + s : r[k] = row[k]
      /\ r[w + s + 1] = d
  <2>1. Append(row, d) \in Seq(Seq(Tokens)) /\ Len(Append(row, d)) = Len(row) + 1
        /\ (\A k \in 1 .. Len(row) : Append(row, d)[k] = row[k])
        /\ Append(row, d)[Len(row) + 1] = d
    BY <1>6
  <2>2. QED
    BY <1>1, <1>7, <2>1
<1>9. Holds(r, d, n)
  <2>1. \A k \in 1 .. n : k \in 1 .. w + s /\ k \in 1 .. n + s
    OBVIOUS
  <2>2. QED
    BY <1>1, <1>6, <1>8, <2>1 DEF Holds
<1>10. ASSUME NEW t \in 1 .. s + 1 PROVE r[w + t] = SubSeq(d, 1, n + t)
  <2>1. CASE t = s + 1
    <3>1. w + t = w + s + 1 /\ n + t = n + s + 1
      BY <2>1
    <3>2. QED
      BY <1>6, <1>8, <3>1
  <2>2. CASE t # s + 1
    <3>1. t \in 1 .. s /\ w + t \in 1 .. w + s /\ n + t \in 1 .. n + s
      BY <2>2
    <3>2. QED
      BY <1>1, <1>6, <1>8, <3>1
  <2>3. QED
    BY <2>1, <2>2
<1>11. Last(r) = d
  BY <1>8 DEF Last
<1>12. Len(r) = w + (s + 1)
  BY <1>8
<1>13. Gapped(r, d, n, w, s + 1)
  BY <1>9, <1>10, <1>12 DEF Gapped
<1>14. QED
  BY <1>8, <1>11, <1>13, Zenon DEF r, d, NextHolds

--------------------------------------------------------------------------------
\* Answers.

\* Every token of an answer is the model's, on what is before it, and ends nothing.
Said(prompt, o) ==
  \A t \in 1 .. Len(o) : /\ o[t] = NextToken(Embeds(prompt) \o SubSeq(o, 1, t - 1))
                         /\ o[t] \notin EosIds

\* Such an answer, as long as it may be or with an end of sequence after it, is the answer.
LEMMA AnswerIs ==
  ASSUME NEW prompt, NEW o \in Seq(Tokens), NEW max \in Nat, Said(prompt, o), Len(o) <= max,
         Len(o) = max \/ NextToken(Embeds(prompt) \o o) \in EosIds
  PROVE  Answer(prompt, max) = o
<1> DEFINE E == Embeds(prompt)
           l == Len(o)
           More(s) == IF NextToken(E \o s) \in EosIds THEN s ELSE Append(s, NextToken(E \o s))
           R(f) == f = [n \in 0 .. max |->
                          IF n = 0 THEN <<>>
                          ELSE LET token == NextToken(E \o f[n-1])
                               IN IF token \in EosIds THEN f[n-1] ELSE Append(f[n-1], token)]
           after == CHOOSE f : R(f)
           g == [k \in 0 .. max |-> IF k <= l THEN SubSeq(o, 1, k) ELSE o]
<1>1. Answer(prompt, max) = after[max]
  BY Zenon DEF Answer, Embeds
<1>2. /\ l \in Nat /\ l <= max
      /\ \A k \in 1 .. l : SubSeq(o, 1, k) = Append(SubSeq(o, 1, k - 1), o[k])
      /\ SubSeq(o, 1, l) = o /\ SubSeq(o, 1, 0) = <<>>
  BY PrefixFacts
<1>3. \A t \in 1 .. l : o[t] = NextToken(E \o SubSeq(o, 1, t - 1)) /\ o[t] \notin EosIds
  BY DEF Said
<1>4. l = max \/ NextToken(E \o o) \in EosIds
  OBVIOUS
<1> HIDE DEF E, l
<1>5. g[0] = <<>>
  BY <1>2
<1>6. ASSUME NEW k \in 1 .. max PROVE g[k] = More(g[k-1])
  <2>1. k \in 0 .. max /\ k - 1 \in 0 .. max /\ k \in Nat
    OBVIOUS
  <2>2. CASE k <= l
    <3>1. k - 1 <= l /\ k \in 1 .. l
      BY <1>2, <2>1, <2>2
    <3>2. g[k] = SubSeq(o, 1, k) /\ g[k-1] = SubSeq(o, 1, k - 1)
      BY <2>1, <2>2, <3>1
    <3> HIDE DEF g
    <3>3. o[k] = NextToken(E \o g[k-1]) /\ o[k] \notin EosIds
      BY <1>3, <3>1, <3>2
    <3>4. More(g[k-1]) = Append(g[k-1], o[k])
      BY <3>3
    <3>5. QED
      BY <1>2, <3>1, <3>2, <3>4
  <2>3. CASE ~(k <= l)
    <3>1. l # max /\ l <= k - 1
      BY <1>2, <2>1, <2>3
    <3>2. g[k] = o
      BY <2>1, <2>3
    <3>3. g[k-1] = o
      <4>1. CASE k - 1 = l
        <5>1. k - 1 <= l
          BY <4>1, <1>2
        <5>2. g[k-1] = SubSeq(o, 1, k - 1)
          BY <2>1, <5>1
        <5>3. QED
          BY <5>2, <4>1, <1>2
      <4>2. CASE k - 1 # l
        <5>1. ~(k - 1 <= l)
          BY <1>2, <2>1, <3>1, <4>2
        <5>2. QED
          BY <2>1, <5>1
      <4>3. QED
        BY <4>1, <4>2
    <3> HIDE DEF g
    <3>4. NextToken(E \o o) \in EosIds
      BY <1>4, <3>1
    <3>5. QED
      BY <3>2, <3>3, <3>4
  <2>4. QED
    BY <2>2, <2>3
<1>7. DOMAIN g = 0 .. max /\ g = [k \in 0 .. max |-> g[k]]
  OBVIOUS
<1> HIDE DEF g
<1>8. R(g)
  <2>1. ASSUME NEW k \in 0 .. max
        PROVE  g[k] = IF k = 0 THEN <<>>
                      ELSE LET token == NextToken(E \o g[k-1])
                           IN IF token \in EosIds THEN g[k-1] ELSE Append(g[k-1], token)
    <3>1. k = 0 \/ k \in 1 .. max
      OBVIOUS
    <3>2. QED
      BY <3>1, <1>5, <1>6
  <2>2. QED
    BY <2>1, <1>7, Zenon
<1>9. R(after)
  <2> HIDE DEF R
  <2>1. QED
    BY <1>8
<1> HIDE DEF after
<1>10. after[0] = <<>> /\ \A k \in 1 .. max : after[k] = More(after[k-1])
  <2>1. 0 \in 0 .. max
    OBVIOUS
  <2>2. after[0] = <<>>
    BY <1>9, <2>1, Zenon
  <2>3. ASSUME NEW k \in 1 .. max PROVE after[k] = More(after[k-1])
    <3>1. k \in 0 .. max /\ k # 0
      OBVIOUS
    <3>2. QED
      BY <1>9, <3>1, Zenon
  <2>4. QED
    BY <2>2, <2>3
<1> DEFINE S == {k \in 0 .. max : after[k] = g[k]}
<1>11. 0 \in S
  BY <1>5, <1>10
<1>12. ASSUME NEW k \in 1 .. max, k - 1 \in S PROVE k \in S
  <2>1. after[k-1] = g[k-1]
    BY <1>12
  <2>2. after[k] = g[k]
    BY <2>1, <1>6, <1>10, Zenon
  <2>3. QED
    BY <2>2
<1> HIDE DEF S
<1>13. \A k \in 0 .. max : k \in S
  BY <1>11, <1>12, UpTo
<1>14. after[max] = g[max]
  BY <1>13 DEF S
<1>15. g[max] = o
  <2>1. CASE max = l
    <3>1. max \in 0 .. max /\ max <= l
      BY <2>1
    <3>2. g[max] = SubSeq(o, 1, max)
      BY <3>1 DEF g
    <3>3. QED
      BY <3>2, <2>1, <1>2
  <2>2. CASE max # l
    <3>1. max \in 0 .. max /\ ~(max <= l)
      BY <2>2, <1>2
    <3>2. QED
      BY <3>1 DEF g
  <2>3. QED
    BY <2>1, <2>2
<1>16. QED
  BY <1>1, <1>14, <1>15

\* What is known of a row's answer o, its next token and whether it ended, after st passes.
Speaks(prompt, o, token, ended, st) ==
  /\ o \in Seq(Tokens \ {AudioToken}) /\ Len(o) <= st
  /\ ended \in BOOLEAN
  /\ Said(prompt, o)
  /\ ended = FALSE => Len(o) = st /\ token = NextToken(Embeds(prompt) \o o)
  /\ ended = TRUE => NextToken(Embeds(prompt) \o o) \in EosIds

\* The model answers tokens, and never the placeholder of audio.
NeverAudio == \A c \in Seq(Tokens) : NextToken(c) \in Tokens \ {AudioToken}

\* A joined sequence.
LEMMA Joined ==
  ASSUME NEW S, NEW a \in Seq(S), NEW b \in Seq(S)
  PROVE  /\ a \o b \in Seq(S) /\ Len(a \o b) = Len(a) + Len(b)
         /\ \A k \in 1 .. Len(a) : (a \o b)[k] = a[k]
OBVIOUS

\* What is known of a row that speaks.
Spoken(prompt, o, token, ended, st) ==
  /\ o \in Seq(Tokens \ {AudioToken}) /\ Len(o) <= st /\ Len(o) \in Nat
  /\ o \in Seq(Tokens) /\ Said(prompt, o)
  /\ ended = FALSE => Len(o) = st /\ token = NextToken(Embeds(prompt) \o o)
  /\ ended = TRUE => NextToken(Embeds(prompt) \o o) \in EosIds
  /\ NextToken(Embeds(prompt) \o o) \in Tokens \ {AudioToken}

\* What a row has said are tokens, and so is what it says next.
LEMMA SpeaksFacts ==
  ASSUME NeverAudio, NEW prompt, Embeds(prompt) \in Seq(Tokens),
         NEW o, NEW token, NEW ended, NEW st, Speaks(prompt, o, token, ended, st)
  PROVE  Spoken(prompt, o, token, ended, st)
<1>1. /\ o \in Seq(Tokens \ {AudioToken}) /\ Len(o) <= st /\ Said(prompt, o)
      /\ ended = FALSE => Len(o) = st /\ token = NextToken(Embeds(prompt) \o o)
      /\ ended = TRUE => NextToken(Embeds(prompt) \o o) \in EosIds
  BY Zenon DEF Speaks
<1>2. o \in Seq(Tokens) /\ Len(o) \in Nat
  BY <1>1
<1>3. Embeds(prompt) \o o \in Seq(Tokens)
  BY <1>2, Joined
<1>4. NextToken(Embeds(prompt) \o o) \in Tokens \ {AudioToken}
  BY <1>3 DEF NeverAudio
<1>5. QED
  BY <1>1, <1>2, <1>4, Zenon DEF Spoken

\* A row that ended, or does with this token, stays as it is.
LEMMA SpeaksNoMore ==
  ASSUME NeverAudio, NEW prompt, Embeds(prompt) \in Seq(Tokens),
         NEW o, NEW token, NEW ended, NEW st \in Nat, Speaks(prompt, o, token, ended, st),
         ended = TRUE \/ token \in EosIds
  PROVE  \A any : Speaks(prompt, o, any, TRUE, st + 1)
<1>1. Spoken(prompt, o, token, ended, st)
  BY SpeaksFacts, Zenon
<1>2. Len(o) <= st + 1
  BY <1>1 DEF Spoken
<1>3. ended \in BOOLEAN
  BY Zenon DEF Speaks
<1>4. NextToken(Embeds(prompt) \o o) \in EosIds
  <2>1. CASE ended = TRUE
    BY <1>1, <2>1, Zenon DEF Spoken
  <2>2. CASE ended = FALSE
    <3>1. token \in EosIds
      BY <2>2
    <3>2. QED
      BY <1>1, <2>2, <3>1, Zenon DEF Spoken
  <2>3. QED
    BY <1>3, <2>1, <2>2, Zenon
<1>5. QED
  BY <1>1, <1>2, <1>4 DEF Spoken, Speaks

\* A row that goes on says its token.
SaysMore(prompt, o, token, st) ==
  /\ token \in Tokens \ {AudioToken}
  /\ Len(o) = st /\ Len(Append(o, token)) = st + 1
  /\ Embeds(prompt) \o Append(o, token) = Append(Embeds(prompt) \o o, token)
  /\ Speaks(prompt, Append(o, token), NextToken(Append(Embeds(prompt) \o o, token)), FALSE,
            st + 1)

\* A row that goes on has said its next token.
LEMMA SpeaksMore ==
  ASSUME NeverAudio, NEW prompt, Embeds(prompt) \in Seq(Tokens),
         NEW o, NEW token, NEW ended, NEW st \in Nat, Speaks(prompt, o, token, ended, st),
         ended = FALSE, token \notin EosIds
  PROVE  SaysMore(prompt, o, token, st)
<1> DEFINE E == Embeds(prompt)
           words == Tokens \ {AudioToken}
           more == Append(o, token)
<1>1. /\ o \in Seq(words) /\ Said(prompt, o) /\ o \in Seq(Tokens)
      /\ Len(o) = st /\ token = NextToken(E \o o) /\ token \notin EosIds
      /\ token \in words
  <2>1. Spoken(prompt, o, token, ended, st)
    BY SpeaksFacts, Zenon
  <2>2. QED
    BY <2>1, Zenon DEF Spoken
<1>2. E \in Seq(Tokens)
  OBVIOUS
<1> HIDE DEF E, words
<1>3. /\ more \in Seq(words) /\ Len(more) = st + 1
      /\ \A t \in 1 .. st : more[t] = o[t]
      /\ more[st + 1] = token
  BY <1>1
<1>4. token \in Tokens
  BY <1>1 DEF words
<1>5. E \o more = Append(E \o o, token)
  BY <1>1, <1>2, <1>4
<1> HIDE DEF more
<1>6. \A t \in 0 .. st : SubSeq(more, 1, t) = SubSeq(o, 1, t)
  <2>1. ASSUME NEW t \in 0 .. st PROVE SubSeq(more, 1, t) = SubSeq(o, 1, t)
    <3>1. t \in 0 .. Len(more) /\ t \in 0 .. Len(o)
      BY <1>1, <1>3
    <3>2. /\ SubSeq(more, 1, t) \in Seq(words) /\ Len(SubSeq(more, 1, t)) = t
          /\ \A i \in 1 .. t : SubSeq(more, 1, t)[i] = more[i]
          /\ SubSeq(o, 1, t) \in Seq(words) /\ Len(SubSeq(o, 1, t)) = t
          /\ \A i \in 1 .. t : SubSeq(o, 1, t)[i] = o[i]
      BY <1>1, <1>3, <3>1, PrefixFacts
    <3>3. \A i \in 1 .. t : SubSeq(more, 1, t)[i] = SubSeq(o, 1, t)[i]
      BY <3>2, <1>3
    <3>4. QED
      BY <3>2, <3>3
  <2>2. QED
    BY <2>1
<1>7. SubSeq(o, 1, st) = o
  BY <1>1, PrefixFacts
<1>8. ASSUME NEW t \in 1 .. Len(more)
      PROVE  more[t] = NextToken(E \o SubSeq(more, 1, t - 1)) /\ more[t] \notin EosIds
  <2>1. t - 1 \in 0 .. st /\ t \in 1 .. st + 1
    BY <1>3
  <2>2. SubSeq(more, 1, t - 1) = SubSeq(o, 1, t - 1)
    BY <1>6, <2>1
  <2>3. CASE t = st + 1
    <3>1. t - 1 = st
      BY <2>3
    <3>2. SubSeq(o, 1, t - 1) = o
      BY <1>7, <3>1
    <3>3. QED
      BY <1>1, <1>3, <2>2, <2>3, <3>2
  <2>4. CASE t # st + 1
    <3>1. t \in 1 .. st
      BY <2>1, <2>4
    <3>2. o[t] = NextToken(E \o SubSeq(o, 1, t - 1)) /\ o[t] \notin EosIds
      BY <1>1, <3>1 DEF Said, E
    <3>3. QED
      BY <1>3, <2>2, <3>1, <3>2
  <2>5. QED
    BY <2>3, <2>4
<1>9. Said(prompt, more)
  BY <1>8 DEF Said, E
<1>10. Len(more) <= st + 1
  BY <1>3
<1>11. Speaks(prompt, more, NextToken(E \o more), FALSE, st + 1)
  BY <1>3, <1>9, <1>10 DEF Speaks, E, words
<1>12. QED
  BY <1>1, <1>3, <1>5, <1>11 DEF more, E, words, SaysMore

NothingLeft(token, ended, st, max) ==
  /\ st \in Nat /\ max \in Nat /\ st <= max
  /\ st = max \/ ended = TRUE \/ token \in EosIds

\* A row that ended, or said all it may, has said its answer.
LEMMA SpeaksAnswer ==
  ASSUME NEW prompt, NEW o, NEW token, NEW ended, NEW st, NEW max,
         Speaks(prompt, o, token, ended, st), NothingLeft(token, ended, st, max)
  PROVE  o = Answer(prompt, max)
<1>0. /\ st \in Nat /\ max \in Nat /\ st <= max
      /\ st = max \/ ended = TRUE \/ token \in EosIds
  BY DEF NothingLeft
<1>1. /\ o \in Seq(Tokens \ {AudioToken}) /\ Len(o) <= st /\ ended \in BOOLEAN /\ Said(prompt, o)
      /\ ended = FALSE => Len(o) = st /\ token = NextToken(Embeds(prompt) \o o)
      /\ ended = TRUE => NextToken(Embeds(prompt) \o o) \in EosIds
  BY Zenon DEF Speaks
<1>2. o \in Seq(Tokens) /\ Len(o) \in Nat /\ Len(o) <= max
  BY <1>0, <1>1
<1>3. Len(o) = max \/ NextToken(Embeds(prompt) \o o) \in EosIds
  BY <1>0, <1>1, <1>2
<1>4. QED
  BY <1>0, <1>1, <1>2, <1>3, AnswerIs

\* The answer begins with the token of the prompt.
LEMMA SpeaksFirst ==
  ASSUME NEW prompt, Embeds(prompt) \in Seq(Tokens)
  PROVE  LET token == NextToken(Embeds(prompt)) IN
         Speaks(prompt, <<>>, token, token \in EosIds, 0)
<1>1. Embeds(prompt) \o <<>> = Embeds(prompt)
  OBVIOUS
<1>2. Said(prompt, <<>>)
  BY DEF Said
<1>3. <<>> \in Seq(Tokens \ {AudioToken}) /\ Len(<<>>) = 0
  OBVIOUS
<1>4. QED
  BY <1>1, <1>2, <1>3 DEF Speaks

--------------------------------------------------------------------------------
\* The passes of the loops.

\* The model answers what a context says, if it is one.
LEMMA ArgmaxIs ==
  ASSUME NeverAudio, NEW c \in Seq(Tokens)
  PROVE  /\ Argmax(c) \in Tokens
         /\ Len(c) # 0 => Argmax(c) = NextToken(c) /\ Argmax(c) \in Tokens \ {AudioToken}
<1>1. NextToken(c) \in Tokens \ {AudioToken}
  BY DEF NeverAudio
<1>2. Len(c) # 0 => c # Wrong
  BY DEF Wrong
<1>3. QED
  BY <1>1, <1>2, DecodeAssumption DEF Argmax

\* A prefill of a row and its padding, from nothing.
LEMMA PromptFilled ==
  ASSUME NEW m, NEW c \in Seq(Tokens), NEW l, RightPadded(m, Len(c), l),
         NEW embeds \in Seq(Tokens), Len(embeds) = l,
         \A j \in 1 .. Len(c) : embeds[j] = c[j]
  PROVE  LET r == RowContexts(<<>>, embeds, RopeIndex(m), Sees(m, 0, l)) IN
         r \in Seq(Seq(Tokens)) /\ Len(r) = l /\ Holds(r, c, Len(c))
<1>0. PICK cache : cache = <<>>
  OBVIOUS
<1> DEFINE from == Len(cache)
           at == SubSeq(RopeIndex(m), from + 1, l)
           r == RowContexts(cache, embeds, at, Sees(m, from, l - from))
<1>1. cache \in Seq(Seq(Tokens)) /\ from = 0 /\ from + Len(embeds) = l /\ from <= Len(c)
      /\ l \in Nat /\ Len(c) <= l
  BY <1>0 DEF RightPadded
<1>2. Holds(cache, c, from)
  BY <1>1 DEF Holds
<1>3. \A j \in 1 .. Len(embeds) : from + j <= Len(c) => embeds[j] = c[from + j]
  BY <1>1
<1>4. at = RopeIndex(m) /\ l - from = l
  <2>1. RopeIndex(m) \in Seq(Int) /\ Len(RopeIndex(m)) = l
    BY RopeIndexType
  <2>2. SubSeq(RopeIndex(m), 1, Len(RopeIndex(m))) = RopeIndex(m)
    BY <2>1, PrefixFacts
  <2>3. from + 1 = 1 /\ l - from = l
    BY <1>1
  <2>4. QED
    BY <2>1, <2>2, <2>3
<1>5. build.flash /\ from > 0 => Len(c) = l
  BY <1>1
<1>6. r \in Seq(Seq(Tokens)) /\ Len(r) = l /\ Holds(r, c, Len(c))
  <2>1. from <= Len(c) /\ from + Len(embeds) = l
    BY <1>1
  <2>2. /\ r \in Seq(Seq(Tokens)) /\ Len(r) = l
        /\ /\ build.flash /\ from > 0 => Len(c) = l
           /\ Holds(cache, c, from)
           /\ \A j \in 1 .. Len(embeds) : from + j <= Len(c) => embeds[j] = c[from + j]
           => Holds(r, c, Len(c))
    BY <1>1, <2>1, RestFilled, Zenon
  <2>3. QED
    BY <1>2, <1>3, <1>5, <2>2, Zenon
<1>7. QED
  BY <1>0, <1>1, <1>4, <1>6, Zenon

\* One without padding ends with the context of all.
LEMMA AloneFilled ==
  ASSUME NeverAudio, NEW c \in Seq(Tokens), Len(c) # 0
  PROVE  LET r == RowContexts(<<>>, c, RopeIndex(Ones(Len(c))), Sees(Ones(Len(c)), 0, Len(c))) IN
         /\ r \in Seq(Seq(Tokens)) /\ Len(r) = Len(c) /\ Holds(r, c, Len(c))
         /\ Last(r) = c
         /\ Argmax(Last(r)) = NextToken(c)
<1> DEFINE l == Len(c)
           r == RowContexts(<<>>, c, RopeIndex(Ones(l)), Sees(Ones(l), 0, l))
<1>1. l \in Nat /\ l \in 1 .. l
  OBVIOUS
<1>2. RightPadded(Ones(l), l, l)
  BY OnesPadded
<1>3. r \in Seq(Seq(Tokens)) /\ Len(r) = l /\ Holds(r, c, l)
  BY <1>2, PromptFilled
<1> HIDE DEF r
<1>4. Last(r) = c
  <2>1. r[l] = SubSeq(c, 1, l)
    BY <1>1, <1>3 DEF Holds
  <2>2. SubSeq(c, 1, l) = c
    BY PrefixFacts
  <2>3. QED
    BY <1>3, <2>1, <2>2 DEF Last
<1>5. Argmax(Last(r)) = NextToken(c)
  BY <1>4, ArgmaxIs
<1>6. QED
  BY <1>3, <1>4, <1>5 DEF r

\* A row without a gap.
LEMMA HoldsIsGapped ==
  ASSUME NEW row, NEW c, NEW n \in Nat, NEW s \in Nat, Len(row) = n + s
  PROVE  Holds(row, c, n + s) <=> Gapped(row, c, n, n, s)
<1>1. ASSUME Holds(row, c, n + s) PROVE Gapped(row, c, n, n, s)
  <2>1. \A k \in 1 .. n : k \in 1 .. n + s
    OBVIOUS
  <2>2. \A t \in 1 .. s : n + t \in 1 .. n + s
    OBVIOUS
  <2>3. QED
    BY <1>1, <2>1, <2>2 DEF Gapped, Holds
<1>2. ASSUME Gapped(row, c, n, n, s) PROVE Holds(row, c, n + s)
  <2>1. Holds(row, c, n) /\ \A t \in 1 .. s : row[n + t] = SubSeq(c, 1, n + t)
    BY <1>2, Zenon DEF Gapped
  <2>2. \A k \in 1 .. n + s : k \in 1 .. n \/ (k - n \in 1 .. s /\ n + (k - n) = k)
    OBVIOUS
  <2>3. \A k \in 1 .. n : row[k] = SubSeq(c, 1, k)
    BY <2>1 DEF Holds
  <2>4. ASSUME NEW k \in 1 .. n + s PROVE row[k] = SubSeq(c, 1, k)
    <3>1. CASE k \in 1 .. n
      BY <2>3, <3>1
    <3>2. CASE k \notin 1 .. n
      BY <2>1, <2>2, <3>2
    <3>3. QED
      BY <3>1, <3>2
  <2>5. QED
    BY <2>4 DEF Holds
<1>3. QED
  BY <1>1, <1>2

\* A decode pass over a row of the batch, whatever it holds.
LEMMA NextRowType ==
  ASSUME NeverAudio, NEW row \in Seq(Seq(Tokens)), Len(row) # 0, NEW x \in Tokens, NEW at,
         NEW m \in Seq({0, 1}), Len(m) = Len(row) + 1
  PROVE  LET r == RowContexts(row, <<x>>, <<at>>, Sees(m, Len(row), 1)) IN
         /\ r \in Seq(Seq(Tokens)) /\ Len(r) = Len(row) + 1
         /\ Argmax(Last(r)) \in Tokens
<1> DEFINE sees == Sees(m, Len(row), 1)
           e == <<x>>
           a == <<at>>
           r == RowContexts(row, e, a, sees)
<1>1. Len(row) \in Nat \ {0}
  OBVIOUS
<1>2. sees[1] \subseteq 1 .. Len(row) + 1
  BY <1>1, SeesNext
<1>3. e \in Seq(Tokens) /\ Len(e) = 1
  OBVIOUS
<1> HIDE DEF sees, e, a
<1>4. \A j \in 1 .. Len(e) : sees[j] \subseteq 1 .. Len(row) + j
  <2>1. \A j \in 1 .. Len(e) : j = 1
    BY <1>3
  <2>2. QED
    BY <1>2, <2>1
<1>5. r \in Seq(Seq(Tokens)) /\ Len(r) = Len(row) + 1
  <2>1. r \in Seq(Seq(Tokens)) /\ Len(r) = Len(row) + Len(e)
    BY <1>3, <1>4, RowContextsKeep, ZenonT(60)
  <2>2. QED
    BY <1>3, <2>1
<1> HIDE DEF r
<1>6. Last(r) \in Seq(Tokens)
  <2>1. Len(r) \in 1 .. Len(r)
    BY <1>1, <1>5
  <2>2. QED
    BY <1>5, <2>1 DEF Last
<1>7. QED
  BY <1>5, <1>6, ArgmaxIs DEF r, e, a, sees

RowReady(row, c, x, n, w, s, at, m) ==
  /\ row \in Seq(Seq(Tokens)) /\ c \in Seq(Tokens) /\ x \in Tokens
  /\ n \in Nat \ {0} /\ w \in Nat /\ s \in Nat /\ n <= w
  /\ Len(c) = n + s /\ Gapped(row, c, n, w, s)
  /\ at = n + s
  /\ m \in Seq({0, 1}) /\ Len(m) = w + s + 1 /\ OnesIn(m) = Places(n, w, s + 1)

RowGoes(r, c, x, n, w, s) ==
  /\ r \in Seq(Seq(Tokens)) /\ Len(r) = w + (s + 1)
  /\ Gapped(r, Append(c, x), n, w, s + 1)
  /\ Argmax(Last(r)) = NextToken(Append(c, x))

\* One over a row that holds its tokens.
LEMMA NextRow ==
  ASSUME NeverAudio, NEW row, NEW c, NEW x, NEW n, NEW w, NEW s, NEW at, NEW m,
         RowReady(row, c, x, n, w, s, at, m)
  PROVE  RowGoes(RowContexts(row, <<x>>, <<at>>, Sees(m, Len(row), 1)), c, x, n, w, s)
<1> DEFINE sees == Sees(m, Len(row), 1)
           r == RowContexts(row, <<x>>, <<at>>, sees)
<1>1. /\ row \in Seq(Seq(Tokens)) /\ c \in Seq(Tokens) /\ x \in Tokens
      /\ n \in Nat \ {0} /\ w \in Nat /\ s \in Nat /\ n <= w
      /\ Len(c) = n + s /\ Gapped(row, c, n, w, s)
      /\ at = n + s
      /\ m \in Seq({0, 1}) /\ Len(m) = w + s + 1 /\ OnesIn(m) = Places(n, w, s + 1)
  BY Zenon DEF RowReady
<1>2. Len(row) = w + s /\ w + s \in Nat \ {0} /\ Len(m) = Len(row) + 1
  BY <1>1 DEF Gapped
<1>3. sees[1] = Places(n, w, s + 1)
  BY <1>1, <1>2, SeesNext
<1>4. r \in Seq(Seq(Tokens)) /\ Len(r) = Len(row) + 1
  BY <1>1, <1>2, NextRowType
<1> HIDE DEF sees
<1>5. NextReady(row, c, x, n, w, s, at, sees)
  BY <1>1, <1>3, Zenon DEF NextReady
<1>6. NextHolds(r, c, x, n, w, s)
  BY <1>5, NextContext, Zenon
<1> HIDE DEF r
<1>7. Append(c, x) \in Seq(Tokens) /\ Len(Append(c, x)) # 0
  BY <1>1
<1>8. Argmax(Append(c, x)) = NextToken(Append(c, x))
  BY <1>7, ArgmaxIs
<1>9. Len(r) = w + (s + 1)
  BY <1>1, <1>2, <1>4
<1>10. RowGoes(r, c, x, n, w, s)
  BY <1>4, <1>6, <1>8, <1>9, Zenon DEF NextHolds, RowGoes
<1>11. QED
  BY <1>10 DEF r, sees

--------------------------------------------------------------------------------
\* The loops of one row.

\* A call under way.
Calling ==
  /\ batch \in Batches /\ side = "right"
  /\ limit \in Nat /\ step \in Nat /\ step <= limit

\* A call that answered.
Answered ==
  /\ batch \in Batches /\ side = "right"
  /\ ~FlashOnPaddedRemainder => \A i \in 1 .. Len(batch) : out[i] = Answer(batch[i], limit)

\* What a row was computed from so far.
Context(i) == Embeds(batch[i]) \o out[i]

AloneInv ==
  /\ Len(batch) = 1 /\ Len(out[1]) = step
  /\ Speaks(batch[1], out[1], NextToken(Context(1)), FALSE, step)

CachedInv ==
  /\ Len(batch) = 1 /\ Len(out[1]) = step
  /\ Speaks(batch[1], out[1], next[1], finished[1], step)
  /\ kv[1] \in Seq(Seq(Tokens)) /\ Len(kv[1]) = Len(batch[1].ids) + step
  /\ Holds(kv[1], Context(1), Len(batch[1].ids) + step)

PagedInv ==
  /\ Len(batch) = 1 /\ Len(out[1]) = step
  /\ Speaks(batch[1], out[1], next[1], finished[1], step)
  /\ kv[1] \in Seq(Seq(Tokens)) /\ Len(kv[1]) = Len(batch[1].ids) + limit
  /\ Holds(kv[1], Context(1), Len(batch[1].ids) + step)

\* A row that has said s tokens.
LEMMA ContextOf ==
  ASSUME NEW b \in Batches, NEW i \in 1 .. Len(b), NEW o, NEW token, NEW ended, NEW st,
         Speaks(b[i], o, token, ended, st)
  PROVE  /\ Len(b[i].ids) \in Nat \ {0}
         /\ Embeds(b[i]) \in Seq(Tokens) /\ Len(Embeds(b[i])) = Len(b[i].ids)
         /\ o \in Seq(Tokens \ {AudioToken}) /\ o \in Seq(Tokens)
         /\ Embeds(b[i]) \o o \in Seq(Tokens)
         /\ Len(Embeds(b[i]) \o o) = Len(b[i].ids) + Len(o)
<1>1. Len(b[i].ids) \in Nat \ {0}
  BY BatchFacts
<1>2. Embeds(b[i]) \in Seq(Tokens) /\ Len(Embeds(b[i])) = Len(b[i].ids)
  BY EmbedsAre
<1>3. o \in Seq(Tokens \ {AudioToken})
  BY Zenon DEF Speaks
<1>4. o \in Seq(Tokens)
  BY <1>3
<1>5. QED
  BY <1>1, <1>2, <1>3, <1>4

\* Run alone, a row's token is the model's on its context.
LEMMA AloneTokenIs ==
  ASSUME NeverAudio, batch \in Batches, Len(batch) = 1,
         out[1] \in Seq(Tokens \ {AudioToken})
  PROVE  AloneToken = NextToken(Context(1))
<1> DEFINE ids == batch[1].ids \o out[1]
           c == Context(1)
           r == RowContexts(<<>>, c, RopeIndex(Ones(Len(c))), Sees(Ones(Len(c)), 0, Len(c)))
<1>1. 1 \in 1 .. Len(batch)
  OBVIOUS
<1>2. /\ batch[1].ids \in Seq(Tokens) /\ Len(batch[1].ids) \in Nat \ {0}
      /\ Embeds(batch[1]) \in Seq(Tokens) /\ Len(Embeds(batch[1])) = Len(batch[1].ids)
  BY <1>1, BatchFacts, EmbedsAre
<1>3. Merged(<<ids>>, batch[1].audio)[1] = c
  BY <1>1, EmbedsGrow DEF Context
<1>4. out[1] \in Seq(Tokens)
  OBVIOUS
<1>5. c \in Seq(Tokens) /\ Len(c) = Len(ids) /\ Len(c) # 0
  <2>1. c = Embeds(batch[1]) \o out[1]
    BY DEF Context
  <2> HIDE DEF c
  <2>2. Len(out[1]) \in Nat /\ Len(ids) = Len(batch[1].ids) + Len(out[1])
    BY <1>2, <1>4
  <2> HIDE DEF ids
  <2>3. c \in Seq(Tokens) /\ Len(c) = Len(Embeds(batch[1])) + Len(out[1])
    BY <1>2, <1>4, <2>1, Joined
  <2>4. \A p \in Nat \ {0}, q \in Nat : p + q # 0
    OBVIOUS
  <2>5. QED
    BY <1>2, <2>2, <2>3, <2>4
<1> HIDE DEF c, ids
<1>6. Argmax(Last(r)) = NextToken(c)
  BY <1>5, AloneFilled
<1>7. AloneToken = Argmax(Last(r))
  BY <1>3, <1>5, Zenon DEF AloneToken, ids
<1>8. QED
  BY <1>6, <1>7 DEF c

\* greedy_generate says the next token of the answer or ends with all of it.
LEMMA AloneGoes ==
  ASSUME NeverAudio, Calling, AloneInv, AloneStep
  PROVE  Calling' /\ ((pc' = "alone" /\ AloneInv') \/ (pc' = "idle" /\ Answered'))
<1> DEFINE o == out[1]
           token == NextToken(Context(1))
<1>1. /\ batch \in Batches /\ Len(batch) = 1 /\ 1 \in 1 .. Len(batch)
      /\ step \in Nat /\ limit \in Nat /\ step <= limit /\ side = "right"
      /\ Len(o) = step /\ Speaks(batch[1], o, token, FALSE, step)
  <2>1. Len(batch) = 1 /\ Len(o) = step /\ Speaks(batch[1], o, token, FALSE, step)
    BY Zenon DEF AloneInv
  <2>2. 1 \in 1 .. Len(batch)
    BY <2>1
  <2>3. QED
    BY <2>1, <2>2, Zenon DEF Calling
<1>2. Embeds(batch[1]) \in Seq(Tokens) /\ o \in Seq(Tokens \ {AudioToken})
  BY <1>1, ContextOf
<1>3. AloneToken = token
  BY <1>1, <1>2, AloneTokenIs
<1>4. UNCHANGED <<build, batch, side, limit, warm>>
  BY DEF AloneStep
<1>5. CASE step < limit /\ token \notin EosIds
  <2> DEFINE more == Append(o, token)
  <2>1. out' = <<more>> /\ step' = step + 1 /\ pc' = "alone"
    BY <1>3, <1>5 DEF AloneStep
  <2>2. token = NextToken(Embeds(batch[1]) \o o)
    BY DEF Context
  <2>3. /\ Speaks(batch[1], more, NextToken(Embeds(batch[1]) \o more), FALSE, step + 1)
        /\ Len(more) = step + 1
    <3>1. PICK ended : ended = FALSE
      OBVIOUS
    <3>2. Speaks(batch[1], o, token, ended, step)
      BY <1>1, <3>1
    <3>3. SaysMore(batch[1], o, token, step)
      BY <1>1, <1>2, <1>5, <3>1, <3>2, SpeaksMore, Zenon
    <3>4. QED
      BY <3>3 DEF SaysMore
  <2>4. out'[1] = more
    BY <2>1
  <2> HIDE DEF more
  <2>5. AloneInv'
    BY <1>1, <1>4, <2>1, <2>3, <2>4 DEF AloneInv, Context
  <2>6. Calling'
    <3>1. step + 1 \in Nat /\ step + 1 <= limit
      BY <1>1, <1>5
    <3>2. QED
      BY <3>1, <1>1, <1>4, <2>1 DEF Calling
  <2>7. QED
    BY <2>1, <2>5, <2>6
<1>6. CASE ~(step < limit /\ token \notin EosIds)
  <2>1. pc' = "idle" /\ UNCHANGED <<out, step>>
    BY <1>3, <1>6 DEF AloneStep, Return
  <2>2. step = limit \/ token \in EosIds
    BY <1>1, <1>6
  <2>3. o = Answer(batch[1], limit)
    <3>1. PICK ended : ended = FALSE
      OBVIOUS
    <3>2. Speaks(batch[1], o, token, ended, step)
      BY <1>1, <3>1
    <3>3. QED
      <4>1. NothingLeft(token, ended, step, limit)
        BY <1>1, <2>2 DEF NothingLeft
      <4>2. QED
        BY <3>2, <4>1, SpeaksAnswer, Zenon
  <2>4. \A i \in 1 .. Len(batch) : i = 1
    BY <1>1
  <2>5. \A i \in 1 .. Len(batch) : out[i] = Answer(batch[i], limit)
    BY <2>3, <2>4
  <2>6. QED
    BY <1>1, <1>4, <2>1, <2>5 DEF Answered, Calling
<1>7. QED
  BY <1>5, <1>6

\* When a loop of one row returns, it has said its answer.
LEMMA OneAnswered ==
  ASSUME Calling, Len(batch) = 1, Speaks(batch[1], out[1], next[1], finished[1], step),
         ~(step < limit /\ ~Ends(1)), UNCHANGED <<build, batch, side, limit, warm, out, step>>
  PROVE  Answered' /\ Calling'
<1>1. step = limit \/ finished[1] = TRUE \/ next[1] \in EosIds
  <2>1. finished[1] \in BOOLEAN
    BY Zenon DEF Speaks
  <2>2. step = limit \/ finished[1] \/ next[1] \in EosIds
    BY DEF Calling, Ends
  <2>3. QED
    BY <2>1, <2>2
<1>2. step \in Nat /\ limit \in Nat /\ step <= limit
  BY DEF Calling
<1>3. out[1] = Answer(batch[1], limit)
  <2>1. NothingLeft(next[1], finished[1], step, limit)
    BY <1>1, <1>2, Zenon DEF NothingLeft
  <2>2. QED
    BY <2>1, SpeaksAnswer, Zenon
<1>4. \A i \in 1 .. Len(batch) : i = 1
  OBVIOUS
<1>5. \A i \in 1 .. Len(batch) : out[i] = Answer(batch[i], limit)
  BY <1>3, <1>4
<1>6. QED
  BY <1>5 DEF Answered, Calling

\* The masks of a row without padding.
LEMMA OnesPlaces ==
  ASSUME NEW n \in Nat, NEW s \in Nat
  PROVE  /\ Ones(n + s + 1) \in Seq({0, 1}) /\ Len(Ones(n + s + 1)) = n + s + 1
         /\ OnesIn(Ones(n + s + 1)) = Places(n, n, s + 1)
<1>1. Ones(n + s + 1) = [j \in 1 .. n + s + 1 |-> 1]
  BY DEF Ones
<1>2. n + s + 1 \in Nat
  OBVIOUS
<1>3. Ones(n + s + 1) \in Seq({0, 1}) /\ Len(Ones(n + s + 1)) = n + s + 1
  BY <1>1, <1>2
<1>4. OnesIn(Ones(n + s + 1)) = 1 .. n + s + 1
  BY <1>1 DEF OnesIn
<1>5. Places(n, n, s + 1) = 1 .. n + s + 1
  BY DEF Places
<1>6. QED
  BY <1>3, <1>4, <1>5

\* greedy_generate_cached does.
LEMMA CachedGoes ==
  ASSUME NeverAudio, Calling, CachedInv, CachedStep
  PROVE  Calling' /\ ((pc' = "cached" /\ CachedInv') \/ (pc' = "idle" /\ Answered'))
<1> DEFINE o == out[1]
           n == Len(batch[1].ids)
           c == Context(1)
           row == kv[1]
           x == next[1]
<1>1. /\ batch \in Batches /\ Len(batch) = 1 /\ 1 \in 1 .. Len(batch)
      /\ step \in Nat /\ limit \in Nat /\ step <= limit /\ side = "right"
      /\ Len(o) = step /\ Speaks(batch[1], o, x, finished[1], step)
      /\ row \in Seq(Seq(Tokens)) /\ Len(row) = n + step /\ Holds(row, c, n + step)
  BY DEF Calling, CachedInv
<1>2. /\ n \in Nat \ {0} /\ Embeds(batch[1]) \in Seq(Tokens)
      /\ o \in Seq(Tokens \ {AudioToken}) /\ c \in Seq(Tokens) /\ Len(c) = n + step
  BY <1>1, ContextOf DEF Context
<1>3. UNCHANGED <<build, batch, side, limit, warm, finished>>
  BY DEF CachedStep
<1>4. CASE step < limit /\ ~Ends(1)
  <2> DEFINE more == Append(o, x)
             m == Ones(Len(row) + 1)
             r == RowContexts(row, <<x>>, <<n + step>>, Sees(m, Len(row), 1))
  <2>1. /\ out' = <<Taken(1)>> /\ kv' = <<Grown(1)>> /\ next' = <<Argmax(Last(Grown(1)))>>
        /\ step' = step + 1 /\ pc' = "cached"
    BY <1>4 DEF CachedStep
  <2>2. ~finished[1] /\ x \notin EosIds /\ Taken(1) = more /\ Fed(1) = x
    BY <1>4 DEF Ends, Taken, Fed
  <2>3. Grown(1) = r
    BY <2>2, Zenon DEF Grown, StepPosition
  <2>4. /\ x \in Tokens \ {AudioToken}
        /\ Embeds(batch[1]) \o more = Append(c, x)
        /\ Speaks(batch[1], more, NextToken(Embeds(batch[1]) \o more), FALSE, step + 1)
        /\ Len(more) = step + 1
    <3>1. finished[1] = FALSE
      BY <1>1, <2>2, Zenon DEF Speaks
    <3>2. SaysMore(batch[1], o, x, step)
      BY <1>1, <1>2, <2>2, <3>1, SpeaksMore, Zenon
    <3>3. QED
      BY <3>2 DEF SaysMore, Context
  <2>5. m \in Seq({0, 1}) /\ Len(m) = n + step + 1 /\ OnesIn(m) = Places(n, n, step + 1)
    <3>1. n \in Nat /\ step \in Nat /\ Len(row) = n + step
      BY <1>1, <1>2
    <3> HIDE DEF n, row
    <3>2. QED
      BY <3>1, OnesPlaces
  <2>6. Gapped(row, c, n, n, step)
    BY <1>1, <1>2, HoldsIsGapped
  <2>7. x \in Tokens /\ n \in Nat /\ n <= n
    BY <1>2, <2>4
  <2> HIDE DEF m, r, more, c, n, o, x, row
  <2>8. PICK at : at = n + step
    OBVIOUS
  <2>9. RowReady(row, c, x, n, n, step, at, m)
    BY <1>1, <1>2, <2>5, <2>6, <2>7, <2>8, Zenon DEF RowReady
  <2>10. RowGoes(r, c, x, n, n, step)
    <3>1. RowGoes(RowContexts(row, <<x>>, <<at>>, Sees(m, Len(row), 1)), c, x, n, n, step)
      BY <2>9, NextRow, Zenon
    <3>2. QED
      BY <3>1, <2>8, Zenon DEF r
  <2>11. /\ r \in Seq(Seq(Tokens)) /\ Len(r) = n + (step + 1) /\ step + 1 \in Nat
         /\ Gapped(r, Append(c, x), n, n, step + 1)
         /\ Argmax(Last(r)) = NextToken(Append(c, x))
    BY <1>1, <2>10 DEF RowGoes
  <2>12. Holds(r, Append(c, x), n + (step + 1))
    BY <2>7, <2>11, HoldsIsGapped
  <2>13. /\ out'[1] = more /\ kv'[1] = r /\ next'[1] = NextToken(Append(c, x))
         /\ finished'[1] = FALSE
    <3>1. finished[1] = FALSE
      BY <1>1, <2>2, Zenon DEF Speaks
    <3>2. QED
      BY <3>1, <1>3, <2>1, <2>2, <2>3, <2>11
  <2>14. Context(1)' = Append(c, x)
    BY <1>3, <2>4, <2>13 DEF Context
  <2>15. n' = n /\ Len(batch') = 1
    BY <1>1, <1>3 DEF n
  <2>16. Speaks(batch'[1], out'[1], next'[1], finished'[1], step')
    BY <1>3, <2>1, <2>4, <2>13, Zenon
  <2>17. CachedInv'
    BY <2>1, <2>4, <2>11, <2>12, <2>13, <2>14, <2>15, <2>16 DEF CachedInv, n
  <2>18. Calling'
    <3>1. step + 1 \in Nat /\ step + 1 <= limit
      BY <1>1, <1>4
    <3>2. QED
      BY <3>1, <1>1, <1>3, <2>1 DEF Calling
  <2>19. QED
    BY <2>1, <2>17, <2>18
<1>5. CASE ~(step < limit /\ ~Ends(1))
  <2>1. pc' = "idle" /\ UNCHANGED <<out, step>>
    BY <1>5 DEF CachedStep, Return
  <2>2. QED
    BY <1>1, <1>3, <1>5, <2>1, OneAnswered
<1>6. QED
  BY <1>4, <1>5

\* greedy_generate_paged does too.
LEMMA PagedGoes ==
  ASSUME NeverAudio, Calling, PagedInv, PagedStep
  PROVE  Calling' /\ ((pc' = "paged" /\ PagedInv') \/ (pc' = "idle" /\ Answered'))
<1> DEFINE o == out[1]
           n == Len(batch[1].ids)
           c == Context(1)
           row == kv[1]
           x == next[1]
<1>1. /\ batch \in Batches /\ Len(batch) = 1 /\ 1 \in 1 .. Len(batch)
      /\ step \in Nat /\ limit \in Nat /\ step <= limit /\ side = "right"
      /\ Len(o) = step /\ Speaks(batch[1], o, x, finished[1], step)
      /\ row \in Seq(Seq(Tokens)) /\ Len(row) = n + limit /\ Holds(row, c, n + step)
  BY DEF Calling, PagedInv
<1>2. /\ n \in Nat \ {0} /\ Embeds(batch[1]) \in Seq(Tokens)
      /\ o \in Seq(Tokens \ {AudioToken}) /\ c \in Seq(Tokens) /\ Len(c) = n + step
  BY <1>1, ContextOf DEF Context
<1>3. UNCHANGED <<build, batch, side, limit, warm, finished>>
  BY DEF PagedStep
<1>4. CASE step < limit /\ ~Ends(1)
  <2> DEFINE more == Append(o, x)
             held == SubSeq(row, 1, n + step)
             sees == <<1 .. n + step + 1>>
             r == RowContexts(held, <<x>>, <<n + step>>, sees)
             d == Append(c, x)
             new == [row EXCEPT ![n + step + 1] = Last(r)]
  <2>1. ~finished[1] /\ x \notin EosIds /\ Taken(1) = more /\ Fed(1) = x
    BY <1>4 DEF Ends, Taken, Fed
  <2>2. /\ out' = <<more>> /\ kv' = <<new>> /\ next' = <<Argmax(Last(r))>>
        /\ step' = step + 1 /\ pc' = "paged"
    BY <1>4, <2>1 DEF PagedStep, StepSlot, StepPosition
  <2>3. finished[1] = FALSE
    BY <1>1, <2>1, Zenon DEF Speaks
  <2>4. /\ x \in Tokens \ {AudioToken}
        /\ Embeds(batch[1]) \o more = d
        /\ Speaks(batch[1], more, NextToken(Embeds(batch[1]) \o more), FALSE, step + 1)
        /\ Len(more) = step + 1
    <3>1. SaysMore(batch[1], o, x, step)
      BY <1>1, <1>2, <2>1, <2>3, SpeaksMore, Zenon
    <3>2. QED
      BY <3>1 DEF SaysMore, Context
  <2> HIDE DEF n, row, c, o, x
  <2>5. n + step \in 0 .. Len(row) /\ n + step + 1 \in 1 .. Len(row)
        /\ n + step + 1 = n + (step + 1)
    BY <1>1, <1>2, <1>4
  <2>6. /\ held \in Seq(Seq(Tokens)) /\ Len(held) = n + step
        /\ \A k \in 1 .. n + step : held[k] = row[k]
    BY <1>1, <2>5, PrefixFacts
  <2> HIDE DEF held
  <2>7. Gapped(held, c, n, n, step)
    <3>1. Holds(held, c, n + step)
      BY <1>1, <2>6 DEF Holds
    <3>2. QED
      BY <1>1, <1>2, <2>6, <3>1, HoldsIsGapped
  <2>8. sees[1] = Places(n, n, step + 1)
    <3>1. sees[1] = 1 .. n + step + 1
      OBVIOUS
    <3>2. QED
      BY <1>1, <1>2, <3>1 DEF Places
  <2> HIDE DEF sees
  <2>9. PICK at : at = n + step
    OBVIOUS
  <2>10. NextReady(held, c, x, n, n, step, at, sees)
    <3>1. x \in Tokens /\ n \in Nat /\ n <= n
      BY <1>2, <2>4
    <3>2. QED
      BY <1>1, <1>2, <2>6, <2>7, <2>8, <2>9, <3>1, Zenon DEF NextReady
  <2>11. NextHolds(r, c, x, n, n, step)
    <3>1. NextHolds(RowContexts(held, <<x>>, <<at>>, sees), c, x, n, n, step)
      BY <2>10, NextContext, Zenon
    <3>2. QED
      BY <2>9, <3>1, Zenon
  <2> HIDE DEF r
  <2>12. Last(r) = d /\ d \in Seq(Tokens) /\ Len(d) = n + step + 1
         /\ \A k \in 1 .. n + step : SubSeq(d, 1, k) = SubSeq(c, 1, k)
    <3>1. Last(r) = d
      BY <2>11, Zenon DEF NextHolds
    <3>2. d \in Seq(Tokens) /\ Len(d) = n + step + 1 /\ \A k \in 1 .. n + step : d[k] = c[k]
      BY <1>2, <2>4
    <3> HIDE DEF d
    <3>3. ASSUME NEW k \in 1 .. n + step PROVE SubSeq(d, 1, k) = SubSeq(c, 1, k)
      <4>1. k \in 0 .. Len(d) /\ k \in 0 .. Len(c)
        BY <1>1, <1>2, <3>2
      <4>2. /\ SubSeq(d, 1, k) \in Seq(Tokens) /\ Len(SubSeq(d, 1, k)) = k
            /\ SubSeq(c, 1, k) \in Seq(Tokens) /\ Len(SubSeq(c, 1, k)) = k
            /\ \A i \in 1 .. k : SubSeq(d, 1, k)[i] = d[i] /\ SubSeq(c, 1, k)[i] = c[i]
        BY <1>2, <3>2, <4>1, PrefixFacts
      <4>3. \A i \in 1 .. k : SubSeq(d, 1, k)[i] = SubSeq(c, 1, k)[i]
        BY <1>1, <1>2, <3>2, <4>2
      <4>4. QED
        BY <4>2, <4>3
    <3>4. QED
      BY <3>1, <3>2, <3>3
  <2>13. new \in Seq(Seq(Tokens)) /\ Len(new) = n + limit
         /\ new[n + step + 1] = d
         /\ \A k \in 1 .. n + step : new[k] = row[k]
    BY <1>1, <1>2, <2>5, <2>12
  <2>14. Holds(new, d, n + (step + 1))
    <3>1. ASSUME NEW k \in 1 .. n + (step + 1) PROVE new[k] = SubSeq(d, 1, k)
      <4>1. CASE k = n + step + 1
        <5>1. SubSeq(d, 1, n + step + 1) = d
          BY <2>12, PrefixFacts
        <5>2. QED
          BY <2>13, <4>1, <5>1
      <4>2. CASE k # n + step + 1
        <5>1. k \in 1 .. n + step
          BY <1>1, <1>2, <4>2
        <5>2. row[k] = SubSeq(c, 1, k)
          BY <1>1, <5>1 DEF Holds
        <5>3. QED
          BY <2>12, <2>13, <5>1, <5>2
      <4>3. QED
        BY <4>1, <4>2
    <3>2. QED
      BY <3>1 DEF Holds
  <2>15. Argmax(Last(r)) = NextToken(d)
    <3>1. Len(d) # 0
      BY <1>1, <1>2, <2>12
    <3>2. QED
      BY <2>12, <3>1, ArgmaxIs
  <2> HIDE DEF new, d, more
  <2>16. /\ out'[1] = more /\ kv'[1] = new /\ next'[1] = NextToken(d)
         /\ finished'[1] = FALSE
    BY <1>3, <2>2, <2>3, <2>15
  <2>17. Context(1)' = d
    BY <1>3, <2>4, <2>16 DEF Context
  <2>18. n' = n /\ Len(batch') = 1
    BY <1>1, <1>3 DEF n
  <2>19. Speaks(batch'[1], out'[1], next'[1], finished'[1], step')
    BY <1>3, <2>2, <2>4, <2>16, Zenon
  <2>20. PagedInv'
    BY <1>3, <2>2, <2>4, <2>13, <2>14, <2>16, <2>17, <2>18, <2>19 DEF PagedInv, n
  <2>21. Calling'
    <3>1. step + 1 \in Nat /\ step + 1 <= limit
      BY <1>1, <1>4
    <3>2. QED
      BY <3>1, <1>1, <1>3, <2>2 DEF Calling
  <2>22. QED
    BY <2>2, <2>20, <2>21
<1>5. CASE ~(step < limit /\ ~Ends(1))
  <2>1. pc' = "idle" /\ UNCHANGED <<out, step>>
    BY <1>5 DEF PagedStep, Return
  <2>2. QED
    BY <1>1, <1>3, <1>5, <2>1, OneAnswered
<1>6. QED
  BY <1>4, <1>5

\* A row that said nothing yet.
LEMMA SpeaksNothing ==
  ASSUME NEW prompt, Embeds(prompt) \in Seq(Tokens)
  PROVE  /\ Embeds(prompt) \o <<>> = Embeds(prompt)
         /\ Speaks(prompt, <<>>, NextToken(Embeds(prompt)), FALSE, 0)
<1>1. Embeds(prompt) \o <<>> = Embeds(prompt)
  OBVIOUS
<1>2. Said(prompt, <<>>)
  BY DEF Said
<1>3. <<>> \in Seq(Tokens \ {AudioToken}) /\ Len(<<>>) = 0
  OBVIOUS
<1>4. QED
  BY <1>1, <1>2, <1>3 DEF Speaks

\* Every entry starts a call.
LEMMA CallStarts ==
  ASSUME NEW b \in Batches, NEW max \in Limits, Call(b, "right", max)
  PROVE  /\ Calling' /\ batch' = b /\ side' = "right" /\ limit' = max /\ step' = 0
         /\ UNCHANGED build
         /\ max \in Nat
         /\ DOMAIN b = 1 .. Len(b)
         /\ \A i \in 1 .. Len(b) : out'[i] = <<>>
<1>1. max \in Nat
  BY DecodeAssumption
<1>2. DOMAIN b = 1 .. Len(b)
  BY BatchFacts
<1>3. QED
  BY <1>1, <1>2 DEF Call, Calling

\* greedy_generate starts with nothing said.
LEMMA StartsAlone ==
  ASSUME NEW b \in Batches, NEW max \in Limits, StartAlone(b, max)
  PROVE  Calling' /\ pc' = "alone" /\ AloneInv'
<1>1. Call(b, "right", max) /\ Len(b) = 1 /\ pc' = "alone"
  BY DEF StartAlone, Enter
<1>2. /\ Calling' /\ batch' = b /\ step' = 0 /\ 1 \in 1 .. Len(b)
      /\ \A i \in 1 .. Len(b) : out'[i] = <<>>
  BY <1>1, CallStarts
<1>3. Embeds(b[1]) \in Seq(Tokens)
  BY <1>2, EmbedsAre
<1>4. /\ Embeds(b[1]) \o <<>> = Embeds(b[1])
      /\ Speaks(b[1], <<>>, NextToken(Embeds(b[1])), FALSE, 0)
  BY <1>3, SpeaksNothing
<1>5. out'[1] = <<>> /\ Len(out'[1]) = 0
  BY <1>2
<1>6. Context(1)' = Embeds(b[1])
  BY <1>2, <1>4, <1>5 DEF Context
<1>7. Speaks(batch'[1], out'[1], NextToken(Context(1)'), FALSE, step')
  BY <1>2, <1>4, <1>5, <1>6, Zenon
<1>8. QED
  BY <1>1, <1>2, <1>5, <1>7 DEF AloneInv

\* The contexts of a prompt without padding.
Full(prompt) ==
  RowContexts(<<>>, Merged(<<prompt.ids>>, prompt.audio)[1],
              RopeIndex(Ones(Len(prompt.ids))),
              Sees(Ones(Len(prompt.ids)), 0, Len(prompt.ids)))

\* A prompt run without padding leaves its contexts and its first token.
LEMMA FullHolds ==
  ASSUME NeverAudio, NEW b \in Batches, NEW i \in 1 .. Len(b)
  PROVE  /\ Full(b[i]) \in Seq(Seq(Tokens)) /\ Len(Full(b[i])) = Len(b[i].ids)
         /\ Holds(Full(b[i]), Embeds(b[i]), Len(b[i].ids))
         /\ Argmax(Last(Full(b[i]))) = NextToken(Embeds(b[i]))
<1> DEFINE c == Embeds(b[i])
<1>1. c \in Seq(Tokens) /\ Len(c) = Len(b[i].ids) /\ Len(b[i].ids) \in Nat \ {0}
  BY EmbedsAre, BatchFacts
<1>2. Merged(<<b[i].ids>>, b[i].audio)[1] = c
  BY DEF Embeds
<1> HIDE DEF c
<1>3. Full(b[i]) = RowContexts(<<>>, c, RopeIndex(Ones(Len(c))), Sees(Ones(Len(c)), 0, Len(c)))
  BY <1>1, <1>2, Zenon DEF Full
<1>4. Len(c) # 0
  BY <1>1
<1>5. LET r == RowContexts(<<>>, c, RopeIndex(Ones(Len(c))), Sees(Ones(Len(c)), 0, Len(c))) IN
      /\ r \in Seq(Seq(Tokens)) /\ Len(r) = Len(c) /\ Holds(r, c, Len(c))
      /\ Argmax(Last(r)) = NextToken(c)
  BY <1>1, <1>4, AloneFilled, Zenon
<1>6. QED
  BY <1>1, <1>3, <1>5, Zenon DEF c

\* greedy_generate_cached starts with the contexts of its prompt.
LEMMA StartsCached ==
  ASSUME NeverAudio, NEW b \in Batches, NEW max \in Limits, StartCached(b, max)
  PROVE  Calling' /\ pc' = "cached" /\ CachedInv'
<1> DEFINE full == Full(b[1])
           n == Len(b[1].ids)
<1>1. /\ Call(b, "right", max) /\ Len(b) = 1 /\ pc' = "cached"
      /\ kv' = <<full>> /\ Begin(<<Argmax(Last(full))>>)
  BY DEF StartCached, Enter, Full
<1>2. /\ Calling' /\ batch' = b /\ step' = 0 /\ 1 \in 1 .. Len(b)
      /\ \A i \in 1 .. Len(b) : out'[i] = <<>>
  BY <1>1, CallStarts
<1>3. Embeds(b[1]) \in Seq(Tokens) /\ n \in Nat
  BY <1>2, EmbedsAre, BatchFacts
<1>4. /\ full \in Seq(Seq(Tokens)) /\ Len(full) = n
      /\ Holds(full, Embeds(b[1]), n)
      /\ Argmax(Last(full)) = NextToken(Embeds(b[1]))
  BY <1>2, FullHolds
<1> HIDE DEF full
<1> DEFINE token == NextToken(Embeds(b[1]))
<1>5. Speaks(b[1], <<>>, token, token \in EosIds, 0)
  BY <1>3, SpeaksFirst
<1>6. next'[1] = token /\ finished'[1] = (token \in EosIds)
  BY <1>1, <1>4 DEF Begin
<1>7. Embeds(b[1]) \o <<>> = Embeds(b[1])
  BY <1>3, SpeaksNothing
<1>8. out'[1] = <<>> /\ Len(out'[1]) = 0 /\ kv'[1] = full
  BY <1>1, <1>2
<1>9. Context(1)' = Embeds(b[1])
  BY <1>2, <1>7, <1>8 DEF Context
<1>10. Speaks(batch'[1], out'[1], next'[1], finished'[1], step')
  BY <1>2, <1>5, <1>6, <1>8, Zenon
<1>11. n + 0 = n /\ Len(batch'[1].ids) = n
  BY <1>2, <1>3
<1>12. QED
  BY <1>1, <1>2, <1>4, <1>8, <1>9, <1>10, <1>11 DEF CachedInv

\* greedy_generate_paged does too, with room for its answer.
LEMMA StartsPaged ==
  ASSUME NeverAudio, NEW b \in Batches, NEW max \in Limits, StartPaged(b, max)
  PROVE  Calling' /\ pc' = "paged" /\ PagedInv'
<1> DEFINE full == Full(b[1])
           n == Len(b[1].ids)
           row == full \o Fill(max, Wrong)
<1>1. /\ Call(b, "right", max) /\ Len(b) = 1 /\ pc' = "paged"
      /\ kv' = <<row>> /\ Begin(<<Argmax(Last(full))>>)
  BY DEF StartPaged, Enter, Full
<1>2. /\ Calling' /\ batch' = b /\ step' = 0 /\ 1 \in 1 .. Len(b) /\ max \in Nat /\ limit' = max
      /\ \A i \in 1 .. Len(b) : out'[i] = <<>>
  <2>1. 1 \in 1 .. Len(b)
    BY <1>1
  <2>2. QED
    BY <1>1, <2>1, CallStarts, Zenon
<1>3. Embeds(b[1]) \in Seq(Tokens) /\ n \in Nat
  BY <1>2, EmbedsAre, BatchFacts
<1>4. /\ full \in Seq(Seq(Tokens)) /\ Len(full) = n
      /\ Holds(full, Embeds(b[1]), n)
      /\ Argmax(Last(full)) = NextToken(Embeds(b[1]))
  BY <1>2, FullHolds
<1> HIDE DEF full
<1> DEFINE token == NextToken(Embeds(b[1]))
<1>5. Speaks(b[1], <<>>, token, token \in EosIds, 0)
  BY <1>3, SpeaksFirst
<1>6. next'[1] = token /\ finished'[1] = (token \in EosIds)
  BY <1>1, <1>4 DEF Begin
<1>7. Embeds(b[1]) \o <<>> = Embeds(b[1])
  BY <1>3, SpeaksNothing
<1>8. row \in Seq(Seq(Tokens)) /\ Len(row) = n + max /\ Holds(row, Embeds(b[1]), n)
  <2> DEFINE tail == Fill(max, Wrong)
  <2>1. tail \in Seq(Seq(Tokens)) /\ Len(tail) = max
    <3>1. <<>> \in Seq(Tokens)
      OBVIOUS
    <3>2. QED
      BY <1>2, <3>1 DEF Fill, Wrong
  <2> HIDE DEF tail
  <2>2. /\ full \o tail \in Seq(Seq(Tokens)) /\ Len(full \o tail) = n + max
        /\ \A k \in 1 .. n : (full \o tail)[k] = full[k]
    <3>1. /\ full \o tail \in Seq(Seq(Tokens)) /\ Len(full \o tail) = Len(full) + Len(tail)
          /\ \A k \in 1 .. Len(full) : (full \o tail)[k] = full[k]
      BY <1>4, <2>1, Joined, Zenon
    <3>2. QED
      BY <1>4, <2>1, <3>1
  <2>3. QED
    BY <1>4, <2>2 DEF Holds, tail
<1> HIDE DEF row
<1>9. out'[1] = <<>> /\ Len(out'[1]) = 0 /\ kv'[1] = row
  BY <1>1, <1>2
<1>10. Context(1)' = Embeds(b[1])
  BY <1>2, <1>7, <1>9 DEF Context
<1>11. Speaks(batch'[1], out'[1], next'[1], finished'[1], step')
  BY <1>2, <1>5, <1>6, <1>9, Zenon
<1>12. n + 0 = n /\ Len(batch'[1].ids) = n
  BY <1>2, <1>3
<1>13. QED
  BY <1>1, <1>2, <1>8, <1>9, <1>10, <1>11, <1>12 DEF PagedInv

--------------------------------------------------------------------------------
\* The loop of a batch.

Columns == Width(batch)
Length(i) == Len(batch[i].ids)

\* A row's part of the cache and of the mask.
RowShape(i) ==
  /\ kv[i] \in Seq(Seq(Tokens)) /\ Len(kv[i]) = Columns + step
  /\ next[i] \in Tokens
  /\ dense = TRUE => Length(i) = Columns
  /\ dense = FALSE => /\ mask[i] \in Seq({0, 1}) /\ Len(mask[i]) = Columns + step
                      /\ OnesIn(mask[i]) = Places(Length(i), Columns, step)

\* A row that is answered as if alone.
RowRight(i) ==
  /\ Speaks(batch[i], out[i], next[i], finished[i], step)
  /\ finished[i] = FALSE => Gapped(kv[i], Context(i), Length(i), Columns, step)

BatchInv ==
  /\ dense \in BOOLEAN
  /\ \A i \in 1 .. Len(batch) : RowShape(i)
  /\ ~FlashOnPaddedRemainder => \A i \in 1 .. Len(batch) : RowRight(i)

\* A column of ones.
LEMMA ColumnOfOnes ==
  ASSUME NEW n \in Nat, NEW w \in Nat, NEW s \in Nat, n <= w,
         NEW m \in Seq({0, 1}), Len(m) = w + s, OnesIn(m) = Places(n, w, s)
  PROVE  /\ Append(m, 1) \in Seq({0, 1}) /\ Len(Append(m, 1)) = w + s + 1
         /\ OnesIn(Append(m, 1)) = Places(n, w, s + 1)
<1> DEFINE q == Append(m, 1)
<1>1. /\ q \in Seq({0, 1}) /\ Len(q) = w + s + 1 /\ DOMAIN q = 1 .. w + s + 1
      /\ DOMAIN m = 1 .. w + s
      /\ \A k \in 1 .. w + s : q[k] = m[k]
      /\ q[w + s + 1] = 1
  OBVIOUS
<1> HIDE DEF q
<1>2. \A k : k \in OnesIn(q) <=> k \in OnesIn(m) \/ k = w + s + 1
  <2>1. ASSUME NEW k PROVE k \in OnesIn(q) <=> k \in OnesIn(m) \/ k = w + s + 1
    <3>1. k \in 1 .. w + s + 1 <=> k \in 1 .. w + s \/ k = w + s + 1
      OBVIOUS
    <3>2. CASE k = w + s + 1
      BY <1>1, <3>1, <3>2 DEF OnesIn
    <3>3. CASE k # w + s + 1
      BY <1>1, <3>1, <3>3 DEF OnesIn
    <3>4. QED
      BY <3>2, <3>3
  <2>2. QED
    BY <2>1
<1>3. \A k : k \in Places(n, w, s + 1) <=> k \in Places(n, w, s) \/ k = w + s + 1
  BY DEF Places
<1>4. OnesIn(q) = Places(n, w, s + 1)
  BY <1>2, <1>3
<1>5. QED
  BY <1>1, <1>4 DEF q

\* The mask a pass brings.
Brought(i) == IF dense THEN Ones(Len(kv[i]) + 1) ELSE MaskAfter(i)

\* The mask of a pass uncovers the tokens of the row, the new one included.
LEMMA BroughtIs ==
  ASSUME Calling, BatchInv, NEW i \in 1 .. Len(batch)
  PROVE  /\ Length(i) \in Nat \ {0} /\ Columns \in Nat /\ Length(i) <= Columns
         /\ Brought(i) \in Seq({0, 1}) /\ Len(Brought(i)) = Columns + step + 1
         /\ OnesIn(Brought(i)) = Places(Length(i), Columns, step + 1)
<1> DEFINE n == Length(i)
           w == Columns
<1>1. n \in Nat \ {0} /\ w \in Nat /\ n <= w /\ step \in Nat
  BY BatchFacts, WidthIs DEF Calling, Length, Columns
<1>2. /\ Len(kv[i]) = w + step
      /\ dense = TRUE => n = w
      /\ dense = FALSE => /\ mask[i] \in Seq({0, 1}) /\ Len(mask[i]) = w + step
                          /\ OnesIn(mask[i]) = Places(n, w, step)
  BY DEF BatchInv, RowShape
<1> HIDE DEF n, w
<1>3. CASE dense = TRUE
  <2>1. Brought(i) = Ones(w + step + 1)
    BY <1>2, <1>3 DEF Brought
  <2>2. n = w
    BY <1>2, <1>3
  <2>3. QED
    BY <1>1, <2>1, <2>2, OnesPlaces DEF n, w
<1>4. CASE dense = FALSE
  <2>1. Brought(i) = Append(mask[i], 1)
    BY <1>4 DEF Brought, MaskAfter
  <2>2. /\ mask[i] \in Seq({0, 1}) /\ Len(mask[i]) = w + step
        /\ OnesIn(mask[i]) = Places(n, w, step)
    BY <1>2, <1>4
  <2>3. n \in Nat
    BY <1>1
  <2>4. /\ Append(mask[i], 1) \in Seq({0, 1}) /\ Len(Append(mask[i], 1)) = w + step + 1
        /\ OnesIn(Append(mask[i], 1)) = Places(n, w, step + 1)
    BY <1>1, <2>2, <2>3, ColumnOfOnes
  <2>5. QED
    BY <1>1, <2>1, <2>4 DEF n, w
<1>5. QED
  BY <1>3, <1>4 DEF BatchInv

\* What a pass leaves a row.
Passed(i) == RowContexts(kv[i], <<Fed(i)>>, <<StepPosition(i)>>, Sees(Brought(i), Len(kv[i]), 1))

\* A pass adds a column to every row.
LEMMA PassTypes ==
  ASSUME NeverAudio, Calling, BatchInv, NEW i \in 1 .. Len(batch)
  PROVE  /\ Passed(i) \in Seq(Seq(Tokens)) /\ Len(Passed(i)) = Columns + (step + 1)
         /\ Argmax(Last(Passed(i))) \in Tokens
<1> DEFINE row == kv[i]
           x == Fed(i)
           m == Brought(i)
<1>1. /\ row \in Seq(Seq(Tokens)) /\ Len(row) = Columns + step
  BY DEF BatchInv, RowShape
<1>2. x \in Tokens
  <2>1. next[i] \in Tokens
    BY DEF BatchInv, RowShape
  <2>2. QED
    BY <2>1, DecodeAssumption DEF Fed
<1>3. /\ Length(i) \in Nat \ {0} /\ Columns \in Nat /\ Length(i) <= Columns
      /\ m \in Seq({0, 1}) /\ Len(m) = Columns + step + 1
  BY BroughtIs
<1>4. step \in Nat
  BY DEF Calling
<1> HIDE DEF row, x, m
<1>5. PICK at : at = StepPosition(i)
  OBVIOUS
<1>6. Len(row) # 0 /\ Len(m) = Len(row) + 1
  BY <1>1, <1>3, <1>4
<1> DEFINE r == RowContexts(row, <<x>>, <<at>>, Sees(m, Len(row), 1))
<1>7. r \in Seq(Seq(Tokens)) /\ Len(r) = Len(row) + 1 /\ Argmax(Last(r)) \in Tokens
  BY <1>1, <1>2, <1>3, <1>6, NextRowType
<1> HIDE DEF r
<1>8. Len(r) = Columns + (step + 1)
  BY <1>1, <1>3, <1>4, <1>7
<1>9. r = Passed(i)
  BY <1>5 DEF r, row, x, m, Passed
<1>10. QED
  BY <1>7, <1>8, <1>9

\* A pass leaves a row that goes on the context of its token, and its next token.
LEMMA PassHolds ==
  ASSUME NeverAudio, Calling, BatchInv, NEW i \in 1 .. Len(batch), RowRight(i), ~Ends(i)
  PROVE  LET d == Embeds(batch[i]) \o Append(out[i], next[i]) IN
         /\ Taken(i) = Append(out[i], next[i])
         /\ Gapped(Passed(i), d, Length(i), Columns, step + 1)
         /\ Argmax(Last(Passed(i))) = NextToken(d)
         /\ Speaks(batch[i], Append(out[i], next[i]), NextToken(d), FALSE, step + 1)
<1> DEFINE o == out[i]
           x == next[i]
           n == Length(i)
           w == Columns
           c == Context(i)
           d == Embeds(batch[i]) \o Append(o, x)
           row == kv[i]
           m == Brought(i)
<1>1. /\ batch \in Batches /\ step \in Nat /\ Embeds(batch[i]) \in Seq(Tokens)
      /\ Speaks(batch[i], o, x, finished[i], step)
  BY EmbedsAre DEF Calling, RowRight
<1>2. ~finished[i] /\ x \notin EosIds /\ Taken(i) = Append(o, x) /\ Fed(i) = x
  BY DEF Ends, Taken, Fed
<1>3. finished[i] = FALSE
  BY <1>1, <1>2, Zenon DEF Speaks
<1>4. SaysMore(batch[i], o, x, step)
  BY <1>1, <1>2, <1>3, SpeaksMore, Zenon
<1>5. /\ x \in Tokens /\ d = Append(c, x) /\ Len(o) = step
      /\ Speaks(batch[i], Append(o, x), NextToken(d), FALSE, step + 1)
  BY <1>4 DEF SaysMore, Context
<1>6. c \in Seq(Tokens) /\ Len(c) = n + step
  BY <1>1, <1>5, ContextOf DEF Context, Length
<1>7. Gapped(row, c, n, w, step)
  BY <1>3, Zenon DEF RowRight
<1>8. /\ n \in Nat \ {0} /\ w \in Nat /\ n <= w
      /\ m \in Seq({0, 1}) /\ Len(m) = w + step + 1 /\ OnesIn(m) = Places(n, w, step + 1)
  BY BroughtIs
<1>9. row \in Seq(Seq(Tokens))
  BY DEF BatchInv, RowShape
<1>10. StepPosition(i) = n + step
  BY DEF StepPosition, Length
<1> HIDE DEF o, x, n, w, c, d, row, m
<1>11. RowReady(row, c, x, n, w, step, StepPosition(i), m)
  BY <1>1, <1>5, <1>6, <1>7, <1>8, <1>9, <1>10, Zenon DEF RowReady
<1>12. RowGoes(RowContexts(row, <<x>>, <<StepPosition(i)>>, Sees(m, Len(row), 1)), c, x, n, w, step)
  BY <1>11, NextRow, Zenon
<1>13. Passed(i) = RowContexts(row, <<x>>, <<StepPosition(i)>>, Sees(m, Len(row), 1))
  BY <1>2, Zenon DEF Passed, row, x, m
<1>14. RowGoes(Passed(i), c, x, n, w, step)
  BY <1>12, <1>13, Zenon
<1>15. Gapped(Passed(i), d, n, w, step + 1) /\ Argmax(Last(Passed(i))) = NextToken(d)
  BY <1>5, <1>14, Zenon DEF RowGoes
<1>16. QED
  BY <1>2, <1>5, <1>15, Zenon DEF o, x, n, w, d

\* greedy_generate_cached_batch: every row goes on, or has ended.
LEMMA BatchGoes ==
  ASSUME NeverAudio, Calling, BatchInv, BatchStep
  PROVE  Calling' /\ pc' = "batch" /\ BatchInv'
<1>1. /\ pc' = "batch" /\ step < limit /\ step' = step + 1
      /\ UNCHANGED <<build, batch, side, limit, dense, warm>>
  BY DEF BatchStep
<1>2. batch \in Batches /\ Rows = 1 .. Len(batch) /\ step \in Nat /\ limit \in Nat
  BY BatchFacts DEF Calling, Rows
<1>3. /\ out' = [i \in Rows |-> Taken(i)]
      /\ finished' = [i \in Rows |-> Ends(i)]
      /\ mask' = [i \in Rows |-> MaskAfter(i)]
      /\ kv' = [i \in Rows |-> Passed(i)]
      /\ next' = [i \in Rows |-> Argmax(Last(kv'[i]))]
  BY Zenon DEF BatchStep, Passed, Brought
<1>4. ASSUME NEW i \in 1 .. Len(batch)
      PROVE  /\ out'[i] = Taken(i) /\ finished'[i] = Ends(i) /\ mask'[i] = MaskAfter(i)
             /\ kv'[i] = Passed(i) /\ next'[i] = Argmax(Last(Passed(i)))
  BY <1>2, <1>3
<1>5. step + 1 \in Nat /\ step + 1 <= limit
  BY <1>1, <1>2
<1>6. Calling'
  BY <1>1, <1>5 DEF Calling
<1>7. Columns' = Columns /\ \A i \in 1 .. Len(batch) : Length(i)' = Length(i)
  BY <1>1 DEF Columns, Length
<1>8. ASSUME NEW i \in 1 .. Len(batch) PROVE RowShape(i)'
  <2>1. /\ Passed(i) \in Seq(Seq(Tokens)) /\ Len(Passed(i)) = Columns + (step + 1)
        /\ Argmax(Last(Passed(i))) \in Tokens
    BY PassTypes
  <2>2. dense = TRUE => Length(i) = Columns
    BY DEF BatchInv, RowShape
  <2>3. ASSUME dense = FALSE
        PROVE  /\ MaskAfter(i) \in Seq({0, 1}) /\ Len(MaskAfter(i)) = Columns + (step + 1)
               /\ OnesIn(MaskAfter(i)) = Places(Length(i), Columns, step + 1)
    <3>1. MaskAfter(i) = Brought(i)
      BY <2>3 DEF Brought
    <3>2. Columns + (step + 1) = Columns + step + 1
      BY <1>2, BroughtIs
    <3>3. QED
      BY <3>1, <3>2, BroughtIs
  <2>4. QED
    BY <1>1, <1>4, <1>7, <2>1, <2>2, <2>3, Zenon DEF RowShape
<1>9. ASSUME ~FlashOnPaddedRemainder', NEW i \in 1 .. Len(batch) PROVE RowRight(i)'
  <2>1. ~FlashOnPaddedRemainder
    BY <1>1, <1>9 DEF FlashOnPaddedRemainder, Rows
  <2>2. RowRight(i)
    BY <2>1 DEF BatchInv
  <2>3. CASE Ends(i)
    <3>1. out'[i] = out[i] /\ finished'[i] = TRUE
      BY <1>4, <2>3 DEF Taken
    <3>2. Speaks(batch[i], out[i], next[i], finished[i], step)
      BY <2>2, Zenon DEF RowRight
    <3>3. finished[i] = TRUE \/ next[i] \in EosIds
      <4>1. finished[i] \in BOOLEAN
        BY <3>2, Zenon DEF Speaks
      <4>2. QED
        BY <2>3, <4>1 DEF Ends
    <3>4. Embeds(batch[i]) \in Seq(Tokens)
      BY <1>2, EmbedsAre
    <3>5. \A any : Speaks(batch[i], out[i], any, TRUE, step + 1)
      BY <1>2, <3>2, <3>3, <3>4, SpeaksNoMore, Zenon
    <3>6. Speaks(batch'[i], out'[i], next'[i], finished'[i], step')
      BY <1>1, <3>1, <3>5
    <3>7. QED
      BY <3>1, <3>6 DEF RowRight
  <2>4. CASE ~Ends(i)
    <3> DEFINE d == Embeds(batch[i]) \o Append(out[i], next[i])
    <3>1. /\ Taken(i) = Append(out[i], next[i])
          /\ Gapped(Passed(i), d, Length(i), Columns, step + 1)
          /\ Argmax(Last(Passed(i))) = NextToken(d)
          /\ Speaks(batch[i], Append(out[i], next[i]), NextToken(d), FALSE, step + 1)
      BY <2>2, <2>4, PassHolds, Zenon
    <3>2. finished'[i] = FALSE
      BY <1>4, <2>4
    <3>3. out'[i] = Append(out[i], next[i]) /\ next'[i] = NextToken(d) /\ kv'[i] = Passed(i)
      BY <1>4, <3>1
    <3>4. Context(i)' = d
      BY <1>1, <3>3 DEF Context
    <3> HIDE DEF d
    <3>5. Speaks(batch'[i], out'[i], next'[i], finished'[i], step')
      BY <1>1, <3>1, <3>2, <3>3
    <3>6. Gapped(kv'[i], Context(i)', Length(i)', Columns', step')
      BY <1>1, <1>7, <3>1, <3>3, <3>4
    <3>7. QED
      BY <3>5, <3>6, Zenon DEF RowRight
  <2>5. QED
    BY <2>3, <2>4
<1>10. BatchInv'
  <2>1. dense' \in BOOLEAN /\ Len(batch') = Len(batch)
    BY <1>1 DEF BatchInv
  <2>2. QED
    BY <1>8, <1>9, <2>1, Zenon DEF BatchInv
<1>11. QED
  BY <1>1, <1>6, <1>10

\* At the end every row has its answer.
LEMMA BatchEnds ==
  ASSUME Calling, BatchInv, BatchReturn
  PROVE  Calling' /\ pc' = "idle" /\ Answered'
<1>1. /\ pc' = "idle" /\ (step = limit \/ AllFinished)
      /\ UNCHANGED <<build, batch, side, limit, out, warm, step>>
  BY DEF BatchReturn, Return, callVars
<1>2. /\ batch \in Batches /\ side = "right" /\ Rows = 1 .. Len(batch)
      /\ step \in Nat /\ limit \in Nat /\ step <= limit
  BY BatchFacts DEF Calling, Rows
<1>3. ASSUME ~FlashOnPaddedRemainder, NEW i \in 1 .. Len(batch)
      PROVE  out[i] = Answer(batch[i], limit)
  <2>1. RowRight(i)
    BY <1>3 DEF BatchInv
  <2>2. Speaks(batch[i], out[i], next[i], finished[i], step)
    BY <2>1, Zenon DEF RowRight
  <2>3. finished[i] \in BOOLEAN
    BY <2>2, Zenon DEF Speaks
  <2>4. step = limit \/ finished[i] = TRUE
    BY <1>1, <1>2, <2>3 DEF AllFinished
  <2>5. NothingLeft(next[i], finished[i], step, limit)
    BY <1>2, <2>4, Zenon DEF NothingLeft
  <2>6. QED
    BY <2>2, <2>5, SpeaksAnswer, Zenon
<1>4. FlashOnPaddedRemainder' = FlashOnPaddedRemainder
  BY <1>1 DEF FlashOnPaddedRemainder, Rows
<1>5. Answered'
  BY <1>1, <1>2, <1>3, <1>4 DEF Answered
<1>6. QED
  BY <1>1, <1>5 DEF Calling

--------------------------------------------------------------------------------
\* The start of a batch.

\* The prefix all rows have before their audio, and the template for it.
Common(b) ==
  IF AudioOf(b) = <<>> THEN 0
  ELSE CommonAudioPrefixLen(IdsOf(b, "right"), MasksOf(b, "right"))

Prefix(b) == SubSeq(IdsOf(b, "right")[1], 1, Common(b))
Hit(b)    == Common(b) > 0 /\ Prefix(b) \in DOMAIN templates
From(b)   == IF Hit(b) THEN Common(b) ELSE 0
Cached(b) == IF Hit(b) THEN templates[Prefix(b)] ELSE <<>>

\* A prefix without audio that every row begins with.
IsCommon(b, len, prefix) ==
  /\ len \in Nat /\ prefix \in Seq(Tokens) /\ Len(prefix) = len
  /\ \A i \in 1 .. Len(b) :
       /\ len <= Len(b[i].ids)
       /\ \A j \in 1 .. len : b[i].ids[j] = prefix[j] /\ prefix[j] # AudioToken

\* common_audio_prefix_len is the length of a prefix that all rows have.
LEMMA CommonIs ==
  ASSUME NEW b \in Batches
  PROVE  IsCommon(b, Common(b), Prefix(b))
<1> DEFINE ids == IdsOf(b, "right")
           masks == MasksOf(b, "right")
           at(i) == {j \in OnesIn(masks[i]) : ids[i][j] = AudioToken}
           len == Min(at(1)) - 1
           Fits == /\ Len(ids) > 1
                   /\ at(1) # {}
                   /\ len >= MinPrefix
                   /\ \A i \in DOMAIN ids :
                        /\ at(i) # {} /\ Min(at(i)) - 1 = len
                        /\ SubSeq(ids[i], 1, len) = SubSeq(ids[1], 1, len)
                        /\ 1 .. len \subseteq OnesIn(masks[i])
<1>1. /\ Len(b) \in Nat \ {0} /\ 1 \in 1 .. Len(b)
      /\ ids \in Seq(Seq(Tokens)) /\ Len(ids) = Len(b)
      /\ \A i \in 1 .. Len(b) :
           /\ Len(ids[i]) = Width(b) /\ ids[i] \in Seq(Tokens)
           /\ Len(b[i].ids) \in Nat /\ Len(b[i].ids) <= Width(b)
           /\ \A j \in 1 .. Width(b) :
                ids[i][j] = IF j <= Len(b[i].ids) THEN b[i].ids[j] ELSE PadToken
  <2>1. /\ Len(b) \in Nat \ {0} /\ \A i \in 1 .. Len(b) : Len(b[i].ids) \in Nat
    BY BatchFacts
  <2>2. 1 \in 1 .. Len(b)
    BY <2>1
  <2>3. /\ ids \in Seq(Seq(Tokens)) /\ Len(ids) = Len(b)
        /\ \A i \in 1 .. Len(b) :
             /\ Len(ids[i]) = Width(b)
             /\ \A j \in 1 .. Width(b) :
                  ids[i][j] = IF j <= Len(b[i].ids) THEN b[i].ids[j] ELSE PadToken
    BY IdsAre
  <2> HIDE DEF ids
  <2>4. \A i \in 1 .. Len(b) : ids[i] \in Seq(Tokens)
    BY <2>3
  <2>5. \A i \in 1 .. Len(b) : Len(b[i].ids) <= Width(b)
    BY WidthIs
  <2>6. QED
    BY <2>1, <2>2, <2>3, <2>4, <2>5
<1>2. \A i \in 1 .. Len(b) : OnesIn(masks[i]) = 1 .. Len(b[i].ids)
  BY MasksAre DEF RightPadded
<1>3. Width(b) \in Nat
  BY WidthIs
<1>4. Common(b) = IF AudioOf(b) = <<>> THEN 0 ELSE IF Fits THEN len ELSE 0
  BY Zenon DEF Common, CommonAudioPrefixLen
<1>5. Prefix(b) = SubSeq(ids[1], 1, Common(b))
  BY DEF Prefix
<1> HIDE DEF ids, masks
<1>6. CASE Common(b) = 0
  <2>1. SubSeq(ids[1], 1, 0) = <<>>
    BY <1>1, PrefixFacts
  <2>2. Prefix(b) = <<>>
    BY <1>5, <1>6, <2>1
  <2>3. Prefix(b) \in Seq(Tokens) /\ Len(Prefix(b)) = 0
    BY <2>2
  <2>4. \A j \in 1 .. 0 : FALSE
    OBVIOUS
  <2>5. QED
    BY <1>1, <1>6, <2>3, <2>4 DEF IsCommon
<1>7. CASE Common(b) # 0
  <2>1. Fits /\ Common(b) = len
    BY <1>4, <1>7
  <2> HIDE DEF len, at
  <2>2. at(1) # {} /\ len >= MinPrefix
    BY <2>1
  <2>3. \A i \in 1 .. Len(b) :
          /\ at(i) # {} /\ Min(at(i)) - 1 = len
          /\ SubSeq(ids[i], 1, len) = SubSeq(ids[1], 1, len)
          /\ 1 .. len \subseteq OnesIn(masks[i])
    <3>1. DOMAIN ids = 1 .. Len(b)
      BY <1>1
    <3>2. QED
      BY <2>1, <3>1
  <2>4. \A i \in 1 .. Len(b) : at(i) \in SUBSET Nat
    BY <1>2 DEF at
  <2>5. \A i \in 1 .. Len(b) : Min(at(i)) \in at(i) /\ \A x \in at(i) : Min(at(i)) <= x
    BY <2>3, <2>4, MinIs
  <2>6. len \in Nat \ {0}
    <3>1. Min(at(1)) \in Nat
      BY <1>1, <2>4, <2>5
    <3>2. MinPrefix \in Nat \ {0}
      BY DecodeAssumption
    <3>3. QED
      BY <2>2, <3>1, <3>2 DEF len
  <2>7. ASSUME NEW i \in 1 .. Len(b)
        PROVE  /\ len <= Len(b[i].ids) /\ len <= Width(b)
               /\ \A j \in 1 .. len : ids[i][j] # AudioToken /\ ids[i][j] = b[i].ids[j]
    <3>1. len \in 1 .. len
      BY <2>6
    <3>2. len \in 1 .. Len(b[i].ids)
      BY <1>2, <2>3, <3>1
    <3>3. len <= Len(b[i].ids) /\ len <= Width(b)
      BY <1>1, <1>3, <2>6, <3>2
    <3>4. ASSUME NEW j \in 1 .. len PROVE ids[i][j] # AudioToken /\ ids[i][j] = b[i].ids[j]
      <4>1. j \in OnesIn(masks[i])
        BY <2>3
      <4>2. j \notin at(i)
        <5>1. Min(at(i)) - 1 = len /\ Min(at(i)) \in Nat
          BY <2>3, <2>4, <2>5
        <5>2. ~(Min(at(i)) <= j)
          BY <2>6, <5>1
        <5>3. QED
          BY <2>5, <5>2
      <4>3. j \in 1 .. Width(b) /\ j <= Len(b[i].ids)
        BY <1>1, <1>3, <2>6, <3>3
      <4>4. QED
        BY <1>1, <4>1, <4>2, <4>3 DEF at
    <3>5. QED
      BY <3>3, <3>4
  <2> HIDE DEF Fits
  <2>8. \A i \in 1 .. Len(b) : len \in 0 .. Len(ids[i])
    BY <1>1, <1>3, <2>6, <2>7
  <2>9. Prefix(b) \in Seq(Tokens) /\ Len(Prefix(b)) = len
    BY <1>1, <1>5, <2>1, <2>8, PrefixFacts
  <2>10. ASSUME NEW i \in 1 .. Len(b), NEW j \in 1 .. len
         PROVE  b[i].ids[j] = Prefix(b)[j] /\ Prefix(b)[j] # AudioToken
    <3>1. Prefix(b) = SubSeq(ids[i], 1, len)
      BY <1>5, <2>1, <2>3
    <3>2. SubSeq(ids[i], 1, len)[j] = ids[i][j]
      BY <1>1, <2>8, PrefixFacts
    <3>3. QED
      BY <2>7, <3>1, <3>2
  <2>11. QED
    BY <2>1, <2>6, <2>7, <2>9, <2>10 DEF IsCommon
<1>8. QED
  BY <1>6, <1>7

\* A template holds the contexts of the prefix it is filed under.
IsTemplate(t, key) == t = [n \in 1 .. Len(key) |-> SubSeq(key, 1, n)]

TemplatesOk ==
  /\ DOMAIN templates \subseteq Seq(Tokens)
  /\ \A key \in DOMAIN templates : IsTemplate(templates[key], key)

\* The rows begin as their common prefix does.
LEMMA CommonEmbeds ==
  ASSUME NEW b \in Batches, NEW len, NEW prefix, IsCommon(b, len, prefix),
         NEW i \in 1 .. Len(b), NEW k \in 0 .. len
  PROVE  /\ len <= Len(b[i].ids)
         /\ SubSeq(Embeds(b[i]), 1, k) = SubSeq(prefix, 1, k)
<1> DEFINE e == Embeds(b[i])
<1>1. /\ len \in Nat /\ prefix \in Seq(Tokens) /\ Len(prefix) = len
      /\ len <= Len(b[i].ids)
      /\ \A j \in 1 .. len : b[i].ids[j] = prefix[j] /\ prefix[j] # AudioToken
  BY DEF IsCommon
<1>2. /\ e \in Seq(Tokens) /\ Len(e) = Len(b[i].ids)
      /\ \A j \in 1 .. Len(b[i].ids) : b[i].ids[j] # AudioToken => e[j] = b[i].ids[j]
      /\ Len(b[i].ids) \in Nat
  BY EmbedsAre, BatchFacts
<1> HIDE DEF e
<1>3. k \in 0 .. Len(e) /\ k \in 0 .. Len(prefix) /\ k \in Nat
  BY <1>1, <1>2
<1>4. /\ SubSeq(e, 1, k) \in Seq(Tokens) /\ Len(SubSeq(e, 1, k)) = k
      /\ \A j \in 1 .. k : SubSeq(e, 1, k)[j] = e[j]
  BY <1>2, <1>3, PrefixFacts
<1>5. /\ SubSeq(prefix, 1, k) \in Seq(Tokens) /\ Len(SubSeq(prefix, 1, k)) = k
      /\ \A j \in 1 .. k : SubSeq(prefix, 1, k)[j] = prefix[j]
  BY <1>1, <1>3, PrefixFacts
<1>6. \A j \in 1 .. k : j \in 1 .. len /\ j \in 1 .. Len(b[i].ids)
  BY <1>1, <1>2, <1>3
<1>7. \A j \in 1 .. k : e[j] = prefix[j]
  BY <1>1, <1>2, <1>6
<1>8. \A j \in 1 .. k : SubSeq(e, 1, k)[j] = SubSeq(prefix, 1, k)[j]
  BY <1>4, <1>5, <1>7
<1>9. SubSeq(e, 1, k) = SubSeq(prefix, 1, k)
  BY <1>4, <1>5, <1>8
<1>10. QED
  BY <1>1, <1>9 DEF e

\* What a batch takes from a template is the beginning of every row.
LEMMA CachedHolds ==
  ASSUME TemplatesOk, NEW b \in Batches, NEW i \in 1 .. Len(b)
  PROVE  /\ Cached(b) \in Seq(Seq(Tokens)) /\ Len(Cached(b)) = From(b)
         /\ From(b) \in Nat /\ From(b) <= Len(b[i].ids)
         /\ Holds(Cached(b), Embeds(b[i]), From(b))
         /\ From(b) > 0 => Hit(b)
         /\ \A k \in 1 .. Len(b[i].ids) : k <= From(b) => b[i].ids[k] # AudioToken
<1> DEFINE len == Common(b)
           prefix == Prefix(b)
<1>1. /\ IsCommon(b, len, prefix)
      /\ len \in Nat /\ prefix \in Seq(Tokens) /\ Len(prefix) = len
      /\ len <= Len(b[i].ids)
      /\ \A j \in 1 .. len : b[i].ids[j] = prefix[j] /\ prefix[j] # AudioToken
  BY CommonIs DEF IsCommon
<1>2. Len(b[i].ids) \in Nat
  BY BatchFacts
<1> HIDE DEF len, prefix
<1>3. CASE Hit(b)
  <2>1. From(b) = len /\ Cached(b) = templates[prefix] /\ prefix \in DOMAIN templates
    BY <1>3 DEF From, Cached, Hit, len, prefix
  <2>2. Cached(b) = [n \in 1 .. len |-> SubSeq(prefix, 1, n)]
    BY <1>1, <2>1, Zenon DEF TemplatesOk, IsTemplate
  <2>3. \A k \in 1 .. len : k \in 0 .. Len(prefix) /\ k \in 0 .. len
    BY <1>1
  <2>4. \A k \in 1 .. len : SubSeq(prefix, 1, k) \in Seq(Tokens)
    BY <1>1, <2>3, PrefixFacts
  <2>5. Cached(b) \in Seq(Seq(Tokens)) /\ Len(Cached(b)) = len
    BY <1>1, <2>2, <2>4
  <2>6. \A k \in 1 .. len : SubSeq(Embeds(b[i]), 1, k) = SubSeq(prefix, 1, k)
    BY <1>1, <2>3, CommonEmbeds
  <2>7. Holds(Cached(b), Embeds(b[i]), len)
    BY <2>2, <2>6 DEF Holds
  <2>8. \A k \in 1 .. Len(b[i].ids) : k <= len => k \in 1 .. len
    BY <1>1, <1>2
  <2>9. \A k \in 1 .. Len(b[i].ids) : k <= len => b[i].ids[k] # AudioToken
    BY <1>1, <2>8
  <2>10. QED
    BY <1>1, <1>3, <2>1, <2>5, <2>7, <2>9
<1>4. CASE ~Hit(b)
  <2>1. From(b) = 0 /\ Cached(b) = <<>>
    BY <1>4 DEF From, Cached
  <2>2. Cached(b) \in Seq(Seq(Tokens)) /\ Len(Cached(b)) = 0
    BY <2>1
  <2>3. Holds(Cached(b), Embeds(b[i]), 0)
    BY DEF Holds
  <2>4. \A k \in 1 .. Len(b[i].ids) : ~(k <= 0)
    BY <1>2
  <2>5. QED
    BY <1>2, <2>1, <2>2, <2>3, <2>4
<1>5. QED
  BY <1>3, <1>4

\* The columns after the prefix, and what the pass over them leaves.
Rests(b) ==
  [i \in DOMAIN b |-> SubSeq(IdsOf(b, "right")[i], From(b) + 1, Len(IdsOf(b, "right")[i]))]

FullRow(b, i) ==
  RowContexts(Replicated(Cached(b), b)[i], Merged(Rests(b), AudioOf(b))[i],
              SubSeq(RopeIndex(MasksOf(b, "right")[i]), From(b) + 1,
                     Len(RopeIndex(MasksOf(b, "right")[i]))),
              Sees(MasksOf(b, "right")[i], From(b), Len(MasksOf(b, "right")[i]) - From(b)))

\* They are what is left of the rows.
LEMMA RestsAre ==
  ASSUME TemplatesOk, NEW b \in Batches
  PROVE  LET l == Width(b) - From(b) IN
         /\ Tensor(Rests(b), Len(b), l)
         /\ \A i \in 1 .. Len(b) : RestOf(Rests(b)[i], b[i].ids, From(b), l)
<1> DEFINE ids == IdsOf(b, "right")
           w == Width(b)
           from == From(b)
           rests == Rests(b)
           l == w - from
<1>1. /\ Len(b) \in Nat \ {0} /\ DOMAIN b = 1 .. Len(b) /\ w \in Nat
      /\ \A i \in 1 .. Len(b) : Len(b[i].ids) \in Nat /\ Len(b[i].ids) <= w
  BY BatchFacts, WidthIs
<1>2. /\ from \in Nat
      /\ \A i \in 1 .. Len(b) :
           /\ from <= Len(b[i].ids)
           /\ \A k \in 1 .. Len(b[i].ids) : k <= from => b[i].ids[k] # AudioToken
  <2>1. 1 \in 1 .. Len(b)
    BY <1>1
  <2>2. QED
    BY <2>1, CachedHolds
<1>3. ids \in Seq(Seq(Tokens)) /\ Len(ids) = Len(b)
  BY IdsAre
<1>4. \A i \in 1 .. Len(b) :
        /\ Len(ids[i]) = w
        /\ \A j \in 1 .. w : ids[i][j] = IF j <= Len(b[i].ids) THEN b[i].ids[j] ELSE PadToken
  BY IdsAre
<1>5. rests = [i \in 1 .. Len(b) |-> SubSeq(ids[i], from + 1, Len(ids[i]))]
  BY <1>1, Zenon DEF Rests
<1> HIDE DEF ids, w, from, rests
<1>6. from <= w /\ from \in 0 .. w /\ l \in Nat
  <2>1. 1 \in 1 .. Len(b)
    BY <1>1
  <2>2. from <= Len(b[1].ids) /\ Len(b[1].ids) <= w /\ Len(b[1].ids) \in Nat
    BY <1>1, <1>2, <2>1
  <2>3. QED
    BY <1>1, <1>2, <2>2
<1>7. ASSUME NEW i \in 1 .. Len(b)
      PROVE  /\ rests[i] \in Seq(Tokens) /\ Len(rests[i]) = l
             /\ \A j \in 1 .. l : rests[i][j] = ids[i][from + j]
  <2>1. ids[i] \in Seq(Tokens) /\ Len(ids[i]) = w
    BY <1>3, <1>4
  <2>2. from \in 0 .. Len(ids[i])
    BY <1>6, <2>1
  <2>3. rests[i] = SubSeq(ids[i], from + 1, Len(ids[i]))
    BY <1>5
  <2>4. /\ SubSeq(ids[i], from + 1, Len(ids[i])) \in Seq(Tokens)
        /\ Len(SubSeq(ids[i], from + 1, Len(ids[i]))) = Len(ids[i]) - from
        /\ \A j \in 1 .. Len(ids[i]) - from :
             SubSeq(ids[i], from + 1, Len(ids[i]))[j] = ids[i][from + j]
    BY <2>1, <2>2, RestIs
  <2>5. QED
    BY <2>1, <2>3, <2>4
<1>8. Tensor(rests, Len(b), l)
  <2>1. rests \in [1 .. Len(b) -> Seq(Tokens)]
    BY <1>5, <1>7
  <2>2. rests \in Seq(Seq(Tokens)) /\ Len(rests) = Len(b)
    BY <1>1, <2>1
  <2>3. QED
    BY <1>1, <1>6, <1>7, <2>2 DEF Tensor
<1>9. ASSUME NEW i \in 1 .. Len(b) PROVE RestOf(rests[i], b[i].ids, from, l)
  <2>1. Len(b[i].ids) <= from + l
    BY <1>1, <1>2, <1>6
  <2>2. ASSUME NEW k \in 1 .. l
        PROVE  rests[i][k] = IF from + k <= Len(b[i].ids) THEN b[i].ids[from + k] ELSE PadToken
    <3>1. from + k \in 1 .. w
      BY <1>1, <1>2, <1>6
    <3>2. QED
      BY <1>4, <1>7, <3>1
  <2>3. QED
    BY <1>2, <2>1, <2>2 DEF RestOf
<1>10. QED
  BY <1>8, <1>9 DEF rests, from, w

\* A prefill from a cached beginning, whose length is known.
FillReady(m, c, l, cache, embeds, from) ==
  /\ c \in Seq(Tokens) /\ RightPadded(m, Len(c), l)
  /\ cache \in Seq(Seq(Tokens)) /\ embeds \in Seq(Tokens)
  /\ Len(cache) = from /\ from <= Len(c) /\ from + Len(embeds) = l

FillEnds(r, c, l, cache, embeds, from) ==
  /\ r \in Seq(Seq(Tokens)) /\ Len(r) = l
  /\ /\ build.flash /\ from > 0 => Len(c) = l
     /\ Holds(cache, c, from)
     /\ \A j \in 1 .. Len(embeds) : from + j <= Len(c) => embeds[j] = c[from + j]
     => Holds(r, c, Len(c))

FillFrom(m, l, cache, embeds, from) ==
  RowContexts(cache, embeds, SubSeq(RopeIndex(m), from + 1, l), Sees(m, from, l - from))

\* A prompt run after a cached prefix leaves the contexts of all of it.
LEMMA FilledFrom ==
  ASSUME NEW m, NEW c, NEW l, NEW cache, NEW embeds, NEW from,
         FillReady(m, c, l, cache, embeds, from)
  PROVE  FillEnds(FillFrom(m, l, cache, embeds, from), c, l, cache, embeds, from)
<1>0. /\ c \in Seq(Tokens) /\ RightPadded(m, Len(c), l)
      /\ cache \in Seq(Seq(Tokens)) /\ embeds \in Seq(Tokens)
      /\ Len(cache) = from /\ from <= Len(c) /\ from + Len(embeds) = l
  BY Zenon DEF FillReady
<1> DEFINE f == Len(cache)
           t == RowContexts(cache, embeds, SubSeq(RopeIndex(m), f + 1, l), Sees(m, f, l - f))
           r == RowContexts(cache, embeds, SubSeq(RopeIndex(m), from + 1, l), Sees(m, from, l - from))
<1>1. f <= Len(c) /\ f + Len(embeds) = l
  BY <1>0
<1>2. /\ t \in Seq(Seq(Tokens)) /\ Len(t) = l
      /\ /\ build.flash /\ f > 0 => Len(c) = l
         /\ Holds(cache, c, f)
         /\ \A j \in 1 .. Len(embeds) : f + j <= Len(c) => embeds[j] = c[f + j]
         => Holds(t, c, Len(c))
  BY <1>0, <1>1, RestFilled, Zenon
<1>3. f = from
  BY <1>0
<1> HIDE DEF f
<1>4. t = r
  BY <1>3
<1> HIDE DEF t
<1>5. r \in Seq(Seq(Tokens)) /\ Len(r) = l
  BY <1>2, <1>4, Zenon
<1>6. /\ build.flash /\ from > 0 => Len(c) = l
      /\ Holds(cache, c, from)
      /\ \A j \in 1 .. Len(embeds) : from + j <= Len(c) => embeds[j] = c[from + j]
      => Holds(r, c, Len(c))
  BY <1>2, <1>3, <1>4, Zenon
<1>7. r = FillFrom(m, l, cache, embeds, from)
  BY DEF FillFrom
<1> HIDE DEF r
<1>8. QED
  BY <1>5, <1>6, <1>7, Zenon DEF FillEnds

\* The pass fills every row with the contexts of its prompt, unless the build counts its
\* queries from the last key and the row is padded.
LEMMA FullRowHolds ==
  ASSUME TemplatesOk, NEW b \in Batches, NEW i \in 1 .. Len(b)
  PROVE  /\ FullRow(b, i) \in Seq(Seq(Tokens)) /\ Len(FullRow(b, i)) = Width(b)
         /\ (build.flash /\ From(b) > 0 => Len(b[i].ids) = Width(b))
            => Holds(FullRow(b, i), Embeds(b[i]), Len(b[i].ids))
<1> DEFINE c == Embeds(b[i])
           w == Width(b)
           from == From(b)
           cache == Cached(b)
           m == MasksOf(b, "right")[i]
           embeds == Merged(Rests(b), AudioOf(b))[i]
           at == SubSeq(RopeIndex(m), from + 1, w)
           r == RowContexts(cache, embeds, at, Sees(m, from, w - from))
<1>1. /\ DOMAIN b = 1 .. Len(b) /\ Len(b[i].ids) \in Nat \ {0}
      /\ w \in Nat /\ Len(b[i].ids) <= w
  BY BatchFacts, WidthIs
<1>2. c \in Seq(Tokens) /\ Len(c) = Len(b[i].ids)
  BY EmbedsAre
<1>3. /\ cache \in Seq(Seq(Tokens)) /\ Len(cache) = from
      /\ from \in Nat /\ from <= Len(b[i].ids) /\ Holds(cache, c, from)
  BY CachedHolds
<1>4. RightPadded(m, Len(c), w)
  BY <1>2, MasksAre
<1>5. /\ embeds \in Seq(Tokens) /\ Len(embeds) = w - from
      /\ \A j \in 1 .. w - from : from + j <= Len(b[i].ids) => embeds[j] = c[from + j]
  <2>1. /\ Tensor(Rests(b), Len(b), w - from)
        /\ \A k \in 1 .. Len(b) : RestOf(Rests(b)[k], b[k].ids, from, w - from)
    BY RestsAre
  <2> HIDE DEF w, from
  <2>2. QED
    BY <1>3, <2>1, MergedRest
<1>6. Len(RopeIndex(m)) = w /\ Len(m) = w
  BY <1>4, MaskFacts DEF RightPadded
<1>7. Replicated(cache, b)[i] = cache
  BY <1>1 DEF Replicated
<1> HIDE DEF c, w, from, cache, m, embeds
<1>8. FullRow(b, i) = r
  BY <1>6, <1>7, Zenon DEF FullRow, w, from, cache, m, embeds
<1>10. Len(cache) = from /\ from <= Len(c) /\ from + Len(embeds) = w
  BY <1>1, <1>2, <1>3, <1>5
<1>11. FillEnds(r, c, w, cache, embeds, from)
  <2>1. FillReady(m, c, w, cache, embeds, from)
    BY <1>2, <1>3, <1>4, <1>5, <1>10, Zenon DEF FillReady
  <2>2. FillEnds(FillFrom(m, w, cache, embeds, from), c, w, cache, embeds, from)
    BY <2>1, FilledFrom, Zenon
  <2>3. QED
    BY <2>2, Zenon DEF FillFrom
<1> HIDE DEF r
<1>12. \A j \in 1 .. Len(embeds) : from + j <= Len(c) => embeds[j] = c[from + j]
  BY <1>2, <1>5
<1>13. r \in Seq(Seq(Tokens)) /\ Len(r) = w
  BY <1>11, Zenon DEF FillEnds
<1>14. (build.flash /\ from > 0 => Len(c) = w) => Holds(r, c, Len(c))
  BY <1>3, <1>11, <1>12, Zenon DEF FillEnds
<1>15. QED
  BY <1>2, <1>8, <1>13, <1>14, Zenon DEF c, w, from

\* The first tokens.
LEMMA FirstToken ==
  ASSUME NeverAudio, NEW b \in Batches, NEW i \in 1 .. Len(b), NEW r \in Seq(Seq(Tokens)),
         Len(b[i].ids) <= Len(r)
  PROVE  /\ Argmax(r[Len(b[i].ids)]) \in Tokens
         /\ Holds(r, Embeds(b[i]), Len(b[i].ids)) =>
              Argmax(r[Len(b[i].ids)]) = NextToken(Embeds(b[i]))
<1> DEFINE n == Len(b[i].ids)
           c == Embeds(b[i])
<1>1. n \in Nat \ {0} /\ c \in Seq(Tokens) /\ Len(c) = n
  BY BatchFacts, EmbedsAre
<1> HIDE DEF n, c
<1>2. n \in 1 .. Len(r) /\ n \in 1 .. n
  BY <1>1 DEF n
<1>3. r[n] \in Seq(Tokens)
  BY <1>2
<1>4. Argmax(r[n]) \in Tokens
  BY <1>3, ArgmaxIs
<1>5. ASSUME Holds(r, c, n) PROVE Argmax(r[n]) = NextToken(c)
  <2>1. r[n] = SubSeq(c, 1, n)
    BY <1>2, <1>5 DEF Holds
  <2>2. SubSeq(c, 1, n) = c
    BY <1>1, PrefixFacts
  <2>3. Len(c) # 0
    BY <1>1
  <2>4. QED
    BY <1>1, <2>1, <2>2, <2>3, ArgmaxIs
<1>6. QED
  BY <1>4, <1>5 DEF n, c

\* A batch begins right when its rows hold their prompts.
LEMMA BatchBegins ==
  ASSUME NEW b \in Batches, NEW max \in Limits, Call(b, "right", max),
         mask' = MasksOf(b, "right"), dense' \in BOOLEAN,
         \A i \in 1 .. Len(b) :
           /\ kv'[i] \in Seq(Seq(Tokens)) /\ Len(kv'[i]) = Width(b)
           /\ next'[i] \in Tokens /\ finished'[i] = (next'[i] \in EosIds)
           /\ dense' = TRUE => Len(b[i].ids) = Width(b)
           /\ ~FlashOnPaddedRemainder' =>
                /\ Holds(kv'[i], Embeds(b[i]), Len(b[i].ids))
                /\ next'[i] = NextToken(Embeds(b[i]))
  PROVE  Calling' /\ BatchInv'
<1>1. /\ Calling' /\ batch' = b /\ step' = 0 /\ max \in Nat
      /\ \A i \in 1 .. Len(b) : out'[i] = <<>>
  BY CallStarts
<1>2. Columns' = Width(b) /\ Width(b) \in Nat /\ Width(b) + 0 = Width(b)
  <2>1. Width(b) \in Nat
    BY WidthIs
  <2>2. QED
    BY <1>1, <2>1 DEF Columns
<1>3. \A i \in 1 .. Len(b) : Length(i)' = Len(b[i].ids) /\ Len(b[i].ids) \in Nat
  BY <1>1, BatchFacts DEF Length
<1>4. ASSUME NEW i \in 1 .. Len(b) PROVE RowShape(i)'
  <2>1. /\ kv'[i] \in Seq(Seq(Tokens)) /\ Len(kv'[i]) = Width(b) /\ next'[i] \in Tokens
        /\ dense' = TRUE => Len(b[i].ids) = Width(b)
    OBVIOUS
  <2>2. RightPadded(mask'[i], Len(b[i].ids), Width(b))
    BY MasksAre
  <2>3. mask'[i] \in Seq({0, 1}) /\ Len(mask'[i]) = Width(b) /\ OnesIn(mask'[i]) = 1 .. Len(b[i].ids)
    BY <2>2 DEF RightPadded
  <2>4. 1 .. Len(b[i].ids) = Places(Len(b[i].ids), Width(b), 0)
    BY <1>2 DEF Places
  <2>5. OnesIn(mask[i])' = Places(Len(b[i].ids), Width(b), 0)
    BY <2>3, <2>4 DEF OnesIn
  <2>6. QED
    BY <1>1, <1>2, <1>3, <2>1, <2>3, <2>5, Zenon DEF RowShape
<1>5. ASSUME ~FlashOnPaddedRemainder', NEW i \in 1 .. Len(b) PROVE RowRight(i)'
  <2>1. /\ Holds(kv'[i], Embeds(b[i]), Len(b[i].ids)) /\ Len(kv'[i]) = Width(b)
        /\ next'[i] = NextToken(Embeds(b[i])) /\ finished'[i] = (next'[i] \in EosIds)
    BY <1>5
  <2>2. Embeds(b[i]) \in Seq(Tokens)
    BY EmbedsAre
  <2>3. Embeds(b[i]) \o <<>> = Embeds(b[i])
    BY <2>2, SpeaksNothing
  <2>4. Context(i)' = Embeds(b[i])
    BY <1>1, <2>3 DEF Context
  <2>5. Gapped(kv'[i], Embeds(b[i]), Len(b[i].ids), Width(b), 0)
    <3>1. \A t \in 1 .. 0 : FALSE
      OBVIOUS
    <3>2. QED
      BY <1>2, <2>1, <3>1 DEF Gapped
  <2> DEFINE token == NextToken(Embeds(b[i]))
  <2>6. Speaks(b[i], <<>>, token, token \in EosIds, 0)
    BY <2>2, SpeaksFirst
  <2>7. next'[i] = token /\ finished'[i] = (token \in EosIds)
    BY <2>1
  <2> HIDE DEF token
  <2>8. Speaks(batch'[i], out'[i], next'[i], finished'[i], step')
    BY <1>1, <2>6, <2>7, Zenon
  <2>9. Gapped(kv'[i], Context(i)', Length(i)', Columns', step')
    BY <1>1, <1>2, <1>3, <2>4, <2>5, Zenon
  <2>10. QED
    BY <2>8, <2>9, Zenon DEF RowRight
<1>6. BatchInv'
  BY <1>1, <1>4, <1>5, Zenon DEF BatchInv
<1>7. QED
  BY <1>1, <1>6

\* The start, in the names of the parts.
LEMMA StartBatchIs ==
  ASSUME NEW b, NEW max, StartBatch(b, "right", max)
  PROVE  /\ Call(b, "right", max) /\ pc' = "batch" /\ warm' = Hit(b)
         /\ kv' = [i \in DOMAIN b |-> FullRow(b, i)]
         /\ mask' = MasksOf(b, "right")
         /\ dense' = \A i \in DOMAIN b : IsDense(MasksOf(b, "right")[i])
         /\ Begin(NextAtPromptEnd([i \in DOMAIN b |-> FullRow(b, i)], MasksOf(b, "right")))
         /\ templates' = IF Common(b) > 0 /\ ~Hit(b)
                         THEN [k \in DOMAIN templates \cup {Prefix(b)} |->
                                 IF k = Prefix(b)
                                 THEN PrefixTemplate([i \in DOMAIN b |-> FullRow(b, i)][1], Common(b))
                                 ELSE templates[k]]
                         ELSE templates
         /\ UNCHANGED <<mgr, pool, left>>
BY Zenon DEF StartBatch, Enter, FullRow, Rests, Cached, From, Hit, Prefix, Common

\* The template a batch leaves is the contexts of its common prefix.
LEMMA TemplateIs ==
  ASSUME TemplatesOk, NEW b \in Batches, Common(b) > 0, ~Hit(b)
  PROVE  IsTemplate(PrefixTemplate([i \in DOMAIN b |-> FullRow(b, i)][1], Common(b)), Prefix(b))
<1> DEFINE len == Common(b)
           prefix == Prefix(b)
           row == FullRow(b, 1)
           n == Len(b[1].ids)
           c == Embeds(b[1])
<1>1. 1 \in 1 .. Len(b) /\ DOMAIN b = 1 .. Len(b) /\ n \in Nat
  <2>1. Len(b) \in Nat \ {0} /\ DOMAIN b = 1 .. Len(b)
    BY BatchFacts
  <2>2. 1 \in 1 .. Len(b)
    BY <2>1
  <2>3. QED
    BY <2>1, <2>2, BatchFacts
<1>2. IsCommon(b, len, prefix)
  BY CommonIs
<1>3. len \in Nat /\ prefix \in Seq(Tokens) /\ Len(prefix) = len /\ len <= n
  BY <1>1, <1>2 DEF IsCommon
<1>4. From(b) = 0
  BY DEF From
<1>5. /\ row \in Seq(Seq(Tokens)) /\ Len(row) = Width(b) /\ Holds(row, c, n)
  BY <1>1, <1>4, FullRowHolds
<1>6. n <= Width(b) /\ Width(b) \in Nat
  BY <1>1, WidthIs
<1>7. [i \in DOMAIN b |-> FullRow(b, i)][1] = row
  BY <1>1
<1>8. \A k \in 0 .. len : SubSeq(c, 1, k) = SubSeq(prefix, 1, k)
  BY <1>1, <1>2, CommonEmbeds
<1> HIDE DEF len, prefix, row, n, c
<1>9. len \in 0 .. Len(row)
  BY <1>1, <1>3, <1>5, <1>6
<1>10. /\ SubSeq(row, 1, len) \in Seq(Seq(Tokens)) /\ Len(SubSeq(row, 1, len)) = len
       /\ \A j \in 1 .. len : SubSeq(row, 1, len)[j] = row[j]
  BY <1>5, <1>9, PrefixFacts
<1>11. ASSUME NEW j \in 1 .. len PROVE SubSeq(row, 1, len)[j] = SubSeq(prefix, 1, j)
  <2>1. j \in 1 .. n /\ j \in 0 .. len
    BY <1>1, <1>3
  <2>2. row[j] = SubSeq(c, 1, j)
    BY <1>5, <2>1 DEF Holds
  <2>3. QED
    BY <1>8, <1>10, <2>1, <2>2
<1>12. SubSeq(row, 1, len) = [j \in 1 .. len |-> SubSeq(prefix, 1, j)]
  <2> DEFINE t == SubSeq(row, 1, len)
  <2>1. t \in Seq(Seq(Tokens)) /\ Len(t) = len /\ \A j \in 1 .. len : t[j] = SubSeq(prefix, 1, j)
    BY <1>10, <1>11
  <2> HIDE DEF t
  <2>2. t = [j \in 1 .. len |-> SubSeq(prefix, 1, j)]
    <3>1. t = [j \in 1 .. Len(t) |-> t[j]]
      BY <2>1
    <3>2. QED
      BY <2>1, <3>1
  <2>3. QED
    BY <2>2 DEF t
<1>13. PrefixTemplate([i \in DOMAIN b |-> FullRow(b, i)][1], len) = SubSeq(row, 1, len)
  BY <1>7, Zenon DEF PrefixTemplate
<1>14. QED
  BY <1>3, <1>12, <1>13 DEF IsTemplate, len, prefix

\* A new template is as the others.
LEMMA TemplatesStay ==
  ASSUME TemplatesOk, NEW b \in Batches, NEW max, StartBatch(b, "right", max)
  PROVE  TemplatesOk'
<1>1. CASE Common(b) > 0 /\ ~Hit(b)
  <2> DEFINE prefix == Prefix(b)
             t == PrefixTemplate([i \in DOMAIN b |-> FullRow(b, i)][1], Common(b))
  <2>1. templates' = [k \in DOMAIN templates \cup {prefix} |->
                        IF k = prefix THEN t ELSE templates[k]]
    BY <1>1, StartBatchIs, Zenon
  <2>2. IsTemplate(t, prefix)
    BY <1>1, TemplateIs
  <2>3. prefix \in Seq(Tokens)
    BY CommonIs DEF IsCommon
  <2> HIDE DEF prefix, t
  <2>4. DOMAIN templates \subseteq Seq(Tokens) /\ \A k \in DOMAIN templates : IsTemplate(templates[k], k)
    BY DEF TemplatesOk
  <2>5. DOMAIN templates' = DOMAIN templates \cup {prefix}
    BY <2>1
  <2>6. ASSUME NEW k \in DOMAIN templates' PROVE IsTemplate(templates'[k], k)
    <3>1. CASE k = prefix
      BY <2>1, <2>2, <2>5, <3>1
    <3>2. CASE k # prefix
      BY <2>1, <2>4, <2>5, <3>2
    <3>3. QED
      BY <3>1, <3>2
  <2>7. DOMAIN templates' \subseteq Seq(Tokens)
    BY <2>3, <2>4, <2>5
  <2>8. QED
    BY <2>6, <2>7 DEF TemplatesOk, IsTemplate
<1>2. CASE ~(Common(b) > 0 /\ ~Hit(b))
  <2>1. templates' = templates
    BY <1>2, StartBatchIs, Zenon
  <2>2. QED
    BY <2>1 DEF TemplatesOk, IsTemplate
<1>3. QED
  BY <1>1, <1>2

\* greedy_generate_cached_batch, with a template for the beginning of its rows or without:
\* every row holds its prompt and says its first token.
LEMMA StartsBatch ==
  ASSUME NeverAudio, TemplatesOk, NEW b \in Batches, NEW max \in Limits,
         StartBatch(b, "right", max)
  PROVE  Calling' /\ pc' = "batch" /\ BatchInv' /\ TemplatesOk'
<1> DEFINE masks == MasksOf(b, "right")
           w == Width(b)
<1>1. /\ Call(b, "right", max) /\ pc' = "batch" /\ warm' = Hit(b)
      /\ kv' = [i \in DOMAIN b |-> FullRow(b, i)]
      /\ mask' = masks
      /\ dense' = \A i \in DOMAIN b : IsDense(masks[i])
      /\ Begin(NextAtPromptEnd(kv', masks))
  BY StartBatchIs, Zenon
<1>2. /\ batch' = b /\ side' = "right" /\ build' = build /\ DOMAIN b = 1 .. Len(b)
  BY <1>1, CallStarts
<1>3. \A i \in 1 .. Len(b) :
        /\ RightPadded(masks[i], Len(b[i].ids), w)
        /\ PromptLen(masks[i]) = Len(b[i].ids)
        /\ IsDense(masks[i]) => Len(b[i].ids) = w
  BY MasksAre, MaskFacts
<1>4. w \in Nat /\ \A i \in 1 .. Len(b) : Len(b[i].ids) <= w
  BY WidthIs
<1>5. /\ next' = NextAtPromptEnd(kv', masks)
      /\ finished' = [i \in DOMAIN next' |-> next'[i] \in EosIds]
  BY <1>1 DEF Begin
<1>6. next' = [i \in 1 .. Len(b) |-> Argmax(kv'[i][PromptLen(masks[i])])]
  <2>1. DOMAIN kv' = 1 .. Len(b)
    BY <1>1, <1>2
  <2>2. QED
    BY <1>5, <2>1, Zenon DEF NextAtPromptEnd
<1> HIDE DEF masks, w
<1>7. ASSUME NEW i \in 1 .. Len(b)
      PROVE  /\ kv'[i] \in Seq(Seq(Tokens)) /\ Len(kv'[i]) = w
             /\ next'[i] \in Tokens /\ finished'[i] = (next'[i] \in EosIds)
             /\ dense' = TRUE => Len(b[i].ids) = w
             /\ ~FlashOnPaddedRemainder' =>
                  /\ Holds(kv'[i], Embeds(b[i]), Len(b[i].ids))
                  /\ next'[i] = NextToken(Embeds(b[i]))
  <2> DEFINE row == FullRow(b, i)
             n == Len(b[i].ids)
  <2>1. kv'[i] = row
    BY <1>1, <1>2
  <2>2. /\ row \in Seq(Seq(Tokens)) /\ Len(row) = w
        /\ (build.flash /\ From(b) > 0 => n = w) => Holds(row, Embeds(b[i]), n)
    BY FullRowHolds DEF w
  <2> HIDE DEF row, n
  <2>3. next'[i] = Argmax(row[n]) /\ finished'[i] = (next'[i] \in EosIds)
    BY <1>3, <1>5, <1>6, <2>1 DEF n
  <2>4. /\ Argmax(row[n]) \in Tokens
        /\ Holds(row, Embeds(b[i]), n) => Argmax(row[n]) = NextToken(Embeds(b[i]))
    BY <1>4, <2>2, FirstToken DEF n
  <2>5. dense' = TRUE => n = w
    BY <1>1, <1>2, <1>3 DEF n
  <2>6. ASSUME ~FlashOnPaddedRemainder' PROVE build.flash /\ From(b) > 0 => n = w
    <3>1. ASSUME build.flash, From(b) > 0 PROVE n = w
      <4>1. warm'
        BY <1>1, <3>1, CachedHolds
      <4>2. ~\E j \in Rows' : ~IsDense(MasksOf(batch', side')[j])
        BY <1>2, <2>6, <3>1, <4>1 DEF FlashOnPaddedRemainder
      <4>3. i \in Rows'
        BY <1>2 DEF Rows
      <4>4. IsDense(masks[i])
        BY <1>2, <4>2, <4>3 DEF masks
      <4>5. QED
        BY <1>3, <4>4 DEF n
    <3>2. QED
      BY <3>1
  <2>7. QED
    BY <2>1, <2>2, <2>3, <2>4, <2>5, <2>6 DEF n
<1>8. dense' \in BOOLEAN
  BY <1>1
<1>9. Calling' /\ BatchInv'
  BY <1>1, <1>7, <1>8, BatchBegins DEF masks, w
<1>10. QED
  BY <1>1, <1>9, TemplatesStay

--------------------------------------------------------------------------------
\* The prefill of the paged engine.

\* A packed row that is kept apart from the others.
LEMMA PackedFilled ==
  ASSUME NEW m, NEW c \in Seq(Tokens), NEW l, RightPadded(m, Len(c), l),
         NEW embeds \in Seq(Tokens), Len(embeds) = l,
         \A j \in 1 .. Len(c) : embeds[j] = c[j]
  PROVE  LET r == RowContexts(<<>>, Valid(embeds, m), Valid(RopeIndex(m), m),
                              CausalMask(Ones(PromptLen(m)), 0, PromptLen(m))) IN
         r \in Seq(Seq(Tokens)) /\ Len(r) = Len(c) /\ Holds(r, c, Len(c))
<1> DEFINE n == Len(c)
           at == Valid(RopeIndex(m), m)
           sees == CausalMask(Ones(n), 0, n)
<1>1. /\ n \in Nat /\ l \in Nat /\ n <= l /\ n \in 0 .. l /\ n \in 0 .. Len(embeds)
  BY DEF RightPadded
<1>2. /\ PromptLen(m) = n
      /\ \A j \in 1 .. n : RopeIndex(m)[j] = j - 1
      /\ RopeIndex(m) \in Seq(Int) /\ Len(RopeIndex(m)) = l
  BY MaskFacts, RopeIndexType
<1>3. Valid(embeds, m) = c
  <2>1. Valid(embeds, m) = SubSeq(embeds, 1, n)
    BY <1>2 DEF Valid
  <2>2. /\ SubSeq(embeds, 1, n) \in Seq(Tokens) /\ Len(SubSeq(embeds, 1, n)) = n
        /\ \A j \in 1 .. n : SubSeq(embeds, 1, n)[j] = embeds[j]
    BY <1>1, PrefixFacts
  <2> DEFINE v == SubSeq(embeds, 1, n)
  <2>3. v \in Seq(Tokens) /\ Len(v) = Len(c) /\ \A j \in 1 .. Len(c) : v[j] = c[j]
    BY <2>2
  <2> HIDE DEF v
  <2>4. v = c
    BY <2>3
  <2>5. QED
    BY <2>1, <2>4 DEF v
<1>4. \A j \in 1 .. n : at[j] = j - 1
  <2> DEFINE rope == RopeIndex(m)
  <2>1. rope \in Seq(Int) /\ n \in 0 .. Len(rope) /\ \A j \in 1 .. n : rope[j] = j - 1
    BY <1>1, <1>2
  <2>2. at = SubSeq(rope, 1, n)
    BY <1>2 DEF Valid
  <2> HIDE DEF rope
  <2>3. \A j \in 1 .. n : SubSeq(rope, 1, n)[j] = rope[j]
    BY <2>1, PrefixFacts
  <2>4. QED
    BY <2>1, <2>2, <2>3
<1>5. \A j \in 1 .. n : sees[j] = 1 .. j
  <2>1. OnesIn(Ones(n)) = 1 .. n
    BY <1>1, OnesPadded DEF RightPadded
  <2>2. sees = [j \in 1 .. n |-> {k \in 1 .. n : k <= 0 + j}]
    BY <2>1 DEF CausalMask
  <2>3. \A j \in 1 .. n : {k \in 1 .. n : k <= 0 + j} = 1 .. j
    BY <1>1
  <2>4. QED
    BY <2>2, <2>3
<1> DEFINE r == RowContexts(<<>>, c, at, sees)
<1>6. PICK cache : cache = <<>>
  OBVIOUS
<1>7. cache \in Seq(Seq(Tokens)) /\ Len(cache) = 0
  BY <1>6
<1> HIDE DEF at, sees
<1>8. \A j \in 1 .. Len(c) : sees[j] \subseteq 1 .. Len(cache) + j
  BY <1>5, <1>7
<1>9. \A j \in 1 .. Len(c) : Len(cache) + j <= Len(c) =>
        /\ c[j] = c[Len(cache) + j]
        /\ at[j] = Len(cache) + j - 1
        /\ sees[j] = 1 .. Len(cache) + j
  BY <1>4, <1>5, <1>7
<1>10. /\ RowContexts(cache, c, at, sees) \in Seq(Seq(Tokens))
       /\ Len(RowContexts(cache, c, at, sees)) = Len(cache) + Len(c)
  BY <1>7, <1>8, RowContextsKeep
<1>11. Holds(RowContexts(cache, c, at, sees), c, Len(c))
  <2>1. Len(cache) <= Len(c) /\ Len(c) <= Len(cache) + Len(c)
    BY <1>7
  <2>2. Holds(cache, c, Len(cache))
    BY <1>7 DEF Holds
  <2>3. FillsRow(c, cache, c, at, sees)
    BY <1>7, <1>8, <1>9, <2>1, <2>2, Zenon DEF FillsRow
  <2>4. QED
    BY <2>3, RowFilled, Zenon
<1>12. RowContexts(cache, c, at, sees) = r
  BY <1>6
<1> HIDE DEF r
<1>13. r \in Seq(Seq(Tokens)) /\ Len(r) = Len(c) /\ Holds(r, c, Len(c))
  BY <1>7, <1>10, <1>11, <1>12
<1>14. RowContexts(<<>>, Valid(embeds, m), Valid(RopeIndex(m), m),
                   CausalMask(Ones(PromptLen(m)), 0, PromptLen(m))) = r
  BY <1>2, <1>3 DEF r, at, sees
<1>15. QED
  BY <1>13, <1>14

\* The builds whose packed prefill keeps the rows apart.
RowsApart == \A bd \in Builds : bd.packed => bd.varlen

\* Every row of a paged prefill gets the contexts of its prompt.
LEMMA PrefillHolds ==
  ASSUME RowsApart, build \in Builds, NEW b \in Batches, NEW i \in 1 .. Len(b)
  PROVE  LET paged == Normalized(b, "right")
             r == PrefillContexts(paged, Merged(paged.ids, AudioOf(b)))[i] IN
         /\ r \in Seq(Seq(Tokens)) /\ Len(b[i].ids) <= Len(r)
         /\ Holds(r, Embeds(b[i]), Len(b[i].ids))
<1> DEFINE ids == IdsOf(b, "right")
           masks == MasksOf(b, "right")
           m == masks[i]
           embeds == Merged(ids, AudioOf(b))
           e == embeds[i]
           c == Embeds(b[i])
           w == Width(b)
           paged == Normalized(b, "right")
<1>1. /\ DOMAIN b = 1 .. Len(b) /\ Len(b[i].ids) \in Nat /\ Len(b[i].ids) <= w /\ w \in Nat
      /\ c \in Seq(Tokens) /\ Len(c) = Len(b[i].ids)
  BY BatchFacts, WidthIs, EmbedsAre
<1>2. \A k \in 1 .. Len(b) : IsRightPadded(masks[k])
  BY MasksAre, MaskFacts
<1>3. paged.ids = ids /\ paged.masks = masks
  BY <1>1, <1>2 DEF Normalized
<1>4. RightPadded(m, Len(c), w)
  BY <1>1, MasksAre
<1>5. /\ e \in Seq(Tokens) /\ Len(e) = w
      /\ \A j \in 1 .. Len(c) : e[j] = c[j]
  BY <1>1, MergedWhole
<1>6. DOMAIN embeds = 1 .. Len(b)
  <2>1. DOMAIN ids = 1 .. Len(b)
    BY <1>1 DEF IdsOf
  <2>2. QED
    BY <2>1 DEF Merged
<1> DEFINE r == PrefillContexts(paged, embeds)[i]
<1> HIDE DEF ids, masks, m, embeds, e, c, w, paged
<1>7. CASE ~build.packed
  <2>1. r = RowContexts(<<>>, e, RopeIndex(m), Sees(m, 0, w))
    BY <1>3, <1>5, <1>6, <1>7 DEF PrefillContexts, e, m
  <2>2. r \in Seq(Seq(Tokens)) /\ Len(r) = w /\ Holds(r, c, Len(c))
    BY <1>1, <1>4, <1>5, <2>1, PromptFilled
  <2>3. QED
    BY <1>1, <1>3, <2>2 DEF c, embeds, paged
<1>8. CASE build.packed
  <2>1. build.varlen
    BY <1>8 DEF RowsApart
  <2>2. r = RowContexts(<<>>, Valid(e, m), Valid(RopeIndex(m), m),
                        CausalMask(Ones(PromptLen(m)), 0, PromptLen(m)))
    BY <1>3, <1>6, <1>8, <2>1 DEF PrefillContexts, PackedContexts, PackedApart, e, m
  <2>3. r \in Seq(Seq(Tokens)) /\ Len(r) = Len(c) /\ Holds(r, c, Len(c))
    BY <1>1, <1>4, <1>5, <2>2, PackedFilled
  <2>4. QED
    BY <1>1, <1>3, <2>3 DEF c, embeds, paged
<1>9. QED
  BY <1>7, <1>8

--------------------------------------------------------------------------------
\* The pool as the cache of the rows.

\* A request that has the blocks for its tokens has a slot for each.
LEMMA BlocksCover ==
  ASSUME NEW m, Partitioned(m), NEW r \in RequestIds, NEW t \in Nat \ {0},
         Held(m, r) >= BlocksFor(t)
  PROVE  /\ r \in DOMAIN m.table
         /\ \A p \in 0 .. t - 1 : p \in Covered(m, r)
<1>1. Held(m, r) \in Nat
  BY BlocksOfType DEF Partitioned
<1>2. BlocksFor(t) \in Nat \ {0}
  <2>1. BlocksFor(t) > 0
    BY BlocksForGrows
  <2>2. BlocksFor(t) \in Nat
    BY BlocksForType
  <2>3. QED
    BY <2>1, <2>2
<1>3. t <= BlocksFor(t) * BlockSize
  <2> DEFINE k == (t + BlockSize - 1) \div BlockSize
             q == (t + BlockSize - 1) % BlockSize
  <2>1. t + BlockSize - 1 \in Nat /\ BlockSize \in Nat \ {0}
    BY PoolAssumption
  <2>2. k \in Nat /\ q \in 0 .. BlockSize - 1 /\ t + BlockSize - 1 = k * BlockSize + q
    BY <2>1, DivMod
  <2>3. BlocksFor(t) = k
    BY DEF BlocksFor
  <2> HIDE DEF k, q
  <2>4. k * BlockSize \in Nat
    BY <2>1, <2>2
  <2>5. t <= k * BlockSize
    BY <2>1, <2>2, <2>4
  <2>6. QED
    BY <2>3, <2>5
<1>4. BlocksFor(t) * BlockSize <= Held(m, r) * BlockSize
  <2>1. \A a, b \in Nat : a <= b => a * BlockSize <= b * BlockSize
    BY PoolAssumption
  <2>2. QED
    BY <1>1, <1>2, <2>1
<1>5. BlocksFor(t) * BlockSize \in Nat /\ Held(m, r) * BlockSize \in Nat
  BY <1>1, <1>2, PoolAssumption
<1>6. \A p \in 0 .. t - 1 : p \in Covered(m, r)
  BY <1>3, <1>4, <1>5 DEF Covered
<1>7. r \in DOMAIN m.table
  <2>1. ASSUME r \notin DOMAIN m.table PROVE FALSE
    <3>1. Held(m, r) = 0
      BY <2>1, EmptySeq DEF Held, BlocksOf
    <3>2. QED
      BY <1>2, <3>1
  <2>2. QED
    BY <2>1
<1>8. QED
  BY <1>6, <1>7

\* A request whose slots hold the contexts of the first k tokens of c.
Stored(m, slots, r, c, k) ==
  /\ r \in DOMAIN m.table
  /\ \A j \in 1 .. k : /\ j - 1 \in Covered(m, r)
                       /\ slots[SlotOf(m, r, j - 1)] = SubSeq(c, 1, j)

\* It keeps them while its table only grows or is left alone.
LEMMA StoredKept ==
  ASSUME NEW m, NEW n, Partitioned(m), Partitioned(n), SameEntries(m, n),
         NEW slots, NEW r \in RequestIds, NEW c, NEW k,
         Stored(m, slots, r, c, k),
         r \in DOMAIN n.table, Held(n, r) >= Held(m, r)
  PROVE  Stored(n, slots, r, c, k)
<1>1. Held(m, r) \in Nat /\ Held(n, r) \in Nat
  BY BlocksOfType DEF Partitioned
<1>2. Held(m, r) * BlockSize <= Held(n, r) * BlockSize
      /\ Held(m, r) * BlockSize \in Nat /\ Held(n, r) * BlockSize \in Nat
  <2>1. \A a, b \in Nat : a <= b => a * BlockSize <= b * BlockSize /\ a * BlockSize \in Nat /\ b * BlockSize \in Nat
    BY PoolAssumption
  <2>2. QED
    BY <1>1, <2>1
<1>3. \A p : p \in Covered(m, r) => p \in Covered(n, r)
  BY <1>2 DEF Covered
<1>4. r \in DOMAIN m.table /\ r \in DOMAIN m.table \cap DOMAIN n.table
  BY DEF Stored
<1>5. ASSUME NEW j \in 1 .. k
      PROVE  j - 1 \in Covered(n, r) /\ slots[SlotOf(n, r, j - 1)] = SubSeq(c, 1, j)
  <2>1. j - 1 \in Covered(m, r) /\ slots[SlotOf(m, r, j - 1)] = SubSeq(c, 1, j)
    BY Zenon DEF Stored
  <2>2. PICK p : p = j - 1
    OBVIOUS
  <2>3. p \in Covered(m, r) \cap Covered(n, r)
    BY <1>3, <2>1, <2>2
  <2>4. SlotOf(m, r, p) = SlotOf(n, r, p)
    BY <1>4, <2>3, SlotKept
  <2>5. QED
    BY <2>1, <2>2, <2>3, <2>4
<1>6. QED
  BY <1>5 DEF Stored

\* The places of a prompt batch.
Prompted(m, len, n) ==
  /\ len \in [1 .. n -> Nat]
  /\ \A i \in 1 .. n : /\ Id(i) \in DOMAIN m.table
                       /\ \A j \in 1 .. len[i] : j - 1 \in Covered(m, Id(i))

\* A prefill writes the contexts of every row to the slots of its blocks.
LEMMA WrittenHolds ==
  ASSUME NEW m, Partitioned(m), NEW n \in Nat, NEW len, Prompted(m, len, n), NEW contexts
  PROVE  /\ DOMAIN Written(m, len, contexts) = KvSlots
         /\ \A i \in 1 .. n : \A j \in 1 .. len[i] :
              /\ SlotOf(m, Id(i), j - 1) \in KvSlots
              /\ Written(m, len, contexts)[SlotOf(m, Id(i), j - 1)] = contexts[i][j]
         /\ /\ pool \in [KvSlots -> Seq(Tokens)]
            /\ \A i \in 1 .. n : \A j \in 1 .. len[i] : contexts[i][j] \in Seq(Tokens)
            => Written(m, len, contexts) \in [KvSlots -> Seq(Tokens)]
<1> DEFINE P == UNION {{i} \X (1 .. len[i]) : i \in DOMAIN len}
           at(slot) == {p \in P : SlotOf(m, Id(p[1]), p[2] - 1) = slot}
           kept(slot, places) ==
             IF places = {} THEN pool[slot]
             ELSE LET p == CHOOSE q \in places : TRUE IN contexts[p[1]][p[2]]
<1>1. Written(m, len, contexts) = [slot \in KvSlots |-> kept(slot, at(slot))]
  BY Zenon DEF Written
<1>2. /\ len \in [1 .. n -> Nat]
      /\ \A i \in 1 .. n : /\ Id(i) \in DOMAIN m.table
                           /\ \A j \in 1 .. len[i] : j - 1 \in Covered(m, Id(i))
  BY DEF Prompted
<1>3. /\ \A i \in 1 .. n : \A j \in 1 .. len[i] : <<i, j>> \in P
      /\ \A p \in P : p[1] \in 1 .. n /\ p[2] \in 1 .. len[p[1]] /\ p = <<p[1], p[2]>>
  BY <1>2
<1> HIDE DEF P
<1>4. ASSUME NEW i \in 1 .. n, NEW j \in 1 .. len[i]
      PROVE  /\ SlotOf(m, Id(i), j - 1) \in KvSlots
             /\ at(SlotOf(m, Id(i), j - 1)) = {<<i, j>>}
  <2>1. PICK r : r = Id(i)
    OBVIOUS
  <2>2. PICK p : p = j - 1
    OBVIOUS
  <2>3. r \in DOMAIN m.table /\ p \in Covered(m, r)
    BY <1>2, <2>1, <2>2
  <2>4. SlotOf(m, r, p) \in KvSlots
    BY <2>3, SlotsApart
  <2>5. ASSUME NEW q \in P, SlotOf(m, Id(q[1]), q[2] - 1) = SlotOf(m, r, p) PROVE q = <<i, j>>
    <3>1. q[1] \in 1 .. n /\ q[2] \in 1 .. len[q[1]] /\ q = <<q[1], q[2]>>
      BY <1>3
    <3>2. PICK s : s = Id(q[1])
      OBVIOUS
    <3>3. PICK o : o = q[2] - 1
      OBVIOUS
    <3>4. s \in DOMAIN m.table /\ o \in Covered(m, s)
      BY <1>2, <3>1, <3>2, <3>3
    <3>5. s = r /\ o = p
      BY <2>3, <2>5, <3>2, <3>3, <3>4, SlotsApart
    <3>6. q[1] = i
      BY <2>1, <3>1, <3>2, <3>5 DEF Id
    <3>7. len[i] \in Nat /\ q[2] \in Int /\ j \in Int
      BY <1>2, <3>1, <3>6
    <3>8. q[2] = j
      BY <2>2, <3>3, <3>5, <3>7
    <3>9. QED
      BY <3>1, <3>6, <3>8
  <2>6. <<i, j>> \in P /\ <<i, j>>[1] = i /\ <<i, j>>[2] = j
    BY <1>3
  <2>7. <<i, j>> \in at(SlotOf(m, r, p))
    BY <2>1, <2>2, <2>6
  <2>8. at(SlotOf(m, r, p)) = {<<i, j>>}
    BY <2>5, <2>7
  <2>9. QED
    BY <2>1, <2>2, <2>4, <2>8
<1>5. ASSUME NEW i \in 1 .. n, NEW j \in 1 .. len[i]
      PROVE  Written(m, len, contexts)[SlotOf(m, Id(i), j - 1)] = contexts[i][j]
  <2> DEFINE slot == SlotOf(m, Id(i), j - 1)
  <2>1. slot \in KvSlots /\ at(slot) = {<<i, j>>}
    BY <1>4
  <2> HIDE DEF at, slot
  <2>2. Written(m, len, contexts)[slot] = kept(slot, {<<i, j>>})
    BY <1>1, <2>1
  <2>3. (CHOOSE q \in {<<i, j>>} : TRUE) = <<i, j>>
    OBVIOUS
  <2>4. {<<i, j>>} # {} /\ <<i, j>>[1] = i /\ <<i, j>>[2] = j
    OBVIOUS
  <2>5. kept(slot, {<<i, j>>}) = contexts[i][j]
    BY <2>3, <2>4
  <2>6. QED
    BY <2>2, <2>5 DEF slot
<1>6. ASSUME pool \in [KvSlots -> Seq(Tokens)],
             \A i \in 1 .. n : \A j \in 1 .. len[i] : contexts[i][j] \in Seq(Tokens)
      PROVE  Written(m, len, contexts) \in [KvSlots -> Seq(Tokens)]
  <2>1. ASSUME NEW slot \in KvSlots PROVE kept(slot, at(slot)) \in Seq(Tokens)
    <3>1. CASE at(slot) = {}
      BY <1>6, <3>1
    <3>2. CASE at(slot) # {}
      <4> DEFINE q == CHOOSE q \in at(slot) : TRUE
      <4>1. q \in at(slot)
        BY <3>2
      <4>2. q \in P
        BY <4>1
      <4> HIDE DEF q
      <4>3. q[1] \in 1 .. n /\ q[2] \in 1 .. len[q[1]]
        BY <1>3, <4>2
      <4>4. contexts[q[1]][q[2]] \in Seq(Tokens)
        BY <1>6, <4>3
      <4>5. kept(slot, at(slot)) = contexts[q[1]][q[2]]
        BY <3>2 DEF q
      <4>6. QED
        BY <4>4, <4>5
    <3>3. QED
      BY <3>1, <3>2
  <2> HIDE DEF kept, at
  <2>2. QED
    BY <1>1, <2>1
<1>7. DOMAIN Written(m, len, contexts) = KvSlots
  BY <1>1
<1>8. QED
  BY <1>4, <1>5, <1>6, <1>7

--------------------------------------------------------------------------------
\* The paged engine.

PoolOk == pool \in [KvSlots -> Seq(Tokens)]

\* A row has what it said, and while it goes on its context in its slots.
StaticRow(i) ==
  /\ Speaks(batch[i], out[i], next[i], finished[i], step)
  /\ finished[i] = FALSE => Stored(mgr, pool, Id(i), Context(i), Length(i) + step)

StaticInv == \A i \in 1 .. Len(batch) : StaticRow(i)

\* A paged prefill stores every prompt, and says every row's first token.
LEMMA Prefilled ==
  ASSUME NeverAudio, RowsApart, build \in Builds, PoolOk, NEW b \in Batches,
         NEW m, Partitioned(m), NEW got, got = AllocateRows(m, DOMAIN b, PromptLens(b)),
         got.ok, Prefill(b, "right", got.mgr)
  PROVE  /\ Partitioned(got.mgr) /\ PoolOk'
         /\ DOMAIN next' = 1 .. Len(b)
         /\ \A i \in 1 .. Len(b) :
              /\ Stored(got.mgr, pool', Id(i), Embeds(b[i]), Len(b[i].ids))
              /\ next'[i] = NextToken(Embeds(b[i])) /\ next'[i] \in Tokens
              /\ finished'[i] = (next'[i] \in EosIds)
<1> DEFINE n == Len(b)
           len == PromptLens(b)
           g == got.mgr
           paged == Normalized(b, "right")
           contexts == PrefillContexts(paged, Merged(paged.ids, AudioOf(b)))
<1>1. /\ n \in Nat /\ DOMAIN b = 1 .. n /\ len \in [1 .. n -> Nat \ {0}] /\ len \in [1 .. n -> Nat]
      /\ \A i \in 1 .. n : Id(i) \in RequestIds /\ len[i] = Len(b[i].ids)
  BY BatchFacts DEF PromptLens
<1>2. /\ pool' = Written(g, len, contexts)
      /\ Begin([i \in DOMAIN b |-> Argmax(pool'[SlotOf(g, Id(i), Len(b[i].ids) - 1)])])
  BY Zenon DEF Prefill
<1> HIDE DEF n, len, paged, contexts
<1>3. Allocated(m, got, 1 .. n, n, len)
  <2>1. got = AllocateRows(m, 1 .. n, len)
    BY <1>1 DEF len
  <2>2. QED
    BY <1>1, <2>1, AllocateRowsKeep
<1>4. Partitioned(g) /\ \A i \in 1 .. n : Held(g, Id(i)) >= BlocksFor(len[i])
  BY <1>3 DEF Allocated
<1> HIDE DEF g
<1>5. ASSUME NEW i \in 1 .. n
      PROVE  /\ Id(i) \in DOMAIN g.table
             /\ \A j \in 1 .. len[i] : j - 1 \in Covered(g, Id(i))
  <2>1. len[i] \in Nat \ {0} /\ Id(i) \in RequestIds
    BY <1>1
  <2>2. /\ Id(i) \in DOMAIN g.table
        /\ \A p \in 0 .. len[i] - 1 : p \in Covered(g, Id(i))
    BY <1>4, <2>1, BlocksCover
  <2>3. \A j \in 1 .. len[i] : j - 1 \in 0 .. len[i] - 1
    BY <2>1
  <2>4. QED
    BY <2>2, <2>3
<1>6. Prompted(g, len, n)
  BY <1>1, <1>5, Zenon DEF Prompted
<1>7. ASSUME NEW i \in 1 .. n
      PROVE  \A j \in 1 .. len[i] : contexts[i][j] = SubSeq(Embeds(b[i]), 1, j)
                                    /\ contexts[i][j] \in Seq(Tokens)
  <2>1. /\ contexts[i] \in Seq(Seq(Tokens)) /\ len[i] <= Len(contexts[i])
        /\ Holds(contexts[i], Embeds(b[i]), len[i])
    BY <1>1, PrefillHolds DEF contexts, paged, n
  <2>2. len[i] \in Nat
    BY <1>1
  <2>3. \A j \in 1 .. len[i] : j \in 1 .. Len(contexts[i])
    BY <2>1, <2>2
  <2>4. QED
    BY <2>1, <2>3 DEF Holds
<1>8. /\ \A i \in 1 .. n : \A j \in 1 .. len[i] :
           Written(g, len, contexts)[SlotOf(g, Id(i), j - 1)] = contexts[i][j]
      /\ /\ pool \in [KvSlots -> Seq(Tokens)]
         /\ \A i \in 1 .. n : \A j \in 1 .. len[i] : contexts[i][j] \in Seq(Tokens)
         => Written(g, len, contexts) \in [KvSlots -> Seq(Tokens)]
  BY <1>1, <1>4, <1>6, WrittenHolds
<1>9. PoolOk'
  BY <1>2, <1>7, <1>8 DEF PoolOk
<1>10. \A i \in 1 .. n : \A j \in 1 .. len[i] :
         pool'[SlotOf(g, Id(i), j - 1)] = SubSeq(Embeds(b[i]), 1, j)
  BY <1>2, <1>7, <1>8
<1>11. ASSUME NEW i \in 1 .. n PROVE Stored(g, pool', Id(i), Embeds(b[i]), len[i])
  BY <1>5, <1>10 DEF Stored
<1>12. /\ next' = [i \in 1 .. n |-> Argmax(pool'[SlotOf(g, Id(i), len[i] - 1)])]
       /\ finished' = [i \in DOMAIN next' |-> next'[i] \in EosIds]
  <2>1. next' = [i \in 1 .. n |-> Argmax(pool'[SlotOf(g, Id(i), Len(b[i].ids) - 1)])]
    BY <1>1, <1>2 DEF Begin
  <2>2. finished' = [i \in DOMAIN next' |-> next'[i] \in EosIds]
    BY <1>2 DEF Begin
  <2>3. QED
    BY <1>1, <2>1, <2>2
<1>13. ASSUME NEW i \in 1 .. n
       PROVE  /\ next'[i] = NextToken(Embeds(b[i])) /\ next'[i] \in Tokens
              /\ finished'[i] = (next'[i] \in EosIds)
  <2> DEFINE c == Embeds(b[i])
             l == len[i]
  <2>1. c \in Seq(Tokens) /\ Len(c) = l /\ l \in Nat \ {0} /\ l \in 1 .. l
    BY <1>1, EmbedsAre DEF n
  <2>2. pool'[SlotOf(g, Id(i), l - 1)] = SubSeq(c, 1, l)
    BY <1>10, <2>1
  <2>3. next'[i] = Argmax(pool'[SlotOf(g, Id(i), l - 1)]) /\ finished'[i] = (next'[i] \in EosIds)
    BY <1>12
  <2> HIDE DEF c, l
  <2>4. SubSeq(c, 1, l) = c /\ Len(c) # 0
    BY <2>1, PrefixFacts
  <2>5. next'[i] = NextToken(c) /\ next'[i] \in Tokens
    BY <2>1, <2>2, <2>3, <2>4, ArgmaxIs
  <2>6. QED
    BY <2>3, <2>5 DEF c
<1>14. QED
  BY <1>1, <1>4, <1>9, <1>11, <1>12, <1>13 DEF g, n

\* A trim of other rows leaves a row what it has.
LEMMA TrimStored ==
  ASSUME NEW b \in Batches, NEW m, Partitioned(m), NEW rows, NEW tokens \in [1 .. Len(b) -> Nat],
         rows \subseteq 1 .. Len(b),
         NEW i \in 1 .. Len(b), i \notin rows
  PROVE  LET t == TrimRows(m, rows, tokens) IN
         /\ Partitioned(t) /\ DOMAIN t.table = DOMAIN m.table
         /\ \A slots, c, k : Stored(m, slots, Id(i), c, k) => Stored(t, slots, Id(i), c, k)
         /\ \A p : p \in Covered(m, Id(i)) => p \in Covered(t, Id(i))
<1> DEFINE t == TrimRows(m, rows, tokens)
<1>1. Len(b) \in Nat /\ \A k \in 1 .. Len(b) : Id(k) \in RequestIds
  BY BatchFacts
<1>2. Trimmed(m, t, rows, Len(b))
  BY <1>1, TrimRowsKeep
<1> HIDE DEF t
<1>3. /\ Partitioned(t) /\ SameEntries(m, t) /\ DOMAIN t.table = DOMAIN m.table
      /\ \A r \in RequestIds : r \notin {Id(k) : k \in rows} => Held(t, r) = Held(m, r)
  BY <1>2 DEF Trimmed
<1>4. Id(i) \notin {Id(k) : k \in rows}
  BY DEF Id
<1>5. Held(t, Id(i)) = Held(m, Id(i)) /\ Held(m, Id(i)) \in Nat
  BY <1>1, <1>3, <1>4, BlocksOfType DEF Partitioned
<1>6. ASSUME NEW slots, NEW c, NEW k, Stored(m, slots, Id(i), c, k)
      PROVE  Stored(t, slots, Id(i), c, k)
  <2>1. Id(i) \in DOMAIN t.table /\ Id(i) \in RequestIds /\ Held(t, Id(i)) >= Held(m, Id(i))
    BY <1>1, <1>3, <1>5, <1>6 DEF Stored
  <2>2. QED
    BY <1>3, <1>6, <2>1, StoredKept
<1>7. \A p : p \in Covered(m, Id(i)) => p \in Covered(t, Id(i))
  BY <1>5 DEF Covered
<1>8. QED
  BY <1>3, <1>6, <1>7 DEF t

\* paged_batch_run prefills its prompts, or fails.
LEMMA StartsStatic ==
  ASSUME NeverAudio, RowsApart, build \in Builds, PoolOk, Partitioned(mgr),
         NEW b \in Batches, NEW max \in Limits, StartStatic(b, "right", max)
  PROVE  /\ Calling' /\ PoolOk'
         /\ \/ pc' = "static" /\ StaticInv'
            \/ pc' = "idle" /\ result' = "failed"
<1> DEFINE m == FreeRows(mgr, b)
<1>1. Call(b, "right", max)
  BY DEF StartStatic
<1>2. PICK got : /\ got = AllocateRows(m, DOMAIN b, PromptLens(b))
                 /\ \/ /\ got.ok /\ Enter("static") /\ Prefill(b, "right", got.mgr)
                       /\ mgr' = TrimEnded(b, got.mgr, next')
                    \/ Fail(b) /\ UNCHANGED pool
  BY Zenon DEF StartStatic
<1>3. /\ Calling' /\ batch' = b /\ step' = 0
      /\ \A i \in 1 .. Len(b) : out'[i] = <<>>
  BY <1>1, CallStarts
<1>4. /\ DOMAIN b = 1 .. Len(b) /\ Len(b) \in Nat
      /\ PromptLens(b) \in [1 .. Len(b) -> Nat]
      /\ \A i \in 1 .. Len(b) : Id(i) \in RequestIds /\ Len(b[i].ids) \in Nat
  BY BatchFacts
<1>5. Partitioned(m)
  BY <1>4, FreeRowsKeep
<1> HIDE DEF m
<1>6. CASE Fail(b) /\ UNCHANGED pool
  <2>1. pc' = "idle" /\ result' = "failed" /\ PoolOk'
    BY <1>6 DEF Fail, PoolOk
  <2>2. QED
    BY <1>3, <2>1
<1>7. CASE /\ got.ok /\ Enter("static") /\ Prefill(b, "right", got.mgr)
           /\ mgr' = TrimEnded(b, got.mgr, next')
  <2>1. /\ Partitioned(got.mgr) /\ PoolOk'
        /\ \A i \in 1 .. Len(b) :
             /\ Stored(got.mgr, pool', Id(i), Embeds(b[i]), Len(b[i].ids))
             /\ next'[i] = NextToken(Embeds(b[i])) /\ next'[i] \in Tokens
             /\ finished'[i] = (next'[i] \in EosIds)
    BY <1>2, <1>5, <1>7, Prefilled
  <2>2. pc' = "static"
    BY <1>7 DEF Enter
  <2>3. ASSUME NEW i \in 1 .. Len(b) PROVE StaticRow(i)'
    <3> DEFINE c == Embeds(b[i])
               n == Len(b[i].ids)
               token == NextToken(c)
               rows == {k \in DOMAIN b : next'[k] \in EosIds}
    <3>1. c \in Seq(Tokens)
      BY EmbedsAre
    <3>2. /\ c \o <<>> = c
          /\ Speaks(b[i], <<>>, token, token \in EosIds, 0)
      BY <3>1, SpeaksNothing, SpeaksFirst
    <3>3. /\ next'[i] = token /\ finished'[i] = (token \in EosIds)
          /\ Stored(got.mgr, pool', Id(i), c, n)
      BY <2>1
    <3>11. out'[i] = <<>> /\ batch'[i] = b[i] /\ n \in Nat
      BY <1>3, <1>4
    <3>12. Context(i)' = c
      BY <3>2, <3>11 DEF Context
    <3>13. Length(i)' = n
      BY <3>11 DEF Length
    <3>14. n + 0 = n
      BY <3>11
    <3>4. Context(i)' = c /\ Length(i)' = n /\ n + 0 = n
      BY <3>12, <3>13, <3>14
    <3> HIDE DEF c, n, token
    <3>5. Speaks(batch'[i], out'[i], next'[i], finished'[i], step')
      BY <1>3, <3>2, <3>3, Zenon
    <3>6. ASSUME finished'[i] = FALSE PROVE Stored(mgr', pool', Id(i), c, n)
      <4>1. i \notin rows /\ rows \subseteq 1 .. Len(b)
        BY <1>4, <3>3, <3>6
      <4>2. mgr' = TrimRows(got.mgr, rows, PromptLens(b))
        BY <1>7 DEF TrimEnded
      <4> HIDE DEF rows
      <4>3. \A slots, q, k : Stored(got.mgr, slots, Id(i), q, k) => Stored(mgr', slots, Id(i), q, k)
        BY <1>4, <2>1, <4>1, <4>2, TrimStored
      <4>4. QED
        BY <3>3, <4>3
    <3>7. (finished'[i] = FALSE) => Stored(mgr', pool', Id(i), Context(i)', Length(i)' + step')
      BY <1>3, <3>4, <3>6
    <3>8. StaticRow(i)' = (/\ Speaks(batch'[i], out'[i], next'[i], finished'[i], step')
                           /\ finished'[i] = FALSE => Stored(mgr, pool, Id(i), Context(i), Length(i) + step)')
      BY DEF StaticRow
    <3>9. Stored(mgr, pool, Id(i), Context(i), Length(i) + step)'
            = Stored(mgr', pool', Id(i), Context(i)', Length(i)' + step')
      BY DEF Stored, Id, Covered, Held, BlocksOf, SlotOf
    <3>10. QED
      BY <3>5, <3>7, <3>8, <3>9
  <2>4. StaticInv'
    BY <1>3, <2>3 DEF StaticInv
  <2>5. QED
    BY <1>3, <2>1, <2>2, <2>4
<1>8. QED
  BY <1>2, <1>6, <1>7

\* The hybrid path copies the prompts into the cache of a batch, or fails.
LEMMA StartsHybrid ==
  ASSUME NeverAudio, RowsApart, build \in Builds, PoolOk, Partitioned(mgr),
         NEW b \in Batches, NEW max \in Limits, StartHybrid(b, "right", max)
  PROVE  /\ Calling' /\ PoolOk'
         /\ \/ pc' = "batch" /\ BatchInv'
            \/ pc' = "idle" /\ result' = "failed"
<1>1. Call(b, "right", max)
  BY DEF StartHybrid
<1>2. PICK got : /\ got = AllocateRows(mgr, DOMAIN b, PromptLens(b))
                 /\ \/ /\ got.ok /\ Enter("batch") /\ Prefill(b, "right", got.mgr)
                       /\ kv' = Rebuilt(b, got.mgr, pool')
                       /\ mask' = MasksOf(b, "right") /\ dense' = FALSE
                    \/ Fail(b) /\ UNCHANGED pool
  BY Zenon DEF StartHybrid
<1>3. Calling'
  BY <1>1, CallStarts
<1>4. /\ DOMAIN b = 1 .. Len(b) /\ Width(b) \in Nat
      /\ \A i \in 1 .. Len(b) : Len(b[i].ids) \in Nat /\ Len(b[i].ids) <= Width(b)
  BY BatchFacts, WidthIs
<1>5. CASE Fail(b) /\ UNCHANGED pool
  <2>1. pc' = "idle" /\ result' = "failed" /\ PoolOk'
    BY <1>5 DEF Fail, PoolOk
  <2>2. QED
    BY <1>3, <2>1
<1>6. CASE /\ got.ok /\ Enter("batch") /\ Prefill(b, "right", got.mgr)
           /\ kv' = Rebuilt(b, got.mgr, pool')
           /\ mask' = MasksOf(b, "right") /\ dense' = FALSE
  <2>1. /\ PoolOk'
        /\ \A i \in 1 .. Len(b) :
             /\ Stored(got.mgr, pool', Id(i), Embeds(b[i]), Len(b[i].ids))
             /\ next'[i] = NextToken(Embeds(b[i])) /\ next'[i] \in Tokens
             /\ finished'[i] = (next'[i] \in EosIds)
    BY <1>2, <1>6, Prefilled
  <2>2. pc' = "batch"
    BY <1>6 DEF Enter
  <2>3. ASSUME NEW i \in 1 .. Len(b)
        PROVE  /\ kv'[i] \in Seq(Seq(Tokens)) /\ Len(kv'[i]) = Width(b)
               /\ Holds(kv'[i], Embeds(b[i]), Len(b[i].ids))
    <3> DEFINE n == Len(b[i].ids)
               w == Width(b)
               c == Embeds(b[i])
               x(j) == IF j <= n THEN pool'[SlotOf(got.mgr, Id(i), j - 1)] ELSE Wrong
    <3>1. kv'[i] = [j \in 1 .. w |-> x(j)]
      BY <1>4, <1>6 DEF Rebuilt
    <3>2. c \in Seq(Tokens) /\ Len(c) = n
      BY EmbedsAre
    <3>3. n \in Nat /\ w \in Nat /\ n <= w
      BY <1>4
    <3>4. \A j \in 1 .. n : pool'[SlotOf(got.mgr, Id(i), j - 1)] = SubSeq(c, 1, j)
      BY <2>1, Zenon DEF Stored
    <3> HIDE DEF n, w, c
    <3>11. \A j \in 1 .. n : j <= n /\ j \in 1 .. w
      BY <3>3
    <3>12. \A j \in 1 .. n : x(j) = pool'[SlotOf(got.mgr, Id(i), j - 1)]
      BY <3>11
    <3>5. \A j \in 1 .. n : x(j) = SubSeq(c, 1, j) /\ j \in 1 .. w
      BY <3>4, <3>11, <3>12
    <3>6. \A j \in 1 .. n : SubSeq(c, 1, j) \in Seq(Tokens)
      BY <3>2, <3>3, PrefixFacts
    <3>7. ASSUME NEW j \in 1 .. w PROVE x(j) \in Seq(Tokens)
      <4>1. CASE j <= n
        <5>1. j \in 1 .. n
          BY <3>3, <4>1
        <5>2. QED
          BY <3>5, <3>6, <5>1
      <4>2. CASE ~(j <= n)
        BY <4>2 DEF Wrong
      <4>3. QED
        BY <4>1, <4>2
    <3> HIDE DEF x
    <3>8. kv'[i] \in Seq(Seq(Tokens)) /\ Len(kv'[i]) = w
      BY <3>1, <3>3, <3>7
    <3>9. Holds(kv'[i], c, n)
      BY <3>1, <3>5 DEF Holds
    <3>10. QED
      BY <3>8, <3>9 DEF n, w, c
  <2>4. dense' \in BOOLEAN /\ dense' # TRUE /\ mask' = MasksOf(b, "right")
    BY <1>6
  <2>5. BatchInv'
    BY <1>1, <2>1, <2>3, <2>4, BatchBegins
  <2>6. QED
    BY <1>3, <2>1, <2>2, <2>5
<1>7. QED
  BY <1>2, <1>5, <1>6

--------------------------------------------------------------------------------
\* A step of the paged engine.

\* A context that took one token more.
LEMMA LongerContext ==
  ASSUME NeverAudio, NEW c \in Seq(Tokens), NEW x \in Tokens
  PROVE  LET d == Append(c, x) IN
         /\ d \in Seq(Tokens) /\ Len(d) = Len(c) + 1
         /\ \A k \in 1 .. Len(c) : SubSeq(d, 1, k) = SubSeq(c, 1, k)
         /\ SubSeq(d, 1, Len(c) + 1) = d
         /\ Argmax(d) = NextToken(d)
<1> DEFINE d == Append(c, x)
           n == Len(c)
<1>1. /\ d \in Seq(Tokens) /\ Len(d) = n + 1 /\ n \in Nat
      /\ \A k \in 1 .. n : d[k] = c[k]
  OBVIOUS
<1> HIDE DEF d, n
<1>2. ASSUME NEW k \in 1 .. n PROVE SubSeq(d, 1, k) = SubSeq(c, 1, k)
  <2>1. k \in 0 .. Len(d) /\ k \in 0 .. Len(c)
    BY <1>1 DEF n
  <2>2. /\ SubSeq(d, 1, k) \in Seq(Tokens) /\ Len(SubSeq(d, 1, k)) = k
        /\ SubSeq(c, 1, k) \in Seq(Tokens) /\ Len(SubSeq(c, 1, k)) = k
        /\ \A i \in 1 .. k : SubSeq(d, 1, k)[i] = d[i] /\ SubSeq(c, 1, k)[i] = c[i]
    BY <1>1, <2>1, PrefixFacts
  <2>3. \A i \in 1 .. k : SubSeq(d, 1, k)[i] = SubSeq(c, 1, k)[i]
    BY <1>1, <2>2
  <2>4. QED
    BY <2>2, <2>3
<1>3. SubSeq(d, 1, n + 1) = d
  BY <1>1, PrefixFacts
<1>4. Argmax(d) = NextToken(d)
  BY <1>1, ArgmaxIs
<1>5. QED
  BY <1>1, <1>2, <1>3, <1>4 DEF d, n

HeldReady(held, c, x, n, s) ==
  /\ held \in Seq(Seq(Tokens)) /\ c \in Seq(Tokens) /\ x \in Tokens
  /\ n \in Nat \ {0} /\ s \in Nat /\ Len(c) = n + s /\ Len(held) = n + s
  /\ Holds(held, c, n + s)

HeldMore(held, c, x, n, s) ==
  Last(RowContexts(held, <<x>>, <<n + s>>, <<1 .. n + s + 1>>)) = Append(c, x)

\* The pass of a row that has its whole context behind it.
LEMMA HeldNext ==
  ASSUME NEW held, NEW c, NEW x, NEW n, NEW s, HeldReady(held, c, x, n, s)
  PROVE  HeldMore(held, c, x, n, s)
<1> DEFINE sees == <<1 .. n + s + 1>>
<1> USE DEF HeldReady
<1>1. sees[1] = Places(n, n, s + 1)
  <2>1. sees[1] = 1 .. n + s + 1
    OBVIOUS
  <2>2. QED
    BY <2>1 DEF Places
<1> HIDE DEF sees
<1>2. Gapped(held, c, n, n, s)
  BY HoldsIsGapped
<1>3. PICK at : at = n + s
  OBVIOUS
<1>4. NextReady(held, c, x, n, n, s, at, sees)
  <2>1. n \in Nat /\ n <= n
    OBVIOUS
  <2>2. QED
    BY <1>1, <1>2, <1>3, <2>1, Zenon DEF NextReady
<1>5. NextHolds(RowContexts(held, <<x>>, <<at>>, sees), c, x, n, n, s)
  BY <1>4, NextContext, Zenon
<1>6. QED
  BY <1>3, <1>5, Zenon DEF NextHolds, HeldMore, sees

\* The context of a row that goes on, once it has its next token.
Longer(i) == Append(Context(i), next[i])

\* A row that goes on, with a slot for its next token.
Ready(m, i) ==
  /\ Context(i) \in Seq(Tokens) /\ next[i] \in Tokens
  /\ Length(i) \in Nat \ {0} /\ Len(Context(i)) = Length(i) + step
  /\ Stored(m, pool, Id(i), Context(i), Length(i) + step)
  /\ Length(i) + step \in Covered(m, Id(i))

Going == {i \in 1 .. Len(batch) : ~Ends(i)}

\* The slots the rows going on hold, and those they write.
LEMMA OwnSlots ==
  ASSUME step \in Nat, NEW m, Partitioned(m), NEW i \in Going, NEW k \in Going,
         Ready(m, i), Ready(m, k)
  PROVE  /\ SlotOf(m, Id(i), Length(i) + step) \in KvSlots
         /\ SlotOf(m, Id(i), Length(i) + step) = SlotOf(m, Id(k), Length(k) + step) => i = k
         /\ \A j \in 1 .. Length(i) + step :
              /\ SlotOf(m, Id(i), j - 1) \in KvSlots
              /\ SlotOf(m, Id(i), j - 1) # SlotOf(m, Id(k), Length(k) + step)
<1>1. PICK r : r = Id(i)
  OBVIOUS
<1>2. PICK q : q = Id(k)
  OBVIOUS
<1>3. PICK a : a = Length(i) + step
  OBVIOUS
<1>4. PICK z : z = Length(k) + step
  OBVIOUS
<1>5. i \in Int /\ k \in Int /\ (r = q => i = k)
  BY <1>1, <1>2 DEF Going, Id
<1>6. /\ r \in DOMAIN m.table /\ q \in DOMAIN m.table
      /\ a \in Covered(m, r) /\ z \in Covered(m, q)
      /\ \A j \in 1 .. a : j - 1 \in Covered(m, r)
  BY <1>1, <1>2, <1>3, <1>4 DEF Ready, Stored
<1>7. SlotOf(m, r, a) \in KvSlots /\ (SlotOf(m, r, a) = SlotOf(m, q, z) => r = q)
  BY <1>6, SlotsApart
<1>8. a \in Nat /\ (i = k => a = z)
  BY <1>3, <1>4 DEF Ready
<1>9. ASSUME NEW j \in 1 .. a
      PROVE  SlotOf(m, r, j - 1) \in KvSlots /\ SlotOf(m, r, j - 1) # SlotOf(m, q, z)
  <2>1. PICK p : p = j - 1
    OBVIOUS
  <2>2. p \in Covered(m, r)
    BY <1>6, <2>1
  <2>3. SlotOf(m, r, p) \in KvSlots /\ (SlotOf(m, r, p) = SlotOf(m, q, z) => r = q /\ p = z)
    BY <1>6, <2>2, SlotsApart
  <2>4. p # a
    BY <1>8, <2>1
  <2>5. SlotOf(m, r, p) # SlotOf(m, q, z)
    BY <1>5, <1>8, <2>3, <2>4
  <2>6. QED
    BY <2>1, <2>3, <2>5
<1>10. QED
  BY <1>1, <1>2, <1>3, <1>4, <1>5, <1>7, <1>9

\* A pass writes the next context of every row that goes on, and nothing else.
LEMMA ForwardHolds ==
  ASSUME NeverAudio, PoolOk, batch \in Batches, step \in Nat,
         NEW m, Partitioned(m), \A i \in Going : Ready(m, i), StaticForward(m)
  PROVE  /\ PoolOk'
         /\ \A i \in Going :
              /\ Stored(m, pool', Id(i), Longer(i), Length(i) + (step + 1))
              /\ next'[i] = NextToken(Longer(i))
<1> DEFINE own(i)  == SlotOf(m, Id(i), StepPosition(i))
           held(i) == [j \in 1 .. StepPosition(i) |-> pool[SlotOf(m, Id(i), j - 1)]]
           context(i) == Last(RowContexts(held(i), <<Fed(i)>>, <<StepPosition(i)>>,
                                          <<1 .. StepPosition(i) + 1>>))
<1>1. Rows = 1 .. Len(batch) /\ {i \in Rows : ~Ends(i)} = Going
  BY BatchFacts DEF Rows, Going
<1>2. /\ pool' = [slot \in KvSlots |->
                    IF \E i \in Going : own(i) = slot
                    THEN context(CHOOSE i \in Going : own(i) = slot) ELSE pool[slot]]
      /\ next' = [i \in Rows |-> IF i \in Going THEN Argmax(pool'[own(i)]) ELSE next[i]]
  BY <1>1 DEF StaticForward
<1>3. \A i \in Going : own(i) = SlotOf(m, Id(i), Length(i) + step)
  BY DEF StepPosition, Length
<1>4. ASSUME NEW i \in Going
      PROVE  /\ own(i) \in KvSlots
             /\ \A k \in Going : own(i) = own(k) => i = k
             /\ \A j \in 1 .. Length(i) + step :
                  /\ SlotOf(m, Id(i), j - 1) \in KvSlots
                  /\ \A k \in Going : SlotOf(m, Id(i), j - 1) # own(k)
  BY <1>3, OwnSlots
<1>5. ASSUME NEW i \in Going PROVE context(i) = Longer(i)
  <2> DEFINE c == Context(i)
             x == next[i]
             n == Length(i)
  <2>1. /\ c \in Seq(Tokens) /\ x \in Tokens /\ n \in Nat \ {0} /\ Len(c) = n + step
        /\ Stored(m, pool, Id(i), c, n + step)
    BY DEF Ready
  <2>2. StepPosition(i) = n + step /\ Fed(i) = x
    BY DEF StepPosition, Length, Fed, Going
  <2> HIDE DEF c, x, n
  <2>3. n + step \in Nat
    BY <2>1
  <2>4. \A j \in 1 .. n + step : held(i)[j] = SubSeq(c, 1, j)
    BY <2>1, <2>2 DEF Stored
  <2>5. \A j \in 1 .. n + step : SubSeq(c, 1, j) \in Seq(Tokens)
    BY <2>1, PrefixFacts
  <2>6. held(i) \in Seq(Seq(Tokens)) /\ Len(held(i)) = n + step
    <3> DEFINE y(j) == pool[SlotOf(m, Id(i), j - 1)]
    <3>1. held(i) = [j \in 1 .. n + step |-> y(j)]
      BY <2>2
    <3>2. \A j \in 1 .. n + step : y(j) \in Seq(Tokens)
      BY <2>1, <2>5 DEF Stored
    <3> HIDE DEF y, held
    <3>3. QED
      BY <2>3, <3>1, <3>2
  <2>7. Holds(held(i), c, n + step)
    BY <2>4 DEF Holds
  <2>8. PICK h : h = held(i)
    OBVIOUS
  <2> HIDE DEF held
  <2>9. Last(RowContexts(h, <<x>>, <<n + step>>, <<1 .. n + step + 1>>)) = Append(c, x)
    <3>1. HeldReady(h, c, x, n, step)
      BY <2>1, <2>6, <2>7, <2>8, Zenon DEF HeldReady
    <3>2. HeldMore(h, c, x, n, step)
      BY <3>1, HeldNext, Zenon
    <3>3. QED
      BY <3>2, Zenon DEF HeldMore
  <2>10. QED
    BY <2>2, <2>8, <2>9 DEF Longer, c, x
<1>6. ASSUME NEW i \in Going
      PROVE  /\ Longer(i) \in Seq(Tokens) /\ Len(Longer(i)) = Length(i) + (step + 1)
             /\ Length(i) + step \in Nat
             /\ \A k \in 1 .. Length(i) + step : SubSeq(Longer(i), 1, k) = SubSeq(Context(i), 1, k)
             /\ SubSeq(Longer(i), 1, Length(i) + step + 1) = Longer(i)
             /\ Argmax(Longer(i)) = NextToken(Longer(i))
  <2>1. /\ Context(i) \in Seq(Tokens) /\ next[i] \in Tokens /\ Length(i) \in Nat
        /\ Len(Context(i)) = Length(i) + step
    BY DEF Ready
  <2> DEFINE c == Context(i)
             x == next[i]
             n == Length(i)
  <2>2. c \in Seq(Tokens) /\ x \in Tokens /\ n \in Nat /\ Len(c) = n + step /\ Longer(i) = Append(c, x)
    BY <2>1 DEF Longer
  <2> HIDE DEF c, x, n
  <2>3. /\ Append(c, x) \in Seq(Tokens) /\ Len(Append(c, x)) = Len(c) + 1
        /\ \A k \in 1 .. Len(c) : SubSeq(Append(c, x), 1, k) = SubSeq(c, 1, k)
        /\ SubSeq(Append(c, x), 1, Len(c) + 1) = Append(c, x)
        /\ Argmax(Append(c, x)) = NextToken(Append(c, x))
    BY <2>2, LongerContext
  <2>4. n + step + 1 = n + (step + 1) /\ n + step \in Nat
    BY <2>2
  <2>5. QED
    BY <2>2, <2>3, <2>4 DEF c, n
<1> HIDE DEF own, context
<1>7. ASSUME NEW i \in Going PROVE pool'[own(i)] = Longer(i)
  <2>1. (CHOOSE k \in Going : own(k) = own(i)) = i
    BY <1>4
  <2>2. pool'[own(i)] = context(CHOOSE k \in Going : own(k) = own(i))
    BY <1>2, <1>4
  <2>3. QED
    BY <1>5, <2>1, <2>2
<1>8. ASSUME NEW i \in Going, NEW j \in 1 .. Length(i) + step
      PROVE  pool'[SlotOf(m, Id(i), j - 1)] = pool[SlotOf(m, Id(i), j - 1)]
  BY <1>2, <1>4
<1>9. ASSUME NEW i \in Going
      PROVE  /\ Stored(m, pool', Id(i), Longer(i), Length(i) + (step + 1))
             /\ next'[i] = NextToken(Longer(i))
  <2> DEFINE n == Length(i) + step
  <2>1. /\ Stored(m, pool, Id(i), Context(i), n) /\ n \in Covered(m, Id(i)) /\ n \in Nat
        /\ Length(i) + (step + 1) = n + 1
    BY <1>6 DEF Ready
  <2>2. own(i) = SlotOf(m, Id(i), n)
    BY <1>3
  <2> HIDE DEF n
  <2>3. ASSUME NEW j \in 1 .. n + 1
        PROVE  j - 1 \in Covered(m, Id(i))
               /\ pool'[SlotOf(m, Id(i), j - 1)] = SubSeq(Longer(i), 1, j)
    <3>1. CASE j = n + 1
      <4>1. j - 1 = n
        BY <2>1, <3>1
      <4>2. SubSeq(Longer(i), 1, j) = Longer(i)
        BY <1>6, <3>1 DEF n
      <4>3. QED
        BY <1>7, <2>1, <2>2, <4>1, <4>2
    <3>2. CASE j # n + 1
      <4>1. j \in 1 .. n
        BY <2>1, <3>2
      <4>2. pool[SlotOf(m, Id(i), j - 1)] = SubSeq(Context(i), 1, j) /\ j - 1 \in Covered(m, Id(i))
        BY <2>1, <4>1 DEF Stored
      <4>3. SubSeq(Longer(i), 1, j) = SubSeq(Context(i), 1, j)
        BY <1>6, <4>1 DEF n
      <4>4. pool'[SlotOf(m, Id(i), j - 1)] = pool[SlotOf(m, Id(i), j - 1)]
        BY <1>8, <4>1 DEF n
      <4>5. QED
        BY <4>2, <4>3, <4>4
    <3>3. QED
      BY <3>1, <3>2
  <2>4. Stored(m, pool', Id(i), Longer(i), n + 1)
    BY <2>1, <2>3 DEF Stored
  <2>5. next'[i] = Argmax(pool'[own(i)])
    BY <1>1, <1>2 DEF Going
  <2>6. QED
    BY <1>6, <1>7, <2>1, <2>4, <2>5
<1>10. PoolOk'
  <2>1. ASSUME NEW slot \in KvSlots PROVE pool'[slot] \in Seq(Tokens)
    <3>1. CASE \E i \in Going : own(i) = slot
      BY <1>6, <1>7, <3>1
    <3>2. CASE ~\E i \in Going : own(i) = slot
      BY <1>2, <3>2 DEF PoolOk
    <3>3. QED
      BY <3>1, <3>2
  <2>2. DOMAIN pool' = KvSlots /\ pool' = [slot \in KvSlots |-> pool'[slot]]
    BY <1>2
  <2>3. QED
    BY <2>1, <2>2 DEF PoolOk
<1>11. QED
  BY <1>9, <1>10

\* Every row going on is ready once the active rows have their blocks and the others
\* are trimmed.
LEMMA RowsReady ==
  ASSUME NeverAudio, Calling, Partitioned(mgr), StaticInv,
         NEW got, got = AllocateRows(mgr, Active, [i \in Rows |-> StepPosition(i) + 1]), got.ok,
         NEW m, m = TrimRows(got.mgr, {i \in Active : Ends(i)},
                             [i \in Rows |-> Len(batch[i].ids) + Len(out[i])])
  PROVE  Partitioned(m) /\ \A i \in Going : Ready(m, i)
<1> DEFINE n == Len(batch)
           before == [i \in Rows |-> StepPosition(i) + 1]
           after  == [i \in Rows |-> Len(batch[i].ids) + Len(out[i])]
           rows   == {i \in Active : Ends(i)}
<1>1. /\ n \in Nat /\ Rows = 1 .. n /\ batch \in Batches /\ step \in Nat
      /\ \A i \in 1 .. n : Id(i) \in RequestIds /\ Len(batch[i].ids) \in Nat \ {0}
  BY BatchFacts DEF Calling, Rows
<1>2. ASSUME NEW i \in 1 .. n
      PROVE  /\ Speaks(batch[i], out[i], next[i], finished[i], step)
             /\ Len(out[i]) \in Nat /\ Length(i) \in Nat \ {0}
             /\ Context(i) \in Seq(Tokens) /\ Len(Context(i)) = Length(i) + Len(out[i])
  <2>1. Speaks(batch[i], out[i], next[i], finished[i], step)
    BY Zenon DEF StaticInv, StaticRow
  <2>2. /\ out[i] \in Seq(Tokens) /\ Length(i) \in Nat \ {0}
        /\ Context(i) \in Seq(Tokens) /\ Len(Context(i)) = Length(i) + Len(out[i])
    BY <1>1, <2>1, ContextOf DEF Context, Length
  <2>3. QED
    BY <2>1, <2>2
<1>3. Going = {i \in 1 .. n : ~Ends(i)}
  BY DEF Going
<1> HIDE DEF n
<1>4. before \in [1 .. n -> Nat] /\ after \in [1 .. n -> Nat]
  <2>1. \A i \in 1 .. n : StepPosition(i) + 1 \in Nat
    BY <1>1 DEF StepPosition
  <2>2. ASSUME NEW i \in 1 .. n PROVE Len(batch[i].ids) + Len(out[i]) \in Nat
    <3>1. Len(batch[i].ids) \in Nat
      BY <1>1, Zenon
    <3>2. Len(out[i]) \in Nat
      BY <1>2
    <3>3. \A x, y \in Nat : x + y \in Nat
      OBVIOUS
    <3>4. QED
      BY <3>1, <3>2, <3>3, Zenon
  <2>3. QED
    BY <1>1, <2>1, <2>2
<1>5. rows \subseteq 1 .. n
  BY <1>1 DEF Active
<1>6. \A i \in 1 .. n : before[i] = Length(i) + step + 1
  BY <1>1 DEF StepPosition, Length
<1>7. got = AllocateRows(mgr, Active, before) /\ m = TrimRows(got.mgr, rows, after)
  OBVIOUS
<1> HIDE DEF before, after, rows
<1>8. Allocated(mgr, got, Active, n, before)
  BY <1>1, <1>4, <1>7, AllocateRowsKeep
<1>9. /\ Partitioned(got.mgr) /\ SameEntries(mgr, got.mgr)
      /\ DOMAIN mgr.table \subseteq DOMAIN got.mgr.table
      /\ \A r \in RequestIds : Held(got.mgr, r) >= Held(mgr, r)
      /\ \A i \in 1 .. n : i \in Active => Held(got.mgr, Id(i)) >= BlocksFor(before[i])
  BY <1>8 DEF Allocated
<1>10. Partitioned(m)
  <2>1. Trimmed(got.mgr, TrimRows(got.mgr, rows, after), rows, n)
    BY <1>1, <1>4, <1>9, TrimRowsKeep
  <2>2. QED
    BY <1>7, <2>1 DEF Trimmed
<1>11. ASSUME NEW i \in Going PROVE Ready(m, i)
  <2>1. i \in 1 .. n /\ ~Ends(i)
    BY <1>3
  <2>2. i \in Active /\ i \notin rows
    BY <1>1, <2>1 DEF Active, Ends, rows
  <2>3. finished[i] = FALSE /\ next[i] \notin EosIds
    <3>1. finished[i] \in BOOLEAN
      BY <1>2, <2>1, Zenon DEF Speaks
    <3>2. QED
      BY <2>1, <3>1 DEF Ends
  <2>4. SaysMore(batch[i], out[i], next[i], step)
    <3>1. Embeds(batch[i]) \in Seq(Tokens)
      BY <1>1, <2>1, EmbedsAre DEF n
    <3>2. Speaks(batch[i], out[i], next[i], finished[i], step)
      BY <1>2, <2>1
    <3>3. QED
      BY <1>1, <2>3, <3>1, <3>2, SpeaksMore, Zenon
  <2>5. next[i] \in Tokens /\ Len(out[i]) = step
    <3>1. next[i] \in Tokens \ {AudioToken} /\ Len(out[i]) = step
      BY <2>4, Zenon DEF SaysMore
    <3>2. QED
      BY <3>1
  <2>6. Stored(mgr, pool, Id(i), Context(i), Length(i) + step)
    BY <2>1, <2>3, Zenon DEF StaticInv, StaticRow, n
  <2>7. Id(i) \in RequestIds /\ Id(i) \in DOMAIN mgr.table
    BY <1>1, <2>1, <2>6 DEF Stored
  <2>8. Id(i) \in DOMAIN got.mgr.table /\ Held(got.mgr, Id(i)) >= Held(mgr, Id(i))
    BY <1>9, <2>7
  <2>9. Stored(got.mgr, pool, Id(i), Context(i), Length(i) + step)
    BY <1>9, <2>6, <2>7, <2>8, StoredKept
  <2>10. Length(i) + step \in Covered(got.mgr, Id(i))
    <3>1. PICK t : t = Length(i) + step + 1
      OBVIOUS
    <3>2. t \in Nat \ {0} /\ Length(i) + step \in 0 .. t - 1
      BY <1>1, <1>2, <2>1, <3>1
    <3>3. Held(got.mgr, Id(i)) >= BlocksFor(t)
      BY <1>6, <1>9, <2>1, <2>2, <3>1
    <3>4. QED
      BY <1>9, <2>7, <3>2, <3>3, BlocksCover
  <2>11. /\ \A slots, c, k : Stored(got.mgr, slots, Id(i), c, k) => Stored(m, slots, Id(i), c, k)
         /\ \A p : p \in Covered(got.mgr, Id(i)) => p \in Covered(m, Id(i))
    <3>1. /\ batch \in Batches /\ after \in [1 .. Len(batch) -> Nat] /\ rows \subseteq 1 .. Len(batch)
          /\ i \in 1 .. Len(batch) /\ Partitioned(got.mgr)
      BY <1>1, <1>4, <1>5, <1>9, <2>1 DEF n
    <3>2. PICK g : g = got.mgr
      OBVIOUS
    <3>3. /\ \A slots, c, k : Stored(g, slots, Id(i), c, k)
                             => Stored(TrimRows(g, rows, after), slots, Id(i), c, k)
          /\ \A p : p \in Covered(g, Id(i)) => p \in Covered(TrimRows(g, rows, after), Id(i))
      BY <2>2, <3>1, <3>2, TrimStored
    <3>4. m = TrimRows(g, rows, after)
      BY <1>7, <3>2
    <3>5. QED
      BY <3>2, <3>3, <3>4, Zenon
  <2>12. Stored(m, pool, Id(i), Context(i), Length(i) + step)
    BY <2>9, <2>11
  <2>13. Length(i) + step \in Covered(m, Id(i))
    BY <2>10, <2>11
  <2>14. QED
    BY <1>2, <2>1, <2>5, <2>12, <2>13 DEF Ready
<1>12. QED
  BY <1>10, <1>11

\* A decode step of the paged engine gives every row its next token, or fails.
LEMMA StaticGoes ==
  ASSUME NeverAudio, Calling, PoolOk, Partitioned(mgr), StaticInv, StaticStep
  PROVE  /\ Calling' /\ PoolOk'
         /\ \/ pc' = "static" /\ StaticInv'
            \/ pc' = "idle" /\ result' = "failed"
<1> DEFINE trimmed(got) == TrimRows(got.mgr, {i \in Active : Ends(i)},
                                    [i \in Rows |-> Len(batch[i].ids) + Len(out[i])])
<1>1. PICK got : /\ got = AllocateRows(mgr, Active, [i \in Rows |-> StepPosition(i) + 1])
                 /\ \/ /\ got.ok /\ mgr' = trimmed(got)
                       /\ StaticForward(mgr')
                       /\ out' = [i \in Rows |-> Taken(i)]
                       /\ finished' = [i \in Rows |-> Ends(i)]
                       /\ step' = step + 1
                       /\ UNCHANGED <<pc, left>>
                    \/ Fail(batch) /\ UNCHANGED <<pool, out, finished, next, step>>
  BY Zenon DEF StaticStep
<1>2. pc = "static" /\ step < limit /\ UNCHANGED <<build, batch, side, limit>>
  BY DEF StaticStep
<1>3. batch \in Batches /\ step \in Nat /\ limit \in Nat /\ Rows = 1 .. Len(batch)
  BY BatchFacts DEF Calling, Rows
<1>4. CASE Fail(batch) /\ UNCHANGED <<pool, out, finished, next, step>>
  BY <1>2, <1>4 DEF Fail, Calling, PoolOk
<1>5. CASE /\ got.ok /\ mgr' = trimmed(got)
           /\ StaticForward(mgr')
           /\ out' = [i \in Rows |-> Taken(i)]
           /\ finished' = [i \in Rows |-> Ends(i)]
           /\ step' = step + 1
           /\ UNCHANGED <<pc, left>>
  <2>1. PICK m : m = mgr'
    OBVIOUS
  <2>2. Partitioned(m) /\ \A i \in Going : Ready(m, i)
    BY <1>1, <1>5, <2>1, RowsReady
  <2>3. /\ PoolOk'
        /\ \A i \in Going :
              /\ Stored(m, pool', Id(i), Longer(i), Length(i) + (step + 1))
              /\ next'[i] = NextToken(Longer(i))
    BY <1>3, <1>5, <2>1, <2>2, ForwardHolds
  <2>4. Calling'
    <3>1. step + 1 \in Nat /\ step + 1 <= limit
      BY <1>2, <1>3
    <3>2. QED
      BY <1>2, <1>5, <3>1 DEF Calling
  <2>5. \A i \in 1 .. Len(batch) : out'[i] = Taken(i) /\ finished'[i] = Ends(i)
    BY <1>3, <1>5
  <2>6. ASSUME NEW i \in 1 .. Len(batch) PROVE StaticRow(i)'
    <3>1. Speaks(batch[i], out[i], next[i], finished[i], step)
      BY Zenon DEF StaticInv, StaticRow
    <3>2. Embeds(batch[i]) \in Seq(Tokens)
      BY <1>3, EmbedsAre
    <3>3. finished[i] \in BOOLEAN
      BY <3>1, Zenon DEF Speaks
    <3>4. StaticRow(i)' = (/\ Speaks(batch'[i], out'[i], next'[i], finished'[i], step')
                           /\ finished'[i] = FALSE => Stored(mgr, pool, Id(i), Context(i), Length(i) + step)')
      BY DEF StaticRow
    <3>5. CASE Ends(i)
      <4>1. out'[i] = out[i] /\ finished'[i] = TRUE
        BY <2>5, <3>5 DEF Taken
      <4>2. finished[i] = TRUE \/ next[i] \in EosIds
        BY <3>3, <3>5 DEF Ends
      <4>3. \A any : Speaks(batch[i], out[i], any, TRUE, step + 1)
        BY <1>3, <3>1, <3>2, <4>2, SpeaksNoMore, Zenon
      <4>4. Speaks(batch'[i], out'[i], next'[i], finished'[i], step')
        BY <1>2, <1>5, <4>1, <4>3
      <4>5. QED
        BY <3>4, <4>1, <4>4
    <3>6. CASE ~Ends(i)
      <4>1. i \in Going
        BY <3>6 DEF Going
      <4>2. finished[i] = FALSE /\ next[i] \notin EosIds
        BY <3>3, <3>6 DEF Ends
      <4>3. SaysMore(batch[i], out[i], next[i], step)
        BY <1>3, <3>1, <3>2, <4>2, SpeaksMore, Zenon
      <4>4. out'[i] = Append(out[i], next[i]) /\ finished'[i] = FALSE
        <5>1. Taken(i) = Append(out[i], next[i])
          BY <3>6, Zenon DEF Taken
        <5>2. QED
          BY <2>5, <3>6, <5>1
      <4>5. Context(i)' = Longer(i)
        <5>1. Embeds(batch[i]) \o Append(out[i], next[i]) = Append(Embeds(batch[i]) \o out[i], next[i])
          BY <4>3, Zenon DEF SaysMore
        <5>2. Context(i)' = Embeds(batch[i]) \o Append(out[i], next[i])
          BY <1>2, <4>4 DEF Context
        <5>3. QED
          BY <5>1, <5>2 DEF Context, Longer
      <4>6. Speaks(batch[i], Append(out[i], next[i]), NextToken(Longer(i)), FALSE, step + 1)
        BY <4>3, Zenon DEF SaysMore, Longer, Context
      <4>7. Speaks(batch'[i], out'[i], next'[i], finished'[i], step')
        BY <1>2, <1>5, <2>3, <4>1, <4>4, <4>6
      <4>8. Stored(mgr', pool', Id(i), Context(i)', Length(i)' + step')
        <5>1. Length(i)' = Length(i) /\ step' = step + 1
          BY <1>2, <1>5 DEF Length
        <5>2. QED
          BY <2>1, <2>3, <4>1, <4>5, <5>1
      <4>9. Stored(mgr, pool, Id(i), Context(i), Length(i) + step)'
              = Stored(mgr', pool', Id(i), Context(i)', Length(i)' + step')
        BY DEF Stored, Id, Covered, Held, BlocksOf, SlotOf
      <4>10. QED
        BY <3>4, <4>7, <4>8, <4>9
    <3>7. QED
      BY <3>5, <3>6
  <2>7. StaticInv'
    BY <1>2, <2>6 DEF StaticInv
  <2>8. pc' = "static"
    BY <1>2, <1>5
  <2>9. QED
    BY <2>3, <2>4, <2>7, <2>8
<1>6. QED
  BY <1>1, <1>4, <1>5

\* At the end every row has its answer.
LEMMA StaticEnds ==
  ASSUME Calling, StaticInv, StaticReturn
  PROVE  Calling' /\ pc' = "idle" /\ Answered' /\ UNCHANGED pool
<1>1. /\ pc' = "idle" /\ (step = limit \/ AllFinished)
      /\ UNCHANGED <<build, batch, side, limit, out, warm, step, pool>>
  BY DEF StaticReturn, Return, callVars
<1>2. /\ batch \in Batches /\ side = "right" /\ Rows = 1 .. Len(batch)
      /\ step \in Nat /\ limit \in Nat /\ step <= limit
  BY BatchFacts DEF Calling, Rows
<1>3. ASSUME NEW i \in 1 .. Len(batch)
      PROVE  out[i] = Answer(batch[i], limit)
  <2>1. StaticRow(i)
    BY DEF StaticInv
  <2>2. Speaks(batch[i], out[i], next[i], finished[i], step)
    BY <2>1, Zenon DEF StaticRow
  <2>3. finished[i] \in BOOLEAN
    BY <2>2, Zenon DEF Speaks
  <2>4. step = limit \/ finished[i] = TRUE
    BY <1>1, <1>2, <2>3 DEF AllFinished
  <2>5. NothingLeft(next[i], finished[i], step, limit)
    BY <1>2, <2>4, Zenon DEF NothingLeft
  <2>6. QED
    BY <2>2, <2>5, SpeaksAnswer, Zenon
<1>4. Answered'
  BY <1>1, <1>2, <1>3 DEF Answered
<1>5. QED
  BY <1>1, <1>4 DEF Calling

--------------------------------------------------------------------------------
\* Every call.

\* What each decode loop keeps.
Looping ==
  /\ Calling
  /\ \/ pc = "alone" /\ AloneInv
     \/ pc = "cached" /\ CachedInv
     \/ pc = "paged" /\ PagedInv
     \/ pc = "batch" /\ BatchInv
     \/ pc = "static" /\ StaticInv

\* A call goes on, or has answered, or has failed.
CallOk ==
  /\ step <= limit
  /\ \/ Looping
     \/ pc = "idle" /\ (result = "done" => Answered)

\* Without left padding, without a model that answers placeholders, and with rows kept
\* apart in a packed prefill.
Plain == NeverAudio /\ RowsApart /\ Sides = {"right"}

RowsInv ==
  /\ BlocksInv /\ TemplatesOk /\ PoolOk
  /\ build \in Builds /\ result \in {"none", "done", "failed"}
  /\ CallOk

\* Nothing is cached and nothing said at the start.
LEMMA RowsInit == Init => RowsInv
<1> SUFFICES ASSUME Init PROVE RowsInv
  OBVIOUS
<1>1. BlocksInv
  BY BlocksInit
<1>2. TemplatesOk
  BY DEF Init, TemplatesOk
<1>3. PoolOk
  BY DEF Init, PoolOk, Wrong
<1>4. CallOk
  BY DEF Init, CallOk
<1>5. QED
  BY <1>1, <1>2, <1>3, <1>4 DEF Init, RowsInv

\* A call that asks for nothing is answered nothing.
LEMMA NothingAnswered ==
  ASSUME NEW b \in Batches, 0 \in Limits, ReturnNothing(b, "right")
  PROVE  CallOk'
<1>1. Call(b, "right", 0) /\ pc' = pc /\ pc = "idle"
  BY DEF ReturnNothing, Call
<1>2. /\ Calling' /\ batch' = b /\ side' = "right" /\ limit' = 0 /\ step' = 0
      /\ \A i \in 1 .. Len(b) : out'[i] = <<>>
  BY <1>1, CallStarts
<1>3. ASSUME NEW i \in 1 .. Len(b) PROVE Answer(b[i], 0) = <<>>
  <2>1. Embeds(b[i]) \in Seq(Tokens)
    BY EmbedsAre
  <2>2. Speaks(b[i], <<>>, NextToken(Embeds(b[i])), FALSE, 0)
    BY <2>1, SpeaksNothing
  <2>3. NothingLeft(NextToken(Embeds(b[i])), FALSE, 0, 0)
    BY DEF NothingLeft
  <2>4. QED
    BY <2>2, <2>3, SpeaksAnswer, Zenon
<1>4. \A i \in 1 .. Len(batch') : out'[i] = Answer(batch'[i], limit')
  BY <1>2, <1>3
<1>5. Answered'
  BY <1>2, <1>4 DEF Answered
<1>6. QED
  BY <1>1, <1>2, <1>5 DEF CallOk

\* Every start of a call but the paged engine's.
LEMMA RowsStart ==
  ASSUME Plain, TemplatesOk, PoolOk, NEW b \in Batches, NEW max \in Limits,
         \/ max = 0 /\ ReturnNothing(b, "right")
         \/ StartAlone(b, max)
         \/ StartCached(b, max)
         \/ StartPaged(b, max)
         \/ StartBatch(b, "right", max)
  PROVE  TemplatesOk' /\ PoolOk' /\ CallOk'
<1>1. UNCHANGED pool
  BY DEF ReturnNothing, StartAlone, StartCached, StartPaged, StartBatch
<1>2. PoolOk'
  BY <1>1 DEF PoolOk
<1>3. ASSUME Calling' PROVE (step <= limit)'
  BY <1>3 DEF Calling
<1>4. CASE max = 0 /\ ReturnNothing(b, "right")
  <2>1. CallOk' /\ UNCHANGED templates
    BY <1>4, NothingAnswered DEF ReturnNothing
  <2>2. QED
    BY <1>2, <2>1 DEF TemplatesOk
<1>5. CASE StartAlone(b, max)
  <2>1. Calling' /\ pc' = "alone" /\ AloneInv' /\ UNCHANGED templates
    BY <1>5, StartsAlone DEF StartAlone
  <2>2. QED
    BY <1>2, <1>3, <2>1 DEF TemplatesOk, CallOk, Looping
<1>6. CASE StartCached(b, max)
  <2>1. Calling' /\ pc' = "cached" /\ CachedInv' /\ UNCHANGED templates
    BY <1>6, StartsCached DEF StartCached, Plain
  <2>2. QED
    BY <1>2, <1>3, <2>1 DEF TemplatesOk, CallOk, Looping
<1>7. CASE StartPaged(b, max)
  <2>1. Calling' /\ pc' = "paged" /\ PagedInv' /\ UNCHANGED templates
    BY <1>7, StartsPaged DEF StartPaged, Plain
  <2>2. QED
    BY <1>2, <1>3, <2>1 DEF TemplatesOk, CallOk, Looping
<1>8. CASE StartBatch(b, "right", max)
  <2>1. Calling' /\ pc' = "batch" /\ BatchInv' /\ TemplatesOk'
    BY <1>8, StartsBatch DEF Plain
  <2>2. QED
    BY <1>2, <1>3, <2>1 DEF CallOk, Looping
<1>9. QED
  BY <1>4, <1>5, <1>6, <1>7, <1>8

\* The starts of the paged engine.
LEMMA RowsStartPaged ==
  ASSUME Plain, RowsInv, NEW b \in Batches, NEW max \in Limits,
         StartStatic(b, "right", max) \/ StartHybrid(b, "right", max)
  PROVE  TemplatesOk' /\ PoolOk' /\ CallOk'
<1>1. NeverAudio /\ RowsApart /\ build \in Builds /\ PoolOk /\ Partitioned(mgr) /\ TemplatesOk
  BY DEF Plain, RowsInv, BlocksInv
<1>2. TemplatesOk'
  <2>1. UNCHANGED templates
    BY DEF StartStatic, StartHybrid
  <2>2. QED
    BY <1>1, <2>1 DEF TemplatesOk
<1>3. /\ Calling' /\ PoolOk'
      /\ \/ pc' = "static" /\ StaticInv'
         \/ pc' = "batch" /\ BatchInv'
         \/ pc' = "idle" /\ result' = "failed"
  BY <1>1, StartsStatic, StartsHybrid
<1>4. (step <= limit)'
  BY <1>3 DEF Calling
<1>5. QED
  BY <1>2, <1>3, <1>4 DEF CallOk, Looping

\* The loops.
LEMMA RowsLoops ==
  ASSUME Plain, RowsInv,
         AloneStep \/ CachedStep \/ PagedStep \/ BatchStep \/ BatchReturn \/ StaticStep
         \/ StaticReturn
  PROVE  TemplatesOk' /\ PoolOk' /\ CallOk'
<1>1. NeverAudio /\ PoolOk /\ Partitioned(mgr) /\ TemplatesOk
  BY DEF Plain, RowsInv, BlocksInv
<1>2. TemplatesOk'
  <2>1. UNCHANGED templates
    BY DEF AloneStep, CachedStep, PagedStep, BatchStep, BatchReturn, StaticStep, StaticReturn
  <2>2. QED
    BY <1>1, <2>1 DEF TemplatesOk
<1>3. pc # "idle"
  BY DEF AloneStep, CachedStep, PagedStep, BatchStep, BatchReturn, StaticStep, StaticReturn
<1>4. Looping
  BY <1>3, Zenon DEF RowsInv, CallOk
<1>5. ASSUME Calling' PROVE (step <= limit)'
  BY <1>5 DEF Calling
<1>6. CASE AloneStep \/ CachedStep \/ PagedStep \/ BatchStep \/ BatchReturn
  <2>1. PoolOk'
    <3>1. UNCHANGED pool
      BY <1>6 DEF AloneStep, CachedStep, PagedStep, BatchStep, BatchReturn
    <3>2. QED
      BY <1>1, <3>1 DEF PoolOk
  <2>2. CASE AloneStep
    <3>1. AloneInv /\ Calling
      BY <1>4, <2>2 DEF Looping, AloneStep
    <3>2. Calling' /\ ((pc' = "alone" /\ AloneInv') \/ (pc' = "idle" /\ Answered'))
      BY <1>1, <2>2, <3>1, AloneGoes
    <3>3. QED
      BY <1>2, <1>5, <2>1, <3>2 DEF CallOk, Looping
  <2>3. CASE CachedStep
    <3>1. CachedInv /\ Calling
      BY <1>4, <2>3 DEF Looping, CachedStep
    <3>2. Calling' /\ ((pc' = "cached" /\ CachedInv') \/ (pc' = "idle" /\ Answered'))
      BY <1>1, <2>3, <3>1, CachedGoes
    <3>3. QED
      BY <1>2, <1>5, <2>1, <3>2 DEF CallOk, Looping
  <2>4. CASE PagedStep
    <3>1. PagedInv /\ Calling
      BY <1>4, <2>4 DEF Looping, PagedStep
    <3>2. Calling' /\ ((pc' = "paged" /\ PagedInv') \/ (pc' = "idle" /\ Answered'))
      BY <1>1, <2>4, <3>1, PagedGoes
    <3>3. QED
      BY <1>2, <1>5, <2>1, <3>2 DEF CallOk, Looping
  <2>5. CASE BatchStep
    <3>1. BatchInv /\ Calling
      BY <1>4, <2>5 DEF Looping, BatchStep
    <3>2. Calling' /\ pc' = "batch" /\ BatchInv'
      BY <1>1, <2>5, <3>1, BatchGoes
    <3>3. QED
      BY <1>2, <1>5, <2>1, <3>2 DEF CallOk, Looping
  <2>6. CASE BatchReturn
    <3>1. BatchInv /\ Calling
      BY <1>4, <2>6 DEF Looping, BatchReturn
    <3>2. Calling' /\ pc' = "idle" /\ Answered'
      BY <2>6, <3>1, BatchEnds
    <3>3. QED
      BY <1>2, <1>5, <2>1, <3>2 DEF CallOk
  <2>7. QED
    BY <1>6, <2>2, <2>3, <2>4, <2>5, <2>6
<1>7. CASE StaticStep
  <2>1. StaticInv /\ Calling
    BY <1>4, <1>7 DEF Looping, StaticStep
  <2>2. /\ Calling' /\ PoolOk'
        /\ \/ pc' = "static" /\ StaticInv'
           \/ pc' = "idle" /\ result' = "failed"
    BY <1>1, <1>7, <2>1, StaticGoes
  <2>3. QED
    BY <1>2, <1>5, <2>2 DEF CallOk, Looping
<1>8. CASE StaticReturn
  <2>1. StaticInv /\ Calling
    BY <1>4, <1>8 DEF Looping, StaticReturn
  <2>2. Calling' /\ pc' = "idle" /\ Answered' /\ UNCHANGED pool
    BY <1>8, <2>1, StaticEnds
  <2>3. QED
    BY <1>1, <1>2, <1>5, <2>2 DEF CallOk, PoolOk
<1>9. QED
  BY <1>6, <1>7, <1>8

\* A step in which nothing changes keeps what every call keeps.
LEMMA RowsStutter ==
  ASSUME RowsInv, UNCHANGED vars
  PROVE  TemplatesOk' /\ PoolOk' /\ CallOk'
<1>1. /\ UNCHANGED <<build, mgr, pool, templates, pc, batch, side, limit, kv, mask, dense>>
      /\ UNCHANGED <<next, out, finished, step, result, warm>>
  BY DEF vars, callVars
<1>2. TemplatesOk' /\ PoolOk'
  BY <1>1 DEF RowsInv, TemplatesOk, PoolOk
<1>3. Calling' = Calling
  BY <1>1 DEF Calling
<1>4. FlashOnPaddedRemainder' = FlashOnPaddedRemainder
  BY <1>1 DEF FlashOnPaddedRemainder, Rows
<1>5. Answered' = Answered
  BY <1>1, <1>4 DEF Answered
<1>6. \A i : Context(i)' = Context(i) /\ Length(i)' = Length(i)
  BY <1>1 DEF Context, Length
<1>7. AloneInv' = AloneInv /\ CachedInv' = CachedInv /\ PagedInv' = PagedInv
  BY <1>1, <1>6 DEF AloneInv, CachedInv, PagedInv
<1>8. Columns' = Columns
  BY <1>1 DEF Columns
<1>9. \A i : RowShape(i)' = RowShape(i) /\ RowRight(i)' = RowRight(i)
  BY <1>1, <1>6, <1>8 DEF RowShape, RowRight
<1>10. BatchInv' = BatchInv
  BY <1>1, <1>4, <1>9 DEF BatchInv
<1>11. \A i : StaticRow(i)' = StaticRow(i)
  <2>1. \A i : Stored(mgr, pool, Id(i), Context(i), Length(i) + step)'
                 = Stored(mgr, pool, Id(i), Context(i), Length(i) + step)
    BY <1>1, <1>6 DEF Stored, Id, Covered, Held, BlocksOf, SlotOf
  <2>2. QED
    BY <1>1, <2>1 DEF StaticRow
<1>12. StaticInv' = StaticInv
  BY <1>1, <1>11 DEF StaticInv
<1>13. Looping' = Looping
  BY <1>1, <1>3, <1>7, <1>10, <1>12 DEF Looping
<1>14. CallOk'
  BY <1>1, <1>5, <1>13 DEF RowsInv, CallOk
<1>15. QED
  BY <1>2, <1>14

\* Every step keeps the invariant.
LEMMA RowsNext == Plain => (RowsInv /\ [Next]_vars => RowsInv')
<1> SUFFICES ASSUME Plain, RowsInv, [Next]_vars PROVE RowsInv'
  OBVIOUS
<1>1. BlocksInv'
  BY BlocksNext DEF RowsInv
<1>2. build' = build /\ result' \in {result, "none", "done", "failed"}
  <2>1. CASE UNCHANGED vars
    BY <2>1 DEF vars
  <2>2. ASSUME NEW b, NEW s, NEW max,
               \/ ReturnNothing(b, s)
               \/ StartAlone(b, max)
               \/ StartCached(b, max)
               \/ StartPaged(b, max)
               \/ StartBatch(b, s, max)
               \/ StartStatic(b, s, max)
               \/ StartHybrid(b, s, max)
        PROVE  build' = build /\ result' \in {result, "none", "done", "failed"}
    <3>1. build' = build
      BY <2>2 DEF ReturnNothing, StartAlone, StartCached, StartPaged, StartBatch,
                  StartStatic, StartHybrid, Call
    <3>2. result' \in {"none", "done", "failed"}
      BY <2>2 DEF ReturnNothing, StartAlone, StartCached, StartPaged, StartBatch,
                  StartStatic, StartHybrid, Enter, Fail
    <3>3. QED
      BY <3>1, <3>2
  <2>3. CASE AloneStep \/ CachedStep \/ PagedStep \/ BatchStep \/ BatchReturn \/ StaticStep
             \/ StaticReturn
    BY <2>3 DEF AloneStep, CachedStep, PagedStep, BatchStep, BatchReturn, StaticStep,
                StaticReturn, Return, Fail, callVars
  <2>4. QED
    BY <2>1, <2>2, <2>3, Zenon DEF Next
<1>3. build' \in Builds /\ result' \in {"none", "done", "failed"}
  BY <1>2 DEF RowsInv
<1>4. TemplatesOk' /\ PoolOk' /\ CallOk'
  <2>1. CASE UNCHANGED vars
    BY <2>1, RowsStutter
  <2>2. ASSUME NEW b \in Batches, NEW s \in Sides, NEW max \in Limits,
               \/ max = 0 /\ ReturnNothing(b, s)
               \/ max > 0 /\ \/ s = "right" /\ StartAlone(b, max)
                             \/ s = "right" /\ StartCached(b, max)
                             \/ s = "right" /\ StartPaged(b, max)
                             \/ StartBatch(b, s, max)
                             \/ StartStatic(b, s, max)
                             \/ StartHybrid(b, s, max)
        PROVE  TemplatesOk' /\ PoolOk' /\ CallOk'
    <3>1. s = "right" /\ TemplatesOk /\ PoolOk
      BY DEF Plain, RowsInv
    <3>2. CASE StartStatic(b, s, max) \/ StartHybrid(b, s, max)
      BY <3>1, <3>2, RowsStartPaged
    <3>3. CASE \/ max = 0 /\ ReturnNothing(b, s)
               \/ StartAlone(b, max)
               \/ StartCached(b, max)
               \/ StartPaged(b, max)
               \/ StartBatch(b, s, max)
      BY <3>1, <3>3, RowsStart
    <3>4. QED
      BY <2>2, <3>2, <3>3, Zenon
  <2>3. CASE AloneStep \/ CachedStep \/ PagedStep \/ BatchStep \/ BatchReturn \/ StaticStep
             \/ StaticReturn
    BY <2>3, RowsLoops
  <2>4. QED
    BY <2>1, <2>2, <2>3, Zenon DEF Next
<1>5. QED
  BY <1>1, <1>3, <1>4 DEF RowsInv

\* What the caches hold follows from the invariant.
LEMMA RowsCaches == RowsInv => CachesHoldTheirRows
<1> SUFFICES ASSUME RowsInv PROVE CachesHoldTheirRows
  OBVIOUS
<1>1. TypeOK
  <2>1. IsManager(mgr)
    BY DEF RowsInv, BlocksInv, Partitioned
  <2>2. step \in 0 .. limit
    BY DEF RowsInv, BlocksInv, CallOk
  <2>3. DOMAIN pool = KvSlots
    BY DEF RowsInv, PoolOk
  <2>4. QED
    BY <2>1, <2>2, <2>3 DEF RowsInv, BlocksInv, TypeOK
<1>2. \A key \in DOMAIN templates :
        templates[key] = [n \in 1 .. Len(key) |-> SubSeq(key, 1, n)]
  BY DEF RowsInv, TemplatesOk, IsTemplate
<1>3. ASSUME pc = "batch", NEW i \in Rows
      PROVE  LET m == IF dense THEN Ones(Len(kv[i])) ELSE mask[i] IN
             /\ Len(m) = Len(kv[i])
             /\ PromptLen(m) = Len(batch[i].ids) + step
  <2> DEFINE m == IF dense THEN Ones(Len(kv[i])) ELSE mask[i]
  <2>1. Calling /\ BatchInv
    BY <1>3 DEF RowsInv, CallOk, Looping
  <2>2. i \in 1 .. Len(batch) /\ step \in Nat
    BY <2>1, BatchFacts DEF Calling, Rows
  <2>3. /\ Length(i) \in Nat \ {0} /\ Columns \in Nat /\ Length(i) <= Columns
    BY <2>1, <2>2, BroughtIs
  <2>4. /\ Len(kv[i]) = Columns + step
        /\ dense = TRUE => Length(i) = Columns
        /\ dense = FALSE => /\ Len(mask[i]) = Columns + step
                            /\ OnesIn(mask[i]) = Places(Length(i), Columns, step)
        /\ dense \in BOOLEAN
    BY <2>1, <2>2 DEF BatchInv, RowShape
  <2>5. Cardinality(Places(Length(i), Columns, step)) = Length(i) + step
        /\ (Length(i) = Columns => Places(Length(i), Columns, step) = 1 .. Columns + step)
    BY <2>2, <2>3, PlacesCount
  <2>6. Len(m) = Columns + step /\ OnesIn(m) = Places(Length(i), Columns, step)
    <3>1. CASE dense = TRUE
      <4>1. m = Ones(Columns + step)
        BY <2>4, <3>1
      <4>2. PICK k \in Nat : k = Columns + step
        BY <2>2, <2>3
      <4>3. Len(Ones(k)) = k /\ OnesIn(Ones(k)) = 1 .. k
        BY <4>2 DEF Ones, OnesIn
      <4>4. QED
        BY <2>4, <2>5, <3>1, <4>1, <4>2, <4>3
    <3>2. CASE dense = FALSE
      BY <2>4, <3>2
    <3>3. QED
      BY <2>4, <3>1, <3>2
  <2> HIDE DEF m
  <2>7. Len(m) = Len(kv[i]) /\ PromptLen(m) = Len(batch[i].ids) + step
    BY <2>4, <2>5, <2>6 DEF PromptLen, Length
  <2>8. QED
    BY <2>7 DEF m
<1>4. QED
  BY <1>1, <1>2, <1>3 DEF CachesHoldTheirRows

\* Whatever is padded to the right, batched with, paged, packed or taken from a template,
\* and whatever calls came before, every row is answered as if it were alone and not cached
\* (greedy_generate_cached_batch, greedy_generate_paged and paged_batch_run against
\* greedy_generate).
THEOREM EachRowAlwaysAlone ==
  ASSUME NeverAudio, RowsApart, Sides = {"right"}
  PROVE  Spec => []EachRowAsIfAlone
<1>1. RowsInv => EachRowAsIfAlone
  <2> SUFFICES ASSUME RowsInv, pc = "idle", result = "done", ~FlashOnPaddedRemainder,
                      NEW i \in Rows
               PROVE  out[i] = Answer(batch[i], limit)
    BY DEF EachRowAsIfAlone
  <2>1. Answered
    BY DEF RowsInv, CallOk, Looping
  <2>2. i \in 1 .. Len(batch)
    BY <2>1, BatchFacts DEF Answered, Rows
  <2>3. QED
    BY <2>1, <2>2 DEF Answered
<1>2. RowsInv /\ [Next]_vars => RowsInv'
  BY RowsNext DEF Plain
<1>3. QED
  BY <1>1, <1>2, RowsInit, PTL DEF Spec

\* Whichever calls were made and whichever of them failed, a template holds the contexts of
\* the prefix it is filed under, and a batch decodes with a mask as long as its cache that
\* hides all but the row's own tokens (store_prefix_kv_template, forward_with_kv_cache).
THEOREM CachesAlwaysHold ==
  ASSUME NeverAudio, RowsApart, Sides = {"right"}
  PROVE  Spec => []CachesHoldTheirRows
<1>1. RowsInv /\ [Next]_vars => RowsInv'
  BY RowsNext DEF Plain
<1>2. QED
  BY <1>1, RowsCaches, RowsInit, PTL DEF Spec

================================================================================
