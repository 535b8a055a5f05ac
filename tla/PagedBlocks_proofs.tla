--------------------------- MODULE PagedBlocks_proofs ---------------------------
(***************************************************************************)
(* Facts about the operations of PagedBlockManager, for every pool size,   *)
(* block size and set of requests: what each makes of a manager, and that  *)
(* each keeps the pool partitioned between the free list and the tables.   *)
(***************************************************************************)
EXTENDS PagedBlocks, SequenceTheorems, WellFoundedInduction, TLAPS

\* How many blocks a token count needs.
LEMMA BlocksForType ==
  ASSUME NEW tokens \in Nat
  PROVE  BlocksFor(tokens) \in Nat
BY PoolAssumption DEF BlocksFor

\* What a request holds is a sequence of blocks.
LEMMA BlocksOfType ==
  ASSUME NEW m, IsManager(m), NEW r
  PROVE  /\ BlocksOf(m, r) \in Seq(Blocks)
         /\ Held(m, r) \in Nat
BY DEF IsManager, BlocksOf, Held

\* What is missing is a natural number, and more than nothing is missing only
\* when the request holds less than it needs.
LEMMA NeededType ==
  ASSUME NEW m, IsManager(m), NEW r, NEW tokens \in Nat
  PROVE  Needed(m, r, tokens) \in Nat
<1>1. BlocksFor(tokens) \in Nat
  BY BlocksForType
<1>2. Held(m, r) \in Nat
  BY BlocksOfType
<1>3. QED
  BY ONLY <1>1, <1>2 DEF Needed

\* Giving blocks back appends them to the free list, last first: position i of
\* the new part is position Len + 1 - i of what was given.
LEMMA GiveBackType ==
  ASSUME NEW m, m.free \in Seq(Blocks), NEW given \in Seq(Blocks)
  PROVE  /\ GiveBack(m, given) \in Seq(Blocks)
         /\ Len(GiveBack(m, given)) = Len(m.free) + Len(given)
         /\ \A i \in 1 .. Len(m.free) : GiveBack(m, given)[i] = m.free[i]
         /\ \A i \in 1 .. Len(given) :
              GiveBack(m, given)[Len(m.free) + i] = given[Len(given) + 1 - i]
<1> DEFINE back == [i \in 1 .. Len(given) |-> given[Len(given) + 1 - i]]
<1> DEFINE old == m.free
<1>1. back \in Seq(Blocks) /\ Len(back) = Len(given)
  OBVIOUS
<1>2. GiveBack(m, given) = old \o back
  BY DEF GiveBack
<1>3. \A i \in 1 .. Len(given) : back[i] = given[Len(given) + 1 - i]
  OBVIOUS
<1>4. old \in Seq(Blocks)
  OBVIOUS
<1> HIDE DEF back, old
<1>5. /\ old \o back \in Seq(Blocks)
      /\ Len(old \o back) = Len(old) + Len(given)
  BY <1>1, <1>4
<1>6. \A i \in 1 .. Len(old) : (old \o back)[i] = old[i]
  BY <1>1, <1>4
<1>7. \A i \in 1 .. Len(given) : (old \o back)[Len(old) + i] = back[i]
  BY <1>1, <1>4
<1>8. QED
  BY <1>2, <1>3, <1>5, <1>6, <1>7 DEF old

\* The pool starts partitioned: every block is free.
LEMMA NewManagerPartitioned == Partitioned(NewManager)
<1>1. IsManager(NewManager)
  BY PoolAssumption DEF NewManager, IsManager, Blocks
<1>2. FreeDistinct(NewManager) /\ TablesDistinct(NewManager) /\ FreeNotHeld(NewManager)
  BY DEF NewManager, FreeDistinct, TablesDistinct, FreeNotHeld
<1>3. NoneLost(NewManager)
  BY DEF NewManager, NoneLost, Blocks
<1>4. QED
  BY <1>1, <1>2, <1>3 DEF Partitioned

\* The tail of a block table, past its first k blocks.
LEMMA TailOfTable ==
  ASSUME NEW t \in Seq(Blocks), NEW k \in 0 .. Len(t)
  PROVE  /\ SubSeq(t, k + 1, Len(t)) \in Seq(Blocks)
         /\ Len(SubSeq(t, k + 1, Len(t))) = Len(t) - k
         /\ \A i \in 1 .. Len(t) - k : SubSeq(t, k + 1, Len(t))[i] = t[k + i]
         /\ SubSeq(t, 1, k) \in Seq(Blocks)
         /\ Len(SubSeq(t, 1, k)) = k
         /\ \A i \in 1 .. k : SubSeq(t, 1, k)[i] = t[i]
OBVIOUS

\* Appending one sequence of blocks to another.
LEMMA AppendTable ==
  ASSUME NEW t \in Seq(Blocks), NEW u \in Seq(Blocks)
  PROVE  /\ t \o u \in Seq(Blocks)
         /\ Len(t \o u) = Len(t) + Len(u)
         /\ \A i \in 1 .. Len(t) : (t \o u)[i] = t[i]
         /\ \A i \in 1 .. Len(u) : (t \o u)[Len(t) + i] = u[i]
OBVIOUS

\* Taking the blocks past the first k away from one request and putting them on
\* the free list keeps the pool partitioned, whether the request keeps an entry
\* (trim) or, when k = 0, loses it (free).
LEMMA ReturnTail ==
  ASSUME NEW m, Partitioned(m),
         NEW r \in DOMAIN m.table, NEW k \in 0 .. Len(m.table[r]),
         NEW n, IsManager(n),
         n.free = GiveBack(m, SubSeq(m.table[r], k + 1, Len(m.table[r]))),
         \/ DOMAIN n.table = DOMAIN m.table /\ n.table[r] = SubSeq(m.table[r], 1, k)
         \/ DOMAIN n.table = DOMAIN m.table \ {r} /\ k = 0,
         \A q \in DOMAIN m.table \ {r} : n.table[q] = m.table[q]
  PROVE  Partitioned(n)
<1> DEFINE t    == m.table[r]
           tail == SubSeq(t, k + 1, Len(t))
           old  == m.free
           f    == Len(old)
           new  == n.free
<1> HIDE DEF t, tail, f, old, new
<1>1. /\ t \in Seq(Blocks)
      /\ old \in Seq(Blocks)
      /\ f \in Nat
      /\ Len(t) \in Nat
      /\ k \in Nat /\ k <= Len(t)
      /\ new \in Seq(Blocks)
  BY DEF Partitioned, IsManager, t, old, new, f
<1>2. /\ tail \in Seq(Blocks)
      /\ Len(tail) = Len(t) - k
      /\ \A i \in 1 .. Len(t) - k : tail[i] = t[k + i]
      /\ \A i \in 1 .. k : SubSeq(t, 1, k)[i] = t[i]
      /\ Len(SubSeq(t, 1, k)) = k
      /\ SubSeq(t, 1, k) \in Seq(Blocks)
  BY <1>1, TailOfTable DEF tail
<1>3. /\ Len(new) = f + Len(tail)
      /\ \A i \in 1 .. f : new[i] = old[i]
      /\ \A i \in 1 .. Len(tail) : new[f + i] = tail[Len(tail) + 1 - i]
  <2>1. new = GiveBack(m, tail)
    BY DEF new, tail, t
  <2>2. m.free \in Seq(Blocks)
    BY <1>1 DEF old
  <2>3. /\ Len(GiveBack(m, tail)) = Len(m.free) + Len(tail)
        /\ \A i \in 1 .. Len(m.free) : GiveBack(m, tail)[i] = m.free[i]
        /\ \A i \in 1 .. Len(tail) :
             GiveBack(m, tail)[Len(m.free) + i] = tail[Len(tail) + 1 - i]
    BY <1>2, <2>2, GiveBackType, ZenonT(40)
  <2>4. QED
    BY <2>1, <2>3 DEF f, old
<1>4. \A i \in 1 .. Len(t) - k : new[f + i] = t[Len(t) + 1 - i]
  <2> SUFFICES ASSUME NEW i \in 1 .. Len(t) - k
               PROVE  new[f + i] = t[Len(t) + 1 - i]
    OBVIOUS
  <2>1. Len(t) - k + 1 - i \in 1 .. Len(t) - k
    BY <1>1
  <2>2. k + (Len(t) - k + 1 - i) = Len(t) + 1 - i
    BY <1>1
  <2>3. QED
    BY <1>2, <1>3, <2>1, <2>2
<1>5. /\ DOMAIN new = 1 .. f + Len(t) - k
      /\ DOMAIN old = 1 .. f
      /\ DOMAIN t = 1 .. Len(t)
  <2>1. DOMAIN new = 1 .. Len(new)
    BY <1>1
  <2>2. f + (Len(t) - k) = f + Len(t) - k
    BY <1>1
  <2>3. QED
    BY <1>1, <1>2, <1>3, <2>1, <2>2 DEF f
\* Where each block of the new free list was before.
<1>6. \A i \in DOMAIN new :
        \/ i \in DOMAIN old /\ new[i] = old[i]
        \/ /\ i \notin DOMAIN old
           /\ Len(t) + 1 - (i - f) \in k + 1 .. Len(t)
           /\ new[i] = t[Len(t) + 1 - (i - f)]
  <2> SUFFICES ASSUME NEW i \in DOMAIN new, i \notin DOMAIN old
               PROVE  /\ Len(t) + 1 - (i - f) \in k + 1 .. Len(t)
                      /\ new[i] = t[Len(t) + 1 - (i - f)]
    BY <1>3, <1>5
  <2>1. i - f \in 1 .. Len(t) - k /\ f + (i - f) = i
    BY <1>1, <1>5
  <2>2. QED
    BY <1>4, <1>5, <2>1, SMTT(30)
\* Where each block of the new tables was before.
<1>7. \A q \in DOMAIN n.table :
        /\ q \in DOMAIN m.table
        /\ DOMAIN n.table[q] \subseteq DOMAIN m.table[q]
        /\ \A j \in DOMAIN n.table[q] : n.table[q][j] = m.table[q][j]
        /\ q = r => DOMAIN n.table[q] = 1 .. k
  <2> SUFFICES ASSUME NEW q \in DOMAIN n.table
               PROVE  /\ q \in DOMAIN m.table
                      /\ DOMAIN n.table[q] \subseteq DOMAIN m.table[q]
                      /\ \A j \in DOMAIN n.table[q] : n.table[q][j] = m.table[q][j]
                      /\ q = r => DOMAIN n.table[q] = 1 .. k
    OBVIOUS
  <2>1. CASE q # r
    BY <2>1
  <2>2. CASE q = r
    <3>1. n.table[q] = SubSeq(t, 1, k)
      BY <2>2 DEF t
    <3>2. DOMAIN SubSeq(t, 1, k) = 1 .. k
      BY <1>2
    <3>3. m.table[q] = t
      BY <2>2 DEF t
    <3>4. QED
      BY <1>1, <1>2, <1>5, <3>1, <3>2, <3>3
  <2>3. QED
    BY <2>1, <2>2
<1>8. FreeDistinct(n)
  <2> SUFFICES ASSUME NEW i \in DOMAIN new, NEW j \in DOMAIN new, new[i] = new[j]
               PROVE  i = j
    BY DEF FreeDistinct, new
  <2>1. /\ \A x, y \in DOMAIN old : old[x] = old[y] => x = y
        /\ \A x, y \in DOMAIN t : t[x] = t[y] => x = y
        /\ \A x \in DOMAIN old, y \in DOMAIN t : old[x] # t[y]
    BY DEF Partitioned, FreeDistinct, TablesDistinct, FreeNotHeld, old, t
  <2>2. QED
    BY <1>1, <1>5, <1>6, <2>1, SMTT(30)
<1>9. TablesDistinct(n)
  BY <1>7 DEF Partitioned, TablesDistinct
<1>10. FreeNotHeld(n)
  <2> SUFFICES ASSUME NEW q \in DOMAIN n.table, NEW i \in DOMAIN new,
                      NEW j \in DOMAIN n.table[q], new[i] = n.table[q][j]
               PROVE  FALSE
    BY DEF FreeNotHeld, new
  <2>1. q \in DOMAIN m.table /\ j \in DOMAIN m.table[q] /\ new[i] = m.table[q][j]
    BY <1>7
  <2>2. i \notin DOMAIN old
    BY <1>6, <2>1 DEF Partitioned, FreeNotHeld, old
  <2>3. PICK x \in k + 1 .. Len(t) : new[i] = t[x]
    BY <1>6, <2>2
  <2>4. x \in DOMAIN t
    BY <1>5, <2>3
  <2>5. q = r /\ j = x
    BY <2>1, <2>3, <2>4, ZenonT(40) DEF Partitioned, TablesDistinct, t
  <2>6. QED
    BY <1>5, <1>7, <2>3, <2>5
<1>11. NoneLost(n)
  <2> SUFFICES ASSUME NEW b \in Blocks
               PROVE  \/ \E i \in DOMAIN new : new[i] = b
                      \/ \E q \in DOMAIN n.table : \E j \in DOMAIN n.table[q] : n.table[q][j] = b
    BY DEF NoneLost, new
  <2>1. CASE \E i \in DOMAIN old : old[i] = b
    BY <2>1, <1>1, <1>3, <1>5
  <2>2. CASE \E j \in k + 1 .. Len(t) : t[j] = b
    <3>1. PICK j \in k + 1 .. Len(t) : t[j] = b
      BY <2>2
    <3>2. Len(t) + 1 - j \in 1 .. Len(t) - k /\ Len(t) + 1 - (Len(t) + 1 - j) = j
      BY <1>5, <3>1
    <3>3. new[f + (Len(t) + 1 - j)] = b
      BY <1>4, <3>1, <3>2
    <3>4. f + (Len(t) + 1 - j) \in DOMAIN new
      BY <1>1, <1>5, <3>1
    <3>5. QED
      BY <3>3, <3>4
  <2>3. CASE \E q \in DOMAIN m.table : \E j \in DOMAIN m.table[q] :
               m.table[q][j] = b /\ (q = r => j \in 1 .. k)
    <3>1. PICK q \in DOMAIN m.table : \E j \in DOMAIN m.table[q] :
                 m.table[q][j] = b /\ (q = r => j \in 1 .. k)
      BY <2>3
    <3>2. CASE q # r
      BY <3>1, <3>2
    <3>3. CASE q = r
      <4>1. PICK j \in 1 .. k : t[j] = b
        BY <3>1, <3>3 DEF t
      <4>2. r \in DOMAIN n.table /\ n.table[r] = SubSeq(t, 1, k)
        BY <4>1 DEF t
      <4>3. DOMAIN SubSeq(t, 1, k) = 1 .. k
        BY <1>2
      <4>4. QED
        BY <1>2, <4>1, <4>2, <4>3
    <3>4. QED
      BY <3>2, <3>3
  <2>4. QED
    BY <1>5, <2>1, <2>2, <2>3 DEF Partitioned, NoneLost, old, t
<1>12. QED
  BY <1>8, <1>9, <1>10, <1>11 DEF Partitioned

\* Moving the first k free blocks to the end of one request's table keeps the
\* pool partitioned.
LEMMA GrowTable ==
  ASSUME NEW m, Partitioned(m), NEW r \in RequestIds, NEW k \in 0 .. Len(m.free),
         NEW n, n = [free |-> n.free, table |-> n.table],
         n.free = SubSeq(m.free, k + 1, Len(m.free)),
         n.table \in [DOMAIN m.table \cup {r} -> Seq(Blocks)],
         n.table[r] = BlocksOf(m, r) \o SubSeq(m.free, 1, k),
         \A q \in DOMAIN m.table \ {r} : n.table[q] = m.table[q]
  PROVE  Partitioned(n)
<1> DEFINE old  == m.free
           t    == BlocksOf(m, r)
           pop  == SubSeq(old, 1, k)
           rest == SubSeq(old, k + 1, Len(old))
           grown == t \o pop
<1> HIDE DEF t, old, pop, rest, grown
<1>1. /\ old \in Seq(Blocks) /\ Len(old) \in Nat
      /\ t \in Seq(Blocks) /\ Len(t) \in Nat
      /\ k \in Nat /\ k <= Len(old)
      /\ DOMAIN old = 1 .. Len(old)
      /\ DOMAIN t = 1 .. Len(t)
  <2>1. old \in Seq(Blocks) /\ k \in 0 .. Len(old)
    BY DEF Partitioned, IsManager, old
  <2>2. t \in Seq(Blocks)
    BY BlocksOfType DEF Partitioned, t
  <2>3. QED
    BY <2>1, <2>2
<1>2. /\ rest \in Seq(Blocks)
      /\ Len(rest) = Len(old) - k
      /\ \A i \in 1 .. Len(old) - k : rest[i] = old[k + i]
      /\ pop \in Seq(Blocks)
      /\ Len(pop) = k
      /\ \A i \in 1 .. k : pop[i] = old[i]
  <2>1. k \in 0 .. Len(old)
    BY <1>1
  <2>2. QED
    BY <1>1, <2>1, TailOfTable DEF rest, pop
<1>3. /\ grown \in Seq(Blocks)
      /\ Len(grown) = Len(t) + k
      /\ \A i \in 1 .. Len(t) : grown[i] = t[i]
      /\ \A i \in 1 .. k : grown[Len(t) + i] = pop[i]
  BY <1>1, <1>2, AppendTable DEF grown
<1>4. /\ DOMAIN rest = 1 .. Len(old) - k
      /\ DOMAIN grown = 1 .. Len(t) + k
  BY <1>2, <1>3
<1>5. /\ n.free = rest
      /\ DOMAIN n.table = DOMAIN m.table \cup {r}
      /\ n.table[r] = grown
      /\ \A q \in DOMAIN m.table \ {r} : n.table[q] = m.table[q]
  BY DEF rest, grown, t, pop, old
<1>6. IsManager(n)
  BY <1>2, <1>5 DEF Partitioned, IsManager
\* Where each block of the new table and of the new free list was before.
<1>7. \A j \in 1 .. Len(t) :
        r \in DOMAIN m.table /\ j \in DOMAIN m.table[r] /\ grown[j] = m.table[r][j]
  <2> SUFFICES ASSUME NEW j \in 1 .. Len(t)
               PROVE  r \in DOMAIN m.table /\ j \in DOMAIN m.table[r] /\ grown[j] = m.table[r][j]
    OBVIOUS
  <2>1. r \in DOMAIN m.table /\ t = m.table[r]
    BY <1>1 DEF t, BlocksOf
  <2>2. QED
    BY <1>1, <1>3, <2>1
<1>8. \A j \in DOMAIN grown : j \notin 1 .. Len(t) =>
         j - Len(t) \in DOMAIN old /\ j - Len(t) \in 1 .. k /\ grown[j] = old[j - Len(t)]
  <2> SUFFICES ASSUME NEW j \in DOMAIN grown, j \notin 1 .. Len(t)
               PROVE  /\ j - Len(t) \in DOMAIN old
                      /\ j - Len(t) \in 1 .. k
                      /\ grown[j] = old[j - Len(t)]
    OBVIOUS
  <2>1. j - Len(t) \in 1 .. k /\ Len(t) + (j - Len(t)) = j
    BY <1>1, <1>4, SMTT(30)
  <2>2. 1 .. k \subseteq DOMAIN old
    <3>1. k \in Nat /\ k <= Len(old) /\ Len(old) \in Nat /\ DOMAIN old = 1 .. Len(old)
      BY <1>1
    <3>2. QED
      BY <3>1
  <2>3. QED
    BY <1>2, <1>3, <2>1, <2>2
<1>9. \A i \in DOMAIN rest :
        k + i \in DOMAIN old /\ k + i \notin 1 .. k /\ rest[i] = old[k + i]
  <2> SUFFICES ASSUME NEW i \in 1 .. Len(old) - k
               PROVE  k + i \in 1 .. Len(old) /\ k + i \notin 1 .. k /\ rest[i] = old[k + i]
    BY <1>1, <1>4
  <2>1. k + i \in 1 .. Len(old) /\ k + i \notin 1 .. k
    BY <1>1
  <2>2. QED
    BY <1>2, <2>1
<1>10. \A i, j \in DOMAIN old : old[i] = old[j] => i = j
  BY DEF Partitioned, FreeDistinct, old
<1>11. \A q \in DOMAIN m.table : \A i \in DOMAIN old, j \in DOMAIN m.table[q] :
         old[i] # m.table[q][j]
  BY DEF Partitioned, FreeNotHeld, old
<1>12. \A q, s \in DOMAIN m.table :
         \A i \in DOMAIN m.table[q], j \in DOMAIN m.table[s] :
           m.table[q][i] = m.table[s][j] => q = s /\ i = j
  BY DEF Partitioned, TablesDistinct
<1>13. FreeDistinct(n)
  <2> SUFFICES ASSUME NEW i \in DOMAIN rest, NEW j \in DOMAIN rest, rest[i] = rest[j]
               PROVE  i = j
    BY <1>5 DEF FreeDistinct
  <2>1. k + i = k + j
    BY <1>9, <1>10
  <2>2. QED
    BY <1>1, <1>4, <2>1
<1>14. TablesDistinct(n)
  <2>1. \A i, j \in DOMAIN grown : grown[i] = grown[j] => i = j
    <3> SUFFICES ASSUME NEW i \in DOMAIN grown, NEW j \in DOMAIN grown, grown[i] = grown[j]
                 PROVE  i = j
      OBVIOUS
    <3>1. CASE i \in 1 .. Len(t) /\ j \in 1 .. Len(t)
      BY <1>7, <1>12, <3>1, SMTT(30)
    <3>2. CASE i \notin 1 .. Len(t) /\ j \notin 1 .. Len(t)
      <4>1. i - Len(t) = j - Len(t)
        BY <1>8, <1>10, <3>2
      <4>2. QED
        BY <1>1, <1>4, <4>1
    <3>3. CASE i \in 1 .. Len(t) /\ j \notin 1 .. Len(t)
      BY <1>7, <1>8, <1>11, <3>3, SMTT(30)
    <3>4. CASE i \notin 1 .. Len(t) /\ j \in 1 .. Len(t)
      BY <1>7, <1>8, <1>11, <3>4, SMTT(30)
    <3>5. QED
      BY <3>1, <3>2, <3>3, <3>4
  <2>2. \A q \in DOMAIN m.table \ {r} : \A i \in DOMAIN m.table[q], j \in DOMAIN grown :
          m.table[q][i] # grown[j]
    <3> SUFFICES ASSUME NEW q \in DOMAIN m.table \ {r}, NEW i \in DOMAIN m.table[q],
                        NEW j \in DOMAIN grown
                 PROVE  m.table[q][i] # grown[j]
      OBVIOUS
    <3>1. CASE j \in 1 .. Len(t)
      BY <1>7, <1>12, <3>1
    <3>2. CASE j \notin 1 .. Len(t)
      BY <1>8, <1>11, <3>2
    <3>3. QED
      BY <3>1, <3>2
  <2> SUFFICES ASSUME NEW q \in DOMAIN n.table, NEW s \in DOMAIN n.table,
                      NEW i \in DOMAIN n.table[q], NEW j \in DOMAIN n.table[s],
                      n.table[q][i] = n.table[s][j]
               PROVE  q = s /\ i = j
    BY DEF TablesDistinct
  <2>3. CASE q = r /\ s = r
    BY <1>5, <2>1, <2>3
  <2>4. CASE q # r /\ s # r
    <3>1. /\ q \in DOMAIN m.table /\ s \in DOMAIN m.table
          /\ n.table[q] = m.table[q] /\ n.table[s] = m.table[s]
      BY <1>5, <2>4
    <3>2. /\ i \in DOMAIN m.table[q] /\ j \in DOMAIN m.table[s]
          /\ m.table[q][i] = m.table[s][j]
      BY <3>1
    <3>3. QED
      BY <1>12, <3>1, <3>2
  <2>5. CASE q # r /\ s = r
    BY <1>5, <2>2, <2>5
  <2>6. CASE q = r /\ s # r
    BY <1>5, <2>2, <2>6
  <2>7. QED
    BY <2>3, <2>4, <2>5, <2>6
<1>15. FreeNotHeld(n)
  <2> SUFFICES ASSUME NEW q \in DOMAIN n.table, NEW i \in DOMAIN rest,
                      NEW j \in DOMAIN n.table[q]
               PROVE  rest[i] # n.table[q][j]
    BY <1>5 DEF FreeNotHeld
  <2>1. k + i \in DOMAIN old /\ k + i \notin 1 .. k /\ rest[i] = old[k + i]
    BY <1>9
  <2>2. CASE q = r
    <3>1. j \in DOMAIN grown /\ n.table[q][j] = grown[j]
      BY <1>5, <2>2
    <3>2. CASE j \in 1 .. Len(t)
      BY ONLY <1>7, <1>11, <2>1, <3>1, <3>2
    <3>3. CASE j \notin 1 .. Len(t)
      BY <1>10, <1>8, <2>1, <3>1, <3>3
    <3>4. QED
      BY <3>2, <3>3
  <2>3. CASE q # r
    <3>1. q \in DOMAIN m.table /\ n.table[q] = m.table[q]
      BY <1>5, <2>3
    <3>2. j \in DOMAIN m.table[q]
      BY <3>1
    <3>3. QED
      BY <1>11, <2>1, <3>1, <3>2
  <2>4. QED
    BY <2>2, <2>3
<1>16. NoneLost(n)
  <2> SUFFICES ASSUME NEW b \in Blocks
               PROVE  \/ \E i \in DOMAIN rest : rest[i] = b
                      \/ \E q \in DOMAIN n.table : \E j \in DOMAIN n.table[q] : n.table[q][j] = b
    BY <1>5 DEF NoneLost
  <2>1. CASE \E i \in 1 .. k : old[i] = b
    <3>1. PICK i \in 1 .. k : old[i] = b
      BY <2>1
    <3>2. Len(t) + i \in DOMAIN grown
      BY <1>1, <1>4, <3>1, SMTT(30)
    <3>3. grown[Len(t) + i] = b
      BY <1>2, <1>3, <3>1
    <3>4. QED
      BY <1>5, <3>2, <3>3
  <2>2. CASE \E i \in DOMAIN old : i \notin 1 .. k /\ old[i] = b
    <3>1. PICK i \in DOMAIN old : i \notin 1 .. k /\ old[i] = b
      BY <2>2
    <3>2. i - k \in 1 .. Len(old) - k /\ k + (i - k) = i
      BY <1>1, <3>1
    <3>3. QED
      BY <1>2, <1>4, <3>1, <3>2
  <2>3. CASE \E q \in DOMAIN m.table : \E j \in DOMAIN m.table[q] : m.table[q][j] = b
    <3>1. PICK q \in DOMAIN m.table : \E j \in DOMAIN m.table[q] : m.table[q][j] = b
      BY <2>3
    <3>2. CASE q # r
      BY <1>5, <3>1, <3>2
    <3>3. CASE q = r
      <4>1. t = m.table[r]
        BY <3>3 DEF t, BlocksOf
      <4>2. PICK j \in 1 .. Len(t) : t[j] = b
        BY <1>1, <3>1, <3>3, <4>1
      <4>3. j \in DOMAIN grown /\ grown[j] = b
        BY <1>1, <1>3, <1>4, <4>2
      <4>4. QED
        BY <1>5, <4>3
    <3>4. QED
      BY <3>2, <3>3
  <2>4. QED
    BY <1>1, <2>1, <2>2, <2>3 DEF Partitioned, NoneLost, old
<1>17. QED
  BY <1>6, <1>13, <1>14, <1>15, <1>16 DEF Partitioned

\* try_allocate_slots keeps the pool partitioned.
LEMMA AllocateKeeps ==
  ASSUME NEW m, Partitioned(m), NEW r \in RequestIds, NEW tokens \in Nat
  PROVE  Partitioned(Allocate(m, r, tokens))
<1> DEFINE k == Needed(m, r, tokens)
           n == Allocate(m, r, tokens)
<1>1. CASE k = 0 \/ ~CanAllocate(m, r, tokens)
  BY <1>1 DEF Allocate
<1>2. CASE k # 0 /\ CanAllocate(m, r, tokens)
  <2>1. n = [free  |-> SubSeq(m.free, k + 1, Len(m.free)),
             table |-> [q \in DOMAIN m.table \cup {r} |->
                          IF q = r THEN BlocksOf(m, r) \o SubSeq(m.free, 1, k)
                          ELSE m.table[q]]]
    BY <1>2 DEF Allocate, Popped
  <2>2. m.free \in Seq(Blocks) /\ IsManager(m)
    BY DEF Partitioned, IsManager
  <2>3. k \in 0 .. Len(m.free)
    BY <1>2, <2>2, NeededType DEF CanAllocate
  <2>4. SubSeq(m.free, 1, k) \in Seq(Blocks)
    BY <2>2, <2>3, TailOfTable
  <2>5. BlocksOf(m, r) \in Seq(Blocks)
    BY <2>2, BlocksOfType
  <2>6. BlocksOf(m, r) \o SubSeq(m.free, 1, k) \in Seq(Blocks)
    BY <2>4, <2>5, AppendTable
  <2> DEFINE u == BlocksOf(m, r) \o SubSeq(m.free, 1, k)
             f == SubSeq(m.free, k + 1, Len(m.free))
  <2>7. u \in Seq(Blocks)
    BY <2>6
  <2> HIDE DEF u, f, n, k
  <2>8. n = [free |-> f, table |-> [q \in DOMAIN m.table \cup {r} |->
                                      IF q = r THEN u ELSE m.table[q]]]
    BY <2>1 DEF u, f
  <2>9. /\ n = [free |-> n.free, table |-> n.table]
        /\ n.free = f
        /\ n.table \in [DOMAIN m.table \cup {r} -> Seq(Blocks)]
        /\ n.table[r] = u
        /\ \A q \in DOMAIN m.table \ {r} : n.table[q] = m.table[q]
    BY <2>2, <2>7, <2>8 DEF IsManager
  <2>10. Partitioned(n)
    BY <2>3, <2>9, GrowTable DEF u, f
  <2>11. QED
    BY <2>10 DEF n
<1>3. QED
  BY <1>1, <1>2

\* trim_request_to_num_tokens keeps the pool partitioned.
LEMMA TrimKeeps ==
  ASSUME NEW m, Partitioned(m), NEW r \in RequestIds, NEW tokens \in Nat
  PROVE  Partitioned(Trim(m, r, tokens))
<1> DEFINE k == BlocksFor(tokens)
           n == Trim(m, r, tokens)
<1>1. CASE k >= Held(m, r)
  BY <1>1 DEF Trim
<1>2. CASE ~(k >= Held(m, r))
  <2>1. k \in Nat
    BY BlocksForType
  <2>2. IsManager(m)
    BY DEF Partitioned
  <2>3. r \in DOMAIN m.table /\ Held(m, r) = Len(m.table[r])
    BY <1>2, <2>1 DEF Held, BlocksOf
  <2> DEFINE t == m.table[r]
             u == SubSeq(t, 1, k)
             g == GiveBack(m, SubSeq(t, k + 1, Len(t)))
  <2>4. t \in Seq(Blocks) /\ m.free \in Seq(Blocks)
    BY <2>2, <2>3 DEF IsManager
  <2>5. k \in 0 .. Len(t)
    BY <1>2, <2>1, <2>3, <2>4
  <2>6. u \in Seq(Blocks) /\ g \in Seq(Blocks)
    BY <2>4, <2>5, TailOfTable, GiveBackType
  <2>7. n = [free |-> g, table |-> [m.table EXCEPT ![r] = u]]
    BY <1>2, <2>3 DEF Trim
  <2> HIDE DEF u, g, n, k
  <2>8. /\ n = [free |-> n.free, table |-> n.table]
        /\ n.free = g
        /\ n.table \in [DOMAIN m.table -> Seq(Blocks)]
        /\ n.table[r] = u
        /\ \A q \in DOMAIN m.table \ {r} : n.table[q] = m.table[q]
    BY <2>2, <2>3, <2>6, <2>7 DEF IsManager
  <2>9. IsManager(n)
    BY <2>2, <2>6, <2>8 DEF IsManager
  <2>10. DOMAIN n.table = DOMAIN m.table
    BY <2>8
  <2>11. Partitioned(n)
    BY <2>3, <2>5, <2>8, <2>9, <2>10, ReturnTail DEF u, g
  <2>12. QED
    BY <2>11 DEF n
<1>3. QED
  BY <1>1, <1>2

\* free_request keeps the pool partitioned.
LEMMA FreeKeeps ==
  ASSUME NEW m, Partitioned(m), NEW r \in RequestIds
  PROVE  Partitioned(FreeRequest(m, r))
<1> DEFINE n == FreeRequest(m, r)
<1>1. CASE r \notin DOMAIN m.table
  BY <1>1 DEF FreeRequest
<1>2. CASE r \in DOMAIN m.table
  <2> DEFINE t == m.table[r]
             g == GiveBack(m, t)
  <2>1. IsManager(m)
    BY DEF Partitioned
  <2>2. t \in Seq(Blocks) /\ m.free \in Seq(Blocks)
    BY <1>2, <2>1 DEF IsManager
  <2>3. g \in Seq(Blocks)
    BY <2>2, GiveBackType
  <2>4. SubSeq(t, 0 + 1, Len(t)) = t
    BY <2>2, SubSeqFull
  <2>5. n = [free |-> g, table |-> Restrict(m.table, DOMAIN m.table \ {r})]
    BY <1>2 DEF FreeRequest
  <2>6. 0 \in 0 .. Len(t)
    BY <2>2
  <2> HIDE DEF g, n
  <2>7. /\ n = [free |-> n.free, table |-> n.table]
        /\ n.free = g
        /\ DOMAIN n.table = DOMAIN m.table \ {r}
        /\ n.table \in [DOMAIN m.table \ {r} -> Seq(Blocks)]
        /\ \A q \in DOMAIN m.table \ {r} : n.table[q] = m.table[q]
    BY <2>1, <2>5 DEF IsManager, Restrict
  <2>8. IsManager(n)
    BY <2>1, <2>3, <2>7 DEF IsManager
  <2>9. n.free = GiveBack(m, SubSeq(t, 0 + 1, Len(t)))
    BY <2>4, <2>7 DEF g
  <2>10. Partitioned(n)
    BY <1>2, <2>6, <2>7, <2>8, <2>9, ReturnTail
  <2>11. QED
    BY <2>10 DEF n
<1>3. QED
  BY <1>1, <1>2

\* A position is its block number times the block size plus its offset.
LEMMA DivMod ==
  ASSUME NEW p \in Nat
  PROVE  /\ p \div BlockSize \in Nat
         /\ p % BlockSize \in 0 .. BlockSize - 1
         /\ p = (p \div BlockSize) * BlockSize + (p % BlockSize)
BY PoolAssumption

\* More tokens need no fewer blocks, and any tokens need one.
LEMMA BlocksForGrows ==
  ASSUME NEW a \in Nat, NEW b \in Nat, a <= b
  PROVE  /\ BlocksFor(a) <= BlocksFor(b)
         /\ b > 0 => BlocksFor(b) > 0
<1>1. \A n \in Nat : /\ BlocksFor(n) \in Nat
                     /\ BlocksFor(n) * BlockSize <= n + BlockSize - 1
                     /\ n + BlockSize - 1 < BlocksFor(n) * BlockSize + BlockSize
  BY PoolAssumption, DivMod DEF BlocksFor
<1>2. \A c \in Nat, d \in Nat : c < d => c * BlockSize + BlockSize <= d * BlockSize
  BY PoolAssumption
<1> DEFINE c == BlocksFor(b)
           d == BlocksFor(a)
<1>3. /\ c \in Nat /\ d \in Nat
      /\ d * BlockSize <= a + BlockSize - 1
      /\ b + BlockSize - 1 < c * BlockSize + BlockSize
  BY <1>1
<1> HIDE DEF c, d
<1>4. c * BlockSize \in Nat /\ d * BlockSize \in Nat /\ BlockSize \in Nat
  BY <1>3, PoolAssumption
<1>5. ~(c < d)
  BY <1>2, <1>3, <1>4
<1>6. b > 0 => c # 0
  BY <1>3, <1>4, PoolAssumption
<1>7. QED
  BY <1>3, <1>5, <1>6 DEF c, d

\* After try_allocate_slots the request holds enough if it could be given, the
\* others what they held.
LEMMA AllocateHolds ==
  ASSUME NEW m, Partitioned(m), NEW r \in RequestIds, NEW tokens \in Nat
  PROVE  /\ \A q \in RequestIds \ {r} : Held(Allocate(m, r, tokens), q) = Held(m, q)
         /\ Held(Allocate(m, r, tokens), r) >= Held(m, r)
         /\ CanAllocate(m, r, tokens) => Held(Allocate(m, r, tokens), r) >= BlocksFor(tokens)
         /\ r \in DOMAIN m.table =>
              DOMAIN Allocate(m, r, tokens).table = DOMAIN m.table
         /\ CanAllocate(m, r, tokens) /\ BlocksFor(tokens) > 0 =>
              DOMAIN Allocate(m, r, tokens).table = DOMAIN m.table \cup {r}
<1> DEFINE k   == Needed(m, r, tokens)
           n   == Allocate(m, r, tokens)
           old == BlocksOf(m, r)
           pop == Popped(m, r, tokens)
<1>1. /\ IsManager(m) /\ m.free \in Seq(Blocks) /\ old \in Seq(Blocks)
      /\ k \in Nat /\ Len(old) \in Nat /\ Len(old) = Held(m, r)
      /\ BlocksFor(tokens) \in Nat
  BY NeededType, BlocksOfType, BlocksForType DEF Partitioned, IsManager, Held
<1>2. CASE k = 0 \/ ~CanAllocate(m, r, tokens)
  <2>1. n = m
    BY <1>2 DEF Allocate
  <2>2. CanAllocate(m, r, tokens) => Held(m, r) >= BlocksFor(tokens)
    BY <1>1, <1>2 DEF Needed
  <2>3. Held(m, r) > 0 => r \in DOMAIN m.table
    BY DEF Held, BlocksOf
  <2>4. DOMAIN m.table \cup {r} = DOMAIN m.table \/ r \notin DOMAIN m.table
    OBVIOUS
  <2> HIDE DEF n
  <2>5. QED
    BY <1>1, <2>1, <2>2, <2>3, <2>4 DEF n
<1>3. CASE k # 0 /\ CanAllocate(m, r, tokens)
  <2>1. pop \in Seq(Blocks) /\ Len(pop) = k
    <3>1. k \in 0 .. Len(m.free)
      BY <1>1, <1>3 DEF CanAllocate
    <3>2. QED
      BY <1>1, <3>1, TailOfTable DEF Popped
  <2>2. /\ DOMAIN n.table = DOMAIN m.table \cup {r}
        /\ n.table[r] = old \o pop
        /\ \A q \in DOMAIN m.table \ {r} : n.table[q] = m.table[q]
    BY <1>3 DEF Allocate
  <2> HIDE DEF n, old, pop, k
  <2>3. Len(old \o pop) = Len(old) + k
    BY <1>1, <2>1, AppendTable
  <2>4. \A q \in RequestIds \ {r} : Held(n, q) = Held(m, q)
    BY <2>2 DEF Held, BlocksOf
  <2>5. Held(n, r) = Held(m, r) + k
    BY <1>1, <2>2, <2>3 DEF Held, BlocksOf
  <2>6. Held(m, r) + k >= BlocksFor(tokens)
    BY <1>1 DEF Needed, k
  <2>7. r \in DOMAIN m.table => DOMAIN n.table = DOMAIN m.table
    BY <2>2
  <2>8. QED
    BY <1>1, <2>2, <2>4, <2>5, <2>6, <2>7 DEF n
<1>4. QED
  BY <1>2, <1>3

\* After trim_request_to_num_tokens the request holds what it needs or all it
\* held, the others what they held.
LEMMA TrimHolds ==
  ASSUME NEW m, Partitioned(m), NEW r \in RequestIds, NEW tokens \in Nat
  PROVE  /\ DOMAIN Trim(m, r, tokens).table = DOMAIN m.table
         /\ \A q \in RequestIds \ {r} : Held(Trim(m, r, tokens), q) = Held(m, q)
         /\ BlocksFor(tokens) <= Held(m, r) =>
              BlocksFor(tokens) <= Held(Trim(m, r, tokens), r)
<1> DEFINE k == BlocksFor(tokens)
           n == Trim(m, r, tokens)
           t == BlocksOf(m, r)
<1>1. IsManager(m) /\ t \in Seq(Blocks) /\ Len(t) = Held(m, r) /\ k \in Nat
  BY BlocksOfType, BlocksForType DEF Partitioned, Held
<1>2. CASE k >= Held(m, r)
  <2>1. n = m
    BY <1>2 DEF Trim
  <2> HIDE DEF n
  <2>2. QED
    BY <2>1 DEF n
<1>3. CASE ~(k >= Held(m, r))
  <2>1. r \in DOMAIN m.table /\ t = m.table[r]
    BY <1>1, <1>3 DEF BlocksOf
  <2>2. k \in 0 .. Len(t)
    BY <1>1, <1>3
  <2>3. /\ DOMAIN n.table = DOMAIN m.table
        /\ n.table[r] = SubSeq(t, 1, k)
        /\ \A q \in DOMAIN m.table \ {r} : n.table[q] = m.table[q]
    BY <1>3, <2>1 DEF Trim, IsManager
  <2>4. Len(SubSeq(t, 1, k)) = k
    BY <1>1, <2>2, TailOfTable
  <2> HIDE DEF n, t
  <2>5. Held(n, r) = k
    BY <2>1, <2>3, <2>4 DEF Held, BlocksOf
  <2>6. \A q \in RequestIds \ {r} : Held(n, q) = Held(m, q)
    BY <2>3 DEF Held, BlocksOf
  <2>7. QED
    BY <1>1, <2>3, <2>5, <2>6 DEF n
<1>4. QED
  BY <1>2, <1>3

\* After free_request the request holds nothing, the others what they held.
LEMMA FreeHolds ==
  ASSUME NEW m, NEW r \in RequestIds
  PROVE  /\ DOMAIN FreeRequest(m, r).table = DOMAIN m.table \ {r}
         /\ \A q \in RequestIds \ {r} : Held(FreeRequest(m, r), q) = Held(m, q)
  BY DEF FreeRequest, Held, BlocksOf, Restrict

\* Two (block, offset) pairs that give the same slot are the same pair.
LEMMA SlotUnique ==
  ASSUME NEW b \in Nat, NEW c \in Nat,
         NEW x \in 0 .. BlockSize - 1, NEW y \in 0 .. BlockSize - 1,
         b * BlockSize + x = c * BlockSize + y
  PROVE  b = c /\ x = y
<1>1. \A d \in Nat, e \in Nat : d < e => d * BlockSize + BlockSize <= e * BlockSize
  BY PoolAssumption
<1>2. ~(b < c)
  BY <1>1, PoolAssumption
<1>3. ~(c < b)
  BY <1>1, PoolAssumption
<1>4. QED
  BY <1>2, <1>3, PoolAssumption

\* A covered position has a table entry, and its slot lies outside the null block.
LEMMA CoveredEntry ==
  ASSUME NEW m, IsManager(m), NEW r \in DOMAIN m.table, NEW i \in Covered(m, r)
  PROVE  /\ i \in Nat
         /\ i \div BlockSize + 1 \in DOMAIN m.table[r]
         /\ m.table[r][i \div BlockSize + 1] \in Blocks
<1> DEFINE t == m.table[r]
           d == i \div BlockSize
<1>1. t \in Seq(Blocks) /\ Len(t) \in Nat /\ DOMAIN t = 1 .. Len(t)
  BY DEF IsManager
<1>2. i \in Nat /\ i < Len(t) * BlockSize
  BY <1>1, PoolAssumption DEF Covered, Held, BlocksOf
<1>3. d \in Nat /\ d * BlockSize <= i
  BY <1>2, DivMod, PoolAssumption
<1> HIDE DEF t, d
<1>4. d < Len(t)
  <2>1. SUFFICES ASSUME Len(t) <= d PROVE FALSE
    BY <1>1, <1>3
  <2>2. Len(t) * BlockSize <= d * BlockSize
    BY <1>1, <1>3, <2>1, PoolAssumption
  <2>3. /\ Len(t) * BlockSize \in Nat
        /\ d * BlockSize \in Nat
    BY <1>1, <1>3, PoolAssumption
  <2>4. QED
    BY <1>2, <1>3, <2>2, <2>3
<1>5. d + 1 \in DOMAIN t
  BY <1>1, <1>3, <1>4
<1>6. t[d + 1] \in Blocks
  BY <1>1, <1>5
<1>7. QED
  BY <1>2, <1>5, <1>6 DEF t, d

\* No two positions covered by the block tables share a KV slot, and none uses
\* the null block.
LEMMA SlotsApart ==
  ASSUME NEW m, Partitioned(m),
         NEW r \in DOMAIN m.table, NEW q \in DOMAIN m.table,
         NEW i \in Covered(m, r), NEW j \in Covered(m, q)
  PROVE  /\ SlotOf(m, r, i) \in KvSlots
         /\ SlotOf(m, r, i) = SlotOf(m, q, j) => r = q /\ i = j
<1> DEFINE di == i \div BlockSize
           dj == j \div BlockSize
           mi == i % BlockSize
           mj == j % BlockSize
           b  == m.table[r][di + 1]
           c  == m.table[q][dj + 1]
<1>1. IsManager(m)
  BY DEF Partitioned
<1>2. /\ i \in Nat /\ di + 1 \in DOMAIN m.table[r] /\ b \in Blocks
      /\ j \in Nat /\ dj + 1 \in DOMAIN m.table[q] /\ c \in Blocks
  BY <1>1, CoveredEntry
<1>3. /\ di \in Nat /\ mi \in 0 .. BlockSize - 1 /\ i = di * BlockSize + mi
      /\ dj \in Nat /\ mj \in 0 .. BlockSize - 1 /\ j = dj * BlockSize + mj
  BY <1>2, DivMod
<1>4. b \in Nat /\ c \in Nat /\ 1 <= b /\ b <= NumBlocks - 1
  BY <1>2, PoolAssumption DEF Blocks
<1>5. SlotOf(m, r, i) = b * BlockSize + mi /\ SlotOf(m, q, j) = c * BlockSize + mj
  BY DEF SlotOf
<1>6. b = c => r = q /\ di + 1 = dj + 1
  BY <1>2 DEF Partitioned, TablesDistinct
<1> HIDE DEF di, dj, mi, mj, b, c
<1>7. b * BlockSize + mi \in KvSlots
  <2>1. BlockSize <= b * BlockSize
    BY <1>4, PoolAssumption
  <2>2. b * BlockSize + BlockSize <= NumBlocks * BlockSize
    BY <1>4, PoolAssumption
  <2>3. b * BlockSize \in Int /\ NumBlocks * BlockSize \in Int
    BY <1>4, PoolAssumption
  <2>4. QED
    BY <1>3, <2>1, <2>2, <2>3, PoolAssumption DEF KvSlots
<1>8. b * BlockSize + mi = c * BlockSize + mj => b = c /\ mi = mj
  BY <1>3, <1>4, SlotUnique
<1>9. b = c /\ mi = mj => r = q /\ i = j
  BY <1>3, <1>6
<1>10. QED
  BY <1>5, <1>7, <1>8, <1>9

\* The entries two versions of a request's table have in common.
SameEntries(m, n) ==
  \A r \in DOMAIN m.table \cap DOMAIN n.table :
    \A x \in DOMAIN m.table[r] \cap DOMAIN n.table[r] : n.table[r][x] = m.table[r][x]

\* Growing a table appends to it.
LEMMA AllocateSame ==
  ASSUME NEW m, IsManager(m), NEW r \in RequestIds, NEW tokens \in Nat
  PROVE  SameEntries(m, Allocate(m, r, tokens))
<1> DEFINE k == Needed(m, r, tokens)
           n == Allocate(m, r, tokens)
<1>1. CASE k = 0 \/ ~CanAllocate(m, r, tokens)
  BY <1>1 DEF Allocate, SameEntries
<1>2. CASE k # 0 /\ CanAllocate(m, r, tokens)
  <2> DEFINE t == BlocksOf(m, r)
             pop == SubSeq(m.free, 1, k)
             u == t \o pop
  <2>1. n.table = [q \in DOMAIN m.table \cup {r} |-> IF q = r THEN u ELSE m.table[q]]
    BY <1>2 DEF Allocate, Popped
  <2>2. m.free \in Seq(Blocks) /\ t \in Seq(Blocks)
    BY BlocksOfType DEF IsManager
  <2>3. k \in 0 .. Len(m.free)
    BY <1>2, <2>2, NeededType DEF CanAllocate
  <2>4. pop \in Seq(Blocks)
    BY <2>2, <2>3, TailOfTable
  <2> HIDE DEF pop
  <2>5. \A x \in 1 .. Len(t) : u[x] = t[x]
    BY <2>2, <2>4, AppendTable
  <2>6. r \in DOMAIN m.table => t = m.table[r] /\ DOMAIN m.table[r] = 1 .. Len(t)
    BY <2>2 DEF BlocksOf
  <2> HIDE DEF n, u, t
  <2>7. SameEntries(m, n)
    BY <2>1, <2>5, <2>6 DEF SameEntries
  <2>8. QED
    BY <2>7 DEF n
<1>3. QED
  BY <1>1, <1>2

\* Trimming a table keeps its front.
LEMMA TrimSame ==
  ASSUME NEW m, IsManager(m), NEW r \in RequestIds, NEW tokens \in Nat
  PROVE  SameEntries(m, Trim(m, r, tokens))
<1> DEFINE k == BlocksFor(tokens)
           n == Trim(m, r, tokens)
<1>1. CASE k >= Held(m, r)
  BY <1>1 DEF Trim, SameEntries
<1>2. CASE ~(k >= Held(m, r))
  <2>1. k \in Nat
    BY BlocksForType
  <2>2. r \in DOMAIN m.table /\ Held(m, r) = Len(m.table[r])
    BY <1>2, <2>1 DEF Held, BlocksOf
  <2> DEFINE t == m.table[r]
             u == SubSeq(t, 1, k)
  <2>3. t \in Seq(Blocks)
    BY <2>2 DEF IsManager
  <2>4. k \in 0 .. Len(t)
    BY <1>2, <2>1, <2>2, <2>3
  <2>5. DOMAIN u = 1 .. k /\ \A x \in 1 .. k : u[x] = t[x]
    BY <2>3, <2>4, TailOfTable
  <2>6. n.table = [m.table EXCEPT ![r] = u]
    BY <1>2, <2>2 DEF Trim
  <2> HIDE DEF n, u
  <2>7. SameEntries(m, n)
    BY <2>2, <2>5, <2>6 DEF SameEntries
  <2>8. QED
    BY <2>7 DEF n
<1>3. QED
  BY <1>1, <1>2

\* Freeing one request leaves the others' tables alone.
LEMMA FreeSame ==
  ASSUME NEW m, IsManager(m), NEW r \in RequestIds
  PROVE  SameEntries(m, FreeRequest(m, r))
BY DEF FreeRequest, SameEntries, Restrict

\* A position covered by two versions of a table keeps its KV slot when they
\* have the entries in common.
LEMMA SlotKept ==
  ASSUME NEW m, NEW n, Partitioned(m), Partitioned(n), SameEntries(m, n),
         NEW r \in DOMAIN m.table \cap DOMAIN n.table,
         NEW i \in Covered(m, r) \cap Covered(n, r)
  PROVE  SlotOf(m, r, i) = SlotOf(n, r, i)
<1>1. IsManager(m) /\ IsManager(n)
  BY DEF Partitioned
<1>2. i \div BlockSize + 1 \in DOMAIN m.table[r]
  BY <1>1, CoveredEntry
<1>3. i \div BlockSize + 1 \in DOMAIN n.table[r]
  BY <1>1, CoveredEntry
<1>4. n.table[r][i \div BlockSize + 1] = m.table[r][i \div BlockSize + 1]
  BY <1>2, <1>3 DEF SameEntries
<1>5. QED
  BY <1>4 DEF SlotOf

\* Of tables that only grow, the last has every entry of the first.
LEMMA SameThroughGrowth ==
  ASSUME NEW a, NEW b, NEW c, IsManager(a), IsManager(b), IsManager(c),
         SameEntries(a, b), SameEntries(b, c),
         DOMAIN a.table \subseteq DOMAIN b.table,
         \A r \in DOMAIN a.table : Held(b, r) >= Held(a, r)
  PROVE  SameEntries(a, c)
<1> SUFFICES ASSUME NEW r \in DOMAIN a.table \cap DOMAIN c.table,
                    NEW x \in DOMAIN a.table[r] \cap DOMAIN c.table[r]
             PROVE  c.table[r][x] = a.table[r][x]
  BY DEF SameEntries
<1>1. r \in DOMAIN b.table /\ Len(b.table[r]) >= Len(a.table[r])
  BY DEF Held, BlocksOf
<1>2. a.table[r] \in Seq(Blocks) /\ b.table[r] \in Seq(Blocks)
  BY <1>1 DEF IsManager
<1>3. x \in DOMAIN b.table[r]
  BY <1>1, <1>2
<1>4. QED
  BY <1>1, <1>3 DEF SameEntries

--------------------------------------------------------------------------------
\* Recursion.

\* Induction over 0 .. n, on the set of the numbers a claim holds of.
LEMMA UpTo ==
  ASSUME NEW n \in Nat, NEW S, 0 \in S,
         \A k \in 1 .. n : k - 1 \in S => k \in S
  PROVE  \A k \in 0 .. n : k \in S
<1> DEFINE Bad   == {k \in 0 .. n : k \notin S}
           below == OpToRel(<, Nat)
<1> SUFFICES ASSUME Bad # {} PROVE FALSE
  OBVIOUS
<1>1. IsWellFoundedOn(below, Nat)
  BY NatLessThanWellFounded
<1>2. \A i, j \in Nat : i < j => <<i, j>> \in below
  BY DEF OpToRel
<1>3. Bad \in SUBSET Nat
  OBVIOUS
<1> HIDE DEF below, Bad
<1>4. PICK k \in Bad : \A i \in Bad : ~(<<i, k>> \in below)
  BY <1>1, <1>3, WFMin
<1>5. k \in 1 .. n /\ k \notin S
  BY <1>4 DEF Bad
<1>6. k - 1 \in 0 .. n /\ k - 1 < k
  BY <1>5
<1>7. k - 1 \in S
  BY <1>2, <1>3, <1>4, <1>6 DEF Bad
<1>8. QED
  BY <1>5, <1>7

\* Then says for each step which results may follow which, and leaves none without one.
Steps(n, V, start, Then) ==
  /\ n \in Nat /\ start \in V
  /\ \A k \in 1 .. n, v \in V : \E w \in V : <<k, v, w>> \in Then

RunThrough(f, n, V, start, Then) ==
  /\ f \in [0 .. n -> V]
  /\ f[0] = start
  /\ \A k \in 1 .. n : <<k, f[k-1], f[k]>> \in Then

\* Steps taken from a start have a function of their intermediate results.
LEMMA Iterates ==
  ASSUME NEW n, NEW V, NEW start, NEW Then, Steps(n, V, start, Then)
  PROVE  \E f : RunThrough(f, n, V, start, Then)
<1> DEFINE Is(f, m) == f[0] = start /\ \A k \in 1 .. m : <<k, f[k-1], f[k]>> \in Then
           S == {m \in 0 .. n : \E f \in [0 .. m -> V] : Is(f, m)}
<1> USE DEF Steps
<1>1. 0 \in S
  <2> DEFINE f == [k \in 0 .. 0 |-> start]
  <2>1. f \in [0 .. 0 -> V] /\ Is(f, 0)
    OBVIOUS
  <2> HIDE DEF f, Is
  <2>2. QED
    BY <2>1
<1>2. ASSUME NEW m \in 1 .. n, m - 1 \in S
      PROVE  m \in S
  <2>1. PICK f \in [0 .. m - 1 -> V] : Is(f, m - 1)
    BY <1>2
  <2>2. m - 1 \in 0 .. m - 1 /\ \A k \in 0 .. m : k # m => k \in 0 .. m - 1
    OBVIOUS
  <2>3. PICK w \in V : <<m, f[m-1], w>> \in Then
    BY <2>2
  <2> DEFINE g == [k \in 0 .. m |-> IF k = m THEN w ELSE f[k]]
  <2>4. g \in [0 .. m -> V]
    BY <2>2, <2>3
  <2>5. g[0] = start
    BY <2>1
  <2>6. ASSUME NEW k \in 1 .. m PROVE <<k, g[k-1], g[k]>> \in Then
    <3>1. k - 1 \in 0 .. m - 1 /\ k - 1 \in 0 .. m /\ k - 1 # m /\ k \in 0 .. m
      OBVIOUS
    <3>2. g[k-1] = f[k-1]
      BY <3>1
    <3>3. CASE k = m
      <4>1. g[k] = w
        BY <3>1, <3>3
      <4>2. QED
        BY <4>1, <3>2, <3>3, <2>3
    <3>4. CASE k # m
      <4>1. k \in 1 .. m - 1 /\ g[k] = f[k]
        BY <3>1, <3>4
      <4>2. QED
        BY <4>1, <3>2, <2>1
    <3>5. QED
      BY <3>3, <3>4
  <2> HIDE DEF g
  <2>7. Is(g, m)
    BY <2>5, <2>6
  <2>8. QED
    BY <2>4, <2>7
<1>3. n \in S
  <2> HIDE DEF S
  <2>1. QED
    BY <1>1, <1>2, UpTo
<1>4. QED
  BY <1>3 DEF RunThrough

\* The partitioned managers.
Managers ==
  {m \in [free : Seq(Blocks), table : UNION {[D -> Seq(Blocks)] : D \in SUBSET RequestIds}] :
     Partitioned(m)}

\* Managers are the states of the pool whose blocks are partitioned.
LEMMA InManagers == \A m : m \in Managers <=> Partitioned(m)
<1>1. ASSUME NEW m, Partitioned(m) PROVE m \in Managers
  <2>1. /\ m = [free |-> m.free, table |-> m.table] /\ m.free \in Seq(Blocks)
        /\ DOMAIN m.table \in SUBSET RequestIds /\ m.table \in [DOMAIN m.table -> Seq(Blocks)]
    BY <1>1 DEF Partitioned, IsManager
  <2>2. m.table \in UNION {[D -> Seq(Blocks)] : D \in SUBSET RequestIds}
    BY <2>1
  <2>3. m \in [free : Seq(Blocks), table : UNION {[D -> Seq(Blocks)] : D \in SUBSET RequestIds}]
    BY <2>1, <2>2, Zenon
  <2>4. QED
    BY <1>1, <2>3 DEF Managers
<1>2. QED
  BY <1>1 DEF Managers
================================================================================
