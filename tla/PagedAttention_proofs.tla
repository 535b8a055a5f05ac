------------------------- MODULE PagedAttention_proofs -------------------------
(***************************************************************************)
(* Proofs about vasr-paged-attn.                                           *)
(*                                                                         *)
(* PagedBlockManager, under any order of calls, for every pool size, block *)
(* size and set of requests: as each operation keeps the pool partitioned  *)
(* (PagedBlocks_proofs), no KV slot is ever shared or moved.  The manager  *)
(* implements BlockPool: ownership is read off the block tables, so each   *)
(* step needs who owns which block after it and how many blocks that       *)
(* makes; both follow from the pool being partitioned.                     *)
(*                                                                         *)
(* The CUDA graphs of the paged decode, for every pool, every set of       *)
(* prompts and every size of the cache of graphs: a decode step attends to *)
(* its rows' own tokens however it is run.  The invariant says which slot  *)
(* of the pool holds which token; a step keeps it because its rows write   *)
(* slots of their own outside the null block, where the padding writes.    *)
(***************************************************************************)
EXTENDS BlockManager, DecodeGraphs, PagedBlocks_proofs, FiniteSetTheorems, FunctionTheorems

--------------------------------------------------------------------------------
\* Every call leaves a partitioned pool partitioned.
LEMMA StepKeeps ==
  ASSUME Partitioned(mgr), [Next]_vars
  PROVE  Partitioned(mgr')
<1>1. CASE UNCHANGED vars
  BY <1>1 DEF vars
<1>2. ASSUME NEW r \in RequestIds, NEW tokens \in 0 .. MaxTokens,
             TryAllocateSlots(r, tokens) \/ AllocateSlots(r, tokens)
      PROVE  Partitioned(mgr')
  <2>1. tokens \in Nat
    BY CallerAssumption
  <2>2. mgr' = Allocate(mgr, r, tokens)
    BY <1>2 DEF TryAllocateSlots, AllocateSlots
  <2>3. QED
    BY <2>1, <2>2, AllocateKeeps
<1>3. ASSUME NEW r \in RequestIds, NEW tokens \in 0 .. MaxTokens, TrimRequest(r, tokens)
      PROVE  Partitioned(mgr')
  <2>1. tokens \in Nat
    BY CallerAssumption
  <2>2. mgr' = Trim(mgr, r, tokens)
    BY <1>3 DEF TrimRequest
  <2>3. QED
    BY <2>1, <2>2, TrimKeeps
<1>4. ASSUME NEW r \in RequestIds, Free(r)
      PROVE  Partitioned(mgr')
  BY <1>4, FreeKeeps DEF Free
<1>5. QED
  BY <1>1, <1>2, <1>3, <1>4 DEF Next

\* Whatever calls are made in whatever order, the pool stays partitioned
\* between its free list and the block tables.
THEOREM AlwaysPartitioned == Spec => []Partitioned(mgr)
<1>1. Init => Partitioned(mgr)
  BY NewManagerPartitioned DEF Init
<1>2. Partitioned(mgr) /\ [Next]_vars => Partitioned(mgr)'
  BY StepKeeps
<1>3. QED
  BY <1>1, <1>2, PTL DEF Spec

\* The types of the manager and of its replies.
THEOREM TypeCorrect == Spec => []TypeOK
<1>1. Init => reply \in Replies
  BY CallerAssumption DEF Init, Reply, Replies, Answers
<1>2. reply \in Replies /\ [Next]_vars => (reply \in Replies)'
  <2> SUFFICES ASSUME reply \in Replies, [Next]_vars
               PROVE  reply' \in Replies
    OBVIOUS
  <2>1. ASSUME NEW r \in RequestIds, NEW tokens \in 0 .. MaxTokens,
               TryAllocateSlots(r, tokens) \/ AllocateSlots(r, tokens)
                 \/ TrimRequest(r, tokens)
        PROVE  reply' \in Replies
    BY <2>1 DEF TryAllocateSlots, AllocateSlots, TrimRequest, Reply, Replies, Answers
  <2>2. ASSUME NEW r \in RequestIds, Free(r)
        PROVE  reply' \in Replies
    BY <2>2, CallerAssumption DEF Free, Reply, Replies, Answers
  <2>3. CASE UNCHANGED vars
    BY <2>3 DEF vars
  <2>4. QED
    BY <2>1, <2>2, <2>3 DEF Next
<1>3. Partitioned(mgr) /\ reply \in Replies => TypeOK
  BY DEF Partitioned, TypeOK
<1>4. QED
  BY <1>1, <1>2, <1>3, AlwaysPartitioned, PTL DEF Spec

\* Exactly one place for every allocatable block, whatever calls are made.
THEOREM OnePlace == Spec => []EveryBlockInOnePlace
<1>1. Partitioned(mgr) => EveryBlockInOnePlace
  <2> SUFFICES ASSUME Partitioned(mgr), NEW b \in Blocks
               PROVE  \E p \in PlacesOf(mgr, b) : PlacesOf(mgr, b) = {p}
    BY DEF EveryBlockInOnePlace
  <2>1. CASE \E i \in DOMAIN mgr.free : mgr.free[i] = b
    <3>1. PICK i \in DOMAIN mgr.free : mgr.free[i] = b
      BY <2>1
    <3>2. <<"free", i>> \in PlacesOf(mgr, b)
      BY <3>1 DEF PlacesOf
    <3>3. \A p \in PlacesOf(mgr, b) : p = <<"free", i>>
      BY <3>1 DEF PlacesOf, Partitioned, FreeDistinct, FreeNotHeld
    <3>4. QED
      BY <3>2, <3>3
  <2>2. CASE \E r \in DOMAIN mgr.table : \E j \in DOMAIN mgr.table[r] : mgr.table[r][j] = b
    <3>0. PICK r \in DOMAIN mgr.table : \E j \in DOMAIN mgr.table[r] : mgr.table[r][j] = b
      BY <2>2
    <3>1. PICK j \in DOMAIN mgr.table[r] : mgr.table[r][j] = b
      BY <3>0
    <3>2. <<"table", r, j>> \in PlacesOf(mgr, b)
      BY <3>1 DEF PlacesOf
    <3>3. \A p \in PlacesOf(mgr, b) : p = <<"table", r, j>>
      BY <3>1 DEF PlacesOf, Partitioned, TablesDistinct, FreeNotHeld
    <3>4. QED
      BY <3>2, <3>3
  <2>3. QED
    BY <2>1, <2>2 DEF Partitioned, NoneLost
<1>2. QED
  BY <1>1, AlwaysPartitioned, PTL

\* No two positions covered by the block tables share a KV slot, and none uses
\* the null block.
THEOREM NeverAlias == Spec => []KvSlotsNeverAlias
<1>1. Partitioned(mgr) => KvSlotsNeverAlias
  BY SlotsApart DEF KvSlotsNeverAlias
<1>2. QED
  BY <1>1, AlwaysPartitioned, PTL

\* A position covered before and after a call keeps its KV slot.
THEOREM SlotsStay == Spec => KvSlotsStay
<1> DEFINE Stays == \A r \in DOMAIN mgr.table \cap DOMAIN mgr'.table :
                      \A i \in Covered(mgr, r) \cap Covered(mgr', r) :
                        SlotOf(mgr, r, i) = SlotOf(mgr', r, i)
<1>1. ASSUME Partitioned(mgr), Partitioned(mgr'), SameEntries(mgr, mgr')
      PROVE  Stays
  BY <1>1, SlotKept
<1>2. Partitioned(mgr) /\ Next => SameEntries(mgr, mgr')
  <2> SUFFICES ASSUME Partitioned(mgr), Next PROVE SameEntries(mgr, mgr')
    OBVIOUS
  <2>1. IsManager(mgr)
    BY DEF Partitioned
  <2>2. PICK r \in RequestIds :
          \/ \E tokens \in 0 .. MaxTokens :
               \/ TryAllocateSlots(r, tokens)
               \/ AllocateSlots(r, tokens)
               \/ TrimRequest(r, tokens)
          \/ Free(r)
    BY DEF Next
  <2>3. ASSUME NEW tokens \in 0 .. MaxTokens,
               TryAllocateSlots(r, tokens) \/ AllocateSlots(r, tokens)
        PROVE  SameEntries(mgr, mgr')
    BY <2>1, <2>3, AllocateSame, CallerAssumption DEF TryAllocateSlots, AllocateSlots
  <2>4. ASSUME NEW tokens \in 0 .. MaxTokens, TrimRequest(r, tokens)
        PROVE  SameEntries(mgr, mgr')
    BY <2>1, <2>4, TrimSame, CallerAssumption DEF TrimRequest
  <2>5. ASSUME Free(r)
        PROVE  SameEntries(mgr, mgr')
    BY <2>1, <2>5, FreeSame DEF Free
  <2>6. QED
    BY <2>2, <2>3, <2>4, <2>5
<1>3. Partitioned(mgr) /\ Partitioned(mgr)' /\ [Next]_vars => [Stays]_vars
  <2> SUFFICES ASSUME Partitioned(mgr), Partitioned(mgr)', Next PROVE Stays
    OBVIOUS
  <2>1. QED
    BY <1>1, <1>2
<1>4. QED
  BY <1>3, AlwaysPartitioned, PTL DEF Spec, KvSlotsStay

--------------------------------------------------------------------------------
(* PagedBlockManager implements BlockPool. *)

\* The blocks of a sequence without repetitions are as many as it is long.
LEMMA RangeSize ==
  ASSUME NEW s \in Seq(Blocks), \A i, j \in DOMAIN s : s[i] = s[j] => i = j
  PROVE  /\ IsFiniteSet(Range(s))
         /\ Cardinality(Range(s)) = Len(s)
<1>1. s \in [1 .. Len(s) -> Blocks] /\ Len(s) \in Nat /\ DOMAIN s = 1 .. Len(s)
  OBVIOUS
<1>2. s \in [1 .. Len(s) -> Range(s)]
  BY <1>1 DEF Range
<1>3. s \in Bijection(1 .. Len(s), Range(s))
  BY <1>1, <1>2 DEF Bijection, Injection, IsInjective, Surjection, Range
<1>4. ExistsBijection(1 .. Len(s), Range(s))
  BY <1>3 DEF ExistsBijection
<1>5. /\ IsFiniteSet(1 .. Len(s))
      /\ Cardinality(1 .. Len(s)) = Len(s)
  <2>1. ASSUME NEW n \in Nat
        PROVE  IsFiniteSet(1 .. n) /\ Cardinality(1 .. n) = n
    <3>1. IsFiniteSet(1 .. n) /\ Cardinality(1 .. n) = IF 1 > n THEN 0 ELSE n - 1 + 1
      BY <2>1, FS_Interval
    <3>2. QED
      BY <3>1
  <2>2. QED
    BY <1>1, <2>1
<1>6. QED
  BY <1>4, <1>5, FS_Bijection

\* Who owns a block: the request in whose table it is, nobody if it is free.
LEMMA OwnerKnown ==
  ASSUME NEW m, Partitioned(m), NEW b \in Blocks
  PROVE  /\ OwnerIn(m, b) \in RequestIds \cup {NoRequest}
         /\ \A q \in RequestIds : OwnerIn(m, b) = q <=> b \in Range(BlocksOf(m, q))
         /\ OwnerIn(m, b) = NoRequest <=> b \in Range(m.free)
<1>1. DOMAIN m.table \subseteq RequestIds
  BY DEF Partitioned, IsManager
<1>2. \A q, s \in DOMAIN m.table :
        b \in Range(m.table[q]) /\ b \in Range(m.table[s]) => q = s
  BY DEF Partitioned, TablesDistinct, Range
<1>3. \A q \in DOMAIN m.table : b \in Range(m.table[q]) => b \notin Range(m.free)
  BY DEF Partitioned, FreeNotHeld, Range
<1>4. b \in Range(m.free) \/ \E q \in DOMAIN m.table : b \in Range(m.table[q])
  BY DEF Partitioned, NoneLost, Range
<1>5. \A q \in RequestIds :
        b \in Range(BlocksOf(m, q)) <=> q \in DOMAIN m.table /\ b \in Range(m.table[q])
  BY DEF BlocksOf, Range
<1>6. CASE \E q \in DOMAIN m.table : b \in Range(m.table[q])
  <2>1. OwnerIn(m, b) \in DOMAIN m.table /\ b \in Range(m.table[OwnerIn(m, b)])
    BY <1>6 DEF OwnerIn
  <2>2. OwnerIn(m, b) # NoRequest
    BY <1>1, <2>1, CallerAssumption
  <2>3. QED
    BY <1>1, <1>2, <1>3, <1>5, <2>1, <2>2
<1>7. CASE ~\E q \in DOMAIN m.table : b \in Range(m.table[q])
  <2>1. OwnerIn(m, b) = NoRequest
    BY <1>7 DEF OwnerIn
  <2>2. QED
    BY <1>4, <1>5, <1>7, <2>1, CallerAssumption
<1>8. QED
  BY <1>6, <1>7

\* How many blocks a request owns, and how many nobody does.
LEMMA OwnedSize ==
  ASSUME NEW m, Partitioned(m)
  PROVE  /\ \A q \in RequestIds :
              /\ {b \in Blocks : OwnerIn(m, b) = q} = Range(BlocksOf(m, q))
              /\ Cardinality({b \in Blocks : OwnerIn(m, b) = q}) = Held(m, q)
         /\ {b \in Blocks : OwnerIn(m, b) = NoRequest} = Range(m.free)
         /\ Cardinality({b \in Blocks : OwnerIn(m, b) = NoRequest}) = Len(m.free)
<1>1. IsManager(m) /\ m.free \in Seq(Blocks)
  BY DEF Partitioned, IsManager
<1>2. ASSUME NEW q \in RequestIds
      PROVE  /\ {b \in Blocks : OwnerIn(m, b) = q} = Range(BlocksOf(m, q))
             /\ Cardinality({b \in Blocks : OwnerIn(m, b) = q}) = Held(m, q)
  <2>1. BlocksOf(m, q) \in Seq(Blocks)
    BY <1>1, BlocksOfType
  <2>2. Range(BlocksOf(m, q)) \subseteq Blocks
    BY <2>1 DEF Range
  <2>3. \A i, j \in DOMAIN BlocksOf(m, q) : BlocksOf(m, q)[i] = BlocksOf(m, q)[j] => i = j
    BY DEF BlocksOf, Partitioned, TablesDistinct
  <2>4. {b \in Blocks : OwnerIn(m, b) = q} = Range(BlocksOf(m, q))
    BY <2>2, OwnerKnown
  <2>5. QED
    BY <2>1, <2>3, <2>4, RangeSize DEF Held
<1>3. Range(m.free) \subseteq Blocks
  BY <1>1 DEF Range
<1>4. {b \in Blocks : OwnerIn(m, b) = NoRequest} = Range(m.free)
  BY <1>3, OwnerKnown
<1>5. \A i, j \in DOMAIN m.free : m.free[i] = m.free[j] => i = j
  BY DEF Partitioned, FreeDistinct
<1>6. Cardinality(Range(m.free)) = Len(m.free)
  BY <1>1, <1>5, RangeSize
<1>7. QED
  BY <1>2, <1>4, <1>6

\* Giving blocks back puts them on the free list and takes none off it.
LEMMA GiveBackRange ==
  ASSUME NEW m, m.free \in Seq(Blocks), NEW given \in Seq(Blocks)
  PROVE  /\ Range(m.free) \subseteq Range(GiveBack(m, given))
         /\ Range(given) \subseteq Range(GiveBack(m, given))
<1> DEFINE old  == m.free
           back == GiveBack(m, given)
<1>1. /\ back \in Seq(Blocks)
      /\ Len(back) = Len(old) + Len(given)
      /\ \A i \in 1 .. Len(old) : back[i] = old[i]
      /\ \A i \in 1 .. Len(given) : back[Len(old) + i] = given[Len(given) + 1 - i]
  BY GiveBackType
<1>2. old \in Seq(Blocks)
  OBVIOUS
<1> HIDE DEF old, back
<1>3. /\ DOMAIN back = 1 .. Len(old) + Len(given)
      /\ DOMAIN old = 1 .. Len(old) /\ Len(old) \in Nat
      /\ DOMAIN given = 1 .. Len(given) /\ Len(given) \in Nat
  BY <1>1, <1>2
<1>4. Range(old) \subseteq Range(back)
  <2>1. \A i \in DOMAIN old : i \in DOMAIN back /\ back[i] = old[i]
    BY <1>1, <1>3
  <2>2. QED
    BY <2>1 DEF Range
<1>5. Range(given) \subseteq Range(back)
  <2>1. ASSUME NEW i \in DOMAIN given
        PROVE  \E j \in DOMAIN back : back[j] = given[i]
    <3>1. Len(given) + 1 - i \in 1 .. Len(given) /\ Len(given) + 1 - (Len(given) + 1 - i) = i
      BY <1>3
    <3>2. Len(old) + (Len(given) + 1 - i) \in DOMAIN back
      BY <1>3, <3>1
    <3>3. QED
      BY <1>1, <3>1, <3>2
  <2>2. QED
    BY <2>1 DEF Range
<1>6. QED
  BY <1>4, <1>5 DEF old, back

\* What an allocation gives is as much as was missing, was free, and is owned
\* by the caller afterwards; every other block keeps its owner.
LEMMA AllocateOwners ==
  ASSUME NEW m, Partitioned(m), NEW r \in RequestIds, NEW tokens \in Nat,
         Needed(m, r, tokens) # 0, CanAllocate(m, r, tokens)
  PROVE  /\ Range(Popped(m, r, tokens)) \subseteq Range(m.free)
         /\ Cardinality(Range(Popped(m, r, tokens))) = Needed(m, r, tokens)
         /\ \A b \in Blocks :
              OwnerIn(Allocate(m, r, tokens), b)
                = IF b \in Range(Popped(m, r, tokens)) THEN r ELSE OwnerIn(m, b)
<1> DEFINE k     == Needed(m, r, tokens)
           pop   == Popped(m, r, tokens)
           n     == Allocate(m, r, tokens)
           old   == BlocksOf(m, r)
           rest  == SubSeq(m.free, k + 1, Len(m.free))
<1>1. /\ IsManager(m) /\ m.free \in Seq(Blocks) /\ old \in Seq(Blocks)
      /\ k \in 0 .. Len(m.free)
  BY NeededType, BlocksOfType DEF Partitioned, IsManager, CanAllocate
<1>2. /\ pop \in Seq(Blocks) /\ Len(pop) = k
      /\ \A i \in 1 .. k : pop[i] = m.free[i]
      /\ rest \in Seq(Blocks) /\ Len(rest) = Len(m.free) - k
      /\ \A i \in 1 .. Len(m.free) - k : rest[i] = m.free[k + i]
  BY <1>1, TailOfTable DEF Popped
<1>3. /\ n.free = rest
      /\ DOMAIN n.table = DOMAIN m.table \cup {r}
      /\ n.table[r] = old \o pop
      /\ \A q \in DOMAIN m.table \ {r} : n.table[q] = m.table[q]
  BY DEF Allocate
<1>4. /\ BlocksOf(n, r) = old \o pop
      /\ \A q \in RequestIds \ {r} : BlocksOf(n, q) = BlocksOf(m, q)
  BY <1>3 DEF BlocksOf
<1>5. Partitioned(n)
  BY AllocateKeeps
<1> HIDE DEF k, pop, n, old, rest
<1>6. /\ DOMAIN pop = 1 .. k /\ DOMAIN m.free = 1 .. Len(m.free)
      /\ DOMAIN rest = 1 .. Len(m.free) - k /\ Len(m.free) \in Nat /\ k \in Nat
      /\ k <= Len(m.free)
  BY <1>1, <1>2
<1>7. Range(pop) \subseteq Range(m.free)
  BY <1>2, <1>6 DEF Range
<1>8. Cardinality(Range(pop)) = k
  <2>1. \A i, j \in DOMAIN pop : pop[i] = pop[j] => i = j
    <3>1. \A i, j \in DOMAIN m.free : m.free[i] = m.free[j] => i = j
      BY DEF Partitioned, FreeDistinct
    <3>2. \A i \in DOMAIN pop : i \in DOMAIN m.free /\ pop[i] = m.free[i]
      BY <1>2, <1>6
    <3>3. QED
      BY <3>1, <3>2
  <2>2. QED
    BY <1>2, <2>1, RangeSize
<1>9. Range(old) \subseteq Range(old \o pop) /\ Range(pop) \subseteq Range(old \o pop)
  <2>1. /\ DOMAIN old = 1 .. Len(old) /\ Len(old) \in Nat
        /\ DOMAIN (old \o pop) = 1 .. Len(old) + k
        /\ \A i \in 1 .. Len(old) : (old \o pop)[i] = old[i]
        /\ \A i \in 1 .. k : (old \o pop)[Len(old) + i] = pop[i]
    <3>1. /\ old \o pop \in Seq(Blocks)
          /\ Len(old \o pop) = Len(old) + Len(pop)
          /\ \A i \in 1 .. Len(old) : (old \o pop)[i] = old[i]
          /\ \A i \in 1 .. Len(pop) : (old \o pop)[Len(old) + i] = pop[i]
      BY <1>1, <1>2, AppendTable
    <3>2. DOMAIN (old \o pop) = 1 .. Len(old \o pop)
      BY <3>1
    <3>3. DOMAIN old = 1 .. Len(old) /\ Len(old) \in Nat
      BY <1>1
    <3>4. QED
      BY <1>2, <3>1, <3>2, <3>3
  <2>2. \A i \in 1 .. k : Len(old) + i \in DOMAIN (old \o pop)
    BY <1>6, <2>1
  <2>3. \A i \in 1 .. Len(old) : i \in DOMAIN (old \o pop)
    BY <1>6, <2>1
  <2>4. QED
    BY <1>6, <2>1, <2>2, <2>3 DEF Range
<1>10. \A b \in Range(m.free) : b \notin Range(pop) => b \in Range(n.free)
  <2> SUFFICES ASSUME NEW i \in DOMAIN m.free, m.free[i] \notin Range(pop)
               PROVE  m.free[i] \in Range(rest)
    BY <1>3 DEF Range
  <2>1. i \notin 1 .. k
    BY <1>2, <1>6 DEF Range
  <2>2. i - k \in 1 .. Len(m.free) - k /\ k + (i - k) = i
    BY <1>6, <2>1
  <2>3. QED
    BY <1>2, <1>6, <2>2 DEF Range
<1>11. ASSUME NEW b \in Blocks
       PROVE  OwnerIn(n, b) = IF b \in Range(pop) THEN r ELSE OwnerIn(m, b)
  <2>1. CASE b \in Range(pop)
    BY <1>4, <1>5, <1>9, <2>1, OwnerKnown
  <2>2. CASE b \notin Range(pop) /\ OwnerIn(m, b) = NoRequest
    BY <1>5, <1>10, <2>2, OwnerKnown
  <2>3. CASE b \notin Range(pop) /\ OwnerIn(m, b) \in RequestIds
    <3>1. b \in Range(BlocksOf(m, OwnerIn(m, b)))
      BY <2>3, OwnerKnown
    <3>2. b \in Range(BlocksOf(n, OwnerIn(m, b)))
      BY <1>4, <1>9, <2>3, <3>1 DEF old
    <3>3. QED
      BY <1>5, <2>3, <3>2, OwnerKnown
  <2>4. QED
    BY <2>1, <2>2, <2>3, OwnerKnown
<1>12. QED
  BY <1>7, <1>8, <1>11 DEF pop, k, n

\* A trim that takes blocks leaves the request as many as it needs, frees the
\* others and touches nobody else's.
LEMMA TrimOwners ==
  ASSUME NEW m, Partitioned(m), NEW r \in RequestIds, NEW tokens \in Nat,
         BlocksFor(tokens) < Held(m, r)
  PROVE  \E kept \in SUBSET Range(BlocksOf(m, r)) :
           /\ Cardinality(kept) = BlocksFor(tokens)
           /\ \A b \in Blocks :
                OwnerIn(Trim(m, r, tokens), b)
                  = IF b \in Range(BlocksOf(m, r)) \ kept THEN NoRequest
                    ELSE OwnerIn(m, b)
<1> DEFINE k    == BlocksFor(tokens)
           n    == Trim(m, r, tokens)
           t    == BlocksOf(m, r)
           head == SubSeq(t, 1, k)
           tail == SubSeq(t, k + 1, Len(t))
<1>1. /\ IsManager(m) /\ m.free \in Seq(Blocks) /\ t \in Seq(Blocks)
      /\ k \in Nat /\ Len(t) \in Nat /\ k < Len(t)
  BY BlocksForType, BlocksOfType DEF Partitioned, IsManager, Held
<1>2. r \in DOMAIN m.table /\ m.table[r] = t
  BY <1>1 DEF BlocksOf
<1>3. /\ head \in Seq(Blocks) /\ Len(head) = k
      /\ \A i \in 1 .. k : head[i] = t[i]
      /\ tail \in Seq(Blocks) /\ Len(tail) = Len(t) - k
      /\ \A i \in 1 .. Len(t) - k : tail[i] = t[k + i]
  <2>1. k \in 0 .. Len(t)
    BY <1>1
  <2>2. QED
    BY <1>1, <2>1, TailOfTable
<1>4. /\ n.free = GiveBack(m, tail)
      /\ DOMAIN n.table = DOMAIN m.table
      /\ n.table[r] = head
      /\ \A q \in DOMAIN m.table \ {r} : n.table[q] = m.table[q]
  BY <1>1, <1>2 DEF Trim, Held, IsManager
<1>5. /\ BlocksOf(n, r) = head
      /\ \A q \in RequestIds \ {r} : BlocksOf(n, q) = BlocksOf(m, q)
  BY <1>2, <1>4 DEF BlocksOf
<1>6. Partitioned(n)
  BY TrimKeeps
<1> HIDE DEF k, n, t, head, tail
<1>7. /\ DOMAIN head = 1 .. k /\ DOMAIN tail = 1 .. Len(t) - k
      /\ DOMAIN t = 1 .. Len(t)
      /\ DOMAIN m.free = 1 .. Len(m.free) /\ Len(m.free) \in Nat
  BY <1>1, <1>3
<1>8. Range(head) \subseteq Range(t)
  BY <1>1, <1>3, <1>7 DEF Range
<1>9. Cardinality(Range(head)) = k
  <2>1. \A i, j \in DOMAIN head : head[i] = head[j] => i = j
    <3>1. \A i, j \in DOMAIN t : t[i] = t[j] => i = j
      BY <1>2 DEF Partitioned, TablesDistinct
    <3>2. \A i \in DOMAIN head : i \in DOMAIN t /\ head[i] = t[i]
      BY <1>1, <1>3, <1>7
    <3>3. QED
      BY <3>1, <3>2
  <2>2. QED
    BY <1>3, <2>1, RangeSize
<1>10. Range(m.free) \subseteq Range(n.free) /\ Range(tail) \subseteq Range(n.free)
  BY <1>1, <1>3, <1>4, <1>7, GiveBackRange
<1>11. \A b \in Range(t) \ Range(head) : b \in Range(tail)
  <2> SUFFICES ASSUME NEW i \in DOMAIN t, t[i] \notin Range(head)
               PROVE  t[i] \in Range(tail)
    BY DEF Range
  <2>1. i \notin 1 .. k
    BY <1>3, <1>7 DEF Range
  <2>2. i - k \in 1 .. Len(t) - k /\ k + (i - k) = i
    BY <1>1, <1>7, <2>1
  <2>3. QED
    BY <1>3, <1>7, <2>2 DEF Range
<1>12. ASSUME NEW b \in Blocks
       PROVE  OwnerIn(n, b)
                = IF b \in Range(t) \ Range(head) THEN NoRequest ELSE OwnerIn(m, b)
  <2>1. CASE b \in Range(t) \ Range(head)
    BY <1>6, <1>10, <1>11, <2>1, OwnerKnown
  <2>2. CASE b \notin Range(t) \ Range(head) /\ OwnerIn(m, b) = NoRequest
    BY <1>6, <1>10, <2>2, OwnerKnown
  <2>3. CASE b \notin Range(t) \ Range(head) /\ OwnerIn(m, b) \in RequestIds
    <3>1. b \in Range(BlocksOf(m, OwnerIn(m, b)))
      BY <2>3, OwnerKnown
    <3>2. b \in Range(BlocksOf(n, OwnerIn(m, b)))
      BY <1>5, <2>3, <3>1 DEF t
    <3>3. QED
      BY <1>6, <2>3, <3>2, OwnerKnown
  <2>4. QED
    BY <2>1, <2>2, <2>3, OwnerKnown
<1>13. QED
  BY <1>8, <1>9, <1>12 DEF t, k, n

\* Releasing frees what the request owns and nothing else.
LEMMA FreeOwners ==
  ASSUME NEW m, Partitioned(m), NEW r \in RequestIds, NEW b \in Blocks
  PROVE  OwnerIn(FreeRequest(m, r), b)
           = IF OwnerIn(m, b) = r THEN NoRequest ELSE OwnerIn(m, b)
<1> DEFINE n == FreeRequest(m, r)
           t == BlocksOf(m, r)
<1>1. Partitioned(n)
  BY FreeKeeps
<1>2. /\ BlocksOf(n, r) = <<>>
      /\ \A q \in RequestIds \ {r} : BlocksOf(n, q) = BlocksOf(m, q)
  BY DEF FreeRequest, BlocksOf, Restrict
<1>3. Range(m.free) \subseteq Range(n.free) /\ Range(t) \subseteq Range(n.free)
  <2>1. m.free \in Seq(Blocks) /\ t \in Seq(Blocks)
    BY BlocksOfType DEF Partitioned, IsManager
  <2>2. CASE r \in DOMAIN m.table
    <3>1. n.free = GiveBack(m, t)
      BY <2>2 DEF FreeRequest, BlocksOf
    <3>2. QED
      BY <2>1, <3>1, GiveBackRange
  <2>3. CASE r \notin DOMAIN m.table
    BY <2>3 DEF FreeRequest, BlocksOf, Range
  <2>4. QED
    BY <2>2, <2>3
<1> HIDE DEF n, t
<1>4. CASE OwnerIn(m, b) = r
  <2>1. b \in Range(t)
    BY <1>4, OwnerKnown DEF t
  <2>2. QED
    BY <1>1, <1>3, <1>4, <2>1, OwnerKnown DEF n
<1>5. CASE OwnerIn(m, b) = NoRequest
  <2>1. b \in Range(n.free)
    BY <1>3, <1>5, OwnerKnown
  <2>2. QED
    BY <1>1, <1>5, <2>1, OwnerKnown DEF n
<1>6. CASE OwnerIn(m, b) \in RequestIds \ {r}
  <2>1. b \in Range(BlocksOf(n, OwnerIn(m, b)))
    BY <1>2, <1>6, OwnerKnown
  <2>2. QED
    BY <1>1, <1>6, <2>1, OwnerKnown DEF n
<1>7. QED
  BY <1>4, <1>5, <1>6, OwnerKnown

\* No caller asks for more blocks than the bound, and none are none.
LEMMA BlocksForBound ==
  /\ BlocksFor(0) = 0
  /\ \A tokens \in 0 .. MaxTokens : BlocksFor(tokens) \in 0 .. BlocksFor(MaxTokens)
<1>1. \A n \in Nat : /\ BlocksFor(n) \in Nat
                     /\ BlocksFor(n) * BlockSize <= n + BlockSize - 1
                     /\ n + BlockSize - 1 < BlocksFor(n) * BlockSize + BlockSize
  BY PoolAssumption, DivMod DEF BlocksFor
<1>2. \A c \in Nat, d \in Nat :
        c < d => c * BlockSize + BlockSize <= d * BlockSize
  BY PoolAssumption
<1>3. BlocksFor(0) = 0
  BY <1>1, <1>2, PoolAssumption
<1>4. ASSUME NEW tokens \in 0 .. MaxTokens
      PROVE  BlocksFor(tokens) \in 0 .. BlocksFor(MaxTokens)
  <2> DEFINE c == BlocksFor(MaxTokens)
             d == BlocksFor(tokens)
  <2>1. /\ tokens \in Nat /\ MaxTokens \in Nat /\ tokens <= MaxTokens
        /\ c \in Nat /\ d \in Nat
        /\ d * BlockSize <= tokens + BlockSize - 1
        /\ MaxTokens + BlockSize - 1 < c * BlockSize + BlockSize
    BY <1>1, CallerAssumption
  <2> HIDE DEF c, d
  <2>2. ~(c < d)
    <3>1. SUFFICES ASSUME c < d PROVE FALSE
      OBVIOUS
    <3>2. c * BlockSize + BlockSize <= d * BlockSize
      BY <1>2, <2>1, <3>1
    <3>3. c * BlockSize \in Nat /\ d * BlockSize \in Nat
      BY <2>1, PoolAssumption
    <3>4. QED
      BY <2>1, <3>2, <3>3, PoolAssumption
  <2>3. QED
    BY <2>1, <2>2 DEF c, d
<1>5. QED
  BY <1>3, <1>4

--------------------------------------------------------------------------------
\* The pool counts blocks as the manager does.
LEMMA SameCardinality == \A S : Pool!Cardinality(S) = Cardinality(S)
  BY Zenon DEF Pool!Cardinality, Cardinality

\* Ownership in the pool the manager implements, before a call.
LEMMA PoolOwners ==
  ASSUME Partitioned(mgr)
  PROVE  /\ \A q \in RequestIds : /\ Pool!OwnedBy(q) = Range(BlocksOf(mgr, q))
                                 /\ Pool!Size(q) = Held(mgr, q)
         /\ Pool!OwnedBy(NoRequest) = Range(mgr.free)
         /\ Pool!Size(NoRequest) = Len(mgr.free)
<1>1. \A q : Pool!OwnedBy(q) = {b \in Blocks : OwnerIn(mgr, b) = q}
  BY DEF Pool!OwnedBy
<1>2. QED
  BY <1>1, OwnedSize, SameCardinality DEF Pool!Size

\* try_allocate_slots and allocate_slots are a grant, or need nothing, or are
\* refused because too few blocks are free.
LEMMA AllocateMaps ==
  ASSUME Partitioned(mgr), NEW r \in RequestIds, NEW tokens \in 0 .. MaxTokens,
         TryAllocateSlots(r, tokens) \/ AllocateSlots(r, tokens)
  PROVE  Pool!PoolNext
<1> DEFINE k == BlocksFor(tokens)
<1>1. /\ tokens \in Nat /\ k \in 0 .. BlocksFor(MaxTokens) /\ k \in Nat
      /\ Held(mgr, r) \in Nat /\ Len(mgr.free) \in Nat
  BY CallerAssumption, BlocksForBound, BlocksForType, BlocksOfType
     DEF Partitioned, IsManager
<1>2. Pool!Size(r) = Held(mgr, r) /\ Pool!Size(NoRequest) = Len(mgr.free)
  BY PoolOwners
<1>3. mgr' = Allocate(mgr, r, tokens)
  BY DEF TryAllocateSlots, AllocateSlots
<1>4. CanAllocate(mgr, r, tokens) => Pool!Answer(r, k, "granted")
  BY DEF Pool!Answer, TryAllocateSlots, AllocateSlots, Reply
<1>5. ~CanAllocate(mgr, r, tokens) => Pool!Answer(r, k, "refused")
  BY DEF Pool!Answer, TryAllocateSlots, AllocateSlots, Reply
<1>6. CASE Needed(mgr, r, tokens) = 0
  <2>1. mgr' = mgr
    BY <1>3, <1>6 DEF Allocate
  <2>2. k <= Held(mgr, r) /\ CanAllocate(mgr, r, tokens)
    BY <1>1, <1>6 DEF Needed, CanAllocate
  <2>3. [b \in Blocks |-> OwnerIn(mgr, b)]' = [b \in Blocks |-> OwnerIn(mgr, b)]
    BY <2>1 DEF OwnerIn
  <2>4. Pool!Suffice(r, k)
    BY <1>1, <1>2, <1>4, <2>2, <2>3 DEF Pool!Suffice
  <2>5. QED
    BY <1>1, <2>4 DEF Pool!PoolNext
<1>7. CASE Needed(mgr, r, tokens) # 0 /\ CanAllocate(mgr, r, tokens)
  <2> DEFINE given == Range(Popped(mgr, r, tokens))
  <2>1. /\ Held(mgr, r) < k
        /\ Needed(mgr, r, tokens) = k - Held(mgr, r)
    BY <1>1, <1>7 DEF Needed
  <2>2. /\ given \subseteq Pool!OwnedBy(NoRequest)
        /\ Cardinality(given) = k - Pool!Size(r)
    BY <1>1, <1>2, <1>7, <2>1, AllocateOwners, PoolOwners
  <2>3. \A b \in Blocks : OwnerIn(mgr', b) = IF b \in given THEN r ELSE OwnerIn(mgr, b)
    BY <1>1, <1>3, <1>7, AllocateOwners
  <2>4. [b \in Blocks |-> OwnerIn(mgr', b)]
          = [b \in Blocks |-> IF b \in given THEN r
                              ELSE [c \in Blocks |-> OwnerIn(mgr, c)][b]]
    BY <2>3
  <2>5. Pool!Grant(r, k)
    <3> HIDE DEF given
    <3>1. QED
      BY <1>2, <1>4, <1>7, <2>1, <2>2, <2>4, SameCardinality DEF Pool!Grant
  <2>6. QED
    BY <1>1, <2>5 DEF Pool!PoolNext
<1>8. CASE ~CanAllocate(mgr, r, tokens)
  <2>1. mgr' = mgr
    BY <1>3, <1>8 DEF Allocate
  <2>2. k - Held(mgr, r) > Len(mgr.free)
    BY <1>1, <1>8 DEF Needed, CanAllocate
  <2>3. [b \in Blocks |-> OwnerIn(mgr, b)]' = [b \in Blocks |-> OwnerIn(mgr, b)]
    BY <2>1 DEF OwnerIn
  <2>4. Pool!Refuse(r, k)
    BY <1>2, <1>5, <1>8, <2>2, <2>3 DEF Pool!Refuse
  <2>5. QED
    BY <1>1, <2>4 DEF Pool!PoolNext
<1>9. QED
  BY <1>6, <1>7, <1>8

\* trim_request_to_num_tokens shrinks what the request owns.
LEMMA TrimMaps ==
  ASSUME Partitioned(mgr), NEW r \in RequestIds, NEW tokens \in 0 .. MaxTokens,
         TrimRequest(r, tokens)
  PROVE  Pool!PoolNext
<1> DEFINE k == BlocksFor(tokens)
<1>1. /\ tokens \in Nat /\ k \in 0 .. BlocksFor(MaxTokens) /\ k \in Nat
      /\ Held(mgr, r) \in Nat
  BY CallerAssumption, BlocksForBound, BlocksForType, BlocksOfType DEF Partitioned
<1>2. /\ Pool!Size(r) = Held(mgr, r)
      /\ Pool!OwnedBy(r) = Range(BlocksOf(mgr, r))
  BY PoolOwners
<1>3. mgr' = Trim(mgr, r, tokens) /\ Pool!Answer(r, k, "trimmed")
  BY DEF TrimRequest, Pool!Answer, Reply
<1>4. CASE k >= Held(mgr, r)
  <2>1. mgr' = mgr
    BY <1>3, <1>4 DEF Trim
  <2>2. [b \in Blocks |-> OwnerIn(mgr', b)]
          = [b \in Blocks |-> IF b \in Pool!OwnedBy(r) \ Pool!OwnedBy(r) THEN NoRequest
                              ELSE [c \in Blocks |-> OwnerIn(mgr, c)][b]]
    BY <2>1
  <2>3. Pool!Shrink(r, k)
    BY <1>2, <1>3, <1>4, <2>2 DEF Pool!Shrink
  <2>4. QED
    BY <1>1, <2>3 DEF Pool!PoolNext
<1>5. CASE k < Held(mgr, r)
  <2>1. PICK kept \in SUBSET Range(BlocksOf(mgr, r)) :
          /\ Cardinality(kept) = k
          /\ \A b \in Blocks :
               OwnerIn(mgr', b)
                 = IF b \in Range(BlocksOf(mgr, r)) \ kept THEN NoRequest
                   ELSE OwnerIn(mgr, b)
    BY <1>1, <1>3, <1>5, TrimOwners
  <2>2. [b \in Blocks |-> OwnerIn(mgr', b)]
          = [b \in Blocks |-> IF b \in Pool!OwnedBy(r) \ kept THEN NoRequest
                              ELSE [c \in Blocks |-> OwnerIn(mgr, c)][b]]
    BY <1>2, <2>1
  <2>3. ~(Pool!Size(r) <= k)
    BY <1>1, <1>2, <1>5
  <2>4. Pool!Shrink(r, k)
    BY <1>2, <1>3, <2>1, <2>2, <2>3, SameCardinality DEF Pool!Shrink
  <2>5. QED
    BY <1>1, <2>4 DEF Pool!PoolNext
<1>6. QED
  BY <1>1, <1>4, <1>5

\* free_request releases what the request owns.
LEMMA FreeMaps ==
  ASSUME Partitioned(mgr), NEW r \in RequestIds, Free(r)
  PROVE  Pool!PoolNext
<1>1. mgr' = FreeRequest(mgr, r) /\ Pool!Answer(r, 0, "freed")
  BY BlocksForBound DEF Free, Pool!Answer, Reply
<1>2. [b \in Blocks |-> OwnerIn(mgr', b)]
        = [b \in Blocks |-> IF [c \in Blocks |-> OwnerIn(mgr, c)][b] = r THEN NoRequest
                            ELSE [c \in Blocks |-> OwnerIn(mgr, c)][b]]
  BY <1>1, FreeOwners
<1>3. Pool!Release(r)
  BY <1>1, <1>2 DEF Pool!Release
<1>4. QED
  BY <1>3 DEF Pool!PoolNext

\* PagedBlockManager implements the abstract pool: ownership is exclusive, and
\* an allocation is granted whole or refused because the pool is too empty.
THEOREM PoolImplemented == Spec => ImplementsPool
<1>1. Init => Pool!PoolInit
  <2> SUFFICES ASSUME Init PROVE Pool!PoolInit
    OBVIOUS
  <2>1. \A b \in Blocks : OwnerIn(mgr, b) = NoRequest
    BY DEF Init, NewManager, OwnerIn
  <2>2. QED
    BY <2>1, BlocksForBound DEF Init, Reply, Pool!PoolInit
<1>2. Partitioned(mgr) /\ [Next]_vars => [Pool!PoolNext]_(Pool!poolVars)
  <2>1. ASSUME UNCHANGED vars
        PROVE  UNCHANGED Pool!poolVars
    BY <2>1 DEF vars, Pool!poolVars, OwnerIn
  <2>2. QED
    BY <2>1, AllocateMaps, TrimMaps, FreeMaps DEF Next
<1>3. QED
  BY <1>1, <1>2, AlwaysPartitioned, PTL DEF Spec, ImplementsPool, Pool!PoolSpec

--------------------------------------------------------------------------------
\* Orders, maxima and powers.

\* A list of numbers has a largest one.
LEMMA LargestOf ==
  ASSUME NEW n \in Nat, n # 0, NEW f \in [1 .. n -> Nat]
  PROVE  \E k \in 1 .. n : \A j \in 1 .. n : f[j] <= f[k]
<1> DEFINE S == {m \in 0 .. n : m = 0 \/ \E k \in 1 .. m : \A j \in 1 .. m : f[j] <= f[k]}
<1>1. 0 \in S
  OBVIOUS
<1>2. ASSUME NEW m \in 1 .. n, m - 1 \in S
      PROVE  m \in S
  <2>1. CASE m = 1
    <3>1. \A j \in 1 .. m : f[j] <= f[1]
      BY <2>1
    <3>2. QED
      BY <2>1, <3>1
  <2>2. CASE m # 1
    <3>1. PICK k \in 1 .. m - 1 : \A j \in 1 .. m - 1 : f[j] <= f[k]
      BY <1>2, <2>2
    <3>2. k \in 1 .. n /\ f[k] \in Nat /\ f[m] \in Nat /\ k \in 1 .. m
      OBVIOUS
    <3>3. CASE f[m] <= f[k]
      <4>1. \A j \in 1 .. m : f[j] <= f[k]
        BY <3>1, <3>3
      <4>2. QED
        BY <3>2, <4>1
    <3>4. CASE f[m] > f[k]
      <4>1. \A j \in 1 .. m : f[j] <= f[m]
        <5> TAKE j \in 1 .. m
        <5>1. CASE j = m
          BY <3>2, <5>1
        <5>2. CASE j # m
          <6>1. j \in 1 .. m - 1 /\ f[j] \in Nat
            BY <5>2
          <6>2. QED
            BY <6>1, <3>1, <3>2, <3>4
        <5>3. QED
          BY <5>1, <5>2
      <4>2. QED
        BY <4>1
    <3>5. QED
      BY <3>2, <3>3, <3>4
  <2>3. QED
    BY <2>1, <2>2
<1>3. n \in S
  <2> HIDE DEF S
  <2>1. \A k \in 1 .. n : k - 1 \in S => k \in S
    BY <1>2
  <2>2. \A k \in 0 .. n : k \in S
    BY <1>1, <2>1, UpTo, Zenon
  <2>3. QED
    BY <2>2
<1>4. QED
  BY <1>3

\* Max is that one.
LEMMA MaxOf ==
  ASSUME NEW n \in Nat, n # 0, NEW f \in [1 .. n -> Nat],
         NEW S, S = {f[k] : k \in 1 .. n}
  PROVE  /\ Max(S) \in Nat
         /\ Max(S) \in S
         /\ \A k \in 1 .. n : f[k] <= Max(S)
<1>1. \E x \in S : \A y \in S : x >= y
  <2>1. PICK k \in 1 .. n : \A j \in 1 .. n : f[j] <= f[k]
    BY LargestOf
  <2>2. f[k] \in S /\ \A y \in S : y <= f[k]
    BY <2>1
  <2>3. QED
    BY <2>2
<1>2. Max(S) \in S /\ \A y \in S : Max(S) >= y
  BY <1>1, Zenon DEF Max
<1>3. QED
  BY <1>2

\* Every finite set of numbers can be put in order.
LEMMA OrderExists ==
  ASSUME NEW S \in SUBSET Nat, IsFiniteSet(S)
  PROVE  \E s \in [1 .. Cardinality(S) -> S] :
           \A j, k \in DOMAIN s : j < k => s[j] < s[k]
<1> DEFINE Ordered(T, m) ==
             \E s \in [1 .. m -> T] : \A j, k \in 1 .. m : j < k => s[j] < s[k]
           n == Cardinality(S)
           D == {m \in 0 .. n : \A T \in SUBSET S : Cardinality(T) = m => Ordered(T, m)}
<1>1. n \in Nat
  BY FS_CardinalityType
<1>2. 0 \in D
  <2>1. ASSUME NEW T \in SUBSET S, Cardinality(T) = 0 PROVE Ordered(T, 0)
    <3> DEFINE s == [i \in 1 .. 0 |-> 0]
    <3>1. s \in [1 .. 0 -> T]
      OBVIOUS
    <3>2. \A j, k \in 1 .. 0 : j < k => s[j] < s[k]
      OBVIOUS
    <3> HIDE DEF s
    <3>3. QED
      BY <3>1, <3>2
  <2>2. QED
    BY <2>1, <1>1
<1>3. ASSUME NEW m \in 1 .. n, m - 1 \in D
      PROVE  m \in D
  <2>1. ASSUME NEW T \in SUBSET S, Cardinality(T) = m PROVE Ordered(T, m)
    <3>1. IsFiniteSet(T) /\ m \in Nat /\ m # 0
      <4>1. IsFiniteSet(T)
        BY FS_Subset
      <4>2. m \in Nat /\ m # 0
        BY <1>1
      <4>3. QED
        BY <4>1, <4>2
    <3>2. PICK f : f \in Bijection(1 .. m, T)
      BY <3>1, <2>1, FS_CardinalityType DEF ExistsBijection
    <3>3. f \in [1 .. m -> T] /\ T = {f[k] : k \in 1 .. m}
      BY <3>2 DEF Bijection, Injection, Surjection
    <3>4. f \in [1 .. m -> Nat]
      BY <3>3
    <3>5. PICK x \in T : \A y \in T : y <= x
      <4>1. PICK k \in 1 .. m : \A j \in 1 .. m : f[j] <= f[k]
        BY <3>1, <3>4, LargestOf
      <4>2. QED
        BY <3>3, <4>1
    <3> DEFINE U == T \ {x}
    <3>6. U \in SUBSET S /\ Cardinality(U) = m - 1
      BY <3>1, <2>1, FS_RemoveElement
    <3>7. Ordered(U, m - 1)
      BY <3>6, <1>3
    <3>8. PICK s \in [1 .. m - 1 -> U] : \A j, k \in 1 .. m - 1 : j < k => s[j] < s[k]
      BY <3>7
    <3> DEFINE t == [k \in 1 .. m |-> IF k = m THEN x ELSE s[k]]
    <3>9. t \in [1 .. m -> T]
      <4>1. \A k \in 1 .. m : k # m => k \in 1 .. m - 1
        OBVIOUS
      <4>2. QED
        BY <4>1
    <3>10. ASSUME NEW j \in 1 .. m, NEW k \in 1 .. m, j < k PROVE t[j] < t[k]
      <4>0. j \in 1 .. m - 1 /\ j # m
        BY <3>10
      <4>1. t[j] = s[j] /\ s[j] \in U /\ s[j] \in Nat
        BY <4>0, <3>8
      <4>2. CASE k = m
        <5>1. t[k] = x /\ x \in Nat /\ s[j] <= x /\ s[j] # x
          BY <4>1, <4>2, <3>5
        <5>2. QED
          BY <5>1, <4>1
      <4>3. CASE k # m
        <5>1. k \in 1 .. m - 1 /\ t[k] = s[k]
          BY <4>3
        <5>2. QED
          BY <5>1, <4>1, <3>8, <3>10
      <4>4. QED
        BY <4>2, <4>3
    <3> HIDE DEF t
    <3>11. QED
      BY <3>9, <3>10
  <2>2. QED
    BY <2>1
<1>4. n \in D
  <2> HIDE DEF D, n
  <2>1. \A k \in 1 .. n : k - 1 \in D => k \in D
    BY <1>3
  <2>2. \A k \in 0 .. n : k \in D
    BY <1>1, <1>2, <2>1, UpTo, Zenon
  <2>3. QED
    BY <1>1, <2>2
<1>5. PICK s \in [1 .. n -> S] : \A j, k \in 1 .. n : j < k => s[j] < s[k]
  BY <1>4
<1>6. DOMAIN s = 1 .. n
  OBVIOUS
<1>7. QED
  BY <1>5, <1>6

\* InOrder lists the requests of a set, each once.
LEMMA InOrderLists ==
  ASSUME NEW S \in SUBSET Nat, IsFiniteSet(S)
  PROVE  /\ InOrder(S) \in Seq(S)
         /\ DOMAIN InOrder(S) = 1 .. Cardinality(S)
         /\ Len(InOrder(S)) = Cardinality(S)
         /\ Cardinality(S) \in Nat
         /\ ToSet(InOrder(S)) = S
         /\ \A j, k \in 1 .. Cardinality(S) : InOrder(S)[j] = InOrder(S)[k] => j = k
<1> DEFINE s == InOrder(S)
           n == Cardinality(S)
<1>1. n \in Nat
  BY FS_CardinalityType
<1>2. s \in [1 .. n -> S] /\ \A j, k \in DOMAIN s : j < k => s[j] < s[k]
  BY OrderExists, Zenon DEF InOrder
<1> HIDE DEF s
<1>3. \A j, k \in 1 .. n : s[j] = s[k] => j = k
  <2> SUFFICES ASSUME NEW j \in 1 .. n, NEW k \in 1 .. n, s[j] = s[k], j # k PROVE FALSE
    OBVIOUS
  <2>1. s[j] \in Nat /\ s[k] \in Nat /\ j \in DOMAIN s /\ k \in DOMAIN s
    BY <1>2
  <2>2. j < k \/ k < j
    OBVIOUS
  <2>3. QED
    BY <2>1, <2>2, <1>2
<1>4. s \in Injection(1 .. n, S)
  BY <1>2, <1>3 DEF Injection, IsInjective
<1>5. Cardinality(1 .. n) = n
  BY <1>1, FS_Interval
<1>6. s \in Surjection(1 .. n, S)
  BY <1>4, <1>5, FS_Injection
<1>7. ToSet(s) = S
  BY <1>2, <1>6 DEF Surjection, ToSet
<1>8. s \in Seq(S) /\ Len(s) = n /\ DOMAIN s = 1 .. n
  BY <1>1, <1>2
<1>9. QED
  BY <1>1, <1>3, <1>7, <1>8 DEF s

\* The powers of two up to 2^n are a run of doublings.
Doublings(f, n) ==
  /\ f \in [0 .. n -> Nat]
  /\ f[0] = 1
  /\ \A k \in 1 .. n : f[k] = 2 * f[k-1]

LEMMA PowersDouble ==
  ASSUME NEW n \in Nat
  PROVE  \E f : Doublings(f, n) /\ PowersOfTwo(n) = {f[k] : k \in 0 .. n}
<1> DEFINE Then  == {p \in (1 .. n) \X Nat \X Nat : p[3] = 2 * p[2]}
           R(f)  == f = [k \in 0 .. n |-> IF k = 0 THEN 1 ELSE 2 * f[k-1]]
           power == CHOOSE f : R(f)
<1>1. Steps(n, Nat, 1, Then)
  <2>1. ASSUME NEW k \in 1 .. n, NEW v \in Nat PROVE \E w \in Nat : <<k, v, w>> \in Then
    <3>1. 2 * v \in Nat /\ <<k, v, 2 * v>> \in Then
      OBVIOUS
    <3>2. QED
      BY <3>1
  <2>2. QED
    BY <2>1 DEF Steps
<1>2. PICK f : RunThrough(f, n, Nat, 1, Then)
  BY <1>1, Iterates
<1>3. ASSUME NEW k \in 1 .. n PROVE f[k] = 2 * f[k-1]
  <2>1. <<k, f[k-1], f[k]>> \in Then
    BY <1>2 DEF RunThrough
  <2>2. QED
    BY <2>1
<1>4. f \in [0 .. n -> Nat] /\ f[0] = 1
  BY <1>2 DEF RunThrough
<1>5. R(f)
  <2>1. \A k \in 0 .. n : k # 0 => k \in 1 .. n
    OBVIOUS
  <2>2. f = [k \in 0 .. n |-> f[k]]
    BY <1>4
  <2>3. QED
    BY <1>3, <1>4, <2>1, <2>2
<1>6. R(power)
  <2> HIDE DEF R
  <2>1. QED
    BY <1>5
<1>7. PowersOfTwo(n) = {power[k] : k \in 0 .. n}
  BY Zenon DEF PowersOfTwo
<1> HIDE DEF power
<1>8. /\ power[0] = 1
      /\ \A k \in 1 .. n : power[k] = 2 * power[k-1]
  <2>1. 0 \in 0 .. n /\ \A k \in 1 .. n : k \in 0 .. n /\ k # 0
    OBVIOUS
  <2>2. QED
    BY <1>6, <2>1, Zenon
<1>9. \A k \in 0 .. n : power[k] = f[k]
  <2> DEFINE S == {k \in 0 .. n : power[k] = f[k]}
  <2>1. 0 \in S
    BY <1>4, <1>8
  <2>2. ASSUME NEW k \in 1 .. n, k - 1 \in S PROVE k \in S
    BY <2>2, <1>3, <1>8
  <2> HIDE DEF S
  <2>3. \A k \in 0 .. n : k \in S
    BY <2>1, <2>2, UpTo
  <2>4. QED
    BY <2>3 DEF S
<1>10. PowersOfTwo(n) = {f[k] : k \in 0 .. n}
  BY <1>7, <1>9
<1>11. QED
  BY <1>3, <1>4, <1>10 DEF Doublings

\* They grow, and past every number.
LEMMA DoublingsGrow ==
  ASSUME NEW n \in Nat, NEW f, Doublings(f, n)
  PROVE  \A k \in 0 .. n : f[k] >= k + 1 /\ \A j \in 0 .. k : f[j] <= f[k]
<1> DEFINE S == {k \in 0 .. n : f[k] >= k + 1 /\ \A j \in 0 .. k : f[j] <= f[k]}
<1>1. 0 \in S
  BY DEF Doublings
<1>2. ASSUME NEW k \in 1 .. n, k - 1 \in S PROVE k \in S
  <2>1. /\ k - 1 \in 0 .. n /\ f[k-1] \in Nat /\ f[k] \in Nat /\ f[k] = 2 * f[k-1]
        /\ f[k-1] >= k /\ \A j \in 0 .. k - 1 : f[j] <= f[k-1] /\ f[j] \in Nat
    BY <1>2 DEF Doublings
  <2>2. f[k] >= k + 1 /\ f[k-1] <= f[k]
    BY <2>1
  <2>3. ASSUME NEW j \in 0 .. k PROVE f[j] <= f[k]
    <3>1. j = k \/ j \in 0 .. k - 1
      OBVIOUS
    <3>2. QED
      BY <3>1, <2>1, <2>2
  <2>4. QED
    BY <2>2, <2>3
<1> HIDE DEF S
<1>3. \A k \in 0 .. n : k \in S
  BY <1>1, <1>2, UpTo
<1>4. QED
  BY <1>3 DEF S

\* Two runs of them agree.
LEMMA DoublingsAgree ==
  ASSUME NEW n \in Nat, NEW f, Doublings(f, n),
         NEW m \in Nat, NEW g, Doublings(g, m), n <= m
  PROVE  \A k \in 0 .. n : f[k] = g[k]
<1> DEFINE S == {k \in 0 .. n : f[k] = g[k]}
<1>1. 0 \in S
  BY DEF Doublings
<1>2. ASSUME NEW k \in 1 .. n, k - 1 \in S PROVE k \in S
  <2>1. k \in 1 .. m
    OBVIOUS
  <2>2. QED
    BY <1>2, <2>1 DEF Doublings
<1> HIDE DEF S
<1>3. \A k \in 0 .. n : k \in S
  BY <1>1, <1>2, UpTo
<1>4. QED
  BY <1>3 DEF S

\* next_power_of_two rounds up, by less than a factor of two.
LEMMA NextPower ==
  ASSUME NEW n \in Nat, n # 0
  PROVE  /\ NextPowerOfTwo(n) \in PowersOfTwo(n)
         /\ NextPowerOfTwo(n) \in Nat
         /\ NextPowerOfTwo(n) >= n
         /\ NextPowerOfTwo(n) < 2 * n
<1>1. PICK f : Doublings(f, n) /\ PowersOfTwo(n) = {f[k] : k \in 0 .. n}
  BY PowersDouble
<1>2. \A k \in 0 .. n : f[k] \in Nat /\ f[k] >= k + 1
  BY <1>1, DoublingsGrow DEF Doublings
<1>3. \E p \in PowersOfTwo(n) : p >= n /\ p < 2 * n
  <2> DEFINE S == {k \in 0 .. n : f[k] < n}
  <2>1. n \notin S
    BY <1>2
  <2>2. CASE 0 \notin S
    <3>1. f[0] = 1 /\ 0 \in 0 .. n
      BY <1>1 DEF Doublings
    <3>2. n = 1
      BY <2>2, <3>1
    <3>3. QED
      BY <3>1, <3>2, <1>1
  <2>3. CASE 0 \in S
    <3>1. PICK k \in 1 .. n : k - 1 \in S /\ k \notin S
      <4> HIDE DEF S
      <4>1. SUFFICES ASSUME \A k \in 1 .. n : k - 1 \in S => k \in S PROVE FALSE
        OBVIOUS
      <4>2. \A k \in 0 .. n : k \in S
        BY <2>3, <4>1, UpTo, Zenon
      <4>3. QED
        BY <4>2, <2>1
    <3>2. f[k-1] < n /\ f[k] >= n /\ f[k] = 2 * f[k-1] /\ f[k-1] \in Nat /\ f[k] \in Nat
      <4>1. k \in 0 .. n /\ k - 1 \in 0 .. n
        OBVIOUS
      <4>2. QED
        BY ONLY <1>1, <1>2, <3>1, <4>1 DEF Doublings
    <3>3. f[k] \in PowersOfTwo(n) /\ f[k] < 2 * n
      BY <1>1, <3>2
    <3>4. QED
      BY <3>2, <3>3
  <2>4. QED
    BY <2>2, <2>3
<1>4. /\ NextPowerOfTwo(n) \in PowersOfTwo(n)
      /\ NextPowerOfTwo(n) >= n /\ NextPowerOfTwo(n) < 2 * n
  BY <1>3, Zenon DEF NextPowerOfTwo
<1>5. QED
  BY <1>1, <1>2, <1>4

\* Between a power of two and four times it, there is one.
LEMMA PowersBetween ==
  ASSUME NEW n \in Nat, NEW m \in Nat, NEW p \in PowersOfTwo(n), NEW q \in PowersOfTwo(m),
         q < p, p < 4 * q
  PROVE  p = 2 * q
<1>1. PICK f : Doublings(f, n) /\ PowersOfTwo(n) = {f[k] : k \in 0 .. n}
  BY PowersDouble
<1>2. PICK g : Doublings(g, m) /\ PowersOfTwo(m) = {g[k] : k \in 0 .. m}
  BY PowersDouble
<1>3. PICK l \in Nat, h \in {f, g} : Doublings(h, l) /\ n <= l /\ m <= l
  <2>1. CASE n <= m
    BY <1>2, <2>1
  <2>2. CASE ~(n <= m)
    <3>1. m <= n
      BY <2>2
    <3>2. QED
      BY <1>1, <3>1
  <2>3. QED
    BY <2>1, <2>2
<1>4. PICK i \in 0 .. l : p = h[i]
  <2>1. \A k \in 0 .. n : f[k] = h[k]
    <3>1. Doublings(f, n) /\ Doublings(h, l) /\ n <= l
      BY <1>1, <1>3
    <3>2. QED
      BY <3>1, DoublingsAgree
  <2>2. QED
    BY <1>1, <1>3, <2>1
<1>5. PICK j \in 0 .. l : q = h[j]
  <2>1. \A k \in 0 .. m : g[k] = h[k]
    <3>1. Doublings(g, m) /\ Doublings(h, l) /\ m <= l
      BY <1>2, <1>3
    <3>2. QED
      BY <3>1, DoublingsAgree
  <2>2. QED
    BY <1>2, <1>3, <2>1
<1>6. \A k \in 0 .. l : \A o \in 0 .. k : h[o] \in Nat /\ h[k] \in Nat /\ h[o] <= h[k]
  <2>1. \A k \in 0 .. l : \A o \in 0 .. k : h[o] <= h[k]
    BY <1>3, DoublingsGrow
  <2>2. \A k \in 0 .. l : \A o \in 0 .. k : o \in 0 .. l
    OBVIOUS
  <2>3. \A k \in 0 .. l : h[k] \in Nat
    BY <1>3 DEF Doublings
  <2>4. QED
    BY <2>1, <2>2, <2>3
<1>7. j < i
  <2>1. i \in Int /\ j \in Int
    OBVIOUS
  <2>2. ASSUME i <= j PROVE FALSE
    <3>1. i \in 0 .. j
      BY <2>2
    <3>2. QED
      BY <3>1, <1>4, <1>5, <1>6
  <2>3. QED
    BY <2>1, <2>2
<1>8. j + 1 \in 1 .. l /\ h[j+1] = 2 * q /\ q \in Nat
  <2>1. j + 1 \in 1 .. l
    BY <1>7
  <2>2. h[j+1] = 2 * h[(j+1)-1]
    BY <1>3, <2>1 DEF Doublings
  <2>3. QED
    BY <2>1, <2>2, <1>5, <1>6
<1>9. CASE i = j + 1
  BY <1>4, <1>8, <1>9
<1>10. CASE i # j + 1
  <2>1. j + 2 \in 1 .. l /\ j + 2 \in 0 .. i
    BY <1>7, <1>10
  <2>2. h[j+2] = 2 * h[(j+2)-1]
    BY <1>3, <2>1 DEF Doublings
  <2>3. h[j+2] = 4 * q
    BY <2>2, <1>8
  <2>4. h[j+2] <= p
    BY <2>1, <1>4, <1>6
  <2>5. QED
    BY <2>3, <2>4, <1>4, <1>6, <1>8
<1>11. QED
  BY <1>9, <1>10

--------------------------------------------------------------------------------
\* Buckets.

LEMMA BaseColsType == BaseCols \in Nat \ {0}
  BY PoolAssumption, GraphAssumption DEF BaseCols, DivCeil

\* A table fits its bucket, and a table of up to two base widths has one of two buckets.
LEMMA ColsBucketIs ==
  ASSUME NEW b \in Nat
  PROVE  /\ ColsBucket(b) \in Nat
         /\ b <= ColsBucket(b)
         /\ b <= 2 * BaseCols => ColsBucket(b) \in {BaseCols, 2 * BaseCols}
<1> DEFINE B == BaseCols
<1>1. B \in Nat \ {0}
  BY BaseColsType
<1> HIDE DEF B
<1>2. CASE b = 0
  BY <1>1, <1>2 DEF ColsBucket, B
<1>3. CASE b # 0
  <2> DEFINE p == NextPowerOfTwo(b)
  <2>1. p \in PowersOfTwo(b) /\ p \in Nat /\ p >= b /\ p < 2 * b
    BY <1>3, NextPower
  <2>2. B \in PowersOfTwo(B)
    BY <1>1, NextPower, BucketAssumption DEF B
  <2>3. ColsBucket(b) = Larger(p, B)
    BY <1>3 DEF ColsBucket, B
  <2> HIDE DEF p
  <2>4. CASE p <= B
    <3>1. ColsBucket(b) = B
      BY <2>3, <2>4, <2>1, <1>1 DEF Larger
    <3>2. QED
      BY <3>1, <2>1, <2>4, <1>1 DEF B
  <2>5. CASE ~(p <= B)
    <3>1. ColsBucket(b) = p
      BY <2>3, <2>5, <2>1, <1>1 DEF Larger
    <3>2. b <= 2 * B => p = 2 * B
      <4>1. SUFFICES ASSUME b <= 2 * B PROVE p = 2 * B
        OBVIOUS
      <4>2. B < p /\ p < 4 * B
        BY <4>1, <2>1, <2>5, <1>1
      <4>3. QED
        BY <4>2, <2>1, <2>2, <1>1, PowersBetween
    <3>3. QED
      BY <3>1, <3>2, <2>1, <1>1 DEF B
  <2>6. QED
    BY <2>4, <2>5
<1>4. QED
  BY <1>2, <1>3

\* The bucket of a batch that fits is one of the captured ones.
LEMMA BatchBucketIn ==
  ASSUME NEW max \in Nat, NEW n \in 1 .. Smaller(max, CaptureLimit)
  PROVE  BatchBucket(n, Smaller(max, CaptureLimit)) \in BatchBuckets(max)
<1> DEFINE M == Smaller(max, CaptureLimit)
           d == DivCeil(n, 16)
<1>1. M \in Nat /\ n \in 1 .. M
  BY GraphAssumption DEF Smaller
<1> HIDE DEF M
<1>2. BatchBuckets(max) =
        {b \in {1, 2, 4, 8} : b <= M} \cup {16 * k : k \in 1 .. M \div 16} \cup ({M} \ {0})
  BY DEF BatchBuckets, M
<1>3. M \in BatchBuckets(max)
  BY <1>1, <1>2
<1>4. \A b \in {1, 2, 4, 8} : b <= M => b \in BatchBuckets(max)
  BY <1>2
<1>5. d \in Nat \ {0}
  BY <1>1 DEF DivCeil
<1>6. d * 16 <= M => d * 16 \in BatchBuckets(max)
  <2>1. d * 16 <= M => d \in 1 .. M \div 16
    <3> HIDE DEF d
    <3>1. QED
      BY <1>1, <1>5
  <2>2. d * 16 = 16 * d
    BY <1>5
  <2>3. QED
    BY <2>1, <2>2, <1>2
<1>7. d * 16 \in Nat
  BY <1>5
<1> DEFINE e == d * 16
<1> HIDE DEF d, e
<1>8. BatchBucket(n, M) =
        Smaller(M, IF n <= 2 THEN n ELSE IF n <= 4 THEN 4 ELSE IF n <= 8 THEN 8 ELSE e)
  BY DEF BatchBucket, d, e
<1>9. /\ e \in Nat /\ (e <= M => e \in BatchBuckets(max))
  BY <1>6, <1>7 DEF e
<1>10. BatchBucket(n, M) \in BatchBuckets(max)
  <2>1. CASE n <= 2
    BY <2>1, <1>1, <1>3, <1>4, <1>8 DEF Smaller
  <2>2. CASE ~(n <= 2) /\ n <= 4
    BY <2>2, <1>1, <1>3, <1>4, <1>8 DEF Smaller
  <2>3. CASE ~(n <= 4) /\ n <= 8
    BY <2>3, <1>1, <1>3, <1>4, <1>8 DEF Smaller
  <2>4. CASE ~(n <= 8)
    BY <2>4, <1>1, <1>3, <1>8, <1>9 DEF Smaller
  <2>5. QED
    BY <2>1, <2>2, <2>3, <2>4, <1>1
<1>11. QED
  BY <1>10 DEF M

\* A step of a batch and tables of the prewarmed widths finds its shape, for every configuration.
THEOREM BucketsAreCovered == DecodeSpec => []BucketsCover
<1>1. BucketsCover
  <2>1. ASSUME NEW max \in 1 .. 40, NEW blocks \in 0 .. 2 * BaseCols,
               NEW n \in 1 .. Smaller(max, CaptureLimit)
        PROVE  <<BatchBucket(n, Smaller(max, CaptureLimit)), ColsBucket(blocks)>>
                 \in PrewarmKeys(max)
    <3>1. max \in Nat /\ blocks \in Nat /\ blocks <= 2 * BaseCols
      BY BaseColsType
    <3>2. QED
      BY <3>1, BatchBucketIn, ColsBucketIs DEF PrewarmKeys
  <2>2. QED
    BY <2>1 DEF BucketsCover
<1>2. QED
  BY <1>1, PTL

--------------------------------------------------------------------------------
\* A step's tables, and those of rows that leave.

\* A batch: its rows in order, each once.
Listed(rs, n, S) ==
  /\ n \in Nat
  /\ rs \in [1 .. n -> S]
  /\ \A j, k \in 1 .. n : rs[j] = rs[k] => j = k

\* Taking blocks leaves no more free than there were.
LEMMA AllocateTakes ==
  ASSUME NEW m, Partitioned(m), NEW r \in RequestIds, NEW tokens \in Nat
  PROVE  Len(Allocate(m, r, tokens).free) <= Len(m.free)
<1>1. m.free \in Seq(Blocks) /\ Needed(m, r, tokens) \in Nat /\ IsManager(m)
  BY NeededType DEF Partitioned, IsManager
<1>2. CASE Needed(m, r, tokens) = 0 \/ ~CanAllocate(m, r, tokens)
  BY <1>1, <1>2 DEF Allocate
<1>3. CASE ~(Needed(m, r, tokens) = 0 \/ ~CanAllocate(m, r, tokens))
  <2>1. Needed(m, r, tokens) \in 0 .. Len(m.free)
    BY <1>1, <1>3 DEF CanAllocate
  <2>2. Allocate(m, r, tokens).free = SubSeq(m.free, Needed(m, r, tokens) + 1, Len(m.free))
    BY <1>3 DEF Allocate
  <2>3. QED
    BY <1>1, <2>1, <2>2, TailOfTable
<1>4. QED
  BY <1>2, <1>3

\* What the turns of a step's rows leave: every table with its entries, and a
\* row that could still be given its block has it.
GrownTo(m, rs, k) ==
  /\ Partitioned(m)
  /\ SameEntries(manager, m)
  /\ DOMAIN m.table = DOMAIN manager.table
  /\ \A r \in DOMAIN len : Held(m, r) >= Held(manager, r)
  /\ \A j \in 1 .. k : CanAllocate(m, rs[j], len[rs[j]] + 1) =>
                         BlocksFor(len[rs[j]] + 1) <= Held(m, rs[j])

\* One turn.
LEMMA GrownNext ==
  ASSUME Partitioned(manager), DOMAIN manager.table = DOMAIN len, len \in [DOMAIN len -> Nat],
         NEW n, NEW rs, Listed(rs, n, DOMAIN len), NEW k \in 1 .. n,
         NEW m, GrownTo(m, rs, k - 1)
  PROVE  GrownTo(Allocate(m, rs[k], len[rs[k]] + 1), rs, k)
<1> DEFINE r == rs[k]
           t == len[r] + 1
           a == Allocate(m, r, t)
<1>1. n \in Nat /\ r \in DOMAIN len /\ t \in Nat /\ r \in RequestIds /\ r \in DOMAIN m.table
  BY DEF Listed, Partitioned, IsManager, GrownTo
<1>2. Partitioned(m) /\ IsManager(m) /\ IsManager(manager)
  BY DEF GrownTo, Partitioned
<1>3. Partitioned(a) /\ IsManager(a)
  BY <1>1, <1>2, AllocateKeeps DEF Partitioned
<1>4. /\ \A q \in RequestIds \ {r} : Held(a, q) = Held(m, q)
      /\ Held(a, r) >= Held(m, r)
      /\ CanAllocate(m, r, t) => Held(a, r) >= BlocksFor(t)
      /\ DOMAIN a.table = DOMAIN m.table
  BY <1>1, <1>2, AllocateHolds
<1>5. SameEntries(m, a)
  BY <1>1, <1>2, AllocateSame
<1>6. Len(a.free) <= Len(m.free) /\ Len(a.free) \in Nat /\ Len(m.free) \in Nat
  BY <1>1, <1>2, <1>3, AllocateTakes DEF IsManager
<1> HIDE DEF a, t
<1>7. DOMAIN len \subseteq RequestIds
  BY <1>2 DEF IsManager
<1>8. \A q : Held(a, q) \in Nat /\ Held(m, q) \in Nat /\ Held(manager, q) \in Nat
  BY <1>2, <1>3, BlocksOfType
<1>9. \A q \in DOMAIN len : Held(a, q) >= Held(m, q) /\ Held(m, q) >= Held(manager, q)
  BY <1>4, <1>7, <1>8 DEF GrownTo
<1>10. SameEntries(manager, a)
  <2>1. SameEntries(manager, m) /\ DOMAIN manager.table \subseteq DOMAIN m.table
    BY DEF GrownTo
  <2>2. \A q \in DOMAIN manager.table : Held(m, q) >= Held(manager, q)
    BY <1>9
  <2>3. QED
    BY <1>2, <1>3, <1>5, <2>1, <2>2, SameThroughGrowth
<1>11. ASSUME NEW j \in 1 .. k, CanAllocate(a, rs[j], len[rs[j]] + 1)
       PROVE  BlocksFor(len[rs[j]] + 1) <= Held(a, rs[j])
  <2> DEFINE q == rs[j]
             b == BlocksFor(len[q] + 1)
  <2>1. j \in 1 .. n /\ q \in DOMAIN len /\ len[q] + 1 \in Nat
    BY <1>1 DEF Listed
  <2>2. b \in Nat
    BY <2>1, BlocksForType
  <2>3. CASE j = k
    <3>1. q = r /\ len[q] + 1 = t
      BY <2>3 DEF t
    <3>2. CASE CanAllocate(m, r, t)
      BY <3>1, <3>2, <1>4, <1>8, <2>2
    <3>3. CASE ~CanAllocate(m, r, t)
      <4>1. a = m
        BY <3>3 DEF Allocate, a
      <4>2. QED
        BY <1>11, <3>1, <3>3, <4>1
    <3>4. QED
      BY <3>2, <3>3
  <2>4. CASE j # k
    <3>1. j \in 1 .. k - 1 /\ k \in 1 .. n
      BY <2>4
    <3>2. q # r /\ q \in RequestIds
      BY <2>1, <2>4, <3>1, <1>7 DEF Listed
    <3>3. Held(a, q) = Held(m, q)
      BY <1>4, <3>2
    <3>4. Needed(a, q, len[q] + 1) = Needed(m, q, len[q] + 1)
      BY <3>3 DEF Needed
    <3>5. Needed(m, q, len[q] + 1) \in Nat
      BY <1>2, <2>1, NeededType
    <3>6. CanAllocate(m, q, len[q] + 1)
      BY <1>6, <1>11, <3>4, <3>5 DEF CanAllocate
    <3>7. b <= Held(m, q)
      BY <3>1, <3>6 DEF GrownTo
    <3>8. QED
      BY <3>3, <3>7
  <2>5. QED
    BY <2>3, <2>4
<1>12. DOMAIN a.table = DOMAIN manager.table
  BY <1>4 DEF GrownTo
<1>13. \A q \in DOMAIN len : Held(a, q) >= Held(manager, q)
  BY <1>8, <1>9
<1>14. GrownTo(a, rs, k)
  BY <1>3, <1>10, <1>11, <1>12, <1>13 DEF GrownTo
<1>15. QED
  BY <1>14 DEF a, t

\* All of them.
LEMMA GrownIs ==
  ASSUME Partitioned(manager), DOMAIN manager.table = DOMAIN len, len \in [DOMAIN len -> Nat],
         NEW n, NEW rs, Listed(rs, n, DOMAIN len)
  PROVE  GrownTo(Grown(rs), rs, n)
<1> DEFINE Then  == {p \in (1 .. n) \X Managers \X Managers :
                       p[3] = Allocate(p[2], rs[p[1]], len[rs[p[1]]] + 1)}
           R(f)  == f = [k \in 0 .. n |->
                           IF k = 0 THEN manager
                           ELSE Allocate(f[k-1], rs[k], len[rs[k]] + 1)]
           after == CHOOSE f : R(f)
<1>1. n \in Nat /\ rs \in [1 .. n -> DOMAIN len] /\ Len(rs) = n
  BY DEF Listed
<1>2. Grown(rs) = after[n]
  BY <1>1, Zenon DEF Grown
<1>3. Steps(n, Managers, manager, Then)
  <2>1. ASSUME NEW k \in 1 .. n, NEW m \in Managers
        PROVE  \E w \in Managers : <<k, m, w>> \in Then
    <3>1. rs[k] \in RequestIds /\ len[rs[k]] + 1 \in Nat /\ Partitioned(m)
      BY <1>1, InManagers DEF Partitioned, IsManager
    <3>2. Allocate(m, rs[k], len[rs[k]] + 1) \in Managers
      BY <3>1, AllocateKeeps, InManagers
    <3>3. <<k, m, Allocate(m, rs[k], len[rs[k]] + 1)>> \in Then
      BY <3>2
    <3> HIDE DEF Then
    <3>4. QED
      BY <3>2, <3>3
  <2>2. manager \in Managers
    BY InManagers
  <2> HIDE DEF Then
  <2>3. QED
    BY <1>1, <2>1, <2>2 DEF Steps
<1>4. PICK f : RunThrough(f, n, Managers, manager, Then)
  BY <1>3, Iterates
<1>5. \A k \in 1 .. n : f[k] = Allocate(f[k-1], rs[k], len[rs[k]] + 1)
  <2>1. \A k \in 1 .. n : <<k, f[k-1], f[k]>> \in Then
    BY <1>4 DEF RunThrough
  <2>2. QED
    BY <2>1
<1>6. f \in [0 .. n -> Managers] /\ f[0] = manager
  BY <1>4 DEF RunThrough
<1>7. R(f)
  <2>1. \A k \in 0 .. n : k # 0 => k \in 1 .. n
    BY <1>1
  <2>2. f = [k \in 0 .. n |-> f[k]]
    BY <1>6
  <2>3. QED
    BY <1>5, <1>6, <2>1, <2>2
<1>8. R(after)
  <2> HIDE DEF R
  <2>1. QED
    BY <1>7
<1> HIDE DEF after
<1>9. /\ after[0] = manager
      /\ \A k \in 1 .. n : after[k] = Allocate(after[k-1], rs[k], len[rs[k]] + 1)
  <2>1. 0 \in 0 .. n /\ \A k \in 1 .. n : k \in 0 .. n /\ k # 0
    BY <1>1
  <2>2. QED
    BY <1>8, <2>1, Zenon
<1>10. \A k \in 0 .. n : GrownTo(after[k], rs, k)
  <2> DEFINE S == {k \in 0 .. n : GrownTo(after[k], rs, k)}
  <2>1. 0 \in S
    <3>1. \A r : Held(manager, r) \in Nat
      BY BlocksOfType DEF Partitioned
    <3>2. SameEntries(manager, manager)
      BY DEF SameEntries
    <3>3. QED
      BY <1>1, <1>9, <3>1, <3>2 DEF GrownTo
  <2>2. ASSUME NEW k \in 1 .. n, k - 1 \in S PROVE k \in S
    <3>1. GrownTo(after[k-1], rs, k - 1)
      BY <2>2
    <3>2. GrownTo(after[k], rs, k)
      BY <3>1, <1>9, GrownNext, Zenon
    <3>3. QED
      BY <3>2, <1>1
  <2> HIDE DEF S
  <2>3. \A k \in 0 .. n : k \in S
    BY <1>1, <2>1, <2>2, UpTo
  <2>4. QED
    BY <2>3 DEF S
<1>11. QED
  BY <1>1, <1>2, <1>10

\* The rows of a batch give everything back, and the others keep what they have.
FreedFrom(m, was, gone) ==
  /\ Partitioned(m)
  /\ SameEntries(was, m)
  /\ DOMAIN m.table = DOMAIN was.table \ gone
  /\ \A r \in RequestIds \ gone : Held(m, r) = Held(was, r)

LEMMA FreeAllIs ==
  ASSUME NEW was, Partitioned(was), NEW n, NEW rs, Listed(rs, n, RequestIds)
  PROVE  FreedFrom(FreeAll(was, rs), was, {rs[k] : k \in 1 .. n})
<1> DEFINE Then  == {p \in (1 .. n) \X Managers \X Managers :
                       p[3] = FreeRequest(p[2], rs[p[1]])}
           R(f)  == f = [k \in 0 .. n |->
                           IF k = 0 THEN was ELSE FreeRequest(f[k-1], rs[k])]
           after == CHOOSE f : R(f)
<1>1. n \in Nat /\ rs \in [1 .. n -> RequestIds] /\ Len(rs) = n
  BY DEF Listed
<1>2. FreeAll(was, rs) = after[n]
  BY <1>1, Zenon DEF FreeAll
<1>3. Steps(n, Managers, was, Then)
  <2>1. ASSUME NEW k \in 1 .. n, NEW m \in Managers
        PROVE  \E w \in Managers : <<k, m, w>> \in Then
    <3>1. rs[k] \in RequestIds /\ Partitioned(m)
      BY <1>1, InManagers
    <3>2. FreeRequest(m, rs[k]) \in Managers
      BY <3>1, FreeKeeps, InManagers
    <3>3. <<k, m, FreeRequest(m, rs[k])>> \in Then
      BY <3>2
    <3> HIDE DEF Then
    <3>4. QED
      BY <3>2, <3>3
  <2>2. was \in Managers
    BY InManagers
  <2> HIDE DEF Then
  <2>3. QED
    BY <1>1, <2>1, <2>2 DEF Steps
<1>4. PICK f : RunThrough(f, n, Managers, was, Then)
  BY <1>3, Iterates
<1>5. \A k \in 1 .. n : f[k] = FreeRequest(f[k-1], rs[k])
  <2>1. \A k \in 1 .. n : <<k, f[k-1], f[k]>> \in Then
    BY <1>4 DEF RunThrough
  <2>2. QED
    BY <2>1
<1>6. f \in [0 .. n -> Managers] /\ f[0] = was
  BY <1>4 DEF RunThrough
<1>7. R(f)
  <2>1. \A k \in 0 .. n : k # 0 => k \in 1 .. n
    BY <1>1
  <2>2. f = [k \in 0 .. n |-> f[k]]
    BY <1>6
  <2>3. QED
    BY <1>5, <1>6, <2>1, <2>2
<1>8. R(after)
  <2> HIDE DEF R
  <2>1. QED
    BY <1>7
<1> HIDE DEF after
<1>9. /\ after[0] = was
      /\ \A k \in 1 .. n : after[k] = FreeRequest(after[k-1], rs[k])
  <2>1. 0 \in 0 .. n /\ \A k \in 1 .. n : k \in 0 .. n /\ k # 0
    BY <1>1
  <2>2. QED
    BY <1>8, <2>1, Zenon
<1> DEFINE Gone(k) == {rs[j] : j \in 1 .. k}
<1>10. \A k \in 0 .. n : FreedFrom(after[k], was, Gone(k))
  <2> DEFINE S == {k \in 0 .. n : FreedFrom(after[k], was, Gone(k))}
  <2>1. 0 \in S
    <3>1. Gone(0) = {}
      OBVIOUS
    <3>2. SameEntries(was, was)
      BY DEF SameEntries
    <3>3. FreedFrom(was, was, {})
      BY <3>2 DEF FreedFrom
    <3> HIDE DEF Gone
    <3>4. FreedFrom(after[0], was, Gone(0))
      BY <1>9, <3>1, <3>3
    <3>5. 0 \in 0 .. n
      BY <1>1
    <3>6. QED
      BY <3>4, <3>5
  <2>2. ASSUME NEW k \in 1 .. n, k - 1 \in S PROVE k \in S
    <3> DEFINE m == after[k-1]
               a == after[k]
               r == rs[k]
               U == Gone(k - 1)
               W == Gone(k)
    <3>1. FreedFrom(m, was, U)
      BY <2>2
    <3>2. a = FreeRequest(m, r) /\ r \in RequestIds
      BY <1>1, <1>9
    <3>3. W = U \cup {r}
      <4>1. 1 .. k = (1 .. k - 1) \cup {k}
        OBVIOUS
      <4>2. QED
        BY <4>1
    <3> HIDE DEF m, a, r, U, W
    <3>4. Partitioned(m) /\ IsManager(m)
      BY <3>1 DEF FreedFrom, Partitioned
    <3>5. Partitioned(a) /\ SameEntries(m, a)
      BY <3>2, <3>4, FreeKeeps, FreeSame
    <3>6. /\ DOMAIN a.table = DOMAIN m.table \ {r}
          /\ \A q \in RequestIds \ {r} : Held(a, q) = Held(m, q)
      BY <3>2, FreeHolds
    <3>7. SameEntries(was, a)
      <4>1. ASSUME NEW q \in DOMAIN was.table \cap DOMAIN a.table,
                   NEW x \in DOMAIN was.table[q] \cap DOMAIN a.table[q]
            PROVE  a.table[q][x] = was.table[q][x]
        <5>1. q \in DOMAIN m.table /\ a.table[q] = m.table[q]
          BY <3>2, <3>6 DEF FreeRequest, Restrict
        <5>2. QED
          BY <3>1, <5>1 DEF FreedFrom, SameEntries
      <4>2. QED
        BY <4>1 DEF SameEntries
    <3>8. DOMAIN a.table = DOMAIN was.table \ W
      BY <3>1, <3>3, <3>6 DEF FreedFrom
    <3>9. \A q \in RequestIds \ W : Held(a, q) = Held(was, q)
      BY <3>1, <3>3, <3>6 DEF FreedFrom
    <3>10. FreedFrom(a, was, W)
      BY <3>5, <3>7, <3>8, <3>9 DEF FreedFrom
    <3>11. k \in 0 .. n
      BY <1>1
    <3>12. QED
      BY <3>10, <3>11 DEF a, W
  <2> HIDE DEF S
  <2>3. \A k \in 0 .. n : k \in S
    BY <1>1, <2>1, <2>2, UpTo
  <2> HIDE DEF Gone
  <2>4. QED
    BY <2>3 DEF S
<1>11. FreedFrom(after[n], was, Gone(n))
  <2> HIDE DEF Gone
  <2>1. QED
    BY <1>1, <1>10
<1>12. QED
  BY <1>2, <1>11

--------------------------------------------------------------------------------
\* The rows of a step.

Addresses == 0 .. NumBlocks * BlockSize - 1

\* The pool holds the KV of tokens: every position below a request's length is
\* covered by its table, and its slot holds that position of that request.
KvOf(m, mem, tokens) ==
  \A r \in DOMAIN tokens : \A p \in 0 .. tokens[r] - 1 :
    p \in Covered(m, r) /\ mem[SlotOf(m, r, p)] = <<r, p>>

PoolInv ==
  /\ come \in Nat
  /\ DOMAIN len \subseteq 1 .. come
  /\ len \in [DOMAIN len -> Nat]
  /\ DOMAIN manager.table = DOMAIN len
  /\ Partitioned(manager)
  /\ kv = [s \in Addresses |-> kv[s]]
  /\ KvOf(manager, kv, len)

\* Blocks enough for tokens cover their positions.
LEMMA CoveredUpTo ==
  ASSUME NEW m, IsManager(m), NEW r, NEW t \in Nat, BlocksFor(t) <= Held(m, r)
  PROVE  \A p \in 0 .. t - 1 : p \in Covered(m, r)
<1>1. Held(m, r) \in Nat /\ BlocksFor(t) \in Nat
  BY BlocksForType, BlocksOfType
<1>2. t <= BlocksFor(t) * BlockSize
  <2>1. t + BlockSize - 1 \in Nat
    BY PoolAssumption
  <2>2. /\ t + BlockSize - 1 = BlocksFor(t) * BlockSize + ((t + BlockSize - 1) % BlockSize)
        /\ (t + BlockSize - 1) % BlockSize \in 0 .. BlockSize - 1
    BY <2>1, DivMod DEF BlocksFor
  <2> DEFINE x == (t + BlockSize - 1) % BlockSize
             y == BlocksFor(t) * BlockSize
  <2>3. y \in Nat
    BY <1>1, PoolAssumption
  <2> HIDE DEF x, y
  <2>4. t + BlockSize - 1 = y + x /\ x \in 0 .. BlockSize - 1
    BY <2>2 DEF x, y
  <2>5. t <= y
    BY <2>3, <2>4, PoolAssumption
  <2>6. QED
    BY <2>5 DEF y
<1>3. BlocksFor(t) * BlockSize <= Held(m, r) * BlockSize
  BY <1>1, PoolAssumption
<1>4. BlocksFor(t) * BlockSize \in Nat /\ Held(m, r) * BlockSize \in Nat
  BY <1>1, PoolAssumption
<1>5. QED
  BY <1>2, <1>3, <1>4 DEF Covered

\* A table padded to a width no less than its own keeps its entries.
LEMMA FilledIs ==
  ASSUME NEW t \in Seq(Blocks), NEW cols \in Nat, Len(t) <= cols
  PROVE  /\ Len(Filled(t, cols)) = cols
         /\ \A i \in 1 .. Len(t) : Filled(t, cols)[i] = t[i]
<1> DEFINE d == cols - Len(t)
           u == [c \in 1 .. d |-> NullBlock]
           R == Blocks \cup {NullBlock}
<1>1. t \in Seq(R) /\ d \in Nat
  OBVIOUS
<1>2. u \in Seq(R) /\ Len(u) = d
  BY <1>1
<1>3. Filled(t, cols) = t \o u
  BY DEF Filled
<1> HIDE DEF u, R
<1>4. Len(t \o u) = Len(t) + Len(u) /\ \A i \in 1 .. Len(t) : (t \o u)[i] = t[i]
  BY <1>1, <1>2
<1>5. QED
  BY <1>1, <1>2, <1>3, <1>4

\* Rows with their requests' slots, tables and lengths, in tables of one width
\* that leaves out no block.
RowsOf(rows, m, rs, n, cols) ==
  /\ rows = [k \in 1 .. n |-> rows[k]]
  /\ rows \in Seq({rows[k] : k \in 1 .. n}) /\ Len(rows) = n
  /\ \A k \in 1 .. n :
       /\ rows[k].slot = SlotOf(m, rs[k], len[rs[k]])
       /\ rows[k].context = len[rs[k]] + 1
       /\ Held(m, rs[k]) <= cols
       /\ Len(rows[k].table) = ColsBucket(cols)
       /\ \A i \in 1 .. Held(m, rs[k]) : rows[k].table[i] = m.table[rs[k]][i]

\* decode_metadata_for_batch_step makes them.
LEMMA MetadataIs ==
  ASSUME NEW m, IsManager(m), NEW n \in Nat \ {0}, NEW rs \in [1 .. n -> DOMAIN m.table]
  PROVE  \E cols \in Nat : RowsOf(Metadata(m, rs), m, rs, n, cols)
<1> DEFINE H == {Held(m, r) : r \in ToSet(rs)}
           cols == Max(H)
           rows == Metadata(m, rs)
           held == [k \in 1 .. n |-> Held(m, rs[k])]
<1>1. held \in [1 .. n -> Nat]
  BY BlocksOfType
<1>2. H = {held[k] : k \in 1 .. n}
  BY DEF ToSet
<1> HIDE DEF H
<1>3. cols \in Nat /\ \A k \in 1 .. n : held[k] <= cols
  BY <1>1, <1>2, MaxOf
<1>4. Len(rs) = n
  OBVIOUS
<1> DEFINE w == ColsBucket(cols)
<1>5. w \in Nat /\ cols <= w
  BY <1>3, ColsBucketIs
<1>6. rows = [k \in 1 .. n |->
                [slot |-> SlotOf(m, rs[k], len[rs[k]]), context |-> len[rs[k]] + 1,
                 table |-> Filled(m.table[rs[k]], w)]]
  BY <1>4 DEF Metadata, H
<1> HIDE DEF cols, rows, w
<1>7. ASSUME NEW k \in 1 .. n
      PROVE  /\ rows[k].slot = SlotOf(m, rs[k], len[rs[k]])
             /\ rows[k].context = len[rs[k]] + 1
             /\ Held(m, rs[k]) <= cols
             /\ Len(rows[k].table) = w
             /\ \A i \in 1 .. Held(m, rs[k]) : rows[k].table[i] = m.table[rs[k]][i]
  <2> DEFINE t == m.table[rs[k]]
  <2>1. t \in Seq(Blocks) /\ Held(m, rs[k]) = Len(t) /\ Len(t) \in Nat
    BY DEF IsManager, Held, BlocksOf
  <2>2. Held(m, rs[k]) <= cols
    BY <1>3
  <2> HIDE DEF t
  <2>3. Len(t) <= w
    BY <2>1, <2>2, <1>3, <1>5
  <2>4. Len(Filled(t, w)) = w /\ \A i \in 1 .. Len(t) : Filled(t, w)[i] = t[i]
    BY <2>1, <2>3, <1>5, FilledIs
  <2>5. /\ rows[k].slot = SlotOf(m, rs[k], len[rs[k]])
        /\ rows[k].context = len[rs[k]] + 1
        /\ rows[k].table = Filled(t, w)
    BY <1>6 DEF t
  <2>6. QED
    BY <2>1, <2>2, <2>4, <2>5 DEF t
<1>8. rows = [k \in 1 .. n |-> rows[k]]
  BY <1>6
<1>9. rows \in Seq({rows[k] : k \in 1 .. n}) /\ Len(rows) = n
  BY <1>8
<1>10. QED
  BY <1>3, <1>7, <1>8, <1>9 DEF w, rows, RowsOf

\* pad_decode_batch_to_max: the rows, and rows that write slot 0.
LEMMA PaddedIs ==
  ASSUME NEW rows, NEW n \in Nat, rows \in Seq({rows[k] : k \in 1 .. n}), Len(rows) = n,
         NEW batch \in Nat
  PROVE  LET all == Padded(rows, batch)
         IN /\ Len(all) \in Nat /\ n <= Len(all)
            /\ \A k \in 1 .. n : all[k] = rows[k]
            /\ \A k \in n + 1 .. Len(all) : all[k].slot = 0
<1> DEFINE d == IF batch > n THEN batch - n ELSE 0
           row == [slot |-> 0, context |-> 1,
                   table |-> [c \in DOMAIN rows[1].table |-> NullBlock]]
           R == {rows[k] : k \in 1 .. n} \cup {row}
           u == [k \in 1 .. d |-> row]
<1>1. row.slot = 0
  OBVIOUS
<1>2. 1 .. batch - Len(rows) = 1 .. d /\ d \in Nat
  OBVIOUS
<1>3. Padded(rows, batch) = rows \o u
  BY <1>2 DEF Padded
<1> HIDE DEF row, d
<1>4. u \in Seq(R) /\ Len(u) = d /\ \A k \in 1 .. d : u[k] = row
  BY <1>2
<1> HIDE DEF u
<1>5. rows \in Seq(R)
  OBVIOUS
<1> HIDE DEF R
<1>6. /\ Len(rows \o u) = n + d
      /\ \A k \in 1 .. n : (rows \o u)[k] = rows[k]
      /\ \A k \in n + 1 .. n + d : (rows \o u)[k] = u[k - n] /\ k - n \in 1 .. d
  BY <1>2, <1>4, <1>5, SMTT(30)
<1>7. QED
  BY <1>1, <1>2, <1>3, <1>4, <1>6

\* A slot no row writes keeps what it holds, and one that one row writes takes its token.
LEMMA WrittenIs ==
  ASSUME NEW all, Len(all) \in Nat, NEW tokens, NEW s \in DOMAIN kv
  PROVE  /\ DOMAIN Written(tokens, all) = DOMAIN kv
         /\ Written(tokens, all) = [a \in DOMAIN kv |-> Written(tokens, all)[a]]
         /\ (\A k \in 1 .. Len(all) : all[k].slot # s) => Written(tokens, all)[s] = kv[s]
         /\ \A k \in 1 .. Len(all) :
              /\ k <= Len(tokens) /\ all[k].slot = s
              /\ \A j \in 1 .. Len(all) : all[j].slot = s => j = k
              => Written(tokens, all)[s] = tokens[k]
<1> DEFINE Latest(a, k) == all[k].slot = a /\ \A j \in k + 1 .. Len(all) : all[j].slot # a
           C(a) == CHOOSE k \in 1 .. Len(all) : Latest(a, k)
           c == C(s)
           W == Written(tokens, all)
<1>1. W = [a \in DOMAIN kv |->
             IF \E k \in 1 .. Len(all) : all[k].slot = a
             THEN IF C(a) <= Len(tokens) THEN tokens[C(a)] ELSE <<"junk">>
             ELSE kv[a]]
  BY DEF Written
<1>2. /\ DOMAIN W = DOMAIN kv /\ W = [a \in DOMAIN kv |-> W[a]]
      /\ W[s] = IF \E k \in 1 .. Len(all) : all[k].slot = s
                THEN IF c <= Len(tokens) THEN tokens[c] ELSE <<"junk">>
                ELSE kv[s]
  <2> HIDE DEF C, W, Latest
  <2>1. QED
    BY <1>1
<1> HIDE DEF W
<1>3. ASSUME NEW k \in 1 .. Len(all), k <= Len(tokens), all[k].slot = s,
             \A j \in 1 .. Len(all) : all[j].slot = s => j = k
      PROVE  W[s] = tokens[k]
  <2>1. \A j \in k + 1 .. Len(all) : j \in 1 .. Len(all) /\ j # k
    OBVIOUS
  <2>2. Latest(s, k)
    BY <1>3, <2>1
  <2>3. c \in 1 .. Len(all) /\ Latest(s, c)
    <3> HIDE DEF Latest
    <3>1. QED
      BY <2>2
  <2> HIDE DEF c, C
  <2>4. c = k
    BY <1>3, <2>3
  <2>5. QED
    BY <1>2, <1>3, <2>4
<1>4. (\A k \in 1 .. Len(all) : all[k].slot # s) => W[s] = kv[s]
  BY <1>2
<1>5. QED
  BY <1>2, <1>3, <1>4 DEF W

\* A batch for whose rows there is a block each, padded and run: where its rows
\* write, what the pool then holds, and what a row attends to.
Ready(rs, n) ==
  /\ n # 0
  /\ Listed(rs, n, DOMAIN len)
  /\ \A k \in 1 .. n : CanAllocate(Grown(rs), rs[k], len[rs[k]] + 1)

Tokens(rs) == [k \in 1 .. Len(rs) |-> <<rs[k], len[rs[k]]>>]

PoolAfter(rs, batch) == Written(Tokens(rs), Padded(Metadata(Grown(rs), rs), batch))

RowWritten(rs, batch, k) ==
  PoolAfter(rs, batch)[SlotOf(Grown(rs), rs[k], len[rs[k]])] = <<rs[k], len[rs[k]]>>

\* The tables of a step have room for the token of each row.
LEMMA RoomForRows ==
  ASSUME PoolInv, NEW n, NEW rs, Ready(rs, n)
  PROVE  LET m == Grown(rs)
         IN /\ Partitioned(m) /\ IsManager(m) /\ SameEntries(manager, m)
            /\ DOMAIN m.table = DOMAIN len
            /\ \A r \in DOMAIN len : \A p \in 0 .. len[r] - 1 :
                 p \in Covered(m, r) /\ SlotOf(m, r, p) = SlotOf(manager, r, p)
            /\ \A k \in 1 .. n : \A p \in 0 .. len[rs[k]] : p \in Covered(m, rs[k])
            /\ \A r \in DOMAIN len : \A p \in Covered(m, r) : SlotOf(m, r, p) \in KvSlots
<1> DEFINE m == Grown(rs)
<1>1. Listed(rs, n, DOMAIN len) /\ n \in Nat /\ rs \in [1 .. n -> DOMAIN len]
  BY DEF Ready, Listed
<1>2. GrownTo(m, rs, n)
  BY <1>1, GrownIs DEF PoolInv
<1>3. \A k \in 1 .. n : CanAllocate(m, rs[k], len[rs[k]] + 1)
  BY DEF Ready
<1> HIDE DEF m
<1>4. Partitioned(m) /\ IsManager(m) /\ SameEntries(manager, m) /\ DOMAIN m.table = DOMAIN len
  BY <1>2 DEF GrownTo, PoolInv, Partitioned
<1>5. IsManager(manager) /\ Partitioned(manager) /\ len \in [DOMAIN len -> Nat]
  BY DEF PoolInv, Partitioned
<1>6. ASSUME NEW r \in DOMAIN len, NEW p \in 0 .. len[r] - 1
      PROVE  p \in Covered(m, r) /\ SlotOf(m, r, p) = SlotOf(manager, r, p)
  <2>1. p \in Covered(manager, r)
    BY DEF PoolInv, KvOf
  <2>2. Held(manager, r) \in Nat /\ Held(m, r) \in Nat /\ Held(m, r) >= Held(manager, r)
    BY <1>2, <1>4, <1>5, BlocksOfType DEF GrownTo
  <2>3. Held(manager, r) * BlockSize <= Held(m, r) * BlockSize
        /\ Held(manager, r) * BlockSize \in Nat /\ Held(m, r) * BlockSize \in Nat
    BY <2>2, PoolAssumption
  <2>4. p \in Covered(m, r)
    BY <2>1, <2>3 DEF Covered
  <2>5. r \in DOMAIN manager.table \cap DOMAIN m.table
    BY <1>4 DEF PoolInv
  <2>6. SlotOf(manager, r, p) = SlotOf(m, r, p)
    BY <1>4, <1>5, <2>1, <2>4, <2>5, SlotKept
  <2>7. QED
    BY <2>4, <2>6
<1>7. ASSUME NEW k \in 1 .. n, NEW p \in 0 .. len[rs[k]]
      PROVE  p \in Covered(m, rs[k])
  <2>1. rs[k] \in DOMAIN len /\ len[rs[k]] + 1 \in Nat /\ p \in 0 .. (len[rs[k]] + 1) - 1
    BY <1>1, <1>5
  <2>2. BlocksFor(len[rs[k]] + 1) <= Held(m, rs[k])
    BY <1>2, <1>3 DEF GrownTo
  <2>3. QED
    BY <1>4, <2>1, <2>2, CoveredUpTo
<1>8. \A r \in DOMAIN len : \A p \in Covered(m, r) : SlotOf(m, r, p) \in KvSlots
  BY <1>4, SlotsApart
<1>9. QED
  BY <1>4, <1>6, <1>7, <1>8 DEF m

\* The step's tokens join those the pool held.
LEMMA StepWrites ==
  ASSUME PoolInv, NEW n, NEW rs, Ready(rs, n), NEW batch \in Nat
  PROVE  /\ PoolAfter(rs, batch) = [a \in Addresses |-> PoolAfter(rs, batch)[a]]
         /\ \A r \in DOMAIN len : \A p \in 0 .. len[r] - 1 :
              PoolAfter(rs, batch)[SlotOf(Grown(rs), r, p)] = <<r, p>>
         /\ \A k \in 1 .. n : RowWritten(rs, batch, k)
<1> DEFINE m    == Grown(rs)
           rows == Metadata(m, rs)
           all  == Padded(rows, batch)
           mem  == Written(Tokens(rs), all)
<1>1. n \in Nat \ {0} /\ rs \in [1 .. n -> DOMAIN len] /\ Listed(rs, n, DOMAIN len)
  BY DEF Ready, Listed
<1>2. /\ Partitioned(m) /\ IsManager(m) /\ DOMAIN m.table = DOMAIN len
      /\ \A r \in DOMAIN len : \A p \in 0 .. len[r] - 1 :
           p \in Covered(m, r) /\ SlotOf(m, r, p) = SlotOf(manager, r, p)
      /\ \A k \in 1 .. n : \A p \in 0 .. len[rs[k]] : p \in Covered(m, rs[k])
      /\ \A r \in DOMAIN len : \A p \in Covered(m, r) : SlotOf(m, r, p) \in KvSlots
  BY RoomForRows
<1> HIDE DEF m
<1>0. \A a, b \in DOMAIN m.table : \A x \in Covered(m, a), y \in Covered(m, b) :
        SlotOf(m, a, x) = SlotOf(m, b, y) => a = b /\ x = y
  BY <1>2, SlotsApart
<1>3. /\ rows \in Seq({rows[k] : k \in 1 .. n}) /\ Len(rows) = n
      /\ \A k \in 1 .. n : rows[k].slot = SlotOf(m, rs[k], len[rs[k]])
  <2>1. PICK cols \in Nat : RowsOf(rows, m, rs, n, cols)
    BY <1>1, <1>2, MetadataIs
  <2> HIDE DEF rows
  <2>2. QED
    BY <2>1 DEF RowsOf
<1> HIDE DEF rows
<1>4. /\ Len(all) \in Nat /\ n <= Len(all)
      /\ \A k \in 1 .. n : all[k] = rows[k]
      /\ \A k \in n + 1 .. Len(all) : all[k].slot = 0
  BY <1>1, <1>3, PaddedIs
<1> HIDE DEF all
<1>5. DOMAIN kv = Addresses /\ len \in [DOMAIN len -> Nat]
  BY DEF PoolInv
<1>6. KvSlots \subseteq Addresses /\ 0 \notin KvSlots
  BY PoolAssumption DEF KvSlots, Addresses
<1>7. Tokens(rs) = [k \in 1 .. n |-> <<rs[k], len[rs[k]]>>] /\ Len(Tokens(rs)) = n
  BY <1>1 DEF Tokens
<1>8. /\ DOMAIN mem = DOMAIN kv /\ mem = [a \in DOMAIN kv |-> mem[a]]
  <2>1. 0 \in DOMAIN kv
    BY <1>5, PoolAssumption DEF Addresses
  <2>2. QED
    BY <2>1, <1>4, WrittenIs
<1>9. ASSUME NEW s \in Addresses
      PROVE  /\ (\A k \in 1 .. Len(all) : all[k].slot # s) => mem[s] = kv[s]
             /\ \A k \in 1 .. Len(all) :
                  /\ k <= n /\ all[k].slot = s
                  /\ \A j \in 1 .. Len(all) : all[j].slot = s => j = k
                  => mem[s] = Tokens(rs)[k]
  <2> DEFINE t == Tokens(rs)
  <2>1. s \in DOMAIN kv /\ Len(t) = n
    BY <1>5, <1>7
  <2> HIDE DEF t
  <2>2. /\ (\A k \in 1 .. Len(all) : all[k].slot # s) => Written(t, all)[s] = kv[s]
        /\ \A k \in 1 .. Len(all) :
              /\ k <= Len(t) /\ all[k].slot = s
              /\ \A j \in 1 .. Len(all) : all[j].slot = s => j = k
              => Written(t, all)[s] = t[k]
    BY <1>4, <2>1, WrittenIs
  <2>3. QED
    BY <2>1, <2>2 DEF t
<1> HIDE DEF mem
<1>10. \A k \in 1 .. n : /\ rs[k] \in DOMAIN m.table /\ len[rs[k]] \in Covered(m, rs[k])
                         /\ all[k].slot = SlotOf(m, rs[k], len[rs[k]])
                         /\ all[k].slot \in KvSlots
  <2> TAKE k \in 1 .. n
  <2>1. rs[k] \in DOMAIN len /\ len[rs[k]] \in 0 .. len[rs[k]]
    BY <1>1, <1>5
  <2>2. QED
    BY <2>1, <1>2, <1>3, <1>4
<1>11. \A k \in 1 .. Len(all) : all[k].slot = 0 \/ k \in 1 .. n
  BY <1>1, <1>4
<1>12. ASSUME NEW r \in DOMAIN len, NEW p \in 0 .. len[r] - 1
       PROVE  mem[SlotOf(m, r, p)] = <<r, p>>
  <2> DEFINE s == SlotOf(m, r, p)
  <2>1. p \in Covered(m, r) /\ r \in DOMAIN m.table /\ s \in KvSlots /\ s = SlotOf(manager, r, p)
    BY <1>2
  <2>2. ASSUME NEW k \in 1 .. Len(all), all[k].slot = s PROVE FALSE
    <3>1. k \in 1 .. n
      BY <1>6, <1>11, <2>1, <2>2
    <3>2. /\ SlotOf(m, r, p) = SlotOf(m, rs[k], len[rs[k]])
          /\ rs[k] \in DOMAIN m.table /\ len[rs[k]] \in Covered(m, rs[k])
      BY <1>10, <2>2, <3>1
    <3> DEFINE q == rs[k]
               j == len[q]
    <3>3. SlotOf(m, r, p) = SlotOf(m, q, j) /\ q \in DOMAIN m.table /\ j \in Covered(m, q)
      BY <3>2
    <3> HIDE DEF q, j
    <3>6. r = q /\ p = j
      BY <1>0, <2>1, <3>3
    <3>7. r = rs[k] /\ p = len[rs[k]]
      BY <3>6 DEF q, j
    <3>8. QED
      BY <3>7, <1>5
  <2>3. mem[s] = kv[s]
    BY <1>6, <1>9, <2>1, <2>2
  <2>4. kv[SlotOf(manager, r, p)] = <<r, p>>
    BY DEF PoolInv, KvOf
  <2>5. QED
    BY <2>1, <2>3, <2>4
<1>13. ASSUME NEW k \in 1 .. n
       PROVE  mem[SlotOf(m, rs[k], len[rs[k]])] = <<rs[k], len[rs[k]]>>
  <2> DEFINE s == SlotOf(m, rs[k], len[rs[k]])
  <2>1. k \in 1 .. Len(all) /\ k <= n /\ all[k].slot = s /\ s \in KvSlots
    BY <1>1, <1>4, <1>10
  <2>2. ASSUME NEW j \in 1 .. Len(all), all[j].slot = s PROVE j = k
    <3>1. j \in 1 .. n
      BY <1>6, <1>11, <2>1, <2>2
    <3>2. rs[j] = rs[k]
      BY <1>2, <1>10, <2>2, <3>1, SlotsApart
    <3>3. QED
      BY <3>1, <3>2, <1>1 DEF Listed
  <2>3. mem[s] = Tokens(rs)[k]
    BY <1>6, <1>9, <2>1, <2>2
  <2>4. QED
    BY <1>7, <2>3
<1>14. mem = [a \in Addresses |-> mem[a]]
  BY <1>5, <1>8
<1>15. QED
  BY <1>12, <1>13, <1>14 DEF RowWritten, PoolAfter, mem, all, rows, m

\* A row attends to its own tokens, as many as the kernels were launched for.
LEMMA RowAttends ==
  ASSUME PoolInv, NEW n, NEW rs, Ready(rs, n), NEW batch \in Nat, NEW k \in 1 .. n,
         NEW bound \in Nat
  PROVE  Attended(PoolAfter(rs, batch), Padded(Metadata(Grown(rs), rs), batch)[k], bound) =
           [p \in 1 .. Smaller(len[rs[k]] + 1, bound) |-> <<rs[k], p - 1>>]
<1> DEFINE m    == Grown(rs)
           rows == Metadata(m, rs)
           all  == Padded(rows, batch)
           mem  == PoolAfter(rs, batch)
           r    == rs[k]
<1>1. n \in Nat \ {0} /\ rs \in [1 .. n -> DOMAIN len] /\ r \in DOMAIN len
  BY DEF Ready, Listed
<1>2. /\ IsManager(m) /\ DOMAIN m.table = DOMAIN len
      /\ \A p \in 0 .. len[r] : p \in Covered(m, r)
  BY RoomForRows
<1>3. /\ \A p \in 0 .. len[r] - 1 : mem[SlotOf(m, r, p)] = <<r, p>>
      /\ mem[SlotOf(m, r, len[r])] = <<r, len[r]>>
  <2>1. \A q \in DOMAIN len : \A p \in 0 .. len[q] - 1 :
          mem[SlotOf(m, q, p)] = <<q, p>>
    BY StepWrites
  <2>2. RowWritten(rs, batch, k)
    BY StepWrites
  <2>3. mem[SlotOf(m, r, len[r])] = <<r, len[r]>>
    BY <2>2 DEF RowWritten
  <2> HIDE DEF m, mem
  <2>4. QED
    BY <1>1, <2>1, <2>3
<1> HIDE DEF m, mem
<1>4. /\ rows \in Seq({rows[j] : j \in 1 .. n}) /\ Len(rows) = n
      /\ rows[k].context = len[r] + 1
      /\ \A i \in 1 .. Held(m, r) : rows[k].table[i] = m.table[r][i]
  <2>1. PICK cols \in Nat : RowsOf(rows, m, rs, n, cols)
    BY <1>1, <1>2, MetadataIs
  <2> HIDE DEF rows
  <2>2. QED
    BY <2>1 DEF RowsOf
<1> HIDE DEF rows
<1>5. all[k] = rows[k]
  BY <1>1, <1>4, PaddedIs
<1>6. len[r] \in Nat
  BY <1>1 DEF PoolInv
<1>7. ASSUME NEW p \in 1 .. Smaller(len[r] + 1, bound)
      PROVE  mem[rows[k].table[(p - 1) \div BlockSize + 1] * BlockSize + ((p - 1) % BlockSize)]
               = <<r, p - 1>>
  <2>1. p - 1 \in 0 .. len[r]
    BY <1>6 DEF Smaller
  <2>2. p - 1 \in Covered(m, r) /\ r \in DOMAIN m.table
    BY <2>1, <1>1, <1>2
  <2>3. (p - 1) \div BlockSize + 1 \in DOMAIN m.table[r]
    BY <2>2, <1>2, CoveredEntry
  <2>4. DOMAIN m.table[r] = 1 .. Held(m, r)
    BY <2>2, <1>2 DEF IsManager, Held, BlocksOf
  <2>5. rows[k].table[(p - 1) \div BlockSize + 1] = m.table[r][(p - 1) \div BlockSize + 1]
    BY <2>3, <2>4, <1>4
  <2>6. rows[k].table[(p - 1) \div BlockSize + 1] * BlockSize + ((p - 1) % BlockSize)
          = SlotOf(m, r, p - 1)
    BY <2>5 DEF SlotOf
  <2>7. mem[SlotOf(m, r, p - 1)] = <<r, p - 1>>
    <3>1. CASE p - 1 = len[r]
      BY <3>1, <1>3
    <3>2. CASE p - 1 # len[r]
      <4>1. p - 1 \in 0 .. len[r] - 1
        BY <3>2, <2>1, <1>6
      <4>2. QED
        BY <4>1, <1>3
    <3>3. QED
      BY <3>1, <3>2
  <2>8. QED
    BY <2>6, <2>7
<1>8. Attended(mem, all[k], bound) =
        [p \in 1 .. Smaller(len[r] + 1, bound) |->
           mem[rows[k].table[(p - 1) \div BlockSize + 1] * BlockSize + ((p - 1) % BlockSize)]]
  BY <1>4, <1>5 DEF Attended
<1>9. QED
  BY <1>7, <1>8 DEF mem, all, rows, m

--------------------------------------------------------------------------------
\* What the steps keep.

\* A decode step, however it is run: the pool holds its tokens, and its rows
\* attended to their own.
LEMMA DecodedKeeps ==
  ASSUME PoolInv, NEW n, NEW rs, Ready(rs, n), NEW batch \in Nat, NEW bound \in Nat,
         NEW how, NEW prewarmed,
         Decoded(rs, Metadata(Grown(rs), rs), batch, how, bound, prewarmed),
         \/ \A k \in 1 .. n : len[rs[k]] + 1 <= bound
         \/ how = "replay" /\ ~prewarmed
  PROVE  PoolInv' /\ RowsSeeThemselves' /\ UNCHANGED <<phase, limit>> /\ DOMAIN len' = DOMAIN len
<1> DEFINE m   == Grown(rs)
           all == Padded(Metadata(m, rs), batch)
           mem == PoolAfter(rs, batch)
<1>1. n \in Nat /\ rs \in [1 .. n -> DOMAIN len] /\ Len(rs) = n /\ ToSet(rs) = {rs[k] : k \in 1 .. n}
  BY DEF Ready, Listed, ToSet
<1>2. /\ kv' = mem
      /\ step' = [how |-> how, bound |-> bound, prewarmed |-> prewarmed, rows |-> rs,
                  seen |-> [k \in 1 .. Len(rs) |-> Attended(mem, all[k], bound)]]
      /\ len' = [r \in DOMAIN len |-> IF r \in ToSet(rs) THEN len[r] + 1 ELSE len[r]]
      /\ manager' = m
      /\ UNCHANGED <<phase, limit, prompt, come>>
  BY Zenon DEF Decoded, PoolAfter, Tokens
<1>3. \A k \in 1 .. n : Attended(mem, all[k], bound) =
                          [p \in 1 .. Smaller(len[rs[k]] + 1, bound) |-> <<rs[k], p - 1>>]
  <2> HIDE DEF m, all, mem
  <2>1. ASSUME NEW k \in 1 .. n
        PROVE  Attended(mem, all[k], bound) =
                 [p \in 1 .. Smaller(len[rs[k]] + 1, bound) |-> <<rs[k], p - 1>>]
    BY RowAttends DEF m, all, mem
  <2>2. QED
    BY <2>1
<1>4. /\ Partitioned(m) /\ IsManager(m)
      /\ DOMAIN m.table = DOMAIN len
      /\ \A r \in DOMAIN len : \A p \in 0 .. len[r] - 1 : p \in Covered(m, r)
      /\ \A k \in 1 .. n : \A p \in 0 .. len[rs[k]] : p \in Covered(m, rs[k])
  BY RoomForRows
<1>5. /\ mem = [a \in Addresses |-> mem[a]]
      /\ \A r \in DOMAIN len : \A p \in 0 .. len[r] - 1 : mem[SlotOf(m, r, p)] = <<r, p>>
  BY StepWrites
<1>6. \A k \in 1 .. n : RowWritten(rs, batch, k)
  BY StepWrites
<1>7. \A k \in 1 .. n : mem[SlotOf(m, rs[k], len[rs[k]])] = <<rs[k], len[rs[k]]>>
  BY <1>6 DEF RowWritten
<1> HIDE DEF m, all, mem
<1>8. len \in [DOMAIN len -> Nat]
  BY DEF PoolInv
<1>9. DOMAIN len' = DOMAIN len /\ len' \in [DOMAIN len -> Nat]
  BY <1>2, <1>8
<1>10. KvOf(m, mem, len')
  <2> SUFFICES ASSUME NEW r \in DOMAIN len', NEW p \in 0 .. len'[r] - 1
               PROVE  p \in Covered(m, r) /\ mem[SlotOf(m, r, p)] = <<r, p>>
    BY DEF KvOf
  <2>1. r \in DOMAIN len /\ len[r] \in Nat
    BY <1>8, <1>9
  <2>2. CASE p \in 0 .. len[r] - 1
    BY <2>1, <2>2, <1>4, <1>5
  <2>3. CASE p \notin 0 .. len[r] - 1
    <3>1. r \in ToSet(rs) /\ p = len[r]
      BY <2>1, <2>3, <1>2
    <3>2. PICK k \in 1 .. n : r = rs[k]
      BY <1>1, <3>1
    <3>3. p \in 0 .. len[r]
      BY <2>1, <3>1
    <3>4. p \in Covered(m, r)
      BY <1>4, <3>2, <3>3
    <3>5. mem[SlotOf(m, r, p)] = <<r, p>>
      BY <1>7, <3>1, <3>2
    <3>6. QED
      BY <3>4, <3>5
  <2>4. QED
    BY <2>2, <2>3
<1>11. PoolInv'
  <2>1. come' \in Nat /\ DOMAIN len' \subseteq 1 .. come'
    BY <1>2, <1>9 DEF PoolInv
  <2>2. DOMAIN manager'.table = DOMAIN len' /\ Partitioned(manager')
    BY <1>2, <1>4, <1>9
  <2>3. kv' = [a \in Addresses |-> kv'[a]] /\ KvOf(manager', kv', len')
    BY <1>2, <1>5, <1>10
  <2>4. len' \in [DOMAIN len' -> Nat]
    BY <1>9
  <2>5. QED
    BY <2>1, <2>2, <2>3, <2>4 DEF PoolInv
<1>12. RowsSeeThemselves'
  <2> SUFFICES ASSUME NEW k \in DOMAIN step'.seen
               PROVE  \/ step'.seen[k] = [p \in 1 .. len'[step'.rows[k]] |-> <<step'.rows[k], p - 1>>]
                      \/ /\ step'.how = "replay" /\ ~step'.prewarmed
                         /\ len'[step'.rows[k]] > step'.bound
    BY DEF RowsSeeThemselves
  <2> DEFINE r == rs[k]
  <2>1. /\ k \in 1 .. n /\ step'.rows = rs /\ step'.how = how /\ step'.prewarmed = prewarmed
        /\ step'.bound = bound /\ step'.seen[k] = Attended(mem, all[k], bound)
    BY <1>1, <1>2
  <2>2. r \in DOMAIN len /\ r \in ToSet(rs) /\ len[r] \in Nat
    BY <1>1, <1>8, <2>1
  <2>3. len'[r] = len[r] + 1
    BY <1>2, <2>2
  <2>4. step'.seen[k] = [p \in 1 .. Smaller(len[r] + 1, bound) |-> <<r, p - 1>>]
    BY <1>3, <2>1
  <2> HIDE DEF r
  <2>5. CASE len[r] + 1 <= bound
    <3>1. Smaller(len[r] + 1, bound) = len'[r]
      BY <2>2, <2>3, <2>5 DEF Smaller
    <3>2. QED
      BY <2>1, <2>4, <3>1 DEF r
  <2>6. CASE ~(len[r] + 1 <= bound)
    <3>1. len'[r] > bound
      BY <2>2, <2>3, <2>6
    <3>2. how = "replay" /\ ~prewarmed
      BY <2>1, <2>6 DEF r
    <3>3. QED
      BY <2>1, <3>1, <3>2 DEF r
  <2>7. QED
    BY <2>5, <2>6
<1>13. QED
  BY <1>2, <1>9, <1>11, <1>12

\* Rows that leave give their blocks back and take nothing of the others'.
LEMMA DepartKeeps ==
  ASSUME PoolInv, NEW gone, gone \subseteq DOMAIN len, Depart(gone)
  PROVE  PoolInv' /\ DOMAIN len' = DOMAIN len \ gone
<1> DEFINE s == InOrder(gone)
           n == Cardinality(gone)
           m == FreeAll(manager, s)
<1>1. gone \subseteq Nat /\ IsFiniteSet(gone) /\ gone \subseteq RequestIds
  <2>1. gone \subseteq 1 .. come /\ come \in Nat
    BY DEF PoolInv
  <2>2. IsFiniteSet(1 .. come)
    BY <2>1, FS_Interval
  <2>3. IsFiniteSet(gone)
    BY <2>1, <2>2, FS_Subset
  <2>4. QED
    BY <2>1, <2>3 DEF PoolInv, Partitioned, IsManager
<1>2. /\ s \in Seq(gone) /\ DOMAIN s = 1 .. n /\ Len(s) = n /\ n \in Nat /\ ToSet(s) = gone
      /\ \A j, k \in 1 .. n : s[j] = s[k] => j = k
  BY <1>1, InOrderLists
<1> HIDE DEF s, n
<1>3. s \in [1 .. n -> RequestIds]
  BY <1>1, <1>2
<1>4. Listed(s, n, RequestIds)
  BY <1>2, <1>3 DEF Listed
<1>5. {s[k] : k \in 1 .. n} = gone
  BY <1>2 DEF ToSet
<1>6. FreedFrom(m, manager, gone)
  <2>1. FreedFrom(m, manager, {s[k] : k \in 1 .. n})
    BY <1>4, FreeAllIs DEF PoolInv
  <2>2. QED
    BY <1>5, <2>1
<1>7. /\ manager' = m /\ len' = [q \in DOMAIN len \ gone |-> len[q]] /\ come' = come
      /\ kv' = [a \in DOMAIN kv |->
                  IF \E r \in gone, p \in 0 .. MaxLen : kv[a] = <<r, p>> THEN <<"junk">> ELSE kv[a]]
  BY DEF Depart, Kept, Restrict, s
<1> HIDE DEF m
<1>8. /\ Partitioned(m) /\ IsManager(m) /\ SameEntries(manager, m)
      /\ DOMAIN m.table = DOMAIN len \ gone
      /\ \A q \in RequestIds \ gone : Held(m, q) = Held(manager, q)
  BY <1>6 DEF FreedFrom, PoolInv, Partitioned
<1>9. Partitioned(manager) /\ DOMAIN manager.table = DOMAIN len /\ DOMAIN len \subseteq RequestIds
  BY DEF PoolInv, Partitioned, IsManager
<1>10. DOMAIN kv = Addresses /\ KvSlots \subseteq Addresses
  BY PoolAssumption DEF PoolInv, KvSlots, Addresses
<1>11. KvOf(m, kv', len')
  <2> SUFFICES ASSUME NEW q \in DOMAIN len', NEW p \in 0 .. len'[q] - 1
               PROVE  p \in Covered(m, q) /\ kv'[SlotOf(m, q, p)] = <<q, p>>
    BY DEF KvOf
  <2>1. q \in DOMAIN len /\ q \notin gone /\ p \in 0 .. len[q] - 1
    BY <1>7
  <2>2. p \in Covered(manager, q) /\ kv[SlotOf(manager, q, p)] = <<q, p>>
    BY <2>1 DEF PoolInv, KvOf
  <2>3. p \in Covered(m, q)
    BY <2>1, <2>2, <1>8, <1>9 DEF Covered
  <2>4. SlotOf(manager, q, p) = SlotOf(m, q, p)
    <3>1. q \in DOMAIN manager.table \cap DOMAIN m.table
      BY <2>1, <1>8, <1>9
    <3>2. QED
      BY <3>1, <2>2, <2>3, <1>8, <1>9, SlotKept
  <2>5. SlotOf(m, q, p) \in Addresses
    <3>1. q \in DOMAIN m.table
      BY <2>1, <1>8
    <3>2. SlotOf(m, q, p) \in KvSlots
      BY <3>1, <2>3, <1>8, SlotsApart
    <3>3. QED
      BY <3>2, <1>10
  <2> DEFINE a == SlotOf(m, q, p)
  <2>6. kv[a] = <<q, p>> /\ a \in DOMAIN kv
    BY <2>2, <2>4, <2>5, <1>10
  <2> HIDE DEF a
  <2>7. kv'[a] = <<q, p>>
    BY <2>1, <2>6, <1>7
  <2>8. QED
    BY <2>3, <2>7 DEF a
<1>12. kv' = [a \in Addresses |-> kv'[a]]
  BY <1>7, <1>10
<1>13. /\ len' \in [DOMAIN len' -> Nat] /\ DOMAIN len' \subseteq 1 .. come' /\ come' \in Nat
       /\ DOMAIN len' = DOMAIN len \ gone
  BY <1>7 DEF PoolInv
<1>14. PoolInv'
  BY <1>7, <1>8, <1>11, <1>12, <1>13 DEF PoolInv
<1>15. QED
  BY <1>13, <1>14

\* A prompt that joins fills its own table's slots.
LEMMA JoinKeeps ==
  ASSUME PoolInv, NEW r \in RequestIds, NEW n \in Prompts, Join(r, n)
  PROVE  PoolInv' /\ RowsSeeThemselves' /\ UNCHANGED <<phase, limit, graphs>> /\ phase = "serving"
<1> DEFINE m == Allocate(manager, r, n)
           C(a) == CHOOSE p \in 0 .. n - 1 : SlotOf(m, r, p) = a
<1>1. n \in Nat \ {0} /\ come \in Nat /\ r = come + 1 /\ r \notin DOMAIN len
  BY GraphAssumption DEF PoolInv, Join
<1>2. /\ come' = r /\ manager' = m /\ CanAllocate(manager, r, n)
      /\ len' = [q \in DOMAIN len \cup {r} |-> IF q = r THEN n ELSE len[q]]
      /\ step' = NoStep /\ phase = "serving" /\ UNCHANGED <<phase, limit, graphs>>
  BY Zenon DEF Join, graphVars
<1>3. kv' = [a \in DOMAIN kv |->
               IF \E p \in 0 .. n - 1 : SlotOf(m, r, p) = a THEN <<r, C(a)>> ELSE kv[a]]
  BY DEF Join
<1>4. /\ Partitioned(manager) /\ IsManager(manager) /\ DOMAIN manager.table = DOMAIN len
      /\ DOMAIN len \subseteq RequestIds
  BY DEF PoolInv, Partitioned, IsManager
<1>5. Partitioned(m) /\ IsManager(m) /\ SameEntries(manager, m)
  BY <1>1, <1>4, AllocateKeeps, AllocateSame DEF Partitioned
<1>6. BlocksFor(n) > 0
  BY <1>1, BlocksForGrows
<1>7. /\ \A q \in RequestIds \ {r} : Held(m, q) = Held(manager, q)
      /\ BlocksFor(n) <= Held(m, r)
      /\ DOMAIN m.table = DOMAIN len \cup {r}
  <2>1. /\ \A q \in RequestIds \ {r} : Held(m, q) = Held(manager, q)
        /\ Held(m, r) >= BlocksFor(n)
        /\ DOMAIN m.table = DOMAIN len \cup {r}
    BY <1>1, <1>2, <1>4, <1>6, AllocateHolds
  <2>2. Held(m, r) \in Nat /\ BlocksFor(n) \in Nat
    BY <1>1, <1>5, BlocksOfType, BlocksForType
  <2>3. QED
    BY <2>1, <2>2
<1> HIDE DEF m
<1>8. \A p \in 0 .. n - 1 : p \in Covered(m, r)
  BY <1>1, <1>5, <1>7, CoveredUpTo
<1>9. \A a, b \in DOMAIN m.table : \A x \in Covered(m, a), y \in Covered(m, b) :
        /\ SlotOf(m, a, x) \in KvSlots
        /\ SlotOf(m, a, x) = SlotOf(m, b, y) => a = b /\ x = y
  BY <1>5, SlotsApart
<1>10. DOMAIN kv = Addresses /\ KvSlots \subseteq Addresses
  BY PoolAssumption DEF PoolInv, KvSlots, Addresses
<1>11. ASSUME NEW p \in 0 .. n - 1 PROVE kv'[SlotOf(m, r, p)] = <<r, p>>
  <2> DEFINE a == SlotOf(m, r, p)
  <2>1. r \in DOMAIN m.table /\ p \in Covered(m, r) /\ a \in DOMAIN kv
    BY <1>7, <1>8, <1>9, <1>10
  <2>2. C(a) \in 0 .. n - 1 /\ SlotOf(m, r, C(a)) = a
    OBVIOUS
  <2> HIDE DEF C
  <2>3. C(a) = p
    BY <2>1, <2>2, <1>8, <1>9
  <2>4. \E x \in 0 .. n - 1 : SlotOf(m, r, x) = a
    OBVIOUS
  <2> HIDE DEF a
  <2>5. kv'[a] = <<r, C(a)>>
    BY <1>3, <2>1, <2>4
  <2>6. QED
    BY <2>3, <2>5 DEF a
<1>12. ASSUME NEW q \in DOMAIN len, NEW p \in 0 .. len[q] - 1
       PROVE  p \in Covered(m, q) /\ kv'[SlotOf(m, q, p)] = <<q, p>>
  <2>1. p \in Covered(manager, q) /\ kv[SlotOf(manager, q, p)] = <<q, p>>
    BY DEF PoolInv, KvOf
  <2>2. p \in Covered(m, q) /\ q # r /\ q \in DOMAIN m.table
    BY <2>1, <1>1, <1>4, <1>7 DEF Covered
  <2>3. SlotOf(manager, q, p) = SlotOf(m, q, p)
    <3>1. q \in DOMAIN manager.table \cap DOMAIN m.table
      BY <2>2, <1>4
    <3>2. QED
      BY <3>1, <2>1, <2>2, <1>4, <1>5, SlotKept
  <2> DEFINE a == SlotOf(m, q, p)
  <2>4. a \in DOMAIN kv /\ kv[a] = <<q, p>>
    BY <2>1, <2>2, <2>3, <1>9, <1>10
  <2>5. ~(\E x \in 0 .. n - 1 : SlotOf(m, r, x) = a)
    BY <2>2, <1>7, <1>8, <1>9
  <2> HIDE DEF a
  <2>6. kv'[a] = <<q, p>>
    BY <2>4, <2>5, <1>3
  <2>7. QED
    BY <2>2, <2>6 DEF a
<1>13. KvOf(m, kv', len')
  <2> SUFFICES ASSUME NEW q \in DOMAIN len', NEW p \in 0 .. len'[q] - 1
               PROVE  p \in Covered(m, q) /\ kv'[SlotOf(m, q, p)] = <<q, p>>
    BY DEF KvOf
  <2>1. CASE q = r
    <3>1. p \in 0 .. n - 1
      BY <1>2, <2>1
    <3>2. QED
      BY <2>1, <3>1, <1>8, <1>11
  <2>2. CASE q # r
    <3>1. q \in DOMAIN len /\ p \in 0 .. len[q] - 1
      BY <1>2, <2>2
    <3>2. QED
      BY <3>1, <1>12
  <2>3. QED
    BY <2>1, <2>2
<1>14. kv' = [a \in Addresses |-> kv'[a]]
  <2> HIDE DEF C
  <2>1. QED
    BY <1>3, <1>10
<1>15. /\ len' \in [DOMAIN len' -> Nat] /\ DOMAIN len' \subseteq 1 .. come' /\ come' \in Nat
       /\ DOMAIN len' = DOMAIN len \cup {r}
  BY <1>1, <1>2 DEF PoolInv
<1>16. PoolInv'
  BY <1>2, <1>5, <1>7, <1>13, <1>14, <1>15 DEF PoolInv
<1>17. RowsSeeThemselves'
  BY <1>2 DEF NoStep, RowsSeeThemselves
<1>18. QED
  BY <1>2, <1>16, <1>17

--------------------------------------------------------------------------------
\* Graphs.

\* The captured graphs: no more than fit, each with kernels for some context,
\* and for all of its shape's when prewarm captured it.
GraphsInv ==
  /\ IsFiniteSet(DOMAIN graphs)
  /\ Cardinality(DOMAIN graphs) <= MaxGraphs
  /\ \A key \in DOMAIN graphs :
       /\ graphs[key].bound \in Nat /\ graphs[key].prewarmed \in BOOLEAN
       /\ graphs[key].prewarmed => graphs[key].bound = key[2] * BlockSize

DecodeInv ==
  /\ PoolInv
  /\ GraphsInv
  /\ limit \in Nat
  /\ phase = "loading" => DOMAIN len = {}
  /\ RowsSeeThemselves

\* The longest context of a step's rows is no less than any of theirs.
LEMMA LongestIs ==
  ASSUME PoolInv, NEW n, NEW rs, Ready(rs, n)
  PROVE  /\ LongestContext(Metadata(Grown(rs), rs)) \in Nat
         /\ \A k \in 1 .. n : len[rs[k]] + 1 <= LongestContext(Metadata(Grown(rs), rs))
         /\ Len(Metadata(Grown(rs), rs)) = n
<1> DEFINE m    == Grown(rs)
           rows == Metadata(m, rs)
           cs   == [k \in 1 .. n |-> len[rs[k]] + 1]
<1>1. n \in Nat \ {0} /\ rs \in [1 .. n -> DOMAIN len] /\ len \in [DOMAIN len -> Nat]
  BY DEF Ready, Listed, PoolInv
<1>2. IsManager(m) /\ DOMAIN m.table = DOMAIN len
  BY RoomForRows
<1>3. PICK cols \in Nat : RowsOf(rows, m, rs, n, cols)
  BY <1>1, <1>2, MetadataIs
<1> HIDE DEF m, rows
<1>4. /\ Len(rows) = n /\ DOMAIN rows = 1 .. n
      /\ \A k \in 1 .. n : rows[k].context = cs[k]
  BY <1>3 DEF RowsOf
<1>5. {row.context : row \in ToSet(rows)} = {cs[k] : k \in 1 .. n}
  BY <1>4 DEF ToSet
<1>6. cs \in [1 .. n -> Nat]
  BY <1>1
<1> DEFINE S == {row.context : row \in ToSet(rows)}
<1>7. S = {cs[k] : k \in 1 .. n}
  BY <1>5
<1>8. LongestContext(rows) = Max(S)
  BY DEF LongestContext
<1> HIDE DEF S
<1>9. Max(S) \in Nat /\ \A k \in 1 .. n : cs[k] <= Max(S)
  BY <1>1, <1>6, <1>7, MaxOf
<1>10. \A k \in 1 .. n : cs[k] = len[rs[k]] + 1
  OBVIOUS
<1>11. QED
  BY <1>4, <1>8, <1>9, <1>10 DEF rows, m

\* A step's shape is as wide as the table of each of its rows.
LEMMA KeyCovers ==
  ASSUME PoolInv, limit \in Nat, NEW n, NEW rs, Ready(rs, n)
  PROVE  LET key == KeyOf(Metadata(Grown(rs), rs))
         IN /\ key[1] \in Nat
            /\ \A k \in 1 .. n : len[rs[k]] + 1 <= key[2] * BlockSize
<1> DEFINE m    == Grown(rs)
           rows == Metadata(m, rs)
           key  == KeyOf(rows)
<1>1. n \in Nat \ {0} /\ rs \in [1 .. n -> DOMAIN len] /\ len \in [DOMAIN len -> Nat]
  BY DEF Ready, Listed, PoolInv
<1>2. /\ IsManager(m) /\ DOMAIN m.table = DOMAIN len
      /\ \A k \in 1 .. n : \A p \in 0 .. len[rs[k]] : p \in Covered(m, rs[k])
  BY RoomForRows
<1>3. PICK cols \in Nat : RowsOf(rows, m, rs, n, cols)
  BY <1>1, <1>2, MetadataIs
<1> HIDE DEF m, rows
<1>4. /\ Len(rows) = n /\ Len(rows[1].table) = ColsBucket(cols)
      /\ \A k \in 1 .. n : Held(m, rs[k]) <= cols
  BY <1>1, <1>3 DEF RowsOf
<1>5. key[1] = BatchBucket(n, limit) /\ key[2] = ColsBucket(ColsBucket(cols))
  BY <1>4 DEF KeyOf
<1>6. BatchBucket(n, limit) \in Nat
  <2>1. DivCeil(n, 16) * 16 \in Nat
    BY <1>1 DEF DivCeil
  <2>2. QED
    BY <1>1, <2>1 DEF BatchBucket, Smaller
<1> DEFINE w == ColsBucket(ColsBucket(cols))
<1>7. w \in Nat /\ cols <= w
  <2>1. ColsBucket(cols) \in Nat /\ cols <= ColsBucket(cols)
    BY ColsBucketIs
  <2>2. w \in Nat /\ ColsBucket(cols) <= w
    BY <2>1, ColsBucketIs
  <2>3. QED
    BY <2>1, <2>2
<1> HIDE DEF key, w
<1>8. ASSUME NEW k \in 1 .. n PROVE len[rs[k]] + 1 <= w * BlockSize
  <2> DEFINE h == Held(m, rs[k])
  <2>1. h \in Nat /\ h <= w
    BY <1>2, <1>4, <1>7, BlocksOfType
  <2>2. len[rs[k]] \in Nat /\ len[rs[k]] \in Covered(m, rs[k])
    BY <1>1, <1>2
  <2>3. len[rs[k]] <= h * BlockSize - 1
    BY <2>2 DEF Covered
  <2> HIDE DEF h
  <2>4. h * BlockSize <= w * BlockSize /\ h * BlockSize \in Nat /\ w * BlockSize \in Nat
    BY <2>1, <1>7, PoolAssumption
  <2>5. QED
    BY <2>2, <2>3, <2>4
<1>9. key[1] \in Nat /\ \A k \in 1 .. n : len[rs[k]] + 1 <= key[2] * BlockSize
  BY <1>5, <1>6, <1>8 DEF w
<1>10. QED
  BY <1>9 DEF key, rows, m

\* A capture puts one graph in, for one that goes when the cache is full.
LEMMA InsertedKeeps ==
  ASSUME GraphsInv, NEW key, key \notin DOMAIN graphs, NEW bound \in Nat,
         graphs' \in Inserted(graphs, key, [bound |-> bound, prewarmed |-> FALSE])
  PROVE  GraphsInv'
<1> DEFINE graph   == [bound |-> bound, prewarmed |-> FALSE]
           D       == DOMAIN graphs
           evicted == IF Cardinality(D) >= MaxGraphs THEN {{k} : k \in D} ELSE {{}}
<1>1. PICK e \in evicted :
        graphs' = [k \in (D \ e) \cup {key} |-> IF k = key THEN graph ELSE graphs[k]]
  BY DEF Inserted
<1>2. IsFiniteSet(D) /\ Cardinality(D) \in Nat /\ Cardinality(D) <= MaxGraphs /\ key \notin D
  BY FS_CardinalityType DEF GraphsInv
<1>3. IsFiniteSet(D \ e) /\ Cardinality(D \ e) < MaxGraphs /\ Cardinality(D \ e) \in Nat
  <2>1. CASE Cardinality(D) >= MaxGraphs
    <3>1. PICK x \in D : e = {x}
      BY <2>1
    <3>2. IsFiniteSet(D \ {x}) /\ Cardinality(D \ {x}) = Cardinality(D) - 1
      BY <1>2, FS_RemoveElement
    <3>3. Cardinality(D \ {x}) \in Nat
      BY <3>2, FS_CardinalityType
    <3>4. QED
      BY <1>2, <3>1, <3>2, <3>3, GraphAssumption
  <2>2. CASE ~(Cardinality(D) >= MaxGraphs)
    <3>1. D \ e = D
      BY <2>2
    <3>2. QED
      BY <1>2, <2>2, <3>1, GraphAssumption
  <2>3. QED
    BY <2>1, <2>2
<1>4. DOMAIN graphs' = (D \ e) \cup {key}
  BY <1>1
<1>5. key \notin D \ e
  BY <1>2
<1>6. IsFiniteSet((D \ e) \cup {key}) /\ Cardinality((D \ e) \cup {key}) = Cardinality(D \ e) + 1
  BY <1>3, <1>5, FS_AddElement
<1>7. IsFiniteSet(DOMAIN graphs') /\ Cardinality(DOMAIN graphs') <= MaxGraphs
  BY <1>3, <1>4, <1>6, GraphAssumption
<1>8. ASSUME NEW k \in DOMAIN graphs'
      PROVE  /\ graphs'[k].bound \in Nat /\ graphs'[k].prewarmed \in BOOLEAN
             /\ graphs'[k].prewarmed => graphs'[k].bound = k[2] * BlockSize
  <2>1. CASE k = key
    <3>1. graphs'[k] = graph
      BY <1>1, <1>4, <2>1
    <3>2. QED
      BY <3>1
  <2>2. CASE k # key
    <3>1. k \in D /\ graphs'[k] = graphs[k]
      BY <1>1, <1>4, <2>2
    <3>2. QED
      BY <3>1 DEF GraphsInv
  <2>3. QED
    BY <2>1, <2>2
<1>9. QED
  BY <1>7, <1>8 DEF GraphsInv

\* The shapes that prewarm captures are finitely many.
LEMMA PrewarmFinite ==
  ASSUME NEW max \in Nat
  PROVE  IsFiniteSet(PrewarmKeys(max))
<1> DEFINE most == Smaller(max, CaptureLimit)
           top  == 16 * most + 16
<1>1. most \in Nat
  BY GraphAssumption DEF Smaller
<1> HIDE DEF most
<1>2. BatchBuckets(max) \subseteq 0 .. top
  <2>1. BatchBuckets(max) =
          {b \in {1, 2, 4, 8} : b <= most} \cup {16 * k : k \in 1 .. most \div 16} \cup ({most} \ {0})
    BY DEF BatchBuckets, most
  <2>2. \A k \in 1 .. most \div 16 : 16 * k \in 0 .. top
    <3>1. most \div 16 <= most /\ most \div 16 \in Nat
      BY <1>1
    <3>2. QED
      BY <1>1, <3>1
  <2>3. QED
    BY <1>1, <2>1, <2>2
<1>3. IsFiniteSet(BatchBuckets(max))
  <2>1. IsFiniteSet(0 .. top)
    BY <1>1, FS_Interval
  <2>2. QED
    BY <1>2, <2>1, FS_Subset
<1>4. IsFiniteSet({BaseCols, 2 * BaseCols})
  <2>1. IsFiniteSet({BaseCols}) /\ IsFiniteSet({2 * BaseCols})
    BY FS_Singleton
  <2>2. {BaseCols, 2 * BaseCols} = {BaseCols} \cup {2 * BaseCols}
    OBVIOUS
  <2>3. QED
    BY <2>1, <2>2, FS_Union
<1>5. QED
  BY <1>3, <1>4, FS_Product DEF PrewarmKeys

--------------------------------------------------------------------------------
\* The inductive invariant.

LEMMA DecodeInitInv == DecodeInit => DecodeInv
<1> SUFFICES ASSUME DecodeInit PROVE DecodeInv
  OBVIOUS
<1>1. /\ DOMAIN graphs = {} /\ DOMAIN len = {} /\ come = 0 /\ limit = 0
      /\ manager = NewManager /\ kv = [s \in Addresses |-> <<>>]
      /\ step = NoStep
  BY DEF DecodeInit, Addresses
<1>2. DOMAIN manager.table = {} /\ Partitioned(manager)
  BY <1>1, NewManagerPartitioned DEF NewManager
<1>3. PoolInv
  <2>1. len \in [DOMAIN len -> Nat] /\ KvOf(manager, kv, len)
    BY <1>1 DEF KvOf, DecodeInit
  <2>2. kv = [s \in Addresses |-> kv[s]]
    BY <1>1
  <2>3. QED
    BY <1>1, <1>2, <2>1, <2>2 DEF PoolInv
<1>4. IsFiniteSet(DOMAIN graphs) /\ Cardinality(DOMAIN graphs) <= MaxGraphs
  BY <1>1, FS_EmptySet, GraphAssumption
<1>5. GraphsInv
  BY <1>1, <1>4 DEF GraphsInv
<1>6. RowsSeeThemselves
  BY <1>1 DEF NoStep, RowsSeeThemselves
<1>7. QED
  BY <1>1, <1>3, <1>5, <1>6 DEF DecodeInv

\* Prewarm writes junk where nobody's KV is yet, and fills the cache at most.
LEMMA PrewarmKeeps ==
  ASSUME DecodeInv, NEW max \in Prewarms, Prewarm(max)
  PROVE  DecodeInv'
<1>1. /\ DOMAIN len = {} /\ max \in Nat /\ PoolInv
  BY GraphAssumption DEF DecodeInv, Prewarm
<1>2. /\ limit' = Smaller(max, CaptureLimit)
      /\ graphs' = [key \in PrewarmKeys(max) |->
                      [bound |-> key[2] * BlockSize, prewarmed |-> TRUE]]
      /\ phase' = "serving"
      /\ UNCHANGED <<manager, prompt, len, come, step>>
  BY DEF Prewarm
<1>3. kv' = [s \in DOMAIN kv |-> kv'[s]]
  BY DEF Prewarm
<1>4. PoolInv'
  <2>1. KvOf(manager', kv', len')
    BY <1>1, <1>2 DEF KvOf
  <2>2. kv' = [s \in Addresses |-> kv'[s]]
    BY <1>1, <1>3 DEF PoolInv
  <2>3. QED
    BY <1>1, <1>2, <2>1, <2>2 DEF PoolInv
<1>5. IsFiniteSet(PrewarmKeys(max)) /\ Cardinality(PrewarmKeys(max)) <= MaxGraphs
  BY <1>1, PrewarmFinite, PrewarmAssumption DEF Prewarm
<1>6. ASSUME NEW key \in PrewarmKeys(max) PROVE key[2] * BlockSize \in Nat
  <2>1. key[2] \in {BaseCols, 2 * BaseCols}
    BY DEF PrewarmKeys
  <2>2. key[2] \in Nat
    BY <2>1, BaseColsType
  <2>3. QED
    BY <2>2, PoolAssumption
<1>7. GraphsInv'
  <2>1. DOMAIN graphs' = PrewarmKeys(max)
    BY <1>2
  <2>2. \A key \in PrewarmKeys(max) :
          graphs'[key].bound = key[2] * BlockSize /\ graphs'[key].prewarmed = TRUE
    BY <1>2
  <2>3. QED
    BY <1>5, <1>6, <2>1, <2>2 DEF GraphsInv
<1>8. limit' \in Nat
  BY <1>1, <1>2, GraphAssumption DEF Smaller
<1>9. RowsSeeThemselves'
  BY <1>2 DEF DecodeInv, RowsSeeThemselves
<1>10. QED
  BY <1>2, <1>4, <1>7, <1>8, <1>9 DEF DecodeInv

\* A step, without a graph, by one, to capture one, or past one that failed.
LEMMA DecodeStepKeeps ==
  ASSUME DecodeInv, NEW g \in Groups, Step(g)
  PROVE  DecodeInv'
<1> DEFINE rs   == InOrder(g)
           n    == Cardinality(g)
           rows == Metadata(Grown(rs), rs)
           key  == KeyOf(rows)
<1>1. PoolInv /\ limit \in Nat /\ GraphsInv
  BY DEF DecodeInv
<1>2. g \in SUBSET DOMAIN len /\ g # {} /\ IsFiniteSet(g) /\ g \in SUBSET Nat
  <2>1. DOMAIN len \subseteq 1 .. come /\ come \in Nat
    BY <1>1 DEF PoolInv
  <2>2. IsFiniteSet(1 .. come)
    BY <2>1, FS_Interval
  <2>3. g \in SUBSET DOMAIN len /\ g # {}
    BY DEF Groups
  <2>4. QED
    BY <2>1, <2>2, <2>3, FS_Subset
<1>3. /\ rs \in Seq(g) /\ DOMAIN rs = 1 .. n /\ Len(rs) = n /\ n \in Nat /\ ToSet(rs) = g
      /\ \A j, k \in 1 .. n : rs[j] = rs[k] => j = k
  BY <1>2, InOrderLists
<1>4. n # 0
  BY <1>2, FS_EmptySet
<1>5. /\ phase = "serving"
      /\ \A r \in g : CanAllocate(Grown(rs), r, len[r] + 1)
      /\ \/ Eager(rs, rows) /\ UNCHANGED <<disabled, graphs, errors>>
         \/ Replay(rs, rows, key)
         \/ Capture(rs, rows, key)
         \/ GraphFails(rs, rows, key)
  BY DEF Step
<1>6. Ready(rs, n)
  <2> HIDE DEF rs, n
  <2>1. rs \in [1 .. n -> DOMAIN len]
    BY <1>2, <1>3
  <2>2. \A k \in 1 .. n : rs[k] \in g
    BY <1>3
  <2>3. QED
    BY <1>3, <1>4, <1>5, <2>1, <2>2 DEF Ready, Listed
<1>7. /\ LongestContext(rows) \in Nat
      /\ \A k \in 1 .. n : len[rs[k]] + 1 <= LongestContext(rows)
      /\ Len(rows) = n
  BY <1>1, <1>6, LongestIs
<1>8. /\ key[1] \in Nat
      /\ \A k \in 1 .. n : len[rs[k]] + 1 <= key[2] * BlockSize
  BY <1>1, <1>6, KeyCovers
<1> DEFINE Kept5 == PoolInv' /\ RowsSeeThemselves' /\ phase' = phase /\ limit' = limit
<1>9. ASSUME Eager(rs, rows) PROVE Kept5
  <2> HIDE DEF n
  <2>1. PICK b : b = LongestContext(rows)
    OBVIOUS
  <2>2. Decoded(rs, rows, n, "eager", b, FALSE)
    BY <1>7, <1>9, <2>1 DEF Eager
  <2>3. b \in Nat /\ \A k \in 1 .. n : len[rs[k]] + 1 <= b
    BY <1>7, <2>1
  <2> HIDE DEF rs
  <2>4. QED
    BY <1>1, <1>3, <1>6, <2>2, <2>3, DecodedKeeps
<1>10. CASE Eager(rs, rows) /\ UNCHANGED <<disabled, graphs, errors>>
  <2>1. GraphsInv'
    BY <1>1, <1>10 DEF GraphsInv
  <2>2. QED
    BY <1>1, <1>5, <1>9, <1>10, <2>1 DEF DecodeInv
<1>11. CASE Replay(rs, rows, key)
  <2> HIDE DEF n
  <2>1. PICK c, b, w : c = key[1] /\ b = graphs[key].bound /\ w = graphs[key].prewarmed
    OBVIOUS
  <2>2. key \in DOMAIN graphs /\ UNCHANGED graphs /\ Decoded(rs, rows, c, "replay", b, w)
    BY <1>11, <2>1 DEF Replay
  <2>3. /\ c \in Nat /\ b \in Nat /\ w \in BOOLEAN
        /\ w => \A k \in 1 .. n : len[rs[k]] + 1 <= b
    BY <1>1, <1>8, <2>1, <2>2 DEF GraphsInv
  <2>4. Kept5
    <3> HIDE DEF rs, key
    <3>1. \/ \A k \in 1 .. n : len[rs[k]] + 1 <= b
          \/ "replay" = "replay" /\ ~w
      BY <2>3
    <3>2. QED
      BY <1>1, <1>6, <2>2, <2>3, <3>1, DecodedKeeps
  <2>5. GraphsInv'
    BY <1>1, <2>2 DEF GraphsInv
  <2>6. QED
    BY <1>1, <1>5, <2>4, <2>5 DEF DecodeInv
<1>12. CASE Capture(rs, rows, key)
  <2> HIDE DEF n
  <2>1. PICK c, b, w : c = key[1] /\ b = LongestContext(rows) /\ w = key
    OBVIOUS
  <2>2. /\ w \notin DOMAIN graphs
        /\ Decoded(rs, rows, c, "capture", b, FALSE)
        /\ graphs' \in Inserted(graphs, w, [bound |-> b, prewarmed |-> FALSE])
    BY <1>12, <2>1 DEF Capture
  <2>3. c \in Nat /\ b \in Nat /\ \A k \in 1 .. n : len[rs[k]] + 1 <= b
    BY <1>7, <1>8, <2>1
  <2>4. Kept5
    <3> HIDE DEF rs, key
    <3>1. QED
      BY <1>1, <1>6, <2>2, <2>3, DecodedKeeps
  <2>5. GraphsInv'
    BY <1>1, <2>2, <2>3, InsertedKeeps
  <2>6. QED
    BY <1>1, <1>5, <2>4, <2>5 DEF DecodeInv
<1>13. CASE GraphFails(rs, rows, key)
  <2>1. Eager(rs, rows) /\ UNCHANGED graphs
    BY <1>13 DEF GraphFails
  <2>2. GraphsInv'
    BY <1>1, <2>1 DEF GraphsInv
  <2>3. QED
    BY <1>1, <1>5, <1>9, <2>1, <2>2 DEF DecodeInv
<1>14. QED
  BY <1>5, <1>10, <1>11, <1>12, <1>13

LEMMA DecodeNextInv == DecodeInv /\ [DecodeNext]_decodeVars => DecodeInv'
<1> SUFFICES ASSUME DecodeInv, [DecodeNext]_decodeVars PROVE DecodeInv'
  OBVIOUS
<1>1. PoolInv /\ GraphsInv /\ limit \in Nat
  BY DEF DecodeInv
<1>2. ASSUME NEW max \in Prewarms, Prewarm(max) PROVE DecodeInv'
  BY <1>2, PrewarmKeeps
<1>3. ASSUME NEW max \in Prewarms, PrewarmFails(max) PROVE DecodeInv'
  <2>1. UNCHANGED <<graphVars, poolVars, step, errors>> /\ phase' = "failed"
    BY <1>3 DEF PrewarmFails
  <2>2. UNCHANGED <<limit, graphs, manager, kv, prompt, len, come, step>>
    BY <2>1 DEF graphVars, poolVars
  <2>3. PoolInv' /\ GraphsInv' /\ RowsSeeThemselves' /\ limit' = limit
    BY <2>2 DEF DecodeInv, PoolInv, GraphsInv, RowsSeeThemselves
  <2>4. QED
    BY <1>1, <2>1, <2>3 DEF DecodeInv
<1>4. ASSUME NEW r \in RequestIds, NEW n \in Prompts, Join(r, n) PROVE DecodeInv'
  <2>1. PoolInv' /\ RowsSeeThemselves' /\ UNCHANGED <<phase, limit, graphs>> /\ phase = "serving"
    BY <1>1, <1>4, JoinKeeps
  <2>2. GraphsInv'
    BY <1>1, <2>1 DEF GraphsInv
  <2>3. QED
    BY <1>1, <2>1, <2>2 DEF DecodeInv
<1>5. ASSUME NEW gone, gone \subseteq DOMAIN len, Depart(gone),
             step'.seen = <<>>, UNCHANGED <<phase, graphVars, errors>>
      PROVE  DecodeInv'
  <2>1. PoolInv' /\ DOMAIN len' = DOMAIN len \ gone
    BY <1>1, <1>5, DepartKeeps
  <2>2. UNCHANGED <<phase, limit, graphs>>
    BY <1>5 DEF graphVars
  <2>3. GraphsInv' /\ limit' \in Nat
    BY <1>1, <2>2 DEF GraphsInv
  <2>4. RowsSeeThemselves'
    BY <1>5 DEF RowsSeeThemselves
  <2>5. phase' = "loading" => DOMAIN len' = {}
    BY <2>1, <2>2 DEF DecodeInv
  <2>6. QED
    BY <2>1, <2>3, <2>4, <2>5 DEF DecodeInv
<1>6. ASSUME NEW r \in RequestIds, Leave(r) PROVE DecodeInv'
  <2>1. /\ {r} \subseteq DOMAIN len /\ Depart({r})
        /\ step'.seen = <<>> /\ UNCHANGED <<phase, graphVars, errors>>
    BY <1>6 DEF Leave, NoStep
  <2>2. QED
    BY <1>5, <2>1
<1>7. ASSUME NEW g \in Groups, Step(g) PROVE DecodeInv'
  BY <1>7, DecodeStepKeeps
<1>8. ASSUME NEW g \in Groups, Refused(g) PROVE DecodeInv'
  <2>1. PICK gone : gone = DOMAIN len
    OBVIOUS
  <2>2. /\ gone \subseteq DOMAIN len /\ Depart(gone)
        /\ step'.seen = <<>> /\ UNCHANGED <<phase, graphVars, errors>>
    BY <1>8, <2>1 DEF Refused, NoStep
  <2>3. QED
    BY <1>5, <2>2
<1>9. CASE UNCHANGED decodeVars
  <2>1. UNCHANGED <<phase, limit, graphs, manager, kv, prompt, len, come, step>>
    BY <1>9 DEF decodeVars, graphVars, poolVars
  <2>2. PoolInv' /\ GraphsInv' /\ RowsSeeThemselves'
    BY <2>1 DEF DecodeInv, PoolInv, GraphsInv, RowsSeeThemselves
  <2>3. QED
    BY <2>1, <2>2 DEF DecodeInv
<1>10. QED
  BY <1>2, <1>3, <1>4, <1>6, <1>7, <1>8, <1>9 DEF DecodeNext

LEMMA DecodeInductive == DecodeSpec => []DecodeInv
<1>1. QED
  BY DecodeInitInv, DecodeNextInv, PTL DEF DecodeSpec

\* Whichever way a step runs, and whatever ran before it on the pool, each of
\* its rows attends to its own tokens, all of them and in order; a graph that
\* was captured while serving is exempt beyond the context it was captured with.
THEOREM RowsSee == DecodeSpec => []RowsSeeThemselves
<1>1. DecodeInv => RowsSeeThemselves
  BY DEF DecodeInv
<1>2. QED
  BY <1>1, DecodeInductive, PTL

\* The cache of graphs never outgrows its limit, and a graph that prewarm
\* captured has kernels for every context its shape can be replayed with.
THEOREM CacheIsSound == DecodeSpec => []CacheSound
<1>1. DecodeInv => CacheSound
  BY DEF DecodeInv, GraphsInv, CacheSound
<1>2. QED
  BY <1>1, DecodeInductive, PTL
================================================================================
