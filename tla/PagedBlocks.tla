------------------------------ MODULE PagedBlocks ------------------------------
(***************************************************************************)
(* The operations of PagedBlockManager (vasr-paged-attn,                   *)
(* paged_cache_runtime.rs) as functions from one manager state to the      *)
(* next.  A manager is a record                                            *)
(*   free  : the VecDeque of free physical blocks, front first;            *)
(*   table : the HashMap request_blocks, a function on the requests that   *)
(*           have an entry (possibly an empty one) to their block ids in   *)
(*           logical order.                                                *)
(* BlockManager runs these operations in any order a caller may choose;    *)
(* ContinuousBatch runs them in the order the batch scheduler does.        *)
(***************************************************************************)
EXTENDS Integers, Sequences, FiniteSets, Functions

CONSTANTS
  NumBlocks,   \* physical blocks of the pool, the null block 0 included
  BlockSize,   \* tokens per block
  RequestIds   \* the request ids callers use

\* PagedCacheRuntime::new refuses an empty pool; its block sizes are 8, 16
\* and 32, of which only positivity matters here.
ASSUME PoolAssumption ==
  /\ NumBlocks \in Nat \ {0}
  /\ BlockSize \in Nat \ {0}

NullBlock == 0                  \* padded batches point at it
Blocks    == 1 .. NumBlocks-1   \* the allocatable blocks
Capacity  == NumBlocks - 1      \* allocatable_block_capacity

IsManager(m) ==
  /\ m = [free |-> m.free, table |-> m.table]
  /\ m.free \in Seq(Blocks)
  /\ DOMAIN m.table \subseteq RequestIds
  /\ m.table \in [DOMAIN m.table -> Seq(Blocks)]

NewManager == [free |-> [i \in 1 .. NumBlocks-1 |-> i], table |-> [r \in {} |-> <<>>]]

\* num_tokens.div_ceil(block_size)
BlocksFor(tokens) == (tokens + BlockSize - 1) \div BlockSize

BlocksOf(m, r) == IF r \in DOMAIN m.table THEN m.table[r] ELSE <<>>

Held(m, r) == Len(BlocksOf(m, r))

\* required.saturating_sub(existing)
Needed(m, r, tokens) ==
  IF BlocksFor(tokens) > Held(m, r) THEN BlocksFor(tokens) - Held(m, r) ELSE 0

\* Mutant: the last free block is never given.
CanAllocateStrictly(m, r, tokens) ==
  Needed(m, r, tokens) = 0 \/ Needed(m, r, tokens) < Len(m.free)

\* What try_allocate_slots answers: nothing is handed out unless all of it can be.
CanAllocate(m, r, tokens) == Needed(m, r, tokens) <= Len(m.free)

\* The blocks try_allocate_slots pops off the front of the free list.
Popped(m, r, tokens) == SubSeq(m.free, 1, Needed(m, r, tokens))

\* Mutant: the first block stays at the front of the free list.
AllocatePeeking(m, r, tokens) ==
  IF Needed(m, r, tokens) = 0 \/ ~CanAllocate(m, r, tokens)
  THEN m
  ELSE [free  |-> <<m.free[1]>> \o SubSeq(m.free, Needed(m, r, tokens) + 1, Len(m.free)),
        table |-> [q \in DOMAIN m.table \cup {r} |->
                     IF q = r THEN BlocksOf(m, r) \o Popped(m, r, tokens)
                     ELSE m.table[q]]]

Allocate(m, r, tokens) ==
  IF Needed(m, r, tokens) = 0 \/ ~CanAllocate(m, r, tokens)
  THEN m
  ELSE [free  |-> SubSeq(m.free, Needed(m, r, tokens) + 1, Len(m.free)),
        table |-> [q \in DOMAIN m.table \cup {r} |->
                     IF q = r THEN BlocksOf(m, r) \o Popped(m, r, tokens)
                     ELSE m.table[q]]]

\* Blocks come back to the end of the free list, last logical block first.
\* (The source skips block 0 here; no table ever holds it: IsManager.)
GiveBack(m, blocks) ==
  m.free \o [i \in 1 .. Len(blocks) |-> blocks[Len(blocks) + 1 - i]]

\* Mutant: the blocks are taken from the front of the table.
TrimFront(m, r, tokens) ==
  IF BlocksFor(tokens) >= Held(m, r)
  THEN m
  ELSE LET gone == Held(m, r) - BlocksFor(tokens) IN
       [free  |-> GiveBack(m, SubSeq(m.table[r], 1, gone)),
        table |-> [m.table EXCEPT ![r] = SubSeq(m.table[r], gone + 1, Held(m, r))]]

Trim(m, r, tokens) ==
  IF BlocksFor(tokens) >= Held(m, r)
  THEN m
  ELSE [free  |-> GiveBack(m, SubSeq(m.table[r], BlocksFor(tokens) + 1, Held(m, r))),
        table |-> [m.table EXCEPT ![r] = SubSeq(m.table[r], 1, BlocksFor(tokens))]]

\* Mutant: get instead of remove.
FreeRequestKeepingEntry(m, r) ==
  IF r \in DOMAIN m.table
  THEN [m EXCEPT !.free = GiveBack(m, m.table[r])]
  ELSE m

FreeRequest(m, r) ==
  IF r \in DOMAIN m.table
  THEN [free  |-> GiveBack(m, m.table[r]),
        table |-> Restrict(m.table, DOMAIN m.table \ {r})]
  ELSE m

--------------------------------------------------------------------------------
\* The KV slot that holds a token position of a request
\* (slot_for_block_table_position of paged_kv_cache.rs).
Covered(m, r) == 0 .. Held(m, r) * BlockSize - 1

SlotOf(m, r, position) ==
  m.table[r][position \div BlockSize + 1] * BlockSize + (position % BlockSize)

\* The KV slots of the pool outside the null block.
KvSlots == BlockSize .. NumBlocks * BlockSize - 1

--------------------------------------------------------------------------------
\* Where a block is: a place of the free list or of one request's table.
PlacesOf(m, b) ==
  {<<"free", i>> : i \in {j \in DOMAIN m.free : m.free[j] = b}}
    \cup UNION {{<<"table", r, i>> : i \in {j \in DOMAIN m.table[r] : m.table[r][j] = b}}
                : r \in DOMAIN m.table}

\* The same, part by part: the inductive invariant of every manager.
FreeDistinct(m) ==
  \A i, j \in DOMAIN m.free : m.free[i] = m.free[j] => i = j

TablesDistinct(m) ==
  \A r, q \in DOMAIN m.table : \A i \in DOMAIN m.table[r], j \in DOMAIN m.table[q] :
    m.table[r][i] = m.table[q][j] => r = q /\ i = j

FreeNotHeld(m) ==
  \A r \in DOMAIN m.table : \A i \in DOMAIN m.free, j \in DOMAIN m.table[r] :
    m.free[i] # m.table[r][j]

NoneLost(m) ==
  \A b \in Blocks :
    \/ \E i \in DOMAIN m.free : m.free[i] = b
    \/ \E r \in DOMAIN m.table : \E j \in DOMAIN m.table[r] : m.table[r][j] = b

Partitioned(m) ==
  /\ IsManager(m)
  /\ FreeDistinct(m)
  /\ TablesDistinct(m)
  /\ FreeNotHeld(m)
  /\ NoneLost(m)
================================================================================
