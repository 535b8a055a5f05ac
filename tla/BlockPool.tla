------------------------------- MODULE BlockPool -------------------------------
(***************************************************************************)
(* What PagedBlockManager promises its callers, without free lists and     *)
(* block tables: a pool of blocks, each of which has at most one owner.    *)
(*   - asking for k blocks succeeds exactly when the pool still has what   *)
(*     is missing, hands out no block that has an owner, and otherwise     *)
(*     changes nothing;                                                    *)
(*   - shrinking and releasing take blocks back from their own owner only. *)
(* A block never passes from one request to another without being free in  *)
(* between.  BlockManager implements this specification.                   *)
(***************************************************************************)
EXTENDS Integers, FiniteSets

CONSTANTS
  PoolBlocks,
  Owners,
  Nobody,    \* the owner of a free block; not an owner
  MaxSize    \* bound: the most blocks an owner asks for

VARIABLES
  owner,  \* block -> the request that holds it, or Nobody
  call    \* the last call: whose, for how many blocks, and its answer

poolVars == <<owner, call>>

OwnedBy(r) == {b \in PoolBlocks : owner[b] = r}
Size(r)    == Cardinality(OwnedBy(r))

Answer(r, k, answer) == call' = [request |-> r, size |-> k, answer |-> answer]

PoolInit ==
  /\ owner = [b \in PoolBlocks |-> Nobody]
  /\ call = [request |-> Nobody, size |-> 0, answer |-> "none"]

\* r owns at least k blocks already.
Suffice(r, k) ==
  /\ Size(r) >= k
  /\ Answer(r, k, "granted")
  /\ UNCHANGED owner

\* Give r the free blocks it lacks to own k.
Grant(r, k) ==
  /\ Size(r) < k
  /\ \E given \in SUBSET OwnedBy(Nobody) :
       /\ Cardinality(given) = k - Size(r)
       /\ owner' = [b \in PoolBlocks |-> IF b \in given THEN r ELSE owner[b]]
  /\ Answer(r, k, "granted")

Refuse(r, k) ==
  /\ k - Size(r) > Size(Nobody)
  /\ Answer(r, k, "refused")
  /\ UNCHANGED owner

\* Leave r at most k blocks, and as many as that.
Shrink(r, k) ==
  /\ \E kept \in SUBSET OwnedBy(r) :
       /\ IF Size(r) <= k THEN kept = OwnedBy(r) ELSE Cardinality(kept) = k
       /\ owner' = [b \in PoolBlocks |->
                      IF b \in OwnedBy(r) \ kept THEN Nobody ELSE owner[b]]
  /\ Answer(r, k, "trimmed")

Release(r) ==
  /\ owner' = [b \in PoolBlocks |-> IF owner[b] = r THEN Nobody ELSE owner[b]]
  /\ Answer(r, 0, "freed")

PoolNext ==
  \E r \in Owners :
    \/ \E k \in 0 .. MaxSize :
         Suffice(r, k) \/ Grant(r, k) \/ Refuse(r, k) \/ Shrink(r, k)
    \/ Release(r)

PoolSpec == PoolInit /\ [][PoolNext]_poolVars
================================================================================
