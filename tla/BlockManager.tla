----------------------------- MODULE BlockManager ------------------------------
(***************************************************************************)
(* PagedBlockManager under every order of calls: the callers (the batch    *)
(* engine, the continuous scheduler, the hybrid prefill of generation.rs)  *)
(* hold the runtime's mutex, so calls never overlap, but nothing restricts *)
(* which call comes next.                                                  *)
(***************************************************************************)
EXTENDS PagedBlocks

CONSTANTS
  MaxTokens,   \* bound: the largest token count a caller asks for
  NoRequest    \* the owner of a free block

ASSUME CallerAssumption ==
  /\ MaxTokens \in Nat
  /\ NoRequest \notin RequestIds

VARIABLES
  mgr,     \* the manager
  reply    \* the last call: whose, for how many tokens, and its answer

vars == <<mgr, reply>>

Answers == {"none", "granted", "full", "error", "trimmed", "freed"}
Replies ==
  [request : RequestIds \cup {NoRequest}, tokens : 0 .. MaxTokens, answer : Answers]

Reply(r, n, a) == [request |-> r, tokens |-> n, answer |-> a]

TypeOK ==
  /\ IsManager(mgr)
  /\ reply \in Replies

Init ==
  /\ mgr = NewManager
  /\ reply = Reply(NoRequest, 0, "none")

\* try_allocate_slots: Ok(true) or Ok(false).
TryAllocateSlots(r, tokens) ==
  /\ mgr' = Allocate(mgr, r, tokens)
  /\ reply' = Reply(r, tokens, IF CanAllocate(mgr, r, tokens) THEN "granted" ELSE "full")

\* allocate_slots: the same, but a full pool is an error.
AllocateSlots(r, tokens) ==
  /\ mgr' = Allocate(mgr, r, tokens)
  /\ reply' = Reply(r, tokens, IF CanAllocate(mgr, r, tokens) THEN "granted" ELSE "error")

TrimRequest(r, tokens) ==
  /\ mgr' = Trim(mgr, r, tokens)
  /\ reply' = Reply(r, tokens, "trimmed")

\* free_request, and each turn of the loop of free_many.
Free(r) ==
  /\ mgr' = FreeRequest(mgr, r)
  /\ reply' = Reply(r, 0, "freed")

Next ==
  \E r \in RequestIds :
    \/ \E tokens \in 0 .. MaxTokens :
         \/ TryAllocateSlots(r, tokens)
         \/ AllocateSlots(r, tokens)
         \/ TrimRequest(r, tokens)
    \/ Free(r)

Spec == Init /\ [][Next]_vars

--------------------------------------------------------------------------------
\* Every allocatable block is in exactly one place - once in the free list or
\* once in one request's table - after any sequence of allocations, trims and
\* frees: no block is handed out twice, none is lost.
EveryBlockInOnePlace ==
  \A b \in Blocks : \E p \in PlacesOf(mgr, b) : PlacesOf(mgr, b) = {p}

\* Two different token positions, of the same request or of two requests that
\* share the pool, never map to the same KV slot, and no position maps into
\* the null block that padded rows read and write.
KvSlotsNeverAlias ==
  \A r, q \in DOMAIN mgr.table :
    \A i \in Covered(mgr, r), j \in Covered(mgr, q) :
      /\ SlotOf(mgr, r, i) \in KvSlots
      /\ SlotOf(mgr, r, i) = SlotOf(mgr, q, j) => r = q /\ i = j

\* A token position that a call leaves covered keeps its KV slot: growing and
\* trimming never move what a request has already written.
KvSlotsStay ==
  [][\A r \in DOMAIN mgr.table \cap DOMAIN mgr'.table :
       \A i \in Covered(mgr, r) \cap Covered(mgr', r) :
         SlotOf(mgr, r, i) = SlotOf(mgr', r, i)]_vars

\* The manager is a block pool in which ownership is exclusive and allocation
\* is all or nothing, refused only when the pool is really too empty.
OwnerIn(m, b) ==
  IF \E r \in DOMAIN m.table : b \in Range(m.table[r])
  THEN CHOOSE r \in DOMAIN m.table : b \in Range(m.table[r])
  ELSE NoRequest

Pool == INSTANCE BlockPool WITH
          PoolBlocks <- Blocks,
          Owners     <- RequestIds,
          Nobody     <- NoRequest,
          MaxSize    <- BlocksFor(MaxTokens),
          owner      <- [b \in Blocks |-> OwnerIn(mgr, b)],
          call       <- [request |-> reply.request,
                         size    |-> BlocksFor(reply.tokens),
                         answer  |-> IF reply.answer \in {"full", "error"} THEN "refused"
                                     ELSE reply.answer]

\* Refinement: each call of PagedBlockManager is one step of BlockPool.
ImplementsPool == Pool!PoolSpec
================================================================================
