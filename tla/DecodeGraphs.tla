------------------------------ MODULE DecodeGraphs ------------------------------
(* The captured CUDA graphs of the paged decode (vasr-paged-attn,              *)
(* paged_cache_runtime.rs and cuda_graph.rs): graphs of padded batches and     *)
(* block tables are captured when the model is loaded or when a step needs     *)
(* one, replayed by later steps of the same padded shape, evicted when the     *)
(* cache is full, and given up for a shape once one failed.  Steps decode one  *)
(* token of each row of a batch on the shared pool of KV blocks, whichever way *)
(* they run; the forward pass is reduced to what it writes and attends to.     *)
EXTENDS PagedBlocks, SequencesExt

CONSTANTS
    Prompts,        \* lengths of prompts
    MaxLen,         \* bound: the longest context
    Prewarms,       \* max_batch of prewarm_cuda_decode_graphs
    BucketTokens,   \* CUDA_GRAPH_CONTEXT_BUCKET_TOKENS
    CaptureLimit,   \* CUDA_DECODE_GRAPH_MAX_BATCH
    MaxGraphs,      \* CUDA_DECODE_GRAPH_MAX_GRAPHS
    MaxErrors       \* bound: errors of CUDA

ASSUME GraphAssumption ==
    /\ Prompts \subseteq Nat \ {0} /\ MaxLen \in Nat /\ Prewarms \subseteq Nat
    /\ BucketTokens \in Nat \ {0} /\ CaptureLimit \in Nat /\ MaxGraphs \in Nat \ {0}
    /\ MaxErrors \in Nat

VARIABLES
    phase,      \* "loading", "serving" or "failed"
    limit,      \* cuda_graph_max_batch
    disabled,   \* cuda_decode_graph_disabled_keys
    graphs,     \* cuda_decode_graphs: key -> graph
    manager,    \* the block manager
    kv,         \* what each KV slot of the pool holds
    prompt,     \* request -> length of its prompt
    len,        \* request -> tokens with KV
    come,       \* the number of requests that have come
    step,       \* the last decode step: how it ran and what its rows attended to
    errors

graphVars == <<limit, disabled, graphs>>
poolVars == <<manager, kv, prompt, len, come>>
decodeVars == <<phase, graphVars, poolVars, step, errors>>

Smaller(a, b) == IF a < b THEN a ELSE b
Larger(a, b) == IF a < b THEN b ELSE a
DivCeil(a, b) == (a + b - 1) \div b

-----------------------------------------------------------------------------
(* Shapes *)

(* cuda_graph_batch_bucket of a batch that fits *)
BatchBucket(n, max) ==
    Smaller(max, IF n <= 2 THEN n
                 ELSE IF n <= 4 THEN 4
                 ELSE IF n <= 8 THEN 8
                 ELSE DivCeil(n, 16) * 16)

(* Mutant of BatchBuckets: the configured maximum is not among them.           *)
BatchBucketsRound(max) ==
    LET most == Smaller(max, CaptureLimit)
    IN {b \in {1, 2, 4, 8} : b <= most} \cup {16 * k : k \in 1..most \div 16}

(* cuda_graph_batch_buckets *)
BatchBuckets(max) ==
    LET most == Smaller(max, CaptureLimit)
    IN {b \in {1, 2, 4, 8} : b <= most} \cup {16 * k : k \in 1..most \div 16}
         \cup ({most} \ {0})

BaseCols == DivCeil(BucketTokens, BlockSize)

PowersOfTwo(n) ==
    LET power[k \in 0..n] == IF k = 0 THEN 1 ELSE 2 * power[k - 1]
    IN {power[k] : k \in 0..n}

(* next_power_of_two of a positive number *)
NextPowerOfTwo(n) == CHOOSE p \in PowersOfTwo(n) : p >= n /\ p < 2 * n

(* 256 tokens in blocks of 8, 16 or 32 *)
ASSUME BucketAssumption == NextPowerOfTwo(BaseCols) = BaseCols

(* bucket_block_table_cols *)
ColsBucket(blocks) ==
    IF blocks = 0 THEN BaseCols ELSE Larger(NextPowerOfTwo(blocks), BaseCols)

(* The keys prewarm_cuda_decode_graphs captures. *)
PrewarmKeys(max) == BatchBuckets(max) \X {BaseCols, 2 * BaseCols}

-----------------------------------------------------------------------------
(* A row of a step is [slot, table, context]: the KV slot it writes, its block *)
(* table and the length it attends to.                                         *)

Filled(table, cols) == table \o [c \in 1..cols - Len(table) |-> NullBlock]

(* decode_metadata_for_batch_step; every table is as wide as the widest, in    *)
(* buckets *)
Metadata(m, rs) ==
    LET cols == ColsBucket(Max({Held(m, r) : r \in ToSet(rs)}))
    IN [k \in 1..Len(rs) |->
          [slot |-> SlotOf(m, rs[k], len[rs[k]]), context |-> len[rs[k]] + 1,
           table |-> Filled(m.table[rs[k]], cols)]]

(* Mutant of Padded: the last row is repeated. *)
PaddedByRow(rows, batch) ==
    rows \o [k \in 1..batch - Len(rows) |-> rows[Len(rows)]]

(* pad_decode_batch_to_max: rows that write and attend to the null block *)
Padded(rows, batch) ==
    rows \o [k \in 1..batch - Len(rows) |->
               [slot |-> 0, context |-> 1,
                table |-> [c \in DOMAIN rows[1].table |-> NullBlock]]]

(* What a forward pass leaves in the pool: a row that is not a request's       *)
(* leaves junk, and of rows that write to one slot any may be the last.        *)
Written(tokens, rows) ==
    [s \in DOMAIN kv |->
       IF \E k \in 1..Len(rows) : rows[k].slot = s
       THEN LET k == CHOOSE k \in 1..Len(rows) :
                       rows[k].slot = s /\ \A j \in k + 1..Len(rows) : rows[j].slot # s
            IN IF k <= Len(tokens) THEN tokens[k] ELSE <<"junk">>
       ELSE kv[s]]

(* What a row attends to when the kernels were launched for bound positions    *)
(* (paged_attention is told max_context_len).                                  *)
Attended(mem, row, bound) ==
    [p \in 1..Smaller(row.context, bound) |->
       mem[row.table[(p - 1) \div BlockSize + 1] * BlockSize + ((p - 1) % BlockSize)]]

LongestContext(rows) == Max({row.context : row \in ToSet(rows)})

(* cuda_decode_graph_key *)
KeyOf(rows) == <<BatchBucket(Len(rows), limit), ColsBucket(Len(rows[1].table))>>

-----------------------------------------------------------------------------
(* Loading *)

NoStep == [how |-> "none", bound |-> 0, prewarmed |-> FALSE, seen |-> <<>>, rows |-> <<>>]

DecodeInit ==
    /\ phase = "loading" /\ limit = 0 /\ disabled = {} /\ graphs = <<>>
    /\ manager = NewManager /\ kv = [s \in 0..NumBlocks * BlockSize - 1 |-> <<>>]
    /\ prompt = <<>> /\ len = <<>> /\ come = 0 /\ step = NoStep /\ errors = 0

(* capture_batch_warmup: every row has a table of its own, from the first      *)
(* block on, and writes its last position.                                     *)
WarmBlock(row, cols) == row * cols
WarmSlots(key) == {WarmBlock(row, key[2]) * BlockSize + BlockSize - 1 : row \in 1..key[1]}
WarmFits(key) == WarmBlock(key[1], key[2]) < NumBlocks

(* A prewarm never fills the cache: the code has room for 256 graphs, and at   *)
(* most 20 buckets of batches with two widths each.                            *)
ASSUME PrewarmAssumption ==
    \A max \in Prewarms :
        (\A key \in PrewarmKeys(max) : WarmFits(key)) =>
            Cardinality(PrewarmKeys(max)) <= MaxGraphs

(* prewarm_cuda_decode_graphs, or no graphs *)
Prewarm(max) ==
    /\ phase = "loading"
    /\ \A key \in PrewarmKeys(max) : WarmFits(key)
    /\ limit' = Smaller(max, CaptureLimit)
    /\ graphs' = [key \in PrewarmKeys(max) |->
                    [bound |-> key[2] * BlockSize, prewarmed |-> TRUE]]
    /\ kv' = [s \in DOMAIN kv |->
                IF \E key \in PrewarmKeys(max) : s \in WarmSlots(key)
                THEN <<"junk">> ELSE kv[s]]
    /\ phase' = "serving"
    /\ UNCHANGED <<disabled, manager, prompt, len, come, step, errors>>

(* a table that leaves the pool fails the load, and so does an error of CUDA *)
PrewarmFails(max) ==
    /\ phase = "loading"
    /\ \/ \E key \in PrewarmKeys(max) : ~WarmFits(key)
       \/ PrewarmKeys(max) # {} /\ MaxErrors > 0
    /\ phase' = "failed"
    /\ UNCHANGED <<graphVars, poolVars, step, errors>>

-----------------------------------------------------------------------------
(* Serving *)

(* the prefill of a prompt; request ids are counted up *)
Join(r, n) ==
    /\ phase = "serving" /\ r = come + 1
    /\ CanAllocate(manager, r, n)
    /\ come' = r
    /\ \E m \in {Allocate(manager, r, n)} :
         /\ manager' = m
         /\ kv' = [s \in DOMAIN kv |->
                     IF \E p \in 0..n - 1 : SlotOf(m, r, p) = s
                     THEN <<r, CHOOSE p \in 0..n - 1 : SlotOf(m, r, p) = s>> ELSE kv[s]]
    /\ prompt' = [q \in DOMAIN prompt \cup {r} |-> IF q = r THEN n ELSE prompt[q]]
    /\ len' = [q \in DOMAIN len \cup {r} |-> IF q = r THEN n ELSE len[q]]
    /\ step' = NoStep
    /\ UNCHANGED <<phase, graphVars, errors>>

Kept(f, rs) == Restrict(f, DOMAIN f \ rs)
FreeAll(m, rs) ==
    LET after[k \in 0..Len(rs)] == IF k = 0 THEN m ELSE FreeRequest(after[k - 1], rs[k])
    IN after[Len(rs)]

InOrder(rs) ==
    CHOOSE s \in [1..Cardinality(rs) -> rs] : \A j, k \in DOMAIN s : j < k => s[j] < s[k]

(* the KV of the rows stays in the pool, where it is nobody's *)
Depart(rs) ==
    /\ manager' = FreeAll(manager, InOrder(rs))
    /\ prompt' = Kept(prompt, rs) /\ len' = Kept(len, rs)
    /\ kv' = [s \in DOMAIN kv |->
                IF \E r \in rs, p \in 0..MaxLen : kv[s] = <<r, p>> THEN <<"junk">> ELSE kv[s]]
    /\ UNCHANGED come

(* a row is finished *)
Leave(r) ==
    /\ r \in DOMAIN len
    /\ Depart({r})
    /\ step' = NoStep
    /\ UNCHANGED <<phase, graphVars, errors>>

(* The rows of a step have made the same number of steps.                      *)
Groups ==
    {g \in SUBSET DOMAIN len :
        /\ g # {} /\ \A r \in g : len[r] < MaxLen
        /\ \A r, q \in g : len[r] - prompt[r] = len[q] - prompt[q]}

Grown(rs) ==
    LET after[k \in 0..Len(rs)] ==
            IF k = 0 THEN manager ELSE Allocate(after[k - 1], rs[k], len[rs[k]] + 1)
    IN after[Len(rs)]

(* A step of the rows rs on the memory it leaves, its rows padded to a batch,  *)
(* with kernels for bound positions.                                           *)
Decoded(rs, rows, batch, how, bound, prewarmed) ==
    \E all \in {Padded(rows, batch)} :
    \E mem \in {Written([k \in 1..Len(rs) |-> <<rs[k], len[rs[k]]>>], all)} :
        /\ kv' = mem
        /\ step' = [how |-> how, bound |-> bound, prewarmed |-> prewarmed, rows |-> rs,
                    seen |-> [k \in 1..Len(rs) |-> Attended(mem, all[k], bound)]]
        /\ len' = [r \in DOMAIN len |-> IF r \in ToSet(rs) THEN len[r] + 1 ELSE len[r]]
        /\ manager' = Grown(rs)
        /\ UNCHANGED <<phase, limit, prompt, come>>

(* forward_embeds_with_paged_cache without a graph *)
Eager(rs, rows) ==
    Decoded(rs, rows, Len(rows), "eager", LongestContext(rows), FALSE)

(* A graph's five inputs are copied from the padded step before it is          *)
(* launched; the bound is the one it was captured with.                        *)
Replay(rs, rows, key) ==
    /\ key \in DOMAIN graphs /\ key \notin disabled
    /\ Decoded(rs, rows, key[1], "replay", graphs[key].bound, graphs[key].prewarmed)
    /\ UNCHANGED <<disabled, graphs, errors>>

(* Mutant of Inserted: nothing is evicted. *)
InsertedAlways(gs, key, graph) ==
    {[k \in DOMAIN gs \cup {key} |-> IF k = key THEN graph ELSE gs[k]]}

(* insert_cuda_decode_graph: a full cache loses any of its graphs *)
Inserted(gs, key, graph) ==
    LET evicted == IF Cardinality(DOMAIN gs) >= MaxGraphs THEN {{k} : k \in DOMAIN gs} ELSE {{}}
    IN {[k \in (DOMAIN gs \ e) \cup {key} |-> IF k = key THEN graph ELSE gs[k]] : e \in evicted}

(* capture_decode: the step's answer is that of the run before the capture *)
Capture(rs, rows, key) ==
    /\ key \notin DOMAIN graphs /\ key \notin disabled
    /\ Decoded(rs, rows, key[1], "capture", LongestContext(rows), FALSE)
    /\ graphs' \in Inserted(graphs, key,
                            [bound |-> LongestContext(rows), prewarmed |-> FALSE])
    /\ UNCHANGED <<disabled, errors>>

(* an error of a replay or a capture disables the shape, and the step is run   *)
(* without a graph                                                             *)
GraphFails(rs, rows, key) ==
    /\ key \notin disabled /\ errors < MaxErrors
    /\ disabled' = disabled \cup {key} /\ errors' = errors + 1
    /\ Eager(rs, rows)
    /\ UNCHANGED graphs

(* paged_batch_decode_forward on the metadata of the step *)
Step(g) ==
    /\ phase = "serving"
    /\ \E rs \in {InOrder(g)} :
         /\ \A r \in g : CanAllocate(Grown(rs), r, len[r] + 1)
         /\ Len(rs) <= limit \/ limit = 0
         /\ \E rows \in {Metadata(Grown(rs), rs)} :
              \/ /\ limit = 0 \/ KeyOf(rows) \in disabled
                 /\ Eager(rs, rows) /\ UNCHANGED <<disabled, graphs, errors>>
              \/ limit > 0 /\ Replay(rs, rows, KeyOf(rows))
              \/ limit > 0 /\ Capture(rs, rows, KeyOf(rows))
              \/ limit > 0 /\ GraphFails(rs, rows, KeyOf(rows))

(* A batch wider than the graphs is refused, not run without one: the run ends *)
(* and frees its rows.                                                         *)
Refused(g) ==
    /\ phase = "serving" /\ limit > 0 /\ Cardinality(g) > limit
    /\ Depart(DOMAIN len)
    /\ step' = [NoStep EXCEPT !.how = "refused"]
    /\ UNCHANGED <<phase, graphVars, errors>>

DecodeNext ==
    \/ \E max \in Prewarms : Prewarm(max)
    \/ \E max \in Prewarms : PrewarmFails(max)
    \/ \E r \in RequestIds, n \in Prompts : Join(r, n)
    \/ \E r \in RequestIds : Leave(r)
    \/ \E g \in Groups : Step(g)
    \/ \E g \in Groups : Refused(g)

DecodeSpec == DecodeInit /\ [][DecodeNext]_decodeVars

-----------------------------------------------------------------------------
(* Properties *)

(* Whichever way a step runs, and whatever ran before it on the pool, each of  *)
(* its rows attends to its own tokens, all of them and in order.  One case is  *)
(* exempt: a graph that was captured while serving has its kernels for the     *)
(* context of that step, and is replayed by longer ones of the same shape.     *)
RowsSeeThemselves ==
    \A k \in DOMAIN step.seen :
        LET r == step.rows[k] IN
        \/ step.seen[k] = [p \in 1..len[r] |-> <<r, p - 1>>]
        \/ step.how = "replay" /\ ~step.prewarmed /\ len[r] > step.bound

(* The cache never outgrows its limit, and a graph that prewarm captured has   *)
(* kernels for every context its shape can be replayed with.                   *)
CacheSound ==
    /\ Cardinality(DOMAIN graphs) <= MaxGraphs
    /\ \A key \in DOMAIN graphs :
         graphs[key].prewarmed => graphs[key].bound = key[2] * BlockSize

(* After a prewarm no step of the configured batch whose tables have one of    *)
(* the prewarmed widths finds its shape missing, for every configuration: the  *)
(* buckets a step is padded to are the buckets prewarm captures.               *)
BucketsCover ==
    phase = "loading" =>
        \A max \in 1..40, blocks \in 0..2 * BaseCols :
          \A n \in 1..Smaller(max, CaptureLimit) :
            <<BatchBucket(n, Smaller(max, CaptureLimit)), ColsBucket(blocks)>>
                \in PrewarmKeys(max)

=============================================================================
