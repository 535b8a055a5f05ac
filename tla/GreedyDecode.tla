----------------------------- MODULE GreedyDecode ------------------------------
(***************************************************************************)
(* Greedy decoding (vasr-models, model/generation.rs) over the forward     *)
(* passes of the text model (thinker.rs, thinker_text.rs, attention.rs,    *)
(* kv_cache.rs) and the static path of the paged engine                    *)
(* (paged_batch_engine.rs, paged_kv_cache.rs).                             *)
(*                                                                         *)
(* What the KV cache holds for a token is abstracted to the sequence of    *)
(* embeddings the token was computed from: its own, and those of the       *)
(* tokens before it when it attended exactly them, each once, at its       *)
(* position; Wrong otherwise.  The model is a function from such a         *)
(* sequence to the next token.  So every path that pads, batches, pages,   *)
(* packs, or reuses a cached prefix can be compared with the definition:   *)
(* the row alone, without a cache.                                         *)
(*                                                                         *)
(* One thread calls; the prefix templates are its thread-local state, the  *)
(* block pool is the model's.                                              *)
(***************************************************************************)
EXTENDS PagedBlocks, FiniteSetsExt, SequencesExt

CONSTANTS
  AudioToken, PadToken,  \* ids
  EosIds, EosFill,       \* eos_token_ids, and the first of them
  Tokens,                \* what a token is embedded as: ids, and the features of audio
  NextToken(_),          \* the model, on the context of a token
  Junk,                  \* what it makes of a context that is no prefix of anything
  MinPrefix,             \* shortest prefix worth a template (8)
  Builds,                \* devices, features and environment variables
  Batches,               \* sequences of prompts [ids, audio] a caller may ask for
  Sides,                 \* the sides a caller pads on
  Limits,                \* values of max_new_tokens
  MaxCalls               \* bound: calls in a behaviour

ASSUME DecodeAssumption ==
  /\ EosIds \subseteq Tokens /\ EosFill \in EosIds
  /\ {AudioToken, PadToken, Junk} \subseteq Tokens /\ PadToken # AudioToken
  /\ MinPrefix \in Nat \ {0}
  /\ Batches \subseteq Seq([ids : Seq(Tokens) \ {<<>>}, audio : Seq(Tokens)]) \ {<<>>}
  /\ \A b \in Batches : 0 .. Len(b)-1 \subseteq RequestIds
  /\ \A b \in Batches : \A i \in DOMAIN b :
       Cardinality({j \in DOMAIN b[i].ids : b[i].ids[j] = AudioToken}) = Len(b[i].audio)
  /\ Sides \subseteq {"left", "right"}
  /\ Limits \subseteq Nat
  /\ MaxCalls \in Nat

VARIABLES
  build,      \* fixed
  mgr, pool,  \* the shared runtime: block manager, and KV slot -> content
  templates,  \* PREFIX_KV_CACHE_TEMPLATES: prefix ids -> KV of row 0
  pc,         \* "idle", or the decode loop the call is in
  batch, side, limit,
  kv,         \* row -> the KV cache of the call
  mask,       \* row -> attention_mask_total
  dense,      \* dense_attention
  next,       \* next_ids
  out,        \* generated
  finished,
  step,
  result,     \* of the last call
  warm,       \* history: the call took its prefix from a template
  left,       \* history: the request ids a failed call may have left blocks with
  calls

callVars == <<batch, side, limit, kv, mask, dense, next, out, finished, step, warm>>
vars == <<build, mgr, pool, templates, pc, result, left, calls, callVars>>

--------------------------------------------------------------------------------
\* Contexts.

Wrong == <<>>

\* What a token is computed from: its embedding, its position, and the contexts
\* `row` holds at the places it attends besides its own.
Attend(embed, position, row, places) ==
  LET seen  == {row[k] : k \in places}
      whole == {c \in seen : /\ Len(c) = position
                             /\ seen = {SubSeq(c, 1, k) : k \in 1 .. position}}
  IN IF position = 0 /\ places = {} THEN <<embed>>
     ELSE IF Cardinality(places) = position /\ whole # {}
     THEN Append(CHOOSE c \in whole : TRUE, embed)
     ELSE Wrong

\* The contexts of a row after its new tokens: sees[j] are the places, in the cache
\* and among the new tokens, whose keys the j-th new token may attend.  A token that
\* may not attend itself is padding, and no one's context.
RowContexts(cache, embeds, positions, sees) ==
  LET after[j \in 0 .. Len(embeds)] ==
        IF j = 0 THEN cache
        ELSE LET own == Len(cache) + j IN
             Append(after[j-1],
                    IF own \in sees[j]
                    THEN Attend(embeds[j], positions[j], after[j-1], sees[j] \ {own})
                    ELSE Wrong)
  IN after[Len(embeds)]

Argmax(context) == IF context = Wrong THEN Junk ELSE NextToken(context)

Ones(n)     == [j \in 1 .. n |-> 1]
OnesIn(m)   == {j \in DOMAIN m : m[j] # 0}
IsDense(m)  == OnesIn(m) = DOMAIN m
PromptLen(m) == Cardinality(OnesIn(m))

\* get_rope_index: valid tokens count from 0 whichever side is padded, padding is 1.
RopeIndex(m) ==
  [j \in DOMAIN m |-> IF m[j] # 0 THEN Cardinality({k \in OnesIn(m) : k <= j}) - 1 ELSE 1]

\* make_causal_mask, make_causal_mask_cached: every place up to its own, without padding.
CausalMask(m, cached, new) ==
  [j \in 1 .. new |-> {k \in OnesIn(m) : k <= cached + j}]

\* flash_attn_varlen on the unpadded keys of a row, and as many queries as the batch
\* has columns: the last query sees the last key.
BottomRight(m, new) ==
  [j \in 1 .. new |->
     {k \in OnesIn(m) : Cardinality({l \in OnesIn(m) : l <= k}) <= PromptLen(m) - new + j}]

\* The mask of the attention kernel a build runs: with flash attention the padding is
\* cut out; on Metal the mask of a prefill without cache is left to the causal kernel.
Sees(m, cached, new) ==
  IF build.flash /\ cached > 0 THEN BottomRight(m, new)
  ELSE IF build.device = "metal" /\ cached = 0 THEN CausalMask(Ones(Len(m)), 0, new)
  ELSE CausalMask(m, cached, new)

--------------------------------------------------------------------------------
\* The batch as tensors.

Rows    == DOMAIN batch
Width(b) == Max({Len(b[i].ids) : i \in DOMAIN b})
Fill(n, x) == [j \in 1 .. n |-> x]

Padded(b, s, i, row, x) ==
  LET n == Width(b) - Len(b[i].ids)
  IN IF s = "right" THEN row \o Fill(n, x) ELSE Fill(n, x) \o row

IdsOf(b, s)   == [i \in DOMAIN b |-> Padded(b, s, i, b[i].ids, PadToken)]
MasksOf(b, s) == [i \in DOMAIN b |-> Padded(b, s, i, Ones(Len(b[i].ids)), 0)]

\* The features of all rows, one row after the other.
AudioOf(b) ==
  LET upTo[n \in 0 .. Len(b)] == IF n = 0 THEN <<>> ELSE upTo[n-1] \o b[n].audio
  IN upTo[Len(b)]

Placeholders(ids) ==
  {p \in (DOMAIN ids) \X (1 .. Len(ids[1])) : ids[p[1]][p[2]] = AudioToken}

\* merge_audio_features: placeholders take the features in (row, column) order.
Merged(ids, audio) ==
  LET before(i, j) == {p \in Placeholders(ids) : p[1] < i \/ (p[1] = i /\ p[2] <= j)}
  IN [i \in DOMAIN ids |-> [j \in DOMAIN ids[i] |->
        IF ids[i][j] = AudioToken THEN audio[Cardinality(before(i, j))] ELSE ids[i][j]]]

\* The length every row has before its first audio placeholder, 0 when it is short or
\* the rows differ in it (common_audio_prefix_len).
CommonAudioPrefixLen(ids, masks) ==
  LET at(i)  == {j \in OnesIn(masks[i]) : ids[i][j] = AudioToken}
      len    == Min(at(1)) - 1
  IN IF /\ Len(ids) > 1
        /\ at(1) # {}
        /\ len >= MinPrefix
        /\ \A i \in DOMAIN ids :
             /\ at(i) # {} /\ Min(at(i)) - 1 = len
             /\ SubSeq(ids[i], 1, len) = SubSeq(ids[1], 1, len)
             /\ 1 .. len \subseteq OnesIn(masks[i])
     THEN len ELSE 0

\* The batch a paged prefill takes: as it is when every row is padded on the right, else
\* the valid tokens of every row moved to its front.
IsRightPadded(m) == OnesIn(m) = 1 .. PromptLen(m)

Normalized(b, s) ==
  LET ids   == IdsOf(b, s)
      masks == MasksOf(b, s)
      valid(i) == SelectSeq([j \in DOMAIN ids[i] |-> j], LAMBDA j : masks[i][j] # 0)
      pads(i)  == Len(ids[i]) - Len(valid(i))
  IN IF \A i \in DOMAIN b : IsRightPadded(masks[i])
     THEN [ids |-> ids, masks |-> masks]
     ELSE [ids   |-> [i \in DOMAIN b |-> [k \in DOMAIN valid(i) |-> ids[i][valid(i)[k]]]
                                          \o Fill(pads(i), PadToken)],
           masks |-> [i \in DOMAIN b |-> Ones(Len(valid(i))) \o Fill(pads(i), 0)]]

--------------------------------------------------------------------------------
Init ==
  /\ build \in Builds
  /\ mgr = NewManager
  /\ pool = [slot \in KvSlots |-> Wrong]
  /\ templates = [k \in {} |-> <<>>]
  /\ pc = "idle"
  /\ batch = <<>> /\ side = "right" /\ limit = 0
  /\ kv = <<>> /\ mask = <<>> /\ dense = TRUE
  /\ next = <<>> /\ out = <<>> /\ finished = <<>> /\ step = 0
  /\ result = "none"
  /\ warm = FALSE
  /\ left = {}
  /\ calls = 0

\* What every entry starts from.
Call(b, s, max) ==
  /\ pc = "idle"
  /\ calls < MaxCalls
  /\ calls' = calls + 1
  /\ batch' = b
  /\ side' = s
  /\ limit' = max
  /\ step' = 0
  /\ out' = [i \in DOMAIN b |-> <<>>]
  /\ UNCHANGED build

\* The tokens of a prefill, and who has ended with its first.
Begin(tokens) ==
  /\ next' = tokens
  /\ finished' = [i \in DOMAIN tokens |-> tokens[i] \in EosIds]

\* max_new_tokens = 0: nothing is run.
ReturnNothing(b, s) ==
  /\ Call(b, s, 0)
  /\ result' = "done"
  /\ UNCHANGED <<mgr, pool, templates, pc, left, kv, mask, dense, next, finished, warm>>

Enter(loop) ==
  /\ pc' = loop
  /\ result' = "none"

Return ==
  /\ pc' = "idle"
  /\ result' = "done"

AllFinished == \A i \in Rows : finished[i]

\* position_ids_for_step.
StepPosition(i) == Len(batch[i].ids) + step

\* The token a row is fed and the answer it has then: a row that ended is fed an
\* end of sequence for as long as the others go on.
Ends(i)  == finished[i] \/ next[i] \in EosIds
Fed(i)   == IF Ends(i) THEN EosFill ELSE next[i]
Taken(i) == IF Ends(i) THEN out[i] ELSE Append(out[i], next[i])

--------------------------------------------------------------------------------
\* greedy_generate: one row, the whole sequence again for every token.

StartAlone(b, max) ==
  /\ Len(b) = 1
  /\ Call(b, "right", max)
  /\ Enter("alone")
  /\ UNCHANGED <<mgr, pool, templates, left, kv, mask, dense, next, finished, warm>>

AloneToken ==
  LET ids      == batch[1].ids \o out[1]
      all      == Ones(Len(ids))
      contexts == RowContexts(<<>>, Merged(<<ids>>, batch[1].audio)[1], RopeIndex(all),
                              Sees(all, 0, Len(ids)))
  IN Argmax(Last(contexts))

AloneStep ==
  /\ pc = "alone"
  /\ IF step < limit /\ AloneToken \notin EosIds
     THEN /\ out' = <<Append(out[1], AloneToken)>>
          /\ step' = step + 1
          /\ UNCHANGED <<pc, result>>
     ELSE Return /\ UNCHANGED <<out, step>>
  /\ UNCHANGED <<build, mgr, pool, templates, left, calls, batch, side, limit, kv, mask,
                 dense, next, finished, warm>>

--------------------------------------------------------------------------------
\* greedy_generate_cached: one row, its prompt once, then a token at a time.

StartCached(b, max) ==
  LET ids  == b[1].ids
      all  == Ones(Len(ids))
      full == RowContexts(<<>>, Merged(<<ids>>, b[1].audio)[1], RopeIndex(all),
                          Sees(all, 0, Len(ids)))
  IN /\ Len(b) = 1
     /\ Call(b, "right", max)
     /\ Enter("cached")
     /\ kv' = <<full>>
     /\ mask' = <<all>>
     /\ dense' = TRUE
     /\ Begin(<<Argmax(Last(full))>>)
     /\ warm' = FALSE
     /\ UNCHANGED <<mgr, pool, templates, left>>

\* The next token of a row whose cache has no padding (forward_decode_one_without_padding).
Grown(i) ==
  RowContexts(kv[i], <<Fed(i)>>, <<StepPosition(i)>>,
              Sees(Ones(Len(kv[i]) + 1), Len(kv[i]), 1))

CachedStep ==
  /\ pc = "cached"
  /\ IF step < limit /\ ~Ends(1)
     THEN /\ out' = <<Taken(1)>>
          /\ kv' = <<Grown(1)>>
          /\ next' = <<Argmax(Last(Grown(1)))>>
          /\ step' = step + 1
          /\ UNCHANGED <<pc, result>>
     ELSE Return /\ UNCHANGED <<out, kv, next, step>>
  /\ UNCHANGED <<build, mgr, pool, templates, left, calls, batch, side, limit, mask, dense,
                 finished, warm>>

--------------------------------------------------------------------------------
\* greedy_generate_paged: one row in a paged cache of its own, whose slots follow the
\* positions (kv[1] holds them all, Wrong where nothing was written).

StartPaged(b, max) ==
  LET ids  == b[1].ids
      all  == Ones(Len(ids))
      full == RowContexts(<<>>, Merged(<<ids>>, b[1].audio)[1], RopeIndex(all),
                          Sees(all, 0, Len(ids)))
  IN /\ Len(b) = 1
     /\ build.paged
     /\ Call(b, "right", max)
     /\ Enter("paged")
     /\ kv' = <<full \o Fill(max, Wrong)>>
     /\ mask' = <<all>>
     /\ dense' = TRUE
     /\ Begin(<<Argmax(Last(full))>>)
     /\ warm' = FALSE
     /\ UNCHANGED <<mgr, pool, templates, left>>

\* decode_metadata_for_steps: the slot of a step, and the length of its context.
StepSlot == Len(batch[1].ids) + step

PagedStep ==
  LET context == RowContexts(SubSeq(kv[1], 1, StepSlot), <<Fed(1)>>, <<StepPosition(1)>>,
                             <<1 .. StepSlot + 1>>)
  IN /\ pc = "paged"
     /\ IF step < limit /\ ~Ends(1)
        THEN /\ out' = <<Taken(1)>>
             /\ kv' = <<[kv[1] EXCEPT ![StepSlot + 1] = Last(context)]>>
             /\ next' = <<Argmax(Last(context))>>
             /\ step' = step + 1
             /\ UNCHANGED <<pc, result>>
        ELSE Return /\ UNCHANGED <<out, kv, next, step>>
     /\ UNCHANGED <<build, mgr, pool, templates, left, calls, batch, side, limit, mask,
                    dense, finished, warm>>

--------------------------------------------------------------------------------
\* greedy_generate_cached_batch.

\* Mutant: the logits of the last column.
NextAtLastColumn(contexts, masks) ==
  [i \in DOMAIN contexts |-> Argmax(Last(contexts[i]))]

\* gather_last_logits_for_prompt_lens: the logits at place prompt_len of every row.
NextAtPromptEnd(contexts, masks) ==
  [i \in DOMAIN contexts |-> Argmax(contexts[i][PromptLen(masks[i])])]

\* Mutant: one place too few.
PrefixTemplateShort(contexts, len) == SubSeq(contexts, 1, len - 1)

\* row0_prefix_template
PrefixTemplate(contexts, len) == SubSeq(contexts, 1, len)

\* replicate_batch
Replicated(template, b) == [i \in DOMAIN b |-> template]

\* The first rows of an unsuitable batch on Metal go to the hybrid path (StartHybrid), a
\* single row of a paged build to greedy_generate_paged (StartPaged).  With a template
\* for the common prefix only the columns after it are run, against its copies.
StartBatch(b, s, max) ==
  LET ids    == IdsOf(b, s)
      masks  == MasksOf(b, s)
      audio  == AudioOf(b)
      len    == IF audio = <<>> THEN 0 ELSE CommonAudioPrefixLen(ids, masks)
      prefix == SubSeq(ids[1], 1, len)
      hit    == len > 0 /\ prefix \in DOMAIN templates
      from   == IF hit THEN len ELSE 0
      rest(i, row) == SubSeq(row, from + 1, Len(row))
      embeds == Merged([i \in DOMAIN b |-> rest(i, ids[i])], audio)
      cached == Replicated(IF hit THEN templates[prefix] ELSE <<>>, b)
      full   == [i \in DOMAIN b |->
                   RowContexts(cached[i], embeds[i],
                               rest(i, RopeIndex(masks[i])),
                               Sees(masks[i], from, Len(masks[i]) - from))]
  IN /\ ~(Len(b) = 1 /\ build.paged)
     /\ Call(b, s, max)
     /\ Enter("batch")
     /\ kv' = full
     /\ mask' = masks
     /\ dense' = \A i \in DOMAIN b : IsDense(masks[i])
     /\ Begin(NextAtPromptEnd(full, masks))
     /\ templates' = IF len > 0 /\ ~hit
                     THEN [k \in DOMAIN templates \cup {prefix} |->
                             IF k = prefix THEN PrefixTemplate(full[1], len) ELSE templates[k]]
                     ELSE templates
     /\ warm' = hit
     /\ UNCHANGED <<mgr, pool, left>>

\* The mask of a batch with padding grows by a column of ones.
MaskAfter(i) == IF dense THEN mask[i] ELSE Append(mask[i], 1)

\* One pass for all rows, those that ended included.
BatchStep ==
  LET sees(i) == Sees(IF dense THEN Ones(Len(kv[i]) + 1) ELSE MaskAfter(i), Len(kv[i]), 1)
  IN /\ pc = "batch"
     /\ step < limit
     /\ ~AllFinished
     /\ out' = [i \in Rows |-> Taken(i)]
     /\ finished' = [i \in Rows |-> Ends(i)]
     /\ mask' = [i \in Rows |-> MaskAfter(i)]
     /\ kv' = [i \in Rows |->
                 RowContexts(kv[i], <<Fed(i)>>, <<StepPosition(i)>>, sees(i))]
     /\ next' = [i \in Rows |-> Argmax(Last(kv'[i]))]
     /\ step' = step + 1
     /\ UNCHANGED <<build, mgr, pool, templates, pc, result, left, calls, batch, side, limit,
                    dense, warm>>

BatchReturn ==
  /\ pc = "batch"
  /\ step = limit \/ AllFinished
  /\ Return
  /\ UNCHANGED <<build, mgr, pool, templates, left, calls, callVars>>

--------------------------------------------------------------------------------
\* The paged engine: row i is request i-1 of the shared pool.

Id(i) == i - 1

\* allocate_slots for one of the rows after the other, up to the first it refuses.
AllocateRows(m, rows, tokens) ==
  LET after[n \in 0 .. Len(tokens)] ==
        IF n = 0 THEN [mgr |-> m, ok |-> TRUE]
        ELSE IF n \notin rows THEN after[n-1]
        ELSE LET was == after[n-1]
             IN IF was.ok /\ CanAllocate(was.mgr, Id(n), tokens[n])
                THEN [mgr |-> Allocate(was.mgr, Id(n), tokens[n]), ok |-> TRUE]
                ELSE [mgr |-> was.mgr, ok |-> FALSE]
  IN after[Len(tokens)]

TrimRows(m, rows, tokens) ==
  LET after[n \in 0 .. Len(tokens)] ==
        IF n = 0 THEN m
        ELSE IF n \in rows THEN Trim(after[n-1], Id(n), tokens[n]) ELSE after[n-1]
  IN after[Len(tokens)]

\* free_many
FreeRows(m, b) ==
  LET after[n \in 0 .. Len(b)] ==
        IF n = 0 THEN m ELSE FreeRequest(after[n-1], Id(n))
  IN after[Len(b)]

\* A packed prefill: the rows' valid tokens follow each other in one sequence, and
\* cu_seqlens says where each ends (input_metadata_from_query_lens).
Valid(row, m)    == SubSeq(row, 1, PromptLen(m))
CuSeqLens(masks) ==
  [i \in 0 .. Len(masks) |-> FoldLeft(LAMBDA n, m : n + PromptLen(m), 0, SubSeq(masks, 1, i))]

\* flash_attn_dispatch with cu_seqlens: the rows are kept apart.
PackedApart(embeds, masks) ==
  [i \in DOMAIN embeds |->
     RowContexts(<<>>, Valid(embeds[i], masks[i]), Valid(RopeIndex(masks[i]), masks[i]),
                 CausalMask(Ones(PromptLen(masks[i])), 0, PromptLen(masks[i])))]

\* Any other kernel is asked for plain causal attention over the whole sequence.
PackedTogether(embeds, masks) ==
  LET total == FlattenSeq([i \in DOMAIN embeds |-> Valid(embeds[i], masks[i])])
      at    == FlattenSeq([i \in DOMAIN embeds |-> Valid(RopeIndex(masks[i]), masks[i])])
      all   == RowContexts(<<>>, total, at, CausalMask(Ones(Len(total)), 0, Len(total)))
      ends  == CuSeqLens(masks)
  IN [i \in DOMAIN embeds |-> SubSeq(all, ends[i-1] + 1, ends[i])]

PackedContexts(embeds, masks) ==
  IF build.varlen THEN PackedApart(embeds, masks) ELSE PackedTogether(embeds, masks)

\* The contexts the forward pass of a prefill computes.
PrefillContexts(paged, embeds) ==
  IF build.packed THEN PackedContexts(embeds, paged.masks)
  ELSE [i \in DOMAIN embeds |->
          RowContexts(<<>>, embeds[i], RopeIndex(paged.masks[i]),
                      Sees(paged.masks[i], 0, Len(embeds[i])))]

\* The pool once the keys of row i are in the slots of its block table.
Written(m, len, contexts) ==
  LET at(slot) == {p \in UNION {{i} \X (1 .. len[i]) : i \in DOMAIN len} :
                     SlotOf(m, Id(p[1]), p[2] - 1) = slot}
      kept(slot, places) ==
        IF places = {} THEN pool[slot]
        ELSE LET p == CHOOSE q \in places : TRUE IN contexts[p[1]][p[2]]
  IN [slot \in KvSlots |-> kept(slot, at(slot))]

PromptLens(b) == [i \in DOMAIN b |-> Len(b[i].ids)]

\* paged_batch_prefill once every prompt has its blocks in manager m: the forward pass,
\* the first tokens, and a trim of the rows that end with theirs.
Prefill(b, s, m) ==
  LET paged == Normalized(b, s)
  IN /\ pool' = Written(m, PromptLens(b), PrefillContexts(paged, Merged(paged.ids, AudioOf(b))))
     /\ Begin([i \in DOMAIN b |-> Argmax(pool'[SlotOf(m, Id(i), Len(b[i].ids) - 1)])])

TrimEnded(b, m, tokens) ==
  TrimRows(m, {i \in DOMAIN b : tokens[i] \in EosIds}, PromptLens(b))

IdsOfRows(b) == {Id(i) : i \in DOMAIN b}

\* An error that leaves the blocks where they are.
Fail(b) ==
  /\ pc' = "idle"
  /\ result' = "failed"
  /\ left' = left \cup IdsOfRows(b)

\* paged_batch_run frees what an earlier failed run left with its ids, then prefills.
\* The pool may refuse a prompt its blocks, and the forward pass may fail.
StartStatic(b, s, max) ==
  /\ build.paged
  /\ Call(b, s, max)
  /\ \E got \in {AllocateRows(FreeRows(mgr, b), DOMAIN b, PromptLens(b))} :
       \/ /\ got.ok
          /\ Enter("static")
          /\ left' = left \ IdsOfRows(b)
          /\ Prefill(b, s, got.mgr)
          /\ mgr' = TrimEnded(b, got.mgr, next')
       \/ /\ Fail(b)
          /\ mgr' = got.mgr
          /\ UNCHANGED <<pool, next, finished>>
  /\ warm' = FALSE
  /\ UNCHANGED <<templates, kv, mask, dense>>

Active == {i \in Rows : ~finished[i]}

\* The forward pass of a step for the rows still going, over their block tables.
StaticForward(m) ==
  LET going   == {i \in Rows : ~Ends(i)}
      own(i)  == SlotOf(m, Id(i), StepPosition(i))
      held(i) == [j \in 1 .. StepPosition(i) |-> pool[SlotOf(m, Id(i), j - 1)]]
      context(i) == Last(RowContexts(held(i), <<Fed(i)>>, <<StepPosition(i)>>,
                                     <<1 .. StepPosition(i) + 1>>))
  IN /\ pool' = [slot \in KvSlots |->
                   IF \E i \in going : own(i) = slot
                   THEN context(CHOOSE i \in going : own(i) = slot) ELSE pool[slot]]
     /\ next' = [i \in Rows |-> IF i \in going THEN Argmax(pool'[own(i)]) ELSE next[i]]

\* paged_batch_decode_step: a block for every active row, the rows that ended trimmed
\* and left out, one pass for the others.  Either part may fail.
StaticStep ==
  /\ pc = "static"
  /\ step < limit
  /\ ~AllFinished
  /\ \E got \in {AllocateRows(mgr, Active, [i \in Rows |-> StepPosition(i) + 1])} :
       \/ /\ got.ok
          /\ mgr' = TrimRows(got.mgr, {i \in Active : Ends(i)},
                             [i \in Rows |-> Len(batch[i].ids) + Len(out[i])])
          /\ StaticForward(mgr')
          /\ out' = [i \in Rows |-> Taken(i)]
          /\ finished' = [i \in Rows |-> Ends(i)]
          /\ step' = step + 1
          /\ UNCHANGED <<pc, result, left>>
       \/ /\ ~got.ok
          /\ mgr' = got.mgr
          /\ Fail(batch)
          /\ UNCHANGED <<pool, out, finished, next, step>>
       \/ /\ got.ok
          /\ \E i \in Rows : ~Ends(i)
          /\ mgr' = TrimRows(got.mgr, {i \in Active : Ends(i)},
                             [i \in Rows |-> Len(batch[i].ids) + Len(out[i])])
          /\ Fail(batch)
          /\ UNCHANGED <<pool, out, finished, next, step>>
  /\ UNCHANGED <<build, templates, calls, batch, side, limit, kv, mask, dense, warm>>

\* Mutant: the blocks are not freed.
StaticReturnKeeping ==
  /\ pc = "static"
  /\ step = limit \/ AllFinished
  /\ Return
  /\ UNCHANGED <<build, mgr, pool, templates, left, calls, callVars>>

StaticReturn ==
  /\ pc = "static"
  /\ step = limit \/ AllFinished
  /\ Return
  /\ mgr' = FreeRows(mgr, batch)
  /\ UNCHANGED <<build, pool, templates, left, calls, callVars>>

\* rebuild_kv_cache_from_paged_prefill: the rows of a prefill, copied into a cache and
\* padded with zeros.
Rebuilt(b, m, slots) ==
  [i \in DOMAIN b |->
     [j \in 1 .. Width(b) |->
        IF j <= Len(b[i].ids) THEN slots[SlotOf(m, Id(i), j - 1)] ELSE Wrong]]

\* The hybrid path of Metal: a paged prefill, its rows copied into a cache, the blocks
\* freed, and the decode loop of the batch with a mask.
StartHybrid(b, s, max) ==
  /\ build.hybrid
  /\ Len(b) > 1
  /\ AudioOf(b) # <<>>
  /\ Call(b, s, max)
  /\ \E got \in {AllocateRows(mgr, DOMAIN b, PromptLens(b))} :
       \/ /\ got.ok
          /\ Enter("batch")
          /\ left' = left \ IdsOfRows(b)
          /\ Prefill(b, s, got.mgr)
          /\ kv' = Rebuilt(b, got.mgr, pool')
          /\ mgr' = FreeRows(TrimEnded(b, got.mgr, next'), b)
          /\ mask' = MasksOf(b, s)
          /\ dense' = FALSE
       \/ /\ mgr' = got.mgr
          /\ Fail(b)
          /\ UNCHANGED <<pool, kv, mask, dense, next, finished>>
  /\ warm' = FALSE
  /\ UNCHANGED templates

Next ==
  \/ \E b \in Batches, s \in Sides, max \in Limits :
       \/ max = 0 /\ ReturnNothing(b, s)
       \/ max > 0 /\ \/ s = "right" /\ StartAlone(b, max)
                     \/ s = "right" /\ StartCached(b, max)
                     \/ s = "right" /\ StartPaged(b, max)
                     \/ StartBatch(b, s, max)
                     \/ StartStatic(b, s, max)
                     \/ StartHybrid(b, s, max)
  \/ AloneStep
  \/ CachedStep
  \/ PagedStep
  \/ BatchStep
  \/ BatchReturn
  \/ StaticStep
  \/ StaticReturn

Spec == Init /\ [][Next]_vars

--------------------------------------------------------------------------------
TypeOK ==
  /\ build \in Builds
  /\ IsManager(mgr)
  /\ DOMAIN pool = KvSlots
  /\ pc \in {"idle", "alone", "cached", "paged", "batch", "static"}
  /\ limit \in Nat /\ step \in 0 .. limit
  /\ result \in {"none", "done", "failed"}
  /\ left \subseteq RequestIds

\* What a prompt is answered: greedy search on the row alone.
Answer(prompt, max) ==
  LET embeds == Merged(<<prompt.ids>>, prompt.audio)[1]
      after[n \in 0 .. max] ==
        IF n = 0 THEN <<>>
        ELSE LET token == NextToken(embeds \o after[n-1])
             IN IF token \in EosIds THEN after[n-1] ELSE Append(after[n-1], token)
  IN after[max]

\* A prefix taken from a template, in a batch with padding, on a build whose flash
\* attention counts queries from the last key.
FlashOnPaddedRemainder ==
  build.flash /\ warm /\ \E i \in Rows : ~IsDense(MasksOf(batch, side)[i])

\* Whatever is padded to, batched with, paged, packed or taken from a template, and
\* whatever calls came before, a row is answered as if it were alone and not cached
\* (greedy_generate_cached_batch, greedy_generate_paged and paged_batch_run against
\* greedy_generate).
EachRowAsIfAlone ==
  pc = "idle" /\ result = "done" /\ ~FlashOnPaddedRemainder =>
    \A i \in Rows : out[i] = Answer(batch[i], limit)

\* What is kept between passes is right.  The state has its shape; a template holds the
\* context of the very prefix it is filed under, whichever batch stored it and whichever
\* call failed in between (store_prefix_kv_template, row0_prefix_template); and the mask a
\* decode pass brings is as long as the cache with the new token, which
\* forward_with_kv_cache checks, and hides all but a row's own tokens.
CachesHoldTheirRows ==
  /\ TypeOK
  /\ \A key \in DOMAIN templates :
       templates[key] = [n \in 1 .. Len(key) |-> SubSeq(key, 1, n)]
  /\ pc = "batch" =>
       \A i \in Rows : LET m == IF dense THEN Ones(Len(kv[i])) ELSE mask[i] IN
         /\ Len(m) = Len(kv[i])
         /\ PromptLen(m) = Len(batch[i].ids) + step

\* Blocks outlive a call only after a call with their ids failed, and a later call with
\* the ids gives them back (paged_batch_run).
BlocksLeftByFailuresOnly ==
  pc = "idle" => DOMAIN mgr.table \subseteq left
================================================================================
