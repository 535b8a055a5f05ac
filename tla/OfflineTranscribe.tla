--------------------------- MODULE OfflineTranscribe ---------------------------
(* One call of the offline recogniser (inference/transcribe.rs): the audios of *)
(* the call are cut into chunks at quiet places (audio/chunking.rs), the       *)
(* chunks are ordered and grouped under a count and an audio budget, the rows  *)
(* of a group are re-sorted by prompt length into padded micro-batches, what   *)
(* the model writes is parsed, words are aligned by the forced aligner         *)
(* (forced_aligner/) and everything is merged back per audio.  Several sorts   *)
(* and regroupings stand between a stretch of audio and its place in the       *)
(* answer; the properties say that nothing is lost, moved or mixed up.         *)
(*                                                                             *)
(* A sample of the model stands for a block of samples; a stretch of audio is  *)
(* a record [of, from, to], its text is the stretch itself, and a word is a    *)
(* stretch with a number.                                                      *)
EXTENDS Integers, FiniteSets, Sequences, SequencesExt

CONSTANTS
    Calls,          \* the calls: audios and options
    MaxAsr,         \* samples of MAX_ASR_INPUT_SECONDS
    MaxAlign,       \* samples of MAX_FORCE_ALIGN_INPUT_SECONDS
    SearchExpand,   \* samples of DEFAULT_SEARCH_EXPAND_SEC
    Win,            \* samples of the quiet window
    MinLen,         \* samples of MIN_ASR_INPUT_SECONDS
    PromptBase,     \* tokens of a prompt beside its audio
    MaxSpread,      \* the 256 tokens rebatch_prepared_inputs tolerates
    Raws,           \* what the recogniser may write for a row
    Stampings       \* time stamps the aligner may predict for a chunk: two a word

(* audios with their silent samples and the language asked for, and options    *)
OfflineCalls ==
    [entry : {"transcribe", "transcribe_timed", "aligner", "aligner_timed"},
     timestamps : BOOLEAN, audios : Seq([len : Nat, quiet : SUBSET Nat, forced : STRING]),
     chunkMax : Nat, maxBatch : Nat, budget : Nat, bucket : BOOLEAN]

ASSUME OfflineAssumption ==
    /\ Calls \subseteq OfflineCalls
    /\ MaxAsr \in Nat \ {0} /\ MaxAlign \in Nat \ {0} /\ SearchExpand \in Nat /\ Win \in Nat \ {0}
    /\ MinLen \in Nat /\ PromptBase \in Nat /\ MaxSpread \in Nat
    /\ \A s \in Stampings : s \in Seq(Nat) /\ Len(s) % 2 = 0

VARIABLES
    call,       \* the entry point, the audios and the options
    chunks,     \* Vec<ChunkItem>
    groups,     \* the groups of chunk indices still to run
    answers,    \* per_chunk_lang, per_chunk_text: chunk index -> answer
    aligned,    \* per_chunk_align_items: chunk index -> items
    result,     \* out / results
    status,     \* where the call stands
    heard,      \* history: stretch -> what the recogniser wrote for it
    predicted   \* history: stretch -> the stamps the aligner predicted

offlineVars == <<call, chunks, groups, answers, aligned, result, status, heard, predicted>>

Least(x, y) == IF x < y THEN x ELSE y
Most(x, y) == IF x < y THEN y ELSE x
NonDecreasing(s) == \A k \in 1..Len(s) - 1 : s[k] <= s[k + 1]

Total(s) ==
    LET sum[k \in 0..Len(s)] == IF k = 0 THEN 0 ELSE sum[k - 1] + s[k]
    IN sum[Len(s)]

(* the numbers of a set, in order *)
Ascending(S) ==
    [m \in 1..Cardinality(S) |-> CHOOSE x \in S : Cardinality({y \in S : y < x}) = m - 1]

(* the positions of keys by growing key, those of equal keys as they come *)
Sorted(keys) ==
    LET Before(i) == {j \in DOMAIN keys : keys[j] < keys[i] \/ (keys[j] = keys[i] /\ j < i)}
    IN [k \in DOMAIN keys |-> CHOOSE i \in DOMAIN keys : Cardinality(Before(i)) = k - 1]

-----------------------------------------------------------------------------
(* Cutting an audio [len, quiet, forced]: quiet is the set of its silent       *)
(* samples, every other sample is equally loud.                                *)

(* how far from the wanted cut the boundary is looked for, max samples a chunk *)
Expand(max) == Least(SearchExpand, max \div 2)

(* the first sample of the first quietest window of lo..hi-1, or the first     *)
(* silent sample in it                                                         *)
Quietest(audio, lo, hi) ==
    LET Loud(p) == Cardinality((p..p + Win - 1) \ audio.quiet)
        at == CHOOSE p \in lo..hi - Win :
                 /\ \A q \in lo..hi - Win : Loud(p) <= Loud(q)
                 /\ \A q \in lo..p - 1 : Loud(p) < Loud(q)
        silent == (at..at + Win - 1) \cap audio.quiet
    IN IF silent = {} THEN at ELSE CHOOSE x \in silent : \A y \in silent : x <= y

(* where the chunk that starts at start ends *)
Boundary(audio, max, start) ==
    LET cut == start + max
        left == Most(cut - Expand(max), start)
        right == Least(cut + Expand(max), audio.len)
        wanted == IF right - left <= Win THEN cut ELSE Quietest(audio, left, right)
    IN Least(Most(wanted, start + 1), audio.len)

(* one turn of the loop on what was cut off and where the rest starts *)
CutOff(audio, max, cut) ==
    IF audio.len - cut.start <= max THEN cut
    ELSE [done |-> Append(cut.done, [from |-> cut.start,
                                     to |-> Boundary(audio, max, cut.start)]),
          start |-> Boundary(audio, max, cut.start)]

(* the cuts of an audio: a sequence of [from, to]; the loop makes fewer turns  *)
(* than there are samples                                                      *)
Cuts(audio, max) ==
    LET after[k \in 0..audio.len] ==
            IF k = 0 THEN [done |-> <<>>, start |-> 0] ELSE CutOff(audio, max, after[k - 1])
        last == after[audio.len]
    IN Append(last.done, [from |-> last.start, to |-> audio.len])

(* Mutant of SplitAudio: offsets counted in padded samples.                    *)
OffsetsOfPadded(i, audio, max) ==
    LET cuts == Cuts(audio, max)
        padded == [k \in 1..Len(cuts) |-> Most(cuts[k].to - cuts[k].from, MinLen)]
    IN [k \in 1..Len(cuts) |->
          [of |-> i, from |-> cuts[k].from, to |-> cuts[k].to,
           offset |-> Total(SubSeq(padded, 1, k - 1)),
           samples |-> IF Len(cuts) > 1 THEN padded[k] ELSE cuts[k].to - cuts[k].from]]

(* the chunks of audio i: its stretch, the samples handed to the models        *)
(* (a short chunk of a split audio is padded) and its offset in the audio      *)
SplitAudio(i, audio, max) ==
    LET cuts == Cuts(audio, max)
    IN [k \in 1..Len(cuts) |->
          [of |-> i, from |-> cuts[k].from, to |-> cuts[k].to, offset |-> cuts[k].from,
           samples |-> LET n == cuts[k].to - cuts[k].from
                       IN IF Len(cuts) > 1 THEN Most(n, MinLen) ELSE n]]

Stretch(c) == [of |-> c.of, from |-> c.from, to |-> c.to]

ChunksOf(audios, max) ==
    FlattenSeq([i \in 1..Len(audios) |-> SplitAudio(i, audios[i], max)])

-----------------------------------------------------------------------------
(* Grouping the chunks *)

(* the order in which chunks are grouped: as they come or longest first *)
ChunkOrder(cs, bucket) ==
    Sorted([k \in 1..Len(cs) |-> IF bucket THEN -cs[k].samples ELSE 0])

CountCap(cap, n) == IF cap = 0 THEN Most(n, 1) ELSE cap

NoGroup == [done |-> <<>>, current |-> <<>>, sec |-> 0]

(* end the group that is being filled, if there is one *)
Flush(g) ==
    IF g.current = <<>> THEN g
    ELSE [done |-> Append(g.done, g.current), current |-> <<>>, sec |-> 0]

(* Mutant of Exceeds: the budget is compared before the chunk is counted.      *)
ExceedsBefore(g, n, cap, budget) ==
    g.current # <<>> /\ (g.sec > budget \/ Len(g.current) >= cap)

(* the group is full for a chunk of n more samples *)
Exceeds(g, n, cap, budget) ==
    \/ g.current # <<>> /\ g.sec + n > budget
    \/ g.current # <<>> /\ Len(g.current) >= cap

(* one chunk of group_chunk_indices under an audio budget *)
PutChunk(g, idx, cs, cap, budget) ==
    LET n == cs[idx].samples
    IN IF n > budget
       THEN [Flush(g) EXCEPT !.done = Append(@, <<idx>>)]
       ELSE LET room == IF Exceeds(g, n, cap, budget) THEN Flush(g) ELSE g
                put == [room EXCEPT !.current = Append(@, idx), !.sec = @ + n]
            IN IF Len(put.current) >= cap THEN Flush(put) ELSE put

(* the groups that are run one after the other *)
GroupChunks(order, cs, maxBatch, budget) ==
    LET cap == CountCap(maxBatch, Len(order))
        full == (Len(order) + cap - 1) \div cap
        after[k \in 0..Len(order)] ==
            IF k = 0 THEN NoGroup ELSE PutChunk(after[k - 1], order[k], cs, cap, budget)
    IN IF budget = 0
       THEN [k \in 1..full |-> SubSeq(order, (k - 1) * cap + 1, Least(k * cap, Len(order)))]
       ELSE Flush(after[Len(order)]).done

-----------------------------------------------------------------------------
(* Micro-batches of the rows of one group *)

(* tokens of a prepared row, without padding *)
PromptLen(c) == PromptBase + c.samples

(* the shortest and the longest row may differ by a third and by MaxSpread *)
TooUneven(shortest, longest) ==
    \/ longest > (shortest * 4 + 2) \div 3
    \/ longest - shortest > MaxSpread

(* one row of rebatch_prepared_inputs; rows come by growing prompt length *)
PutRow(g, k, rows, cap) ==
    LET lens == {PromptLen(rows[j]) : j \in ToSet(g.current)}
        shortest == CHOOSE x \in lens : \A y \in lens : x <= y
    IN IF g.current # <<>>
          /\ (Len(g.current) >= cap \/ TooUneven(shortest, PromptLen(rows[k])))
       THEN [Flush(g) EXCEPT !.current = <<k>>]
       ELSE [g EXCEPT !.current = Append(@, k)]

(* rows are chunks; the result is a sequence of sequences of row numbers *)
Rebatch(rows, maxBatch) ==
    LET order == Sorted([k \in 1..Len(rows) |-> PromptLen(rows[k])])
        cap == CountCap(maxBatch, Len(rows))
        after[k \in 0..Len(rows)] ==
            IF k = 0 THEN NoGroup ELSE PutRow(after[k - 1], order[k], rows, cap)
    IN Flush(after[Len(rows)]).done

(* Mutant of Generated: answers are collected in the order of the micro-batches. *)
InBatchOrder(rows, micro, says) ==
    LET order == FlattenSeq(micro)
    IN [k \in 1..Len(rows) |->
          [row |-> k, raw |-> says[order[k]], stretch |-> Stretch(rows[order[k]])]]

(* every micro-batch answers its rows in its own order; an answer goes back    *)
(* to the row it was made from.  A raw answer is what the recogniser wrote     *)
(* for the audio and the prompt of the row.                                    *)
Generated(rows, micro, says) ==
    LET made == FlattenSeq([b \in 1..Len(micro) |->
                    [r \in 1..Len(micro[b]) |->
                        [row |-> micro[b][r], raw |-> says[micro[b][r]],
                         stretch |-> Stretch(rows[micro[b][r]])]]])
    IN [k \in 1..Len(rows) |-> made[CHOOSE m \in 1..Len(made) : made[m].row = k]]

(* A raw answer [meta, text]: meta is "no" (no tag), "none", "only" (metadata  *)
(* without a tag or a text) or a language; text is "words", "marks" (nothing   *)
(* the aligner can number) or "nothing".                                       *)
Parse(raw, forced) ==
    IF raw.meta = "no" /\ raw.text = "nothing" THEN [lang |-> "", text |-> "nothing"]
    ELSE IF forced # "" THEN [lang |-> forced,
                              text |-> IF raw.meta = "no" THEN raw.text ELSE "words"]
    ELSE IF raw.meta = "only" THEN [lang |-> "", text |-> "nothing"]
    ELSE [lang |-> IF raw.meta \in {"no", "none"} THEN "" ELSE raw.meta, text |-> raw.text]

(* the languages of an audio, without the unknown and the repeated ones *)
MergeLanguages(langs) ==
    LET Put(out, l) ==
            IF l = "" \/ (out # <<>> /\ out[Len(out)] = l) THEN out ELSE Append(out, l)
        after[k \in 0..Len(langs)] == IF k = 0 THEN <<>> ELSE Put(after[k - 1], langs[k])
    IN after[Len(langs)]

-----------------------------------------------------------------------------
(* Time stamps *)

(* dp of fix_timestamp: the longest non-decreasing run of stamps that ends at k *)
RunTo(data, dp, k) ==
    LET before == {dp[j] : j \in {j \in 1..k - 1 : data[j] <= data[k]}}
    IN Append(dp, IF before = {} THEN 1
                  ELSE 1 + CHOOSE x \in before : \A y \in before : y <= x)

RunUpTo(data) ==
    LET dp[k \in 0..Len(data)] == IF k = 0 THEN <<>> ELSE RunTo(data, dp[k - 1], k)
    IN dp[Len(data)]

(* the first position at which the longest run ends *)
RunEnd(dp) ==
    CHOOSE k \in 1..Len(dp) : /\ \A j \in 1..Len(dp) : dp[j] <= dp[k]
                              /\ \A j \in 1..k - 1 : dp[j] < dp[k]

(* is_normal: the positions of the run that is kept; before every position     *)
(* comes the first one that reaches it                                         *)
PathTo(data, dp, paths, k) ==
    LET parents == {j \in 1..k - 1 : data[j] <= data[k] /\ dp[j] + 1 = dp[k]}
    IN Append(paths,
              {k} \cup (IF parents = {} THEN {}
                        ELSE paths[CHOOSE j \in parents : \A i \in parents : j <= i]))

KeptPositions(data, dp) ==
    LET paths[k \in 0..Len(data)] ==
            IF k = 0 THEN <<>> ELSE PathTo(data, dp, paths[k - 1], k)
    IN paths[Len(data)][RunEnd(dp)]

(* fix_timestamp: what replaces the stamp at a position that is not kept       *)
FixedStamp(data, kept, k) ==
    LET before == {j \in kept : j < k}
        after == {j \in kept : j > k}
        l == CHOOSE j \in before : \A i \in before : i <= j
        r == CHOOSE j \in after : \A i \in after : j <= i
        gap == r - l - 1
    IN IF k \in kept THEN data[k]
       ELSE IF before = {} THEN data[r]
       ELSE IF after = {} THEN data[l]
       ELSE IF gap <= 2 THEN IF k - l <= r - k THEN data[l] ELSE data[r]
       ELSE data[l] + ((data[r] - data[l]) * (k - l)) \div (gap + 1)

FixedStamps(data, kept) == [k \in 1..Len(data) |-> FixedStamp(data, kept, k)]

FixTimestamp(data) ==
    IF data = <<>> THEN <<>>
    ELSE FixedStamps(data, KeptPositions(data, RunUpTo(data)))

(* Mutant of ItemsOf: the offset of the chunk is left out.                     *)
ItemsUnmoved(c, fixed) ==
    [w \in 1..Len(fixed) \div 2 |->
        [word |-> <<Stretch(c), w>>, start |-> fixed[2 * w - 1], end |-> fixed[2 * w]]]

(* align_with_features for one chunk: two stamps a word, repaired, and shifted *)
(* by the offset of the chunk                                                  *)
ItemsOf(c, fixed) ==
    [w \in 1..Len(fixed) \div 2 |->
        [word |-> <<Stretch(c), w>>,
         start |-> fixed[2 * w - 1] + c.offset, end |-> fixed[2 * w] + c.offset]]

AlignItems(c, stamps) == ItemsOf(c, FixTimestamp(stamps))

(* the stamps of items, in order *)
StampsOf(items) ==
    [k \in 1..2 * Len(items) |->
        IF k % 2 = 1 THEN items[(k + 1) \div 2].start ELSE items[k \div 2].end]

(* every stamp at least the one before it *)
Clamped(fixed) ==
    LET Put(ms, x) == Append(ms, Most(x, IF ms = <<>> THEN 0 ELSE ms[Len(ms)]))
        after[k \in 0..Len(fixed)] == IF k = 0 THEN <<>> ELSE Put(after[k - 1], fixed[k])
    IN after[Len(fixed)]

Restamped(items, ms) ==
    [w \in 1..Len(items) |-> [items[w] EXCEPT !.start = ms[2 * w - 1], !.end = ms[2 * w]]]

(* repair_merged_align_items: left alone when in order, otherwise fixed like   *)
(* the stamps of a chunk                                                       *)
RepairMerged(items) ==
    IF NonDecreasing(StampsOf(items)) THEN items
    ELSE Restamped(items, Clamped(FixTimestamp(StampsOf(items))))

-----------------------------------------------------------------------------
(* The call *)

Nothing == <<>>

OfflineInit ==
    /\ call \in Calls
    /\ chunks = Nothing /\ groups = Nothing /\ result = Nothing
    /\ answers = Nothing /\ aligned = Nothing
    /\ heard = Nothing /\ predicted = Nothing
    /\ status = "called"

Timed == call.entry \in {"transcribe_timed", "aligner_timed"}
Aligner == call.entry \in {"aligner", "aligner_timed"}

(* chunk_max_sec: the option, but never more than the models take *)
ChunkMax ==
    LET most == IF Aligner THEN MaxAlign ELSE MaxAsr
    IN IF call.chunkMax = 0 THEN most ELSE Least(call.chunkMax, most)

(* an entry point up to its batches: chunk every audio, order, group *)
Prepare ==
    /\ status = "called"
    /\ \E cs \in {ChunksOf(call.audios, ChunkMax)} :
         /\ chunks' = cs
         /\ groups' = GroupChunks(ChunkOrder(cs, call.bucket), cs, call.maxBatch, call.budget)
    /\ status' = "running"
    /\ UNCHANGED <<call, answers, aligned, result, heard, predicted>>

(* the four entry points; the two of the aligner hand a call without time      *)
(* stamps to the other two, which refuse a call with them                      *)
Transcribe == call.entry = "transcribe" /\ ~call.timestamps /\ Prepare
TranscribeTimed == call.entry = "transcribe_timed" /\ ~call.timestamps /\ Prepare
TranscribeAligned == call.entry = "aligner" /\ call.timestamps /\ Prepare
TranscribeAlignedTimed == call.entry = "aligner_timed" /\ call.timestamps /\ Prepare

Delegate ==
    /\ status = "called" /\ Aligner /\ ~call.timestamps
    /\ call' = [call EXCEPT !.entry = IF Timed THEN "transcribe_timed" ELSE "transcribe"]
    /\ UNCHANGED <<chunks, groups, answers, aligned, result, status, heard, predicted>>

Refuse ==
    /\ status = "called" /\ ~Aligner /\ call.timestamps
    /\ status' = "failed"
    /\ UNCHANGED <<call, chunks, groups, answers, aligned, result, heard, predicted>>

(* the chunks of the group that is run next *)
Rows(g) == [k \in 1..Len(g) |-> chunks[g[k]]]

(* the micro-batches of a group; the timed entry points only cap them by the   *)
(* group itself                                                                *)
MicroBatches(g) == Rebatch(Rows(g), IF Timed THEN Len(g) ELSE call.maxBatch)

(* what a group writes: its answers by chunk *)
GroupAnswers(g, says) ==
    LET raws == Generated(Rows(g), MicroBatches(g), says)
    IN [i \in ToSet(g) |->
          LET k == CHOOSE k \in 1..Len(g) : g[k] = i
              read == Parse(raws[k].raw, call.audios[chunks[i].of].forced)
          IN [lang |-> read.lang, text |-> read.text, stretch |-> raws[k].stretch]]

(* a map with the entries of another *)
Added(f, g) ==
    [x \in DOMAIN f \cup DOMAIN g |-> IF x \in DOMAIN f THEN f[x] ELSE g[x]]

(* the answers of the next group are stored *)
Answer(g, says, texts) ==
    /\ answers' = Added(answers, texts)
    /\ heard' = Added(heard,
         [i \in ToSet(g) |-> says[CHOOSE k \in 1..Len(g) : g[k] = i]])
    /\ groups' = Tail(groups)
    /\ UNCHANGED <<call, chunks, result, status>>

(* a group without alignment: prepared, generated and parsed *)
AsrGroup ==
    /\ status = "running" /\ groups # <<>>
    /\ \E says \in [1..Len(Head(groups)) -> Raws] :
         Answer(Head(groups), says, GroupAnswers(Head(groups), says))
    /\ UNCHANGED <<aligned, predicted>>

RunAsr == call.entry = "transcribe" /\ AsrGroup
RunAsrTimed == call.entry = "transcribe_timed" /\ AsrGroup

(* the chunks of a group whose text is not blank: only those are aligned *)
ToAlign(texts) == {i \in DOMAIN texts : texts[i].text # "nothing"}

(* a group whose texts are also aligned; a text without a word is an error *)
AlignedGroup ==
    /\ status = "running" /\ groups # <<>>
    /\ \E says \in [1..Len(Head(groups)) -> Raws] :
       \E texts \in {GroupAnswers(Head(groups), says)} :
         /\ \A i \in ToAlign(texts) : texts[i].text = "words"
         /\ Answer(Head(groups), says, texts)
         /\ \E stamps \in [ToAlign(texts) -> Stampings] :
              /\ aligned' = Added(aligned,
                    [i \in DOMAIN stamps |-> AlignItems(chunks[i], stamps[i])])
              /\ predicted' = Added(predicted, stamps)

RunAligned == call.entry = "aligner" /\ AlignedGroup
RunAlignedTimed == call.entry = "aligner_timed" /\ AlignedGroup

(* a group fails: features, generation, decoding or alignment return an error, *)
(* or a text that is not blank has no word to align (encode_timestamp bails);  *)
(* the whole call returns the error                                            *)
FailGroup ==
    /\ status = "running" /\ groups # <<>>
    /\ status' = "failed" /\ groups' = <<>>
    /\ UNCHANGED <<call, chunks, answers, aligned, result, heard, predicted>>

(* the chunks of an audio, in the order of chunks *)
OwnChunks(i) == Ascending({k \in 1..Len(chunks) : chunks[k].of = i})

(* what is returned for audio i *)
MergedAudio(i) ==
    LET own == OwnChunks(i)
        spoken == Ascending({k \in 1..Len(own) : answers[own[k]].text # "nothing"})
    IN [language |-> MergeLanguages([k \in 1..Len(own) |-> answers[own[k]].lang]),
        text |-> [m \in 1..Len(spoken) |-> answers[own[spoken[m]]].stretch],
        items |-> RepairMerged(FlattenSeq([k \in 1..Len(own) |->
                    IF own[k] \in DOMAIN aligned THEN aligned[own[k]] ELSE <<>>]))]

(* every group has run: the answers go back to the audios *)
Merge ==
    /\ status = "running" /\ groups = <<>>
    /\ result' = [i \in 1..Len(call.audios) |-> MergedAudio(i)]
    /\ status' = "answered"
    /\ UNCHANGED <<call, chunks, groups, answers, aligned, heard, predicted>>

MergeOutputs == call.entry = "transcribe" /\ Merge
MergeOutputsTimed == call.entry = "transcribe_timed" /\ Merge
MergeAligned == call.entry = "aligner" /\ Merge
MergeAlignedTimed == call.entry = "aligner_timed" /\ Merge

OfflineNext ==
    \/ Transcribe \/ TranscribeTimed \/ TranscribeAligned \/ TranscribeAlignedTimed
    \/ Delegate \/ Refuse
    \/ RunAsr \/ RunAsrTimed \/ RunAligned \/ RunAlignedTimed \/ FailGroup
    \/ MergeOutputs \/ MergeOutputsTimed \/ MergeAligned \/ MergeAlignedTimed

OfflineSpec == OfflineInit /\ [][OfflineNext]_offlineVars

-----------------------------------------------------------------------------
(* Properties *)

Prepared == status \in {"running", "answered"}

(* The chunks of every audio follow each other from its first sample to its    *)
(* last, each with the offset it starts at and none longer than the chunk      *)
(* length plus the search distance; a cut falls on a silent sample whenever    *)
(* the stretch that is searched has one (split_audio_into_chunks).             *)
ChunksTileAudio ==
    Prepared => \A i \in 1..Len(call.audios) :
        \E own \in {OwnChunks(i)} : \E audio \in {call.audios[i]} :
            /\ own # <<>>
            /\ chunks[own[1]].from = 0 /\ chunks[own[Len(own)]].to = audio.len
            /\ \A k \in 1..Len(own) : \E c \in {chunks[own[k]]} :
                 /\ c.offset = c.from
                 /\ c.to > c.from \/ audio.len = 0
                 /\ c.to - c.from <= Most(ChunkMax, ChunkMax + Expand(ChunkMax) - 1)
                 /\ c.samples >= c.to - c.from
            /\ \A k \in 1..Len(own) - 1 : \E c \in {chunks[own[k]]} :
                 /\ chunks[own[k + 1]].from = c.to
                 /\ \E searched \in {c.from + ChunkMax - Expand(ChunkMax)
                          ..Least(c.from + ChunkMax + Expand(ChunkMax), audio.len) - 1} :
                      (searched \cap audio.quiet # {} /\ Cardinality(searched) > Win)
                          => c.to \in audio.quiet

(* The groups still to run and the chunks already answered are all the chunks, *)
(* each once; a group keeps to the count and to the audio budget unless it is  *)
(* one chunk that is too long by itself; a micro-batch of it keeps to the      *)
(* count and is not padded by more than a third (group_chunk_indices,          *)
(* rebatch_prepared_inputs).                                                   *)
GroupsWithinBudget ==
    (status = "running") =>
        /\ \A i \in 1..Len(chunks) :
             Cardinality({p \in (1..Len(groups)) \X (1..Len(chunks)) :
                            p[2] <= Len(groups[p[1]]) /\ groups[p[1]][p[2]] = i})
                + (IF i \in DOMAIN answers THEN 1 ELSE 0) = 1
        /\ \A g \in ToSet(groups) :
             /\ g # <<>> /\ (call.maxBatch # 0 => Len(g) <= call.maxBatch)
             /\ \/ call.budget = 0
                \/ Total([k \in 1..Len(g) |-> chunks[g[k]].samples]) <= call.budget
                \/ Len(g) = 1
             /\ \A m \in ToSet(MicroBatches(g)) : \A a, b \in ToSet(m) :
                  /\ call.maxBatch # 0 => Len(m) <= call.maxBatch
                  /\ 3 * PromptLen(Rows(g)[a]) <= 4 * PromptLen(Rows(g)[b]) + 2

(* Whatever the grouping, the answer of an audio is made of what the           *)
(* recogniser wrote for its own stretches, every stretch that has a text       *)
(* once, in the order of the audio, read with the language asked for that      *)
(* audio (the merge loops of transcribe and transcribe_with_forced_aligner).   *)
AnswersInOrder ==
    (status = "answered") => \A i \in 1..Len(call.audios) :
        \E own \in {SplitAudio(i, call.audios[i], ChunkMax)} :
        \E first \in {Cardinality({k \in 1..Len(chunks) : chunks[k].of < i})} :
        \E read \in {[k \in 1..Len(own) |->
                        Parse(heard[first + k], call.audios[i].forced)]} :
            /\ result[i].text =
                 [m \in 1..Cardinality({k \in 1..Len(own) : read[k].text # "nothing"}) |->
                    Stretch(own[CHOOSE k \in 1..Len(own) :
                        /\ read[k].text # "nothing"
                        /\ Cardinality({j \in 1..k : read[j].text # "nothing"}) = m])]
            /\ \A l \in {read[k].lang : k \in 1..Len(own)} \ {""} :
                 l \in ToSet(result[i].language)
            /\ \A k \in 1..Len(result[i].language) - 1 :
                 result[i].language[k] # result[i].language[k + 1]

(* the stamps predicted for audio i, each moved to its place in the audio      *)
MovedStamps(i) ==
    FlattenSeq([k \in 1..Len(OwnChunks(i)) |->
        LET c == OwnChunks(i)[k]
        IN IF c \in DOMAIN predicted
           THEN [j \in 1..Len(predicted[c]) |-> predicted[c][j] + chunks[c].from]
           ELSE <<>>])

(* The time stamps of an answer never run backwards, over the chunks of an     *)
(* audio too; those that were in order are returned as predicted, and within   *)
(* one chunk no more stamps are changed than needed (fix_timestamp,            *)
(* repair_merged_align_items, offset_align_items).                             *)
StampsRepaired ==
    (status = "answered") => \A i \in 1..Len(call.audios) :
        \E raw \in {MovedStamps(i)} : \E final \in {StampsOf(result[i].items)} :
            /\ Len(final) = Len(raw) /\ NonDecreasing(final)
            /\ NonDecreasing(raw) => final = raw
            /\ \A a, b \in 1..Len(result[i].items) :
                 a < b => \E v, w \in {result[i].items[a].word, result[i].items[b].word} :
                            /\ v = result[i].items[a].word /\ w = result[i].items[b].word
                            /\ \/ v[1].to <= w[1].from
                               \/ v[1] = w[1] /\ v[2] < w[2]
            /\ (Cardinality(DOMAIN predicted \cap ToSet(OwnChunks(i))) = 1) =>
                 \A S \in SUBSET (1..Len(raw)) :
                    (\A a, b \in S : a < b => raw[a] <= raw[b]) =>
                        Cardinality({k \in 1..Len(raw) : final[k] = raw[k]}) >= Cardinality(S)
=============================================================================
