# vASR (Qwen3ASR.rs) in TLA+

TLA+ modules for the parts of vASR whose correctness depends on order, sharing,
padding and failure: the paged KV block manager with the batch scheduler and the
CUDA graphs above it, greedy decoding in all its ways to batch and cache, the
thread that runs inference tasks, the pipelines that take the inputs of a call
through loading, voice activity detection (VAD) and recognition, offline and
streaming recognition, the endpoint detector, and a client of the realtime
service. TLC checks each module on small instances; for the block manager and its
abstract pool, the batch scheduler, the inference scheduler, the transcription
pipeline, a stream of audio and its text and the lengths of audio
TLAPS proves the main properties for all instances.

All source paths below are relative to `src/`.

## 1. Inventory

### How the parts interact

```
 HTTP handler / CLI                                realtime websocket
        |                                                  |
 AsyncTranscribePipeline::transcribe_many           RealtimeSession
   loader -> VAD stage -> ASR worker                AudioBytesStream
   (tasks, bounded channels)                        RealtimePipeline
        |                                                  |
        +---- ScheduledAsrModel (submit_blocking) ---------+---- streaming VAD, AsrStream
        |
 InferenceScheduler: priority queue, one worker thread
        |
 offline transcription (chunks, prompts, batches)
        |
 AsrBatchScheduler::run_continuous_prepared  --- or a static batch
        |     waiting queue, running slots
 paged_batch_prefill / paged_batch_decode_slots_at_step
        |
 PagedBlockManager (blocks of the KV cache), PagedKvCache (tensors)
```

The pool of KV blocks lives as long as the model, inside `Mutex<PagedCacheRuntime>`;
a run of the batch scheduler holds the mutex from start to end, so runs follow
each other on one pool and what a failed run leaves behind is met by the next.
Tasks of several callers meet in the inference scheduler's queue. The stages of
one `transcribe_many` call run at the same time and communicate through
channels only.

### Components

| component | state | operations | what makes it correct |
|---|---|---|---|
| Paged KV block manager (`vasr-paged-attn/src/paged_cache_runtime.rs`) | free list, table of blocks per request | `allocate_slots`, `try_allocate_slots`, `trim_request_to_num_tokens`, `free_request`, `free_many` | every block in one place; no two tokens share a KV slot; KV already written stays where it is; allocation is all or nothing |
| Paged KV cache (`paged_kv_cache.rs`) | key and value tensors | write a token's KV at the slot its block table gives, gather a context | positions are written once each, in order; a row reads its own |
| CUDA graphs (`paged_cache_runtime.rs`, `cuda_graph.rs`) | captured graphs by padded shape, disabled shapes | prewarm, capture, replay, evict, disable | a replayed graph does what an eager step would |
| Continuous batch scheduler (`vasr-models/src/inference/batch_scheduler.rs`, `model/paged_batch_engine.rs`) | waiting queue, slots, outputs, request ids | admission, wave prefill, decode step of a group, freeing; static micro-batches | every client answered, in order of admission; ids and blocks of slots never shared; a run ends, and gives its blocks back |
| Text generation (`model/generation.rs`, `thinker*.rs`, `attention.rs`, `kv_cache.rs`) | KV caches, masks, thread-local prefix templates | greedy decoding of one row, cached, batched, paged, hybrid, static | a row is answered as if it were alone and uncached |
| Processor and audio tower (`processor/`, `model/audio_encoder.rs`) | none | padding of features and prompts, placeholders, embeddings | as many embeddings as placeholders, for every length and batch |
| Inference scheduler (`vasr-runtime/src/scheduler.rs`) | sequence counter, heap under a mutex, condition variable | `submit`, `submit_blocking`, `worker_loop` | no lost wakeup, submission order, realtime first, every submission returns |
| Transcription pipeline (`vasr-transcribe/src/pipeline.rs`) | tasks, two channels, stash, segment state | `transcribe_many`, its stages, micro-batches | an outcome for each input; whole timelines; the call returns |
| Offline pipeline (`vasr-runtime/src/pipeline/mod.rs`, `async.rs`) | one channel, stash of one message, segment state | `transcribe_many`, its two tasks | the answer of the pipeline without tasks; stretches cover the speech; the call returns |
| Offline batch transcription (`inference/transcribe.rs`, `audio/chunking.rs`, `forced_aligner/`) | chunks, groups, answers of a call | `transcribe`, with and without aligner and timing | chunks tile the audio, texts come back in place, time stamps never run backwards |
| Realtime pipeline and server (`pipeline/mod.rs`, `vasr-realtime`, `vasr-data/src/stream.rs`) | byte buffer, two streaming models | append, finish | no byte lost or repeated; one final text, and nothing after it |
| Streaming recognition (`inference/streaming.rs`) | sample buffer and offset, cached features, committed text | `push_audio_chunk`, `finish` | each sample is consumed once, also after an error; caches match the audio |
| VAD (`vasr-runtime/src/models/e2e_vad.rs`, `vad.rs`) | window, state machine, counters, segments; pending samples | detect in chunks of features; push, finish | segments in order, apart, around the speech, and independent of the chunks |

Not stateful, and left out: tensor arithmetic, kernels, quantisation, mel
features, vocabulary, data types, configuration, downloads (see section 8).

### What is hard

- **Failure half-way.** A prefill that fails after its prompts have blocks; a
  batch of segments that fails while other segments of the same input are on
  their way; a panic in a task on the only worker thread.
- **Interleaving.** Channels and stashes reorder messages between the VAD tasks
  and the ASR worker; sequence numbers are taken outside the lock; the condition
  variable is notified after it is released.
- **Limits.** The pool is empty in the middle of an admission wave or of a decode
  group; bounded channels and full micro-batches wait for each other.
- **Stale state.** Slots that were refused a block stay in the group whose step
  is raised; request ids are reused by the next run; a stream reuses encoded
  audio whose last frame or normalisation may have changed; a prefix template is
  kept for the life of its thread; a CUDA graph is replayed for other rows.
- **Regrouping.** Rows are padded, sorted by length, packed, cut into groups and
  micro-batches, and put together again, in three places one above the other.
- **Counting.** Placeholders and embeddings, frames and samples, bytes and
  samples, and chunk boundaries are computed on both sides of an interface.

`PROJECT.json` lists the hazards at their lines with the properties that
cover them.

## 2. Plan

Each module with its MC module, in the order they were written: `PagedBlocks`,
`BlockManager` and `BlockPool`; `ContinuousBatch`; `InferenceScheduler`;
`TranscribePipeline`; `AsrStream`; then `E2EVad`, `RealtimeSession`,
`GreedyDecode`, `OfflineTranscribe`, `OfflineCall` and `OfflineAsync`,
`DecodeGraphs`, `AudioLengths`. There is one passing run for each module that is
checked on its own, and one run for a disagreement with a test.

What would come next:

1. A model of several calls of `TranscribePipeline` and realtime sessions above
   one `InferenceScheduler`, to say what the priority costs a transcription.
2. Recovery after a panic: the worker's death (`scheduler.rs:153`) together with
   the poisoned lock of the KV runtime (`batch_scheduler.rs:319`).
3. Proofs: for `E2EVad`, that the split into chunks cannot be seen
   (`ChunkingInvisible`), which needs two detectors side by side.

## 3. Modules

| module | models | proofs |
|---|---|---|
| `PagedBlocks` | the manager's operations as functions on a manager record; slot of a position | `PagedBlocks_proofs` |
| `BlockManager` | any order of calls on one manager by several requests | `PagedAttention_proofs` |
| `BlockPool` | abstract: blocks with at most one owner, all-or-nothing grants | `PagedAttention_proofs` |
| `ContinuousBatch` | `run_continuous_prepared` and the engine's prefill and decode steps, several runs on one pool | `ContinuousBatch_proofs` |
| `GreedyDecode` | greedy decoding in `generation.rs` and the static batches of the paged engine, several calls on one pool | `GreedyDecode_proofs` |
| `AudioLengths` | lengths of features, placeholders and embeddings; no state | `GreedyDecode_proofs` |
| `DecodeGraphs` | captured CUDA graphs and the decode steps that use them | `PagedAttention_proofs` |
| `InferenceScheduler` | callers, heap, condition variable, worker | `Runtime_proofs` |
| `TranscribePipeline` | one `transcribe_many` call of `vasr-transcribe` | `TranscribePipeline_proofs` |
| `OfflineCall` | abstract: what a call of the runtime's offline pipeline returns | `Offline_proofs` |
| `OfflineAsync` | the tasks of `AsyncOfflinePipeline`, which implement `OfflineCall` | `Offline_proofs` |
| `OfflineTranscribe` | one call of each entry point of `inference/transcribe.rs` | `Offline_proofs` |
| `AsrStream` | one stream: `push_audio_chunk` and `finish`, with the feature extractor | `AsrStream_proofs` |
| `E2EVad` | the endpoint detector, offline and in streaming sessions | `Runtime_proofs` |
| `RealtimeSession` | one client of the realtime service | `Runtime_proofs` |

`MC*` modules give TLC the values of the constants. Definitions named in a
"Mutant" comment are plausible bugs; nothing uses them.

### PagedBlocks, BlockManager, BlockPool

A manager is `[free, table]`: the `VecDeque` of free blocks and the `HashMap`
from requests to their blocks. `Allocate`, `Trim` and `FreeRequest` translate
the three state-changing functions, the free list's order included (the front
is handed out; a returned table is pushed last block first). `BlockManager`
keeps one manager and the last reply, and calls any operation for any request
and number of tokens up to `MaxTokens`. `BlockPool` knows only who owns which
block. `BlockManager!ImplementsPool` is the refinement: owners are read off the
tables, and `allocate_slots`'s error and `try_allocate_slots`'s `false` are both
a refusal.

### ContinuousBatch

`pc` is the place in the scheduling loop: free the finished, decode group by
group (`group`, `alloc`, `forward`), free again, `admit`, `prefill`, `install`,
`check`, `unwind`. A slot is `[client, request, prompt, made, step, finished]`;
`made` is the length of `generated` and `step` is `decode_step`. An answer is
the number of tokens before an end-of-sequence token. `SumOf` is a `sum()` over
the slots: what the function counts, counted together. Every block operation is
one of `PagedBlocks`, every early return and `?` is an action or a guard:
`NoneDecodable` (all refused: returns Ok), `NoneActive` (all at their end:
raises the step of the whole group), `DecodeFails`, `PromptDoesNotFit`, and the
failing outcome of `PrefillForward`. `FreeRunning` is `free_all_running`, which
runs on every way out. `Return` forgets everything but the pool.

A step of the loop body is atomic between two points where the source can stop
or fail; the run holds the runtime's mutex, so nobody else sees the states in
between. Two history variables carry what the weaker forms of the violated
properties except: `stale`, the requests that held blocks when the run started,
and `refused`, the clients that were refused a block for their next token.

### InferenceScheduler

A submission is `TakeNumber` (the `fetch_add`), `Push` (under the lock),
`Notify` (after it), `Receive`; `DropFuture` models a dropped future of
`submit`. The worker's emptiness test and its wait are one step, as
`Condvar::wait` releases the mutex atomically; spurious wakeups are possible at
any time. `Panic` ends the thread, drops the running closure with its sender and
leaves the queue, which is in a shared `Arc`, as it is. `before` is a history
variable: the tasks already queued when a submission began.

### TranscribePipeline

One call: `Start` or `Single` (one distinct input). `loading` is the loader's
`JoinSet`; `SendLoaded` joins any of its tasks when it is full or no input is
left. `loaded` and `asr` are the channels of capacity `Buffer` (`stage_buffer`).
`vad[i]` holds the messages the VAD task of input `i` has still to send: one job,
or a segment each. The ASR worker receives (stash first), collects a batch of
jobs (`CollectJob`, no timeout) or of segments (`CollectSegment`, until the
channel has been empty for the timeout: any time it is empty), stashes the other
sort in `pending`, and runs the batch. `open` is `SegmentAsrState`. `heard` is
history: the number of segments of an input.

A timeline is the bag of what was put into it, so that "whole" can be said: 0
for the VAD's annotations, `k` for segment `k`; its order does not matter, as
stashed segments are overtaken (section 6). `WholeTimeline` is what
`OfflinePipeline::transcribe_prepared` gives the same input, and what the job path
answers. `outcomes` is the bag of what was pushed to the outcomes of the call.

Simplifications: a recognised segment has text; the outcomes are a bag, since
they are sorted by index at the end; the pipeline has a VAD model, as
`build_offline_pipeline` always gives it one; blocking tasks do not panic (the
served recogniser turns panics into errors, `vasr-transcribe/src/serve.rs:432`).

### AsrStream

One stream, used by one caller. `Push` starts `push_audio_chunk`; `NextChunk` is
the head of its loop (samples to the extractor, `buffer_offset`, and the clearing
of text in the warm-up), `ComputeAudio` and `Generate` are the decode step,
`EndPush` the end of the loop with its drain. `FinishTail` and `FinishEmpty` are
`finish`, which decodes through the same two actions with `closing` set.
`DecodeFails` is every `?` of the decode step: it leaves the loop before the
drain, so the next call starts from an advanced `offset`.

Samples are numbers, so that order and repetition can be seen. A frame is what it
was computed from: the length of the audio, if its window reaches past the end
and the padding reflects there, else 0; normalised it is paired with `level`, the
loudest value of all frames (`compressed_max_log`), which an append may change.
Encoded audio is, for each frame, the frames of its attention segment, so audio
that was cached too long differs from fresh audio. A token is a whole character,
half of one, or a literal replacement character; `Decode` gives a replacement
character for a half that stands alone, and `TokensOf` is the tokenizer's
`encode`. A text has as many places as tokens, `"joined"` followed by `"rest"`, so
that a character is at the place of its tokens.

Simplifications: `append_samples` and the tokenizer do not fail (they do so only
on internal errors); parsing the language out of an answer is left out; encoding
a text that was decoded from whole characters gives their tokens back. That
frames before the last do not change, and that segments are encoded
independently of each other, are what the code relies on: the first is computed
from the real proportion of window and hop, the second is how
`cu_seqlens_from_aftercnn_len` cuts the attention.

### GreedyDecode

The KV cache is what makes decoding hard to test: a wrong mask, position or
template still gives fluent text. Here the content of a place in the cache is the
*context* its token was computed from, the sequence of embeddings it attended,
each once and in its place (`Attend`), and `Wrong` otherwise; the model is a
function from a context to the next token. So any path can be compared with the
definition, the row decoded alone without a cache (`Answer`).

The entries are `StartAlone`, `StartCached`, `StartPaged`, `StartBatch`,
`StartStatic` and `StartHybrid`, each with its loop (`...Step`) and its return
(`BatchReturn`, `StaticReturn`). A call chooses a batch, the side it is padded on
and a limit; `build` says device, features and attention path: CPU, Metal (with
the hybrid prefill of unsuitable batches), paged Metal, and CUDA with flash
attention and packed prefill. `Sees` says which keys a query attends under each.
`templates` is the thread-local map of prefix KV; `mgr` and `pool` are the block
manager and the slots of the shared runtime, which a failed call leaves behind
(`left`).

`EachRowAsIfAlone` makes one exception, a prefix taken from a template in a batch
with padding on flash attention (section 6). Packed prefill without varlen flash
attention and padding on the left are no cases of the run; what happens there is
in section 6 too.

Simplifications: rotary angles are positions; the sliding of a cache's storage
and the timing variants are left out; a forward pass does not fail except for
want of blocks.

### AudioLengths

No state: `Prepared` is a prompt with as many placeholders as
`feat_extract_output_length` says, for features padded in one of three `Modes`;
`Embeddings` counts the rows the tower keeps of its padded chunks. That these
agree is `BatchFits`, which the run `generation` checks on recordings around every
boundary, since it is what `GreedyDecode` takes for granted about the audio of a
prompt; that they agree for every length is proved. `feat_lengths.rs` is written
for chunks of 100 frames while the tower reads `n_window` from the model's
configuration, so `AudioAssumption` fixes `Window = 100`.

### DecodeGraphs

A graph is what its capture fixed: its padded shape, the block-table columns its
kernels run over (`bound`), and whether `prewarm` made it. `Step` decodes one
token for a group of rows of equal table width: `Replay` when the key of its
padded shape is in the cache, `Capture` when it is enabled and missing,
`GraphFails` (the shape is disabled and the step runs eagerly), or `Eager`;
`Refused` is the error of a batch wider than the configured maximum. `Prewarm`
writes to the blocks from 1 on before any request is served. The forward pass is
reduced to what each row writes and attends to; the content of blocks of requests
that left is replaced by junk, as nobody may read it. Input buffers of graphs are
overwritten at every replay and left out. Running out of blocks is
`ContinuousBatch`'s concern.

### OfflineCall, OfflineAsync

`OfflineCall` is `OfflinePipeline::transcribe`: `TimelineOf` a waveform is its
speech and the texts of the stretches made of it (`MergedSegments`, `PaddedRange`,
`Preparation`), and a call returns them in order, or an error once a model has
failed. `OfflineAsync` has the VAD task (`Detect`, `Send`, `VadDone`), the
recognising task with its micro-batches and its stash of one message
(`ReceiveMessage`, `Collect`, `RunJobs`, `RunSegments`, their failures and panics, `AsrDone`), and
the caller (`Single`, `CollectResults`). `AsCalled` is the refinement.

### OfflineTranscribe

One call: `Prepare` cuts the audios at quiet places and groups the chunks,
`AsrGroup` and `AlignedGroup` generate a group in micro-batches, parse and align,
and `Merge` puts everything together per audio. Audio is counted in blocks of
samples; a chunk's text *is* its stretch, so that a text that lost its way shows.
What the recogniser writes (with and without language, metadata only, nothing)
and what the aligner predicts are inputs. `FixTimestamp` is the longest
non-decreasing subsequence with interpolation. A loop of the code is a recursive
function over its turns, whose body is an operator named for one turn (`CutOff`,
`PutChunk`, `PutRow`, `PutLanguage`, `RunTo`, `PathTo`).

Simplifications: equal keys of `sort_unstable` stay in order; milliseconds are
integers; the timed entry points cap their micro-batches by the group only, as
the code does; the `prepared_jobs` path of `run_asr_jobs_batch` needs jobs the VAD
worker never makes.

### E2EVad

The detector is a record `d` whose fields are those of `E2EVadModel` and its
window; `Chunk` is `detect_chunk`, frame by frame. `StartOffline` and `OfflineChunk`
detect a waveform in
chunks of features; `PushSamples`, `FinishPadded` and `FinishEven` are a session, which
cuts samples into chunks of 512 and scores each as one frame; `PushSamplesFails` and
`FinishFails` lose what the code loses. The loops over frames, chunks and pieces of
output are recursive functions of the number of turns taken. A frame's opinion is the input: speech or
not. The tests on decibels never decide with the default thresholds of -100.

### RealtimeSession

A byte is its position in what the client appended. `Append64`, `Finish`,
`Invalid`, `Ignored` and `Close` are the messages of `run_socket`; a handler is one
step, since the loop reads the next message only when it is done. `Cut` and
`Flushed` are the byte stream; the recogniser has text for a chunk or not, and each
model may fail on it (`Outcomes`); a send may find the socket closed.

## 4. Runs

| run | configuration | what it shows |
|---|---|---|
| `block_manager` | 3 blocks of 2 tokens, 2 requests, requests for up to one token more than the pool | `EveryBlockInOnePlace`, `KvSlotsNeverAlias`, `KvSlotsStay`, and the refinement `ImplementsPool` under any order of calls |
| `continuous` | 2 runs, 3 clients at most, 2 slots, 6 blocks of 2 tokens, prompts of 3, 4, 10, 11 tokens, limit of 4 tokens | clients in one place and in order (`EveryClientKeepsItsPlace`); ids not shared, blocks given back (`BlocksFollowTheirSlots`); admitted prompts fit a clean pool, giving up only on what never fits (`AdmissionIsExact`); for clients never refused a block KV in order and whole answers (`WholeUnlessRefused`); every run ends unless all its sequences are starved of blocks (`RunsEndUnlessStarved`) |
| `generation` | 2 calls of up to 2 rows, 4 builds, 4 prompts, limits of 0 and 2 tokens, 5 blocks of 2 tokens; recordings around every boundary of frames and chunks | every row answered as if alone (`EachRowAsIfAlone`), templates and masks those of their rows (`CachesHoldTheirRows`), blocks left by failed calls only (`BlocksLeftByFailuresOnly`), a placeholder for each embedding (`PlaceholdersMatchAudio`) |
| `decode_graphs` | 3 requests, 9 blocks of 2 tokens, contexts of up to 6, prewarm for none, 1, 4 or 5 rows, one failure of CUDA | rows attend to their own tokens (`RowsSeeThemselves`), the cache is bounded and prewarmed graphs fit every context of their shape (`CacheSound`), prewarm captures every bucket (`BucketsCover`) |
| `scheduler` | a realtime task and two transcriptions, one may panic, one future may be dropped | submission order (`SubmissionOrder`), realtime first (`RealtimeFirst`), `NoLostWakeup`, answers while the worker lives (`ReturnsWhileWorkerLives`) |
| `transcribe` | 2 or 3 inputs with duplicates, capacity 2, up to 3 segments each, all stages may fail | nothing forgotten and one outcome unless recognition fails (`EveryInputAnswered`), successes whole (`OkIsWhole`), the call returns (`CallReturns`) |
| `offline_async` | calls of 1 or 3 waveforms without, with and with merged speech, channel of 1, batches of 2, models that fail or panic | the tasks implement `OfflineCall` (`AsCalled`), the call returns (`Returns`), stretches cover the speech (`RangesCoverSpeech`; every way to find two or three stretches in nine units) |
| `offline` | all four entry points; audios of up to 11 blocks, chunks of at most 3, 4 or 6, counts, budgets and buckets | `ChunksTileAudio`, `GroupsWithinBudget`, `AnswersInOrder`, `StampsRepaired` |
| `stream` | 9 option records, 10 samples pushed in up to 3 at a time, hop 2, half window 3 | samples consumed once (`SamplesOnceInOrder`), audio fresh (`AudioIsFresh`), committed text kept, whole and answers stable (`TextIsStable`, `SplitKeepsText`), final answer current (`FinalAnswerCurrent`) |
| `vad` | every sequence of speech and silence of up to 12 frames; windows, waits and limits of 1 to 6 frames | `SegmentsInOrder`, `ChunkingInvisible`, `SegmentsFollowSpeech` |
| `vad_streaming` | the same, streams in whole chunks | **violated** `OfflineMatchesStreaming`: a stream's frames are counted as a third of their time |
| `realtime` | up to 14 bytes in pieces of 1, 5 and 8, chunks of 4, 4 messages | `ChunksAreTheAudio`, `FinalTextOnce` |

The type invariants of `BlockManager` and `InferenceScheduler` are theorems; those
of `ContinuousBatch`, `TranscribePipeline` and `GreedyDecode` are the first conjunct
of `EveryClientKeepsItsPlace`, `EveryInputAnswered` and `CachesHoldTheirRows`;
`AsrStream`'s is divided between `AudioIsFresh` (`AudioTyped`) and `SplitKeepsText`
(`TextTyped`). All but `GreedyDecode`'s are theorems as well.

**Why the bounds are enough.** Three blocks and two requests are enough for a
block to be freed by one request and handed to the other, for tables of several
blocks, for partly filled blocks (two tokens each) and for refusals. The pool of
the continuous run is chosen so that two short sequences are both admitted and
cannot both grow, a prompt of 10 fits only an empty pool, and one of 11 leaves
no headroom; three clients on two slots make a slot be reused. Two runs are
needed for leftovers of a run to meet the next.

Two calls of `GreedyDecode` are what a template and a leftover block need: one
call to make them, one to meet them. Two rows are all that padding, packing and
sharing involve, and the prompts differ in length, in audio and in how long a
prefix they share; the stops are before, at and after the limit. Recordings are
checked one short of, at and one over a frame, a chunk of 100 frames and a
window of 800, alone and in pairs.

A graph's shape is rounded to 1, 2 or 4 columns of 2 tokens here (prewarm captures
1 and 2), and to 1, 2, 4 or the configured number of rows, so contexts of 6 tokens
pass both prewarmed widths, and 7 graphs are fewer than the shapes there are. `BucketsCover` compares buckets for all configurations up to 40
rows. (With the real constants there are fewer shapes than the cache holds, so
nothing is ever evicted.)

A capacity of 2 in `TranscribePipeline` lets batches be full or not and the stash
hold more than one message, and three segments of an input never fit in one
batch; in `OfflineAsync` a channel of 1 makes every send wait, and batches of 2
mix two waveforms.

An audio of 11 blocks is cut in up to four chunks, the last padded or not; the
stampings run backwards within a chunk, across chunks and at the end.

Ten samples are five chunks of two: enough for the warm-up, for the text window to
fill and be committed from several times, for the cached audio to pass two segment
boundaries of two frames, and for failures between them; hop and half window have
the shape of the real ones (160 and 200). The four audio streams vary chunk,
window and segment with one answer; the five text streams vary window, warm-up and
rollback with eleven answers, among them lone halves and replacement characters.

Twelve frames hold a segment cut off for its length, a pause, and another
segment after it; pushes of 3, 6 and 12 samples are half, one and two chunks.
Fourteen bytes are three chunks and a half, with every way for an odd byte to be
left when the stream is flushed.

Deadlock checking is off where a call returns, a stream is consumed, a client has
sent its messages or a caller may wait for a dead worker; the liveness properties
say what has to be reached.

## 5. Fairness

- `ContinuousBatch!FairSpec`: weak fairness of `Run`, the thread inside the
  call: a call that was made goes on. Nobody is obliged to start a run.
- `InferenceScheduler!FairSpec`: weak fairness of the worker (a task that
  started returns or panics) and of each caller once it has taken its number.
  No fairness for submissions, dropped futures or spurious wakeups.
- `TranscribePipeline!FairSpec`: weak fairness of `Next`. The tokio runtime polls
  every task that can run and the blocking calls return; as the steps of a call
  are finitely many, no stage can be starved by others.
- `OfflineAsync!AsyncSpec`: weak fairness of each of the two tasks and of the caller:
  tokio polls a task that can run, and blocking calls return.
- The other modules state safety only: their sequential calls end by their bounds.

## 6. Disagreements between code and what is said of it

One is a run, with its quotation in `PROJECT.json`:

- `vad_streaming`: `FsmnVadSession` scores each chunk of 512 samples by itself,
  one frame of features, and the detector counts a frame as 10 ms. The test
  `offline_fast_path_matches_streaming_session_segments` (`vad.rs:1245`) says that
  both ways find the same segments; it is ignored unless a model and a recording
  are at hand.

Others were found by checking the stronger form of a property; the property that
is checked now makes exactly the exception:

1. `can_admit_with_projected_kv` reserves one block of growth per running
   sequence, once; when all running sequences are refused a block the loop spins
   for ever (`paged_batch_engine.rs:231`; `Starved` in `RunsEndUnlessStarved`).
2. A refused slot's `decode_step` is raised when all slots of its group that got
   their block are at their end (`paged_batch_engine.rs:250`); later keys and
   values are written one position too far (`refused` in `WholeUnlessRefused`).
3. A failed prefill leaks the blocks of its wave (`paged_batch_engine.rs:448`), and
   the next run admits prompts that do not fit (`stale` in `AdmissionIsExact`).
4. A panic in a task leaves the other callers of the inference scheduler waiting
   (`scheduler.rs:153`; `ReturnsWhileWorkerLives`).
5. An input whose segments fail in two batches gets two outcomes
   (`vasr-transcribe/src/pipeline.rs:1004`; the recogniser in
   `EveryInputAnswered`), which `run` and `benchmark` pair with the wrong files.
6. Stashed segments are overtaken by later ones (`pipeline.rs:832`): timelines
   out of order, and without the VAD's annotations when the first segment is
   overtaken (`pipeline.rs:884`). `OkIsWhole` therefore counts the segments of a
   timeline and leaves their order and the annotations out.
7. A prefix template is used in a padded batch on flash attention, whose queries
   are counted from the last key (`thinker_text.rs:990`, where `kv_lens` counts the
   new tokens twice): rows with padding see the wrong keys
   (`FlashOnPaddedRemainder` in `EachRowAsIfAlone`).
8. The comment at `generation.rs:587` says `input_ids` are left-padded. Its callers
   pad on the right, and so does the run. Packed prefill on a CUDA build whose
   attention is not varlen flash attention (32-bit weights) mixes rows
   (`PackedTogether`).
9. A boundary between chunks is looked for on both sides of the wanted cut, up to
   5 seconds or half a chunk away (`Expand`), so a chunk can be longer than the limit
   it is cut for, and than the 180 s that the comment at `transcribe.rs:2016` says an
   aligned chunk has at most; `ChunksTileAudio` allows for that.
10. A graph captured while serving is laid out for the context of that step, but
    found by the rounded width of its table (`paged_cache_runtime.rs:568`), and
    replayed for longer contexts of that width (exempt in `RowsSeeThemselves`). A
    batch wider than `cuda_graph_max_batch` fails the run instead of decoding
    eagerly (`paged_cache_runtime.rs:533`; `Refused`). Prewarm fails the load when
    its rows and columns exceed the pool (`PrewarmFails`).

## 7. What is proved

For every number and size of blocks, every set of requests and every bound on
tokens (`PoolAssumption`: both positive), `PagedAttention_proofs`, on the lemmas
about the operations of `PagedBlocks_proofs`:

- `TypeCorrect`, `OnePlace`, `NeverAlias`: `Spec => []TypeOK`,
  `[]EveryBlockInOnePlace`, `[]KvSlotsNeverAlias`;
- `SlotsStay`: `Spec => KvSlotsStay`, an action property.

The argument: `EveryBlockInOnePlace` speaks of places as sets, which is awkward
for the prover. `Partitioned` says the same with positions: the free list and
the tables are injective, disjoint from each other, and together contain every
block. It is inductive with `IsManager`. Tables only grow at the end by a prefix
of the free list (`GrowTable`), and only lose a suffix that goes to the end of
the free list, or all (`ReturnTail`); each keeps `Partitioned`
(`AllocateKeeps`, `TrimKeeps`, `FreeKeeps`). Non-aliasing follows by dividing a
slot by the block size (`SlotUnique`). That slots stay needs only that an
operation leaves the common prefix of a table alone.

In the same module, the refinement:

- `PoolImplemented`: `Spec => ImplementsPool`.

The owner of a block is the request in whose table it is. In a partitioned pool
that is one request or nobody, and nobody exactly when the block is on the free
list (`OwnerKnown`); a request owns as many blocks as its table is long, because
a table without repetitions is a bijection onto them (`OwnedSize`). What each
operation does to the owners (`AllocateOwners`, `TrimOwners`, `FreeOwners`) is
then a step of the pool, and its answer the one the sizes ask for.

For every set of requests, pool, prompt length and limit of contexts, and builds that
pad prewarmed tables or do not, `PagedAttention_proofs` also proves of `DecodeGraphs`
(`PoolAssumption`, `BucketAssumption`, `PrewarmAssumption`):

- `RowsSee`, `CacheIsSound`, `BucketsAreCovered`: `DecodeSpec => []RowsSeeThemselves`,
  `[]CacheSound`, `[]BucketsCover`.

`BucketAssumption` says that the width of 256 tokens, the smallest that is prewarmed, is
its own next power of two, which it is for blocks of 8, 16 and 32 tokens;
`PrewarmAssumption` that what one prewarm asks for fits in the 256 graphs that are kept,
so that capturing one does not evict another. The invariant of the pool (`PoolInv`) is
`Partitioned` with one thing more, which slot holds which token (`KvOf`): a row writes
its token at the end of its context, in a block no other row has, and so disturbs no
context. What a graph reads was copied to its buffers before it was replayed, so of a
graph only its kernels matter (`GraphsInv`): those of a prewarmed one run over all
columns of its shape, and a step's table is padded to those columns, so its contexts are
never longer (`LongestIs` is the same for the steps that measure their rows). That buckets
cover is a fact about powers of two: up to twice a power of two, the larger of it and
the next power of two is one of the two widths that prewarm captures.

For every set of batches, number of slots, limit of tokens and number of runs
(`BatchAssumption`: none empty, the request ids of a batch known, the two limits
positive), `ContinuousBatch_proofs`:

- `PoolStaysPartitioned`: the scheduler's calls keep the pool a partition;
- `BlocksAlwaysFollow`, `AlwaysWhole`: `Spec => []BlocksFollowTheirSlots`,
  `[]WholeUnlessRefused`;
- `TypeCorrect`, `EveryClientPlaced`: `Spec => []TypeOK`,
  `[]EveryClientKeepsItsPlace`;
- `AdmissionAlwaysExact`: `Spec => []AdmissionIsExact`.

The run's properties lean on each other, so the invariant is one of nine parts,
each kept by each of the 22 actions (one lemma an action). Request ids are given
in the order of admission, and clients are admitted in the order of the batch:
a client is always one more than its request id (`Seated`, `Wave`). So the ids
below a moving mark, `Installed`, are those of clients with a slot or an answer,
the wave comes next and the queue last (`PlacesInOrder`), and no id or client is
met twice. `Holders` says who holds blocks between any two steps: earlier runs,
less the ids of this one, the slots, and the rows of a wave between prefill and
slot. `Groups` carries the reason why the shortcut of a group that has ended
entirely (`NoneActive`) touches refused slots only, and with it `InStep` that the
step of every other slot is the number of its tokens.

Type and admission need a second invariant on top of the first (`Fuller`): `Kinds`
is the type, `Limits` says that no sequence, refused a block or not, goes past the
limit of tokens, and `Room` is the account of the pool. During a wave, with no blocks
left over by an earlier run, `projected.used` is what is not free and what the rows
of the wave ask for; so a row that passed `can_admit_with_projected_kv` finds
its blocks when its turn comes. Where the account starts, `projected.used` is a sum
of what the slots hold. A sum is counted (`SumOf`), so no induction over the slots
is needed to compare it with the pool: the places in all tables are as many as the
blocks that are not free, because `Partitioned` is a bijection between them
(`BlocksAddUp`), and a slot's blocks are those of its request (`SumRenamed`).

For every set of tasks, priorities, panicking tasks and dropped futures
(`TaskAssumption`), `Runtime_proofs`:

- `TypeCorrect`, `WakeupNotLost`, `OrderKept`, `RealtimeGoesFirst`.

Neither the order nor the wakeup is inductive alone. The invariant `IInv` adds
`Accounted` (a caller has pushed its task exactly when the task is in the queue
or was started) and `Numbered` (a task that was queued before another took its
number has a smaller number): the first is why a queued task blocks the start of
a later one, the second why the heap prefers it.

For every set of calls, every capacity of the channels and of the batches, any
number of segments and any stages that may fail (`PipelineAssumption`: calls and
capacities not empty), `TranscribePipeline_proofs`:

- `TypeCorrect`: `Spec => []TypeOK`;
- `EveryInputAlwaysAnswered`, `OkAlwaysWhole`: `Spec => []EveryInputAnswered`,
  `[]OkIsWhole`.

The argument follows an input through the stages. While the stages run it is in one
of four positions (`Going`): not yet at the VAD stage, in one place before it
(`Unseen`, `Before`); one message for all of it on its way (`Alone`: a failure or
a job); answered; or in pieces (`InPieces`). In pieces, and as long as no batch with
one of them has failed, every segment is on its way or in the open timeline and one
at least is on its way, so the input cannot be forgotten. After a failure one segment
is in neither place for good, so the count of the segments can never reach the
number that would complete the timeline: the input may get a second error, but no
success that lacks a segment. For this no message may be in two of the VAD tasks, the
channel, the stash and the batch (`OnePlace`), and a batch has to be of one sort
(`Sorts`). When the stages have nothing left, an input that is not answered has no
position to be in; duplicates then get the outcome of the first of them (`Closed`),
and that there is a first is the least element of a set of numbers (`WFMin`).

For every set of streams with sane options (`StreamAssumption`), any number of
samples and pushes, and decodings that fail anywhere, `AsrStream_proofs`:

- `SamplesKept`: `Spec => []SamplesOnceInOrder`;
- `AnswerCurrent`: `Spec => []FinalAnswerCurrent`;
- `AudioAlwaysFresh`: `Spec => []AudioIsFresh`;
- `TextKeptWhole`: `Spec => []SplitKeepsText`;
- `TextAlwaysStable`: `Spec => TextIsStable`, an action property.

The properties speak of concatenations and of the end of the stream. The
invariant gives the sample at every position of the features and of the buffer
from its offset on (`Numbered`), says that `finish` has emptied the buffer before
it decodes (`Closed`), and that between decodings the last answer is for all the
features unless a decoding failed (`Answered`). `Consumed` is the one argument
that `NextChunk` and `FinishTail` share.

For the audio, three parts: the features are those of all the samples so far at the
present loudness (`Current`); the cache is what the audio it was made of, which is a
beginning of this one, would be encoded to at the loudness of that time (`Cached`);
what is given to a decoding is what all samples would be encoded to (`Given`). The work is in
one lemma without state, `ExtendingIsFresh`: encoding again from the start of the
last cached segment, and keeping what was cached before, is encoding everything,
since a frame's segment lies wholly before or wholly after that start, and no frame
before it has a window over the end of the audio.

For the text, the invariant says that committed tokens do not end in the first half
of a character, so that their text is the same whatever follows (`Texted`,
`DecodeJoined`), and that there are none during the warm-up, which is why clearing
the text then takes nothing back. That the prefix is long enough is `AlmostWhole`: of
a text that is not broken, its first tokens or all but the last of them are not
broken either, so looking for a whole prefix gives up one token at most. Without a
rolling window the prefix goes through text and back, which only replaces halves
that stand alone.

For every size of a chunk and of an append, any number of messages, and models and
sockets that fail anywhere (`ChunkAssumption`: whole samples, at least one;
`AppendAssumption`), `Runtime_proofs`:

- `AudioIsKept`, `FinalOnce`: `Spec => []ChunksAreTheAudio`, `[]FinalTextOnce`.

`InOrder` says that chunks hold consecutive bytes after one position and up to
another, with ranges counted on from a number of samples. It is kept by putting two
such sequences one after the other (`FollowInOrder`), and it is what `push` and
`flush` return for bytes that go on where the last ended (`CutInOrder`,
`FlushInOrder`). `LostBytes` is then only an account: an append leaves it, a finish
adds one at most and is reported, unless its report is what the socket fails on. For
the final text, the recogniser that has sent it is taken, so no events of later audio
have text; what is known while the socket is open (`FinalInv`) is stronger than
afterwards, because a failing send may stop between the final text and the report.
What the events of a message are is a recursion over its chunks; that it has a value
at all and what may be in it is shown by least counterexamples (`EventsOfChunks`).

For every window, threshold, lookback, lookahead and limit of the detector, every size
of frames, chunks and pushes (`VadAssumption`: at least one frame of window and of
lookback, speech takes two frames, a segment has room for both, a chunk for a frame;
the silence that ends a segment may be negative), `Runtime_proofs`:

- `SegmentsAlwaysInOrder`: `VadSpec => []SegmentsInOrder`.

Segments say nothing about the frames to come, so `VadInv` says where the detector is
after the last frame it was given (`Detecting`). It waits (`Waits`): all its output is
complete and ends before what is still buffered, and if nothing is buffered then the
window is silent, since one frame of speech is then too little to open a segment
behind the frame that follows. Or it is in a segment (`Speaks`): the last piece of
output is open, reaches from `confirmed_start_frame` to `data_buf_start_frame`, and is
not too long yet; and the last frame confirmed is the one before, unless silence has
lasted longer than the lookahead: then it lags by the difference. That is why the end
that silence puts to a segment, which is counted back from the current frame, is
the frame after the last one confirmed and is not given out twice; a segment that ends
for its length, or with the audio, first catches up.
`MatchedWaiting` and `MatchedSpeaking` are the two halves of the `match` on
the change of the window; `VoiceFromIs`, `VoiceStartIs` and `VoiceEndIs` are what it
calls. `pop_data_buf_till_frame` stops short when less than a frame of samples is left,
so `InStock` says that there are samples for every frame counted. The segments returned are in order
(`Listed`) and end no later than the last piece that was counted as given (`Before`);
`given` counts all pieces that are complete (`Done`), so what the next call returns
goes on from there (`ListedOn`), also when a chunk fails between two calls and
what was found is lost. With this theorem what `OfflineAsync` assumes of the segments
of a waveform (`InOrder` of `OfflineCall`) is what the detector returns.

For every model, every batch of prompts whose placeholders match their audio and
every pool (`DecodeAssumption`), `GreedyDecode_proofs`:

- `BlocksComeBack`: `Spec => []BlocksLeftByFailuresOnly`;
- `EachRowAlwaysAlone`, `CachesAlwaysHold`: `Spec => []EachRowAsIfAlone`,
  `[]CachesHoldTheirRows`, under three more assumptions, which are hypotheses of
  the two theorems and hold in the run.

The rows of a batch are served, trimmed and freed one after the other, by functions
that recurse over the rows. That such a function has values, and what its last value
is, follows from `Iterates`: steps that never lack a next one have a function of
their results (`UpTo` is induction on a set of numbers). So a failed allocation
leaves tables only to rows of its batch (`AllocateRowsKeep`), and freeing takes every
one of them away and moves no other (`FreeRowsKeep`).

The three assumptions. `NeverAudio`: the model answers tokens other than the audio
placeholder; `greedy_generate` merges the audio of the whole sequence again for
every token, and would look for the features of a placeholder in its own answer.
`Sides = {"right"}`: batches are padded on the right, as all callers do (section 6).
`RowsApart`: a build that packs its prefill has varlen attention; without it rows
are mixed (section 6), and the theorem is false.

The invariant (`RowsInv`) says what each loop has in its cache for a row that goes
on: the context of its j-th token is the first j of its embeddings and answers.
`Holds` is that for a cache without gaps; `Gapped` has the prompt at the front, then
padding, then the answers, which is the cache of a padded batch; `Stored` has it
in the slots of the row's blocks, where no other row writes because slots never
alias (`OwnSlots`) and blocks stay where they are while a table grows or
others are trimmed (`StoredKept`, `TrimStored`). `Speaks` is the account of the answer:
every token is the model's on what came before, none ends, and a row that has ended
would have said an end. It is the same for every loop, so that every loop ends with
the `Answer` of the definition (`SpeaksAnswer`). `TemplatesOk` is the invariant of
the prefix cache between calls.

Two lemmas do the work. `RowFilled`: whatever the cache and the masks, if every new
token sees exactly the places of its predecessors, a pass leaves the contexts of all
of them (`AttendWhole` is the single token). And `MergedAt` with `PromptRanks`: a
placeholder of a row takes that row's features, although features are taken in the
order of all placeholders of the batch, padding and a cut prefix included. What is left
for each path is that its masks and positions are those (`SeesPadded`,
`PackedFilled`, `FullRowHolds`, `NextRow`, `ForwardHolds`). The exception of
`EachRowAsIfAlone` is in the proof where `BottomRight` does not give a padded row
its own keys: the invariant then keeps the shape of the cache (`RowShape`), which
`CachesHoldTheirRows` needs, and says nothing of the answers.

For every number of frames and of samples (`AudioAssumption`),
`GreedyDecode_proofs`, since audio is what decoding has prompts of:

- `TowerReturnsAnnounced`: the positions the audio tower keeps of its flattened
  chunks are exactly the first `FeatExtractOutputLength` ones, so there is an
  embedding for each placeholder;
- `ModesMaskTheSame`: the three ways to pad features mask the same frames;
- `WindowsTileAlways`: the attention windows cover the kept positions, each once.

The tower adds up the lengths of its chunks and `feat_extract_output_length` adds
13 for each whole chunk of 100 frames to a formula of the rest. Cutting the frames
into whole chunks and a rest makes the two comparable chunk by chunk
(`WholeChunk`, `ChunkBound`, `AnnouncedByChunks`), so no induction is needed.

For every set of calls of the four entry points, any audios with any quiet places,
any count, budget and length of chunks, whatever the recogniser writes and whatever
stamps the aligner predicts, an even number for each chunk (`OfflineAssumption`),
`Offline_proofs`:

- `ChunksAlwaysTile`, `GroupsAlwaysWithin`: `OfflineSpec => []ChunksTileAudio`,
  `[]GroupsWithinBudget`;
- `AnswersAlwaysInOrder`, `StampsAlwaysRepaired`: `OfflineSpec => []AnswersInOrder`,
  `[]StampsRepaired`.

The actions of a call are few and their loops long, so the argument has two halves.
Between the steps four invariants say that the state is still what the operators made
of the call: `CutForCall` (the chunks are those of its audios), `GroupsKept` (the groups
left hold the chunks without an answer, each once, within count and budget),
`AnswersRead` (an answer is what was read from its own chunk's text, and the result is
the merge of all) and `AlignedKept` (the items of a chunk are made of the stamps
predicted for it). `GroupsKept` is what makes the others inductive: a chunk that could
be answered twice would keep the first answer with the second text.

The other half is what the operators return. A recursive function that is given by one
turn of a loop satisfies its equation (`Recursion`), and what holds at the start and
is kept by a turn holds after all (`Steps`, `RunThrough`, by induction on a set of
numbers, `UpTo`). With it each loop has one lemma for a turn and one for the whole:
`CutOffIs` and `CutsIs`, `PutChunkIs` and `BudgetGroups`, `PutRowIs` and `RebatchIs`,
`PutLanguageIs` and `MergeLanguagesIs`. Orders are by rank: `Ranked` makes a
set of numbers and its positions a bijection, from which `AscendingIs` and
`SortedIs` follow. What was flattened can be found again (`FlattenAt`: the elements of
the k-th sequence lie behind those of the first k - 1), and that is how an answer gets
back to its row (`GeneratedIs`) and a chunk to its audio (`ChunksOfIs`).

For the time stamps, `RunUpToIs` says what the table of `fix_timestamp` is, so that no
choice of positions in order is longer than its largest entry (`NoLongerRun`), and
`PathsAre` that the kept positions are such a choice of that size (`KeptIs`). The
stamps filled in between lie between their neighbours (`FillIs`, `Fraction` for the
division), so the repaired ones never run backwards (`StampsGrow`, `FixIs`). Moving a
chunk's stamps by its offset keeps all of this (`PartsLaid`), and because the chunks
follow each other (`ChunksApart`) the words of the merged items do, too (`MergeIs`).

For every set of calls with any number of waveforms, any segments of the detector
that are in order, every padding, gap and length of a merged stretch, and every
capacity of the channel and of the batches, zero included (`AsyncAssumption`),
`Offline_proofs`:

- `RangesAlwaysCover`: `AsyncSpec => []RangesCoverSpeech`;
- `TasksAsCalled`: `AsyncSpec => AsCalled`, the refinement of `OfflineCall`.

The first is about the loop of `merge_vad_segments_for_asr`. After j segments
(`MergedFrom`) the stretches are in order, each of the j segments lies in one of them,
the last stretch ends where the j-th segment does, and a stretch is within the
length allowed or is a segment as it was found. Padding then moves each end outwards by
the same amount at most, so order and cover stay (`RangesAre`, `RangesCover`).

For the refinement, all messages a call can have are put in a line, those of one
waveform after those of the one before (`Begin`, `At`). The invariant, `AsyncInv`, says
that there is a p such that the batch, the stash, the channel and what the VAD task
has still to send hold the messages from p + 1 on, each where the one before ends, up
to the waveform that is detected next (`Flows`); that the results are the answers of
the waveforms whose messages are among the first p (`Delivered`), which makes them
those of `OfflineCall` in the order of the call; and that the open states are what the
first p messages leave open: one waveform's beginning, if p falls between its segments
(`SegState`). A stash of two messages would break the line, so `Phases` has to say
that it never holds more than one, and is empty while a batch is collected. A batch of
segments is first opened as a whole and then finished segment by segment. In between
there is a state for every waveform the batch touches, with what those before it left
of it (`OpenedRuns`, from p to p + n), and finishing the k-th segment takes this
to the states from p + k to p + n (`FinishedRuns`), so in the end to `SegState` again
(`SegmentsRun`; `JobsRun` is the same for jobs). All this holds until a model
fails. After a failure states are dropped, and a later segment of a failed waveform opens one
that is never complete; what the refinement rests on then is
that a failed result is in the channel to the caller, or the VAD task's own failure is
known (`Blamed`), so that the call ends in the error. At the end nothing is under way,
so p is the end of the line, there is an answer for each waveform, and ordering them by
index, which looks for the one with r - 1 before it, leaves them in place (`InPlace`).

**Only model-checked.** Liveness (`RunsEndUnlessStarved`,
`ReturnsWhileWorkerLives`, `CallReturns`, `Returns`): TLAPS does not handle
fairness. `ChunkingInvisible` compares two runs of the detector, and
`SegmentsFollowSpeech` the segments with all frames heard; their invariants would have
to remember the window's past and are not written.
`PlaceholdersMatchAudio` looks at the recordings of its run; what it rests on holds for
every length, `TowerReturnsAnnounced` and `ModesMaskTheSame`.

## 8. What is not modelled

Arithmetic without control:

- tensor operations, kernels, quantisation, mel features, the FSMN network;
  layers are modelled by the positions they read;
- the eager attention of the audio tower ignores the windows that flash attention
  respects (`audio_encoder.rs:936` tests it), so builds differ on more than 8
  seconds of audio: which of them is right is not a question about the program;
- milliseconds are `f32` in the aligner; the model's are integers.

Text:

- vocabulary, the wording of the chat template, splitting words per language,
  character error rates; untagged text that starts with "language" loses it
  (`utils.rs:294`);
- a chunk without words makes the aligner call fail (`processor.rs:822`).

Input and output: decoding and resampling, downloads, configuration, command
lines, HTTP, the variants that measure time.

Behaviour that no module reaches:

- starvation of transcriptions by realtime tasks: intended by the priority;
- streaming recognition does not go through the inference scheduler
  (`scheduler.rs:220`), and so competes with its worker for the device;
- the poisoned lock of the KV runtime after a panic (`batch_scheduler.rs:319`), and
  panics in blocking tasks of `TranscribePipeline`;
- how long the segment timeout is (a comment says 10 ms, the constant 500);
- the order of equal keys in `sort_unstable`;
- `transcribe_prepared` pairs waveforms with answers by `zip`, which would
  shorten silently if a recogniser gave back too few (`pipeline/mod.rs:145`); none
  does, which `AnswersInOrder` shows for the one the program has;
- the number of prefix templates, which is not bounded (they are kept for the life
  of their thread);
- the narrowing of masks to the keys of a sliding cache (`attention.rs:769`).
