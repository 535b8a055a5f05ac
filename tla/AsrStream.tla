------------------------------- MODULE AsrStream -------------------------------
(***************************************************************************)
(* Streaming recognition (vasr-models, inference/streaming.rs) with the    *)
(* incremental feature extractor it feeds (processor/feature_extractor.rs).*)
(* A stream belongs to one caller; what makes it hard is what it keeps     *)
(* from one chunk to the next - samples, frames, encoded audio, text - and *)
(* that any chunk may fail half-way.                                       *)
(*                                                                         *)
(* A sample is its number.  A frame is what it was computed from: the      *)
(* length of the audio if its window reached past the end (the padding     *)
(* reflects there), else 0; normalised, it also depends on the loudest     *)
(* value of all frames.  A token is a whole character, the first or second *)
(* half of one, or a literal replacement character.  A text is a sequence  *)
(* of characters with as many places as they have tokens: "joined" is      *)
(* followed by "rest".                                                     *)
(***************************************************************************)
EXTENDS Integers, SequencesExt, FiniteSetsExt

CONSTANTS
  Hop,         \* hop_length
  HalfWindow,  \* n_fft / 2
  MaxSamples,  \* bound: samples pushed
  MaxPush,     \* bound: samples of one push
  Streams      \* the options of a stream, and what its audio and model may yield

\* The parts of an options record.  window, segment and keep are 0 for None; answers and
\* levels are what the model may generate and the loudest values the audio may have.
Options ==
  [chunk : Nat \ {0}, window : Nat, segment : Nat, keep : Nat, unfixedChunks : Nat,
   unfixedTokens : Nat, answers : SUBSET Seq({"whole", "first", "second", "bad"}),
   levels : SUBSET Nat]

\* A frame's window is wider than the hop and reaches into the next frame but one at most
\* (160 and 200 samples).  keep_tail_tokens is at least unfixed_token_num + 1.
ASSUME StreamAssumption ==
  /\ Hop \in Nat \ {0}
  /\ HalfWindow \in Hop .. 2 * Hop
  /\ MaxSamples \in Nat
  /\ MaxPush \in Nat
  /\ \A o \in Streams : /\ o \in Options
                        /\ o.keep = 0 \/ o.keep > o.unfixedTokens

VARIABLES
  opts,          \* the stream's options
  pc,            \* where the call is, or "idle"
  closing,       \* the call is finish
  buffer,        \* samples pushed and not yet drained
  offset,        \* buffer_offset
  wav,           \* the samples the feature extractor has
  raw,           \* raw_log_spec: frame -> what it was computed from
  features,      \* input_features: frame -> <<raw, level>>
  level,         \* compressed_max_log
  cache,         \* audio_cache
  audio,         \* the encoded audio given to the model
  chunkId,       \* chunk_id
  rawDecoded,    \* raw_decoded
  committed,     \* the committed text of the rolling window
  tail,          \* its tail_ids
  last,          \* the last answer
  committedIds,  \* history: the tokens committed
  pushed,        \* history: the samples pushed so far
  failed         \* history: the last decoding failed

sampleVars  == <<buffer, offset, pushed>>
featureVars == <<wav, raw, features, level>>
textVars    == <<rawDecoded, committed, tail, committedIds, chunkId, last>>
vars == <<opts, pc, closing, sampleVars, featureVars, cache, audio, textVars, failed>>

Rolling == opts.keep # 0
Warming == chunkId < opts.unfixedChunks
NoCache == [frames |-> 0, wavLen |-> 0, level |-> -1, audio |-> <<>>]
NoMap   == [f \in {} |-> 0]

--------------------------------------------------------------------------------
\* Tokens and text.

\* The tokenizer's decode: a half without its other half is a replacement character.
Decode(ids) ==
  [i \in DOMAIN ids |->
     IF ids[i] = "whole" THEN "whole"
     ELSE IF ids[i] = "first" /\ i < Len(ids) /\ ids[i+1] = "second" THEN "joined"
     ELSE IF ids[i] = "second" /\ i > 1 /\ ids[i-1] = "first" THEN "rest"
     ELSE "bad"]

\* Its encode.
TokensOf(text) ==
  [i \in DOMAIN text |-> IF text[i] = "joined" THEN "first"
                         ELSE IF text[i] = "rest" THEN "second" ELSE text[i]]

First(ids, n) == SubSeq(ids, 1, n)
Broken(ids)   == "bad" \in Range(Decode(ids))
LessOrZero(m, n) == IF m > n THEN m - n ELSE 0

\* Mutant: the chunk after the warm-up still has no prefix.
WholePrefixLate(ids) ==
  IF chunkId <= opts.unfixedChunks THEN <<>>
  ELSE First(ids, Max({n \in 0 .. LessOrZero(Len(ids), opts.unfixedTokens) :
                         ~Broken(First(ids, n))}))

\* build_prefix and build_prefix_windowed: drop unfixed_token_num tokens, and more until
\* no character is split.
WholePrefix(ids) ==
  IF Warming THEN <<>>
  ELSE First(ids, Max({n \in 0 .. LessOrZero(Len(ids), opts.unfixedTokens) :
                         ~Broken(First(ids, n))}))

\* build_finish_prefix and build_finish_prefix_windowed: at least one token, split or not.
FinishPrefix(ids) ==
  IF Warming THEN <<>>
  ELSE First(ids, Max({LessOrZero(Len(ids), opts.unfixedTokens), Min({1, Len(ids)})}))

PrefixOf(ids) == IF closing THEN FinishPrefix(ids) ELSE WholePrefix(ids)

\* Mutant: characters may be split.
CommitLengthSplitting(ids, chunk) ==
  IF chunk < opts.unfixedChunks \/ Len(ids) <= opts.keep THEN 0 ELSE Len(ids) - opts.keep

\* maybe_commit_windowed_text: as much as leaves keep_tail_tokens and splits nothing.
CommitLength(ids, chunk) ==
  IF chunk < opts.unfixedChunks THEN 0
  ELSE Max({0} \cup {n \in 1 .. LessOrZero(Len(ids), opts.keep) :
                       Last(Decode(First(ids, n))) # "bad"})

--------------------------------------------------------------------------------
\* Frames and encoded audio.

Frames(samples) == samples \div Hop
Frame(t, samples) == IF t * Hop + HalfWindow > samples THEN samples ELSE 0

\* append_samples: the last frame is computed again; a new loudest value normalises all
\* frames again.
AppendSamples(new) ==
  LET samples == Len(wav) + Len(new)
      total   == Frames(samples)
      from    == LessOrZero(Cardinality(DOMAIN features), 1)
  IN /\ wav' = wav \o new
     /\ raw' = [t \in 0 .. total-1 |-> IF t < from THEN raw[t] ELSE Frame(t, samples)]
     /\ IF total = 0 THEN level' = -1 ELSE level' \in opts.levels
     /\ features' = [t \in 0 .. total-1 |->
                       IF t < from /\ level' = level THEN features[t]
                       ELSE <<raw'[t], level'>>]

\* The encoder attends within segments counted from the first frame it is given; without
\* flash attention it sees all of them.
Encode(frame, from, total) ==
  LET size == IF opts.segment = 0 THEN total + 1 ELSE opts.segment
      segment(f) == {g \in from .. total-1 : (g - from) \div size = (f - from) \div size}
  IN [f \in from .. total-1 |-> [g \in segment(f) |-> frame[g]]]

\* frames_range_for_step: the first frame given to the model.
WindowStart(total) == IF opts.window = 0 THEN 0 ELSE LessOrZero(total, opts.window)

\* Mutant: the last cached frame is taken to be settled.
RecomputeFromSettled == (cache.frames \div opts.segment) * opts.segment

\* recompute_from_for_stream_append
RecomputeFrom == (LessOrZero(cache.frames, 1) \div opts.segment) * opts.segment

Total == Cardinality(DOMAIN features)

\* The cache is for exactly this audio.  (It never is: samples were appended since.)
CacheHit == cache.frames = Total /\ cache.wavLen = Len(wav) /\ cache.level = level

\* The cached segments before RecomputeFrom are still right.
CacheExtends ==
  cache.frames # 0 /\ cache.level = level /\ cache.frames <= Total /\ RecomputeFrom # 0

\* audio_features_for_step, for at least one frame.
AudioFeatures ==
  IF WindowStart(Total) # 0 THEN Encode(features, WindowStart(Total), Total)
  ELSE IF opts.segment = 0 THEN Encode(features, 0, Total)
  ELSE IF CacheHit THEN cache.audio
  ELSE IF CacheExtends
       THEN [f \in 0 .. Total-1 |->
               IF f < RecomputeFrom THEN cache.audio[f]
               ELSE Encode(features, RecomputeFrom, Total)[f]]
  ELSE Encode(features, 0, Total)

--------------------------------------------------------------------------------
Init ==
  /\ opts \in Streams
  /\ pc = "idle"
  /\ closing = FALSE
  /\ buffer = <<>> /\ offset = 0 /\ pushed = 0
  /\ wav = <<>> /\ raw = NoMap /\ features = NoMap /\ level = -1
  /\ cache = NoCache
  /\ audio = NoMap
  /\ chunkId = 0
  /\ rawDecoded = <<>> /\ committed = <<>> /\ tail = <<>> /\ committedIds = <<>>
  /\ last = [text |-> <<>>, upTo |-> 0]
  /\ failed = FALSE

\* push_audio_chunk; an empty chunk returns before anything happens.
Push(n) ==
  /\ pc = "idle"
  /\ pushed + n <= MaxSamples
  /\ buffer' = buffer \o [i \in 1 .. n |-> pushed + i]
  /\ pushed' = pushed + n
  /\ pc' = "loop"
  /\ UNCHANGED <<opts, closing, offset, featureVars, cache, audio, textVars, failed>>

\* The beginning of decode_step_windowed, and its copy in finish: during the warm-up
\* every chunk decodes from scratch.
ClearWhileWarming ==
  /\ IF Rolling /\ Warming
     THEN committed' = <<>> /\ tail' = <<>> /\ committedIds' = <<>>
     ELSE UNCHANGED <<committed, tail, committedIds>>
  /\ UNCHANGED <<rawDecoded, chunkId, last>>

NextChunk ==
  /\ pc = "loop"
  /\ Len(buffer) - offset >= opts.chunk
  /\ AppendSamples(SubSeq(buffer, offset + 1, offset + opts.chunk))
  /\ offset' = offset + opts.chunk
  /\ ClearWhileWarming
  /\ pc' = "audio"
  /\ UNCHANGED <<opts, closing, buffer, pushed, cache, audio, failed>>

\* The consumed samples are drained when the loop ends, and only then: a failure leaves
\* them, and the offset, for the next push.
EndPush ==
  /\ pc = "loop"
  /\ Len(buffer) - offset < opts.chunk
  /\ buffer' = SubSeq(buffer, offset + 1, Len(buffer))
  /\ offset' = 0
  /\ pc' = "idle"
  /\ UNCHANGED <<opts, closing, pushed, featureVars, cache, audio, textVars, failed>>

\* Mutant: the offset left by a failed push is forgotten.
FinishFromStart ==
  /\ pc = "idle"
  /\ Len(buffer) > offset
  /\ AppendSamples(buffer)
  /\ buffer' = <<>> /\ offset' = 0
  /\ ClearWhileWarming
  /\ closing' = TRUE
  /\ pc' = "audio"
  /\ UNCHANGED <<opts, pushed, cache, audio, failed>>

\* Mutant: a tail shorter than a chunk is not decoded.
FinishWithoutTail ==
  /\ pc = "idle"
  /\ Len(buffer) > offset
  /\ AppendSamples(SubSeq(buffer, offset + 1, Len(buffer)))
  /\ buffer' = <<>> /\ offset' = 0
  /\ ClearWhileWarming
  /\ closing' = TRUE
  /\ pc' = "finished"
  /\ UNCHANGED <<opts, pushed, cache, audio, failed>>

\* finish with samples left, which are more than a chunk after a failed push.
FinishTail ==
  /\ pc = "idle"
  /\ Len(buffer) > offset
  /\ AppendSamples(SubSeq(buffer, offset + 1, Len(buffer)))
  /\ buffer' = <<>> /\ offset' = 0
  /\ ClearWhileWarming
  /\ closing' = TRUE
  /\ pc' = "audio"
  /\ UNCHANGED <<opts, pushed, cache, audio, failed>>

\* finish with none: the last answer, or an empty one.
FinishEmpty ==
  /\ pc = "idle"
  /\ Len(buffer) = offset
  /\ closing' = TRUE
  /\ pc' = "finished"
  /\ UNCHANGED <<opts, sampleVars, featureVars, cache, audio, textVars, failed>>

\* decode_step and decode_step_windowed_with_prefix: the encoded audio, ...
ComputeAudio ==
  /\ pc = "audio"
  /\ Total # 0
  /\ audio' = AudioFeatures
  /\ cache' = IF WindowStart(Total) # 0 THEN NoCache
              ELSE IF opts.segment = 0 THEN cache
              ELSE [frames |-> Total, wavLen |-> Len(wav), level |-> level, audio |-> audio']
  /\ pc' = "generate"
  /\ UNCHANGED <<opts, closing, sampleVars, featureVars, textVars, failed>>

\* ... the tokens generated from it after the prefix, and the text they make.
GenerateRaw(answer) ==
  /\ rawDecoded' = Decode(PrefixOf(TokensOf(rawDecoded))) \o Decode(answer)
  /\ last' = [text |-> rawDecoded', upTo |-> Len(wav)]
  /\ UNCHANGED <<committed, tail, committedIds>>

GenerateRolling(answer) ==
  LET ids == PrefixOf(tail) \o answer
      n   == CommitLength(ids, chunkId + 1)
  IN /\ committed' = committed \o Decode(First(ids, n))
     /\ committedIds' = committedIds \o First(ids, n)
     /\ tail' = SubSeq(ids, n + 1, Len(ids))
     /\ last' = [text |-> committed' \o Decode(tail'), upTo |-> Len(wav)]
     /\ UNCHANGED rawDecoded

AfterDecode == IF closing THEN "finished" ELSE "loop"

Generate ==
  /\ pc = "generate"
  /\ \E answer \in opts.answers :
       IF Rolling THEN GenerateRolling(answer) ELSE GenerateRaw(answer)
  /\ chunkId' = chunkId + 1
  /\ failed' = FALSE
  /\ audio' = NoMap
  /\ pc' = AfterDecode
  /\ UNCHANGED <<opts, closing, sampleVars, featureVars, cache>>

\* Encoding or generating fails, or the audio is shorter than one frame: the push, or
\* finish, returns the error.
DecodeFails ==
  /\ \/ pc = "audio"
     \/ pc = "generate"
  /\ failed' = TRUE
  /\ audio' = NoMap
  /\ pc' = IF closing THEN "error" ELSE "idle"
  /\ cache' = IF pc = "audio" /\ WindowStart(Total) # 0 THEN NoCache ELSE cache
  /\ UNCHANGED <<opts, closing, sampleVars, featureVars, textVars>>

Next == \/ \E n \in 1 .. MaxPush : Push(n)
        \/ NextChunk \/ EndPush \/ FinishTail \/ FinishEmpty
        \/ ComputeAudio \/ Generate \/ DecodeFails

Spec == Init /\ [][Next]_vars

--------------------------------------------------------------------------------
Chars  == {"whole", "joined", "rest", "bad"}
Tokens == {"whole", "first", "second", "bad"}

AudioTyped ==
  /\ opts \in Streams
  /\ pc \in {"idle", "loop", "audio", "generate", "finished", "error"}
  /\ closing \in BOOLEAN /\ failed \in BOOLEAN
  /\ buffer \in Seq(Nat) /\ wav \in Seq(Nat)
  /\ offset \in 0 .. Len(buffer) /\ pushed \in Nat
  /\ DOMAIN raw = 0 .. Frames(Len(wav)) - 1 /\ DOMAIN features = DOMAIN raw
  /\ \A t \in DOMAIN features : features[t][1] = raw[t] /\ features[t][2] \in opts.levels
  /\ level \in opts.levels \cup {-1}
  /\ cache.frames \in 0 .. Total /\ DOMAIN cache.audio = 0 .. cache.frames - 1
  /\ last.upTo \in 0 .. Len(wav)

TextTyped ==
  /\ chunkId \in 0 .. MaxSamples
  /\ rawDecoded \in Seq(Chars) /\ committed \in Seq(Chars)
  /\ tail \in Seq(Tokens) /\ committedIds \in Seq(Tokens)

\* Every sample pushed reaches the features once and in order, also when a chunk fails to
\* decode in the middle of a push: what the extractor has and what is still to consume
\* are together the samples pushed.  A push that succeeds leaves less than a chunk.
SamplesOnceInOrder ==
  /\ wav \o SubSeq(buffer, offset + 1, Len(buffer)) = [i \in 1 .. pushed |-> i]
  /\ pc = "idle" /\ ~failed => Len(buffer) - offset < opts.chunk

\* The audio given to the model, for the incremental features, the window and the cached
\* segments, is what encoding all samples so far from scratch would give
\* (audio_features_for_step); samples, frames and caches have their shape.
AudioIsFresh ==
  /\ AudioTyped
  /\ pc = "generate" =>
       LET fresh == [t \in 0 .. Frames(Len(wav)) - 1 |-> <<Frame(t, Len(wav)), level>>]
       IN audio = Encode(fresh, WindowStart(Frames(Len(wav))), Frames(Len(wav)))

\* Cutting the tokens into committed text and tail changes no character
\* (maybe_commit_windowed_text); the text has its shape.
SplitKeepsText == TextTyped /\ committed \o Decode(tail) = Decode(committedIds \o tail)

\* The transcript so far, in tokens.
TranscriptIds == IF Rolling THEN committedIds \o tail ELSE TokensOf(rawDecoded)

\* Committed text is never taken back: the warm-up, which decodes from scratch and clears
\* it, commits nothing, whatever fails.  And after the warm-up a chunk changes of the whole
\* transcript at most the last unfixed_token_num tokens and the other half of a split
\* character, unless there is a character that no tokens complete (decode_step_windowed,
\* maybe_commit_windowed_text).
TextIsStable ==
  [][/\ IsPrefix(committed, committed')
     /\ ~Warming /\ ~Broken(IF Rolling THEN tail ELSE TranscriptIds) =>
          IsPrefix(First(TranscriptIds, LessOrZero(Len(TranscriptIds), opts.unfixedTokens + 1)),
                   TranscriptIds')]_vars

\* When finish succeeds its answer was decoded from all samples pushed, unless the last
\* decoding failed and nothing was pushed after it.
FinalAnswerCurrent == pc = "finished" /\ ~failed => last.upTo = pushed
================================================================================
