------------------------------ MODULE AudioLengths ------------------------------
(* How many features, placeholders and embeddings a recording becomes.  The    *)
(* processor (asr_processor.rs, feature_extractor.rs, feat_lengths.rs) pads    *)
(* the recordings of a batch and writes one placeholder into each prompt for   *)
(* every embedding it expects; the audio tower (audio_encoder.rs) takes the    *)
(* features apart, convolves them and puts the embeddings of all recordings    *)
(* behind one another.  Decoding gives every row as many of them as it has     *)
(* placeholders, so one too few shifts all rows that follow.                   *)
(*                                                                             *)
(* A recording is the number of its samples, a row's features are its mask.    *)
EXTENDS Integers, Sequences, FiniteSets

CONSTANTS
    Window,         \* 2 * n_window: the frames of a convolved chunk
    WindowInfer,    \* n_window_infer: the frames attention looks across
    AudioPad        \* the id of <|audio_pad|>

(* The code reads both from the model's configuration; feat_lengths.rs is      *)
(* written for chunks of 100 frames.                                           *)
ASSUME AudioAssumption ==
    Window = 100 /\ WindowInfer \in Nat /\ WindowInfer >= Window

Hop == 160

Least(a, b) == IF a < b THEN a ELSE b
CeilDiv(a, b) == (a + b - 1) \div b
Most(S) == CHOOSE m \in S : \A n \in S : n <= m

-----------------------------------------------------------------------------
(* The processor *)

(* Mutant of FeatExtractOutputLength: division that rounds towards zero.       *)
FeatExtractOutputLengthTruncated(n) ==
    LET half(x) == IF x < 0 THEN -((-x) \div 2) ELSE x \div 2
        feat == half((n % 100) - 1) + 1
    IN half(half(feat - 1)) + 1 + 13 * (n \div 100)

(* feat_extract_output_length; div_floor is the division of TLA+.              *)
FeatExtractOutputLength(n) ==
    LET feat == ((n % 100) - 1) \div 2 + 1
    IN ((feat - 1) \div 2) \div 2 + 1 + 13 * (n \div 100)

AllReal(n) == [i \in 1..n |-> 1]

(* extract_features *)
Extracted(samples) == AllReal(samples \div Hop)

(* extract_features_with_padded_waveform_len *)
ExtractedWithin(samples, padded) ==
    AllReal(IF samples = 0 THEN 0 ELSE Least(CeilDiv(samples, Hop), padded \div Hop))

(* pad_feature_batch_to_max_frames *)
PaddedToMax(masks) ==
    LET width == Most({Len(masks[k]) : k \in DOMAIN masks})
    IN [k \in DOMAIN masks |-> masks[k] \o [i \in 1..width - Len(masks[k]) |-> 0]]

Longest(wavs) == Most({wavs[k] : k \in DOMAIN wavs})

(* extract_features_with_full_waveform_padding *)
FullWaveform(wavs) ==
    [k \in DOMAIN wavs |->
       [i \in 1..Longest(wavs) \div Hop |-> IF (i - 1) * Hop < wavs[k] THEN 1 ELSE 0]]

Modes == {"feature", "waveform", "waveform-full"}

(* The features of a batch; prepare_batch_varlen takes mode "feature".         *)
Masks(wavs, mode) ==
    CASE mode = "feature"  -> PaddedToMax([k \in DOMAIN wavs |-> Extracted(wavs[k])])
      [] mode = "waveform" -> PaddedToMax([k \in DOMAIN wavs |->
                                             ExtractedWithin(wavs[k], Longest(wavs))])
      [] OTHER             -> FullWaveform(wavs)

(* the frames a mask leaves *)
Real(mask) == Cardinality({i \in DOMAIN mask : mask[i] # 0})

Count(ids) == Cardinality({i \in DOMAIN ids : ids[i] = AudioPad})

(* expand_audio_pad_ids_first *)
Expanded(ids, n) ==
    IF n = 1 \/ Count(ids) = 0 THEN ids
    ELSE LET at == CHOOSE i \in DOMAIN ids :
                     ids[i] = AudioPad /\ \A j \in 1..i - 1 : ids[j] # AudioPad
         IN SubSeq(ids, 1, at - 1) \o [i \in 1..n |-> AudioPad]
              \o SubSeq(ids, at + 1, Len(ids))

(* the prompt of a row, before any padding of tokens *)
Prepared(ids, mask) == Expanded(ids, FeatExtractOutputLength(Real(mask)))

(* stack_features, of rows that must be equally wide, accepts them *)
Stackable(masks) == \A k \in DOMAIN masks : Len(masks[k]) = Len(masks[1])

-----------------------------------------------------------------------------
(* The audio tower *)

ChunkNum(frames) == CeilDiv(frames, Window)

ChunkLength(frames, c) ==
    IF c = ChunkNum(frames) /\ frames % Window # 0 THEN frames % Window ELSE Window

(* A convolution of kernel 3, padding 1 and stride 2, over time.               *)
Conv(t) == (t - 1) \div 2 + 1

(* max_t: what three convolutions leave of a chunk, all chunks being padded    *)
MaxT == Conv(Conv(Conv(Window)))

(* aftercnn_lens *)
AfterCnn(frames, c) == FeatExtractOutputLength(ChunkLength(frames, c))

(* Otherwise forward_one fails. *)
ChunksFit(frames) == \A c \in 1..ChunkNum(frames) : AfterCnn(frames, c) <= MaxT

(* idxs: the positions of the flattened chunks that are kept.  A chunk that    *)
(* fits has none in common with another.                                       *)
Kept(frames) ==
    UNION {{(c - 1) * MaxT + j : j \in 0..AfterCnn(frames, c) - 1} : c \in 1..ChunkNum(frames)}

(* the embeddings forward_one returns *)
Embeddings(frames) == Cardinality(Kept(frames))

WindowAfterCnn == MaxT * (WindowInfer \div Window)

(* cu_seqlens_from_aftercnn_len *)
CuSeqlens(total) ==
    <<0>> \o [k \in 1..CeilDiv(total, WindowAfterCnn) |-> Least(k * WindowAfterCnn, total)]

(* forward_with_lens takes the first frames of a row, as many as its mask has. *)
Encoded(mask) == IF Real(mask) = 0 THEN 0 ELSE Embeddings(Real(mask))

-----------------------------------------------------------------------------
(* What decoding relies on *)

(* Attention windows tile the embeddings. *)
WindowsTile(total) ==
    LET cu == CuSeqlens(total)
    IN /\ cu[1] = 0 /\ cu[Len(cu)] = total
       /\ \A k \in 1..Len(cu) - 1 :
            cu[k] < cu[k + 1] /\ cu[k + 1] - cu[k] <= WindowAfterCnn

(* The frames a row keeps are the first ones, those of the recording up to a   *)
(* last incomplete one; and it has as many placeholders as the tower returns   *)
(* embeddings for it.                                                          *)
RowFits(ids, samples, mask) ==
    \E real \in {Real(mask)} :
        /\ \A i \in DOMAIN mask : mask[i] # 0 <=> i <= real
        /\ samples \div Hop <= real /\ real <= CeilDiv(samples, Hop)
        /\ ChunksFit(real)
        /\ \E encoded \in {Encoded(mask)} :
             /\ Count(Prepared(ids, mask)) = encoded
             /\ encoded > 0 => WindowsTile(encoded)

BatchFits(ids, wavs, mode) ==
    \E masks \in {Masks(wavs, mode)} :
        /\ Stackable(masks)
        /\ \A k \in DOMAIN wavs : RowFits(ids, wavs[k], masks[k])

(* The default mode computes fewer frames than the mode it replaced and must   *)
(* mask the same.                                                              *)
ModesAgree(wavs) == Masks(wavs, "waveform") = Masks(wavs, "waveform-full")

=============================================================================
