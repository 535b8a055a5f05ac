------------------------------ MODULE OfflineCall ------------------------------
(* What a call of the runtime's offline pipeline promises                      *)
(* (vasr-runtime/src/pipeline/mod.rs): for every waveform the speech the voice *)
(* activity detector found, followed by the text of the stretches that were    *)
(* recognised, as OfflinePipeline::transcribe_with_vad_options computes it one *)
(* waveform after the other.  The call fails exactly when a model failed.      *)
(*                                                                             *)
(* A waveform is a record [dur, segs]: its length and the speech segments      *)
(* [start, end] the detector finds in it.  A timeline is a sequence of         *)
(* annotations; the text of a stretch stands for what is recognised in it.     *)
EXTENDS Integers, Sequences

CONSTANTS
    Pad,            \* ASR_VAD_CONTEXT_PAD_MS
    CoverGap,       \* FULL_WAVEFORM_COVERAGE_GAP_MS
    MergeGap,       \* merge_max_gap_ms
    MergeMax        \* merge_max_segment_ms

VARIABLES
    detector,   \* whether the pipeline has a voice activity detector
    waves,      \* the waveforms of the call
    broken,     \* a model has failed
    returned    \* what the call has returned

callVars == <<detector, waves, broken, returned>>

Earlier(x, y) == IF x < y THEN x ELSE y
Later(x, y) == IF x < y THEN y ELSE x

(* a waveform in which the detector's segments come one after the other, as    *)
(* E2EVad!SegmentsInOrder says of them                                         *)
InOrder(w) ==
    /\ \A k \in 1..Len(w.segs) : w.segs[k].start <= w.segs[k].end /\ w.segs[k].end <= w.dur
    /\ \A k \in 1..Len(w.segs) - 1 : w.segs[k].end <= w.segs[k + 1].start

(* Mutant of Joined: the gap alone decides.                                    *)
JoinedByGap(merged, s) ==
    LET last == merged[Len(merged)]
    IN IF merged # <<>> /\ s.start - last.end <= MergeGap
       THEN [merged EXCEPT ![Len(merged)].end = s.end]
       ELSE Append(merged, s)

(* one segment of merge_vad_segments_for_asr *)
Joined(merged, s) ==
    LET last == merged[Len(merged)]
    IN IF merged # <<>> /\ s.start - last.end <= MergeGap /\ s.end - last.start <= MergeMax
       THEN [merged EXCEPT ![Len(merged)].end = Later(@, s.end)]
       ELSE Append(merged, s)

(* the detector's segments come in order *)
MergedSegments(segs) ==
    IF MergeGap = 0 \/ MergeMax = 0 THEN segs
    ELSE LET after[k \in 0..Len(segs)] ==
                 IF k = 0 THEN <<>> ELSE Joined(after[k - 1], segs[k])
         IN after[Len(segs)]

(* padded_asr_range *)
PaddedRange(w, s) == [start |-> Later(s.start - Pad, 0), end |-> Earlier(s.end + Pad, w.dur)]

Ranges(w) ==
    LET merged == MergedSegments(w.segs)
    IN [k \in 1..Len(merged) |-> PaddedRange(w, merged[k])]

CoversFullWaveform(w, ranges) ==
    /\ Len(ranges) = 1
    /\ ranges[1].start <= CoverGap /\ ranges[1].end + CoverGap >= w.dur

(* prepare_vad_stage *)
Preparation(w) ==
    IF ~detector THEN "Disabled"
    ELSE IF w.segs = <<>> THEN "NoSpeech"
    ELSE IF CoversFullWaveform(w, Ranges(w)) THEN "FullSpeech"
    ELSE "Speech"

Whole(w) == [start |-> 0, end |-> w.dur]

SpeechAnnotations(w) == [k \in 1..Len(w.segs) |-> <<"speech", w.segs[k]>>]

(* the text recognised in a slice, moved to its place *)
TextOf(range) == <<"text", range>>

(* transcribe_with_vad_options *)
TimelineOf(w) ==
    CASE Preparation(w) = "Disabled" -> <<TextOf(Whole(w))>>
      [] Preparation(w) = "NoSpeech" -> <<>>
      [] Preparation(w) = "FullSpeech" -> Append(SpeechAnnotations(w), TextOf(Whole(w)))
      [] Preparation(w) = "Speech" ->
            SpeechAnnotations(w) \o [k \in 1..Len(Ranges(w)) |-> TextOf(Ranges(w)[k])]

NoAnswer == [ok |-> FALSE, timelines |-> <<"none">>]
Error == [ok |-> FALSE, timelines |-> <<>>]
Timelines(ts) == [ok |-> TRUE, timelines |-> ts]

CallInit(W) == detector \in BOOLEAN /\ waves \in W /\ broken = FALSE /\ returned = NoAnswer

(* a detection or a recognition fails or panics *)
ModelFails ==
    /\ returned = NoAnswer /\ ~broken
    /\ broken' = TRUE /\ UNCHANGED <<detector, waves, returned>>

Return ==
    /\ returned = NoAnswer
    /\ returned' = IF broken THEN Error
                   ELSE Timelines([i \in 1..Len(waves) |-> TimelineOf(waves[i])])
    /\ UNCHANGED <<detector, waves, broken>>

(* a call of one waveform fails and returns in the same step *)
FailAndReturn ==
    /\ returned = NoAnswer /\ ~broken
    /\ broken' = TRUE /\ returned' = Error /\ UNCHANGED <<detector, waves>>

CallNext == ModelFails \/ Return \/ FailAndReturn

(* the behaviour promised from every choice of waveforms *)
CallSpec == broken = FALSE /\ returned = NoAnswer /\ [][CallNext]_callVars

=============================================================================
