------------------------------- MODULE E2EVad -------------------------------
(***************************************************************************)
(* Voice activity detection: the endpoint detector of e2e_vad.rs and its   *)
(* two callers in vad.rs, the offline detection of a whole waveform in     *)
(* chunks of features and the streaming session that cuts what is pushed   *)
(* into chunks of samples.                                                 *)
(*                                                                         *)
(* Times are counted in frames (frame_in_ms) and segments are half-open    *)
(* intervals of frames.  The network's opinion of a frame is an input: a   *)
(* sample is TRUE where there is speech, and a frame is speech when its    *)
(* first sample is.  The decibel tests of get_frame_state never decide,    *)
(* with the default thresholds of -100, and are left out; so are fields    *)
(* that are only written (sil_frame, max_time_out, pre_end_silence).       *)
(***************************************************************************)
EXTENDS Integers, Sequences, FiniteSets

CONSTANTS
    Window,        \* window_size_ms, all of these in frames
    ToSpeech,      \* sil_to_speech_time_thres
    ToSilence,     \* speech_to_sil_time_thres
    Lookback,      \* lookback_time_start_point
    Lookahead,     \* lookahead_time_end_point
    EndSilence,    \* min_silence_ms - speech_to_sil_time_thres
    MaxSegment,    \* max_single_segment_time
    Shift,         \* frame_in_ms in samples
    Length,        \* frame_length_ms in samples
    ChunkSize,     \* FSMN_VAD_CHUNK_SIZE, in samples
    FeatChunk,     \* FSMN_VAD_FEAT_CHUNK_SIZE, in frames
    PushSizes,     \* bound: the numbers of samples of a push
    MaxFrames      \* bound: the frames of one waveform or stream

\* What holds of VadOptions::default and of the constants of vad.rs: frames of
\* 25 ms every 10 ms, a window and a lookback of at least one frame, speech that
\* takes two, and room in a segment for all the detector looks back at its start.
\* EndSilence may be negative, as max_end_silence_ms is the caller's.
ASSUME VadAssumption ==
    /\ Window \in Nat \ {0} /\ Lookback \in Nat \ {0}
    /\ ToSpeech \in Nat \ {0, 1} /\ ToSilence \in Nat
    /\ Lookahead \in Nat /\ EndSilence \in Int
    /\ MaxSegment \in Nat /\ Window + Lookback < MaxSegment
    /\ Shift \in Nat \ {0} /\ Length \in Nat /\ ChunkSize \in Nat
    /\ Shift <= Length /\ Length <= ChunkSize
    /\ FeatChunk \in Nat \ {0}
    /\ PushSizes \subseteq Nat /\ MaxFrames \in Nat

VARIABLES
    d,         \* the detector, E2EVadModel
    mode,      \* "idle", "offline", "stream" or how a detection "ended"
    left,      \* frames of the offline waveform not yet given to the detector
    pending,   \* FsmnVadSession.pending: samples that do not fill a chunk
    fed,       \* the states of the frames given to the detector so far
    segs,      \* the segments returned so far
    lost       \* a call failed: segments or samples of this stream are lost

vadVars == <<d, mode, left, pending, fed, segs, lost>>

-----------------------------------------------------------------------------
(* The detector. *)

\* E2EVadModel::new, all_reset_detection
Fresh ==
    [ win   |-> [i \in 1..Window |-> FALSE],  \* WindowDetector.win_state, oldest first
      talk  |-> FALSE,                        \* pre_frame_state
      start |-> 0,                            \* data_buf_start_frame
      cnt   |-> 0,                            \* frm_cnt
      voice |-> 0,                            \* latest_confirmed_speech_frame
      quiet |-> -1,                           \* lastest_confirmed_silence_frame
      run   |-> 0,                            \* continous_silence_frame_count
      state |-> "waiting",                    \* vad_state_machine
      begin |-> -1,                           \* confirmed_start_frame
      ends  |-> 0,                            \* number_end_time_detected
      out   |-> <<>>,                         \* output_data_buf
      given |-> 0,                            \* output_data_buf_offset
      prev  |-> 0,                            \* idx_pre_chunk
      size  |-> 0,                            \* data_buf_size
      all   |-> 0 ]                           \* data_buf_all_size

\* reset_detection: ready for the next segment, the buffers are kept
Rearmed(v) ==
    [v EXCEPT !.win = Fresh.win, !.talk = FALSE, !.voice = 0, !.quiet = -1,
              !.run = 0, !.state = "waiting", !.begin = -1]

Latency == Window + Lookback

Smaller(a, b) == IF a < b THEN a ELSE b
Larger(a, b) == IF a > b THEN a ELSE b

\* pop_data_buf_till_frame: the loop stops when less than a frame is left, and
\* the size is computed anew only after a step
PopTill(v, frame) ==
    IF v.start < frame /\ v.size >= Shift
    THEN LET start == Smaller(frame, Larger(v.start + 1, v.all \div Shift))
         IN  [v EXCEPT !.start = start, !.size = v.all - start * Shift]
    ELSE v

\* a piece of output with one more frame
WithFrame(piece, frame, opens, closes) ==
    [from |-> piece.from, to |-> frame + 1,
     opened |-> piece.opened \/ opens, closed |-> piece.closed \/ closes]

\* pop_data_to_output_buf, of one frame
PopOut(v, frame, opens, closes) ==
    LET p == PopTill(v, frame)
        out == IF v.out = <<>> \/ opens
               THEN Append(v.out, [from |-> frame, to |-> frame,
                                   opened |-> FALSE, closed |-> FALSE])
               ELSE v.out
    IN  [p EXCEPT !.start = @ + 1,
                  !.out = [out EXCEPT
                      ![Len(out)] = WithFrame(out[Len(out)], frame, opens, closes)]]

\* on_silence_detected
Silence(v, frame) ==
    LET s == [v EXCEPT !.quiet = frame]
    IN  IF v.state = "waiting" THEN PopTill(s, frame) ELSE s

\* on_voice_detected
Voice(v, frame) ==
    PopOut([v EXCEPT !.voice = frame], frame, FALSE, FALSE)

\* the loops over frames from one to another that confirm each
VoiceFrom(v, first, last) ==
    LET n == Larger(0, last - first + 1)
        after[i \in 0..n] == IF i = 0 THEN v ELSE Voice(after[i - 1], first + i - 1)
    IN  after[n]

SilenceFrom(v, first, last) ==
    LET n == Larger(0, last - first + 1)
        after[i \in 0..n] == IF i = 0 THEN v ELSE Silence(after[i - 1], first + i - 1)
    IN  after[n]

\* on_voice_start, with the frames from the start to this one
VoiceStart(v, start, cur) ==
    VoiceFrom([PopOut([v EXCEPT !.begin = start], start, TRUE, FALSE)
                   EXCEPT !.state = "speech"],
              start + 1, cur)

\* on_voice_end
VoiceEnd(v, frame) ==
    [PopOut(VoiceFrom(v, v.voice + 1, frame - 1), frame, FALSE, TRUE)
         EXCEPT !.ends = @ + 1, !.state = "ended"]

TooLong(v, cur) == cur - v.begin + 1 > MaxSegment

\* what every change but a lasting silence does inside a segment
Continue(v, cur, final) ==
    IF TooLong(v, cur) \/ final THEN VoiceEnd(v, cur) ELSE Voice(v, cur)

\* WindowDetector::detect_one_frame: the window slides and may change its mind
Slid(v, speech) == [v EXCEPT !.win = Append(Tail(@), speech)]

Spoken(win) == Cardinality({i \in DOMAIN win : win[i]})

Change(v) ==
    CASE ~v.talk /\ Spoken(v.win) >= ToSpeech  -> "Sil2Speech"
      [] v.talk /\ Spoken(v.win) <= ToSilence  -> "Speech2Sil"
      [] ~v.talk /\ Spoken(v.win) < ToSpeech   -> "Sil2Sil"
      [] OTHER                              -> "Speech2Speech"

\* a segment looks back over frames of the one before it
Sil2SpeechOverlapping(v, cur, final) ==
    CASE v.state = "waiting" -> VoiceStart(v, Larger(0, cur - Latency), cur)
      [] v.state = "speech"  ->
             Continue(VoiceFrom(v, v.voice + 1, cur - 1), cur, final)
      [] OTHER               -> v

\* a segment begins where speech was detected, not where it began
Sil2SpeechLate(v, cur, final) ==
    CASE v.state = "waiting" -> VoiceStart(v, Larger(v.start, cur), cur)
      [] v.state = "speech"  ->
             Continue(VoiceFrom(v, v.voice + 1, cur - 1), cur, final)
      [] OTHER               -> v

Sil2Speech(v, cur, final) ==
    CASE v.state = "waiting" ->
             VoiceStart(v, Larger(v.start, cur - Latency), cur)
      [] v.state = "speech"  ->
             Continue(VoiceFrom(v, v.voice + 1, cur - 1), cur, final)
      [] OTHER               -> v

\* in detect_mode 1 a long silence before the first speech has no effect of
\* its own; on the last frame of a stream without a segment it is an end
Sil2SilWaiting(v, cur, final) ==
    CASE final /\ v.ends = 0 ->
             [SilenceFrom(v, v.quiet + 1, cur - 1)
                  EXCEPT !.begin = 0, !.ends = @ + 1, !.state = "ended"]
      [] ~(final /\ v.ends = 0) /\ cur >= Latency ->
             Silence(v, cur - Latency)
      [] OTHER -> v

Sil2SilSpeech(v, cur, final) ==
    CASE v.run >= EndSilence ->
             VoiceEnd(v, cur - Larger(0, EndSilence - Lookahead - 1))
      [] v.run < EndSilence /\ (TooLong(v, cur) \/ final) -> VoiceEnd(v, cur)
      [] v.run < EndSilence /\ ~TooLong(v, cur) /\ ~final /\ v.run <= Lookahead ->
             Voice(v, cur)
      [] OTHER -> v

Sil2Sil(v, cur, final) ==
    IF v.state = "waiting" THEN Sil2SilWaiting(v, cur, final)
                           ELSE Sil2SilSpeech(v, cur, final)

\* the match of detect_one_frame on the change of the window
Matched(v, change, cur, final) ==
    CASE change = "Sil2Sil"    -> Sil2Sil([v EXCEPT !.run = @ + 1], cur, final)
      [] change = "Sil2Speech" ->
             Sil2Speech([v EXCEPT !.run = 0, !.talk = TRUE], cur, final)
      [] OTHER ->
             LET w == [v EXCEPT !.run = 0, !.talk = (change = "Speech2Speech")]
             IN  IF v.state = "speech" THEN Continue(w, cur, final) ELSE w

\* detect_one_frame; in detect_mode 1 an end makes ready for the next segment
OneFrame(v, speech, cur, final) ==
    LET s == Slid(v, speech)
        w == Matched(s, Change(s), cur, final)
    IN  IF w.state = "ended" THEN Rearmed(w) ELSE w

\* get_frame_state: the score of a frame is looked up by its distance from the
\* frames of earlier chunks; a frame without a score is silent
FrameState(v, scores, frame) ==
    /\ frame - v.prev + 1 \in DOMAIN scores
    /\ scores[frame - v.prev + 1]

\* compute_decibel and compute_scores: the counters of samples and frames
Counted(v, scores, samples) ==
    [v EXCEPT !.all = @ + samples, !.size = IF v.all = 0 THEN samples ELSE @,
              !.cnt = @ + Len(scores)]

\* the frames of a chunk are the latest ones, the last of them may be final
EachFrame(v, scores, final) ==
    LET n == Len(scores)
        after[i \in 0..n] ==
            IF i = 0 THEN v
            ELSE OneFrame(after[i - 1], FrameState(v, scores, v.cnt - n + i - 1),
                          v.cnt - n + i - 1, final /\ i = n)
    IN  after[n]

\* the detector's place in the scores is not moved on after a chunk
FramesUnmoved(v, scores, final) == EachFrame(v, scores, final)

\* detect_common_frames and detect_last_frames
Frames(v, scores, final) ==
    LET w == EachFrame(v, scores, final)
    IN  IF final THEN w ELSE [w EXCEPT !.prev = @ + Len(scores)]

Completed(s) == s.opened /\ s.closed

\* the segments that were completed since the last call
NewSegments(v) ==
    LET n == Len(v.out) - v.given
        found[i \in 0..n] ==
            IF i = 0 THEN <<>>
            ELSE IF Completed(v.out[v.given + i])
                 THEN Append(found[i - 1], v.out[v.given + i])
                 ELSE found[i - 1]
    IN  found[n]

Intervals(out) == [i \in DOMAIN out |-> <<out[i].from, out[i].to>>]

\* detect_chunk: the detector after the frames of a chunk
Chunk(v, scores, samples, final) ==
    Frames(Counted(v, scores, samples), scores, final)

\* its end: the new segments are counted, and the last chunk resets all
Returned(v, final) ==
    IF final THEN Fresh ELSE [v EXCEPT !.given = @ + Len(NewSegments(v))]

\* finalize_streaming: an open segment ends at the last frame
Finalized(v) ==
    IF v.state = "speech" /\ v.cnt > 0 THEN VoiceEnd(v, v.cnt - 1) ELSE v

-----------------------------------------------------------------------------
(* The frontend: fbank with snip_edges, whole frames only. *)

FramesIn(n) == IF n < Length THEN 0 ELSE (n - Length) \div Shift + 1

FrameStates(samples) ==
    [i \in 1..FramesIn(Len(samples)) |-> samples[(i - 1) * Shift + 1]]

\* samples of the waveform that go with frames [from, from + n) of it
WaveLen(n) == (n - 1) * Shift + Length

-----------------------------------------------------------------------------
VadInit ==
    /\ d = Fresh
    /\ mode = "idle"
    /\ left = 0
    /\ pending = <<>>
    /\ fed = <<>>
    /\ segs = <<>>
    /\ lost = FALSE

\* a call of detect_chunk with these scores, and what it returns
Detect(scores, samples, final) ==
    \E w \in {Chunk(d, scores, samples, final)} :
        /\ segs' = segs \o Intervals(NewSegments(w))
        /\ d' = Returned(w, final)
        /\ fed' = fed \o scores

\* FsmnVadModel::detect_offline of a waveform of n frames
StartOffline(n) ==
    /\ mode = "idle"
    /\ mode' = "offline"
    /\ left' = n
    /\ UNCHANGED <<d, pending, fed, segs, lost>>

\* one turn of its loop: the features of the next chunk are scored and segmented
OfflineChunk ==
    /\ mode = "offline"
    /\ \E step \in {Smaller(FeatChunk, left)} :
        /\ \E scores \in [1..step -> BOOLEAN] : Detect(scores, WaveLen(step), step = left)
        /\ left' = left - step
        /\ mode' = IF step = left THEN "ended" ELSE "offline"
    /\ UNCHANGED <<pending, lost>>

\* start_stream: a session with a detector of its own
StartStream ==
    /\ mode = "idle"
    /\ mode' = "stream"
    /\ UNCHANGED <<d, left, pending, fed, segs, lost>>

\* the k-th chunk of samples
ChunkOf(samples, k) == SubSeq(samples, (k - 1) * ChunkSize + 1, k * ChunkSize)

\* score_and_segment of the first n chunks: detector, frames and segments
ScoredNext(acc, states) ==
    LET w == Chunk(acc.d, states, ChunkSize, FALSE)
    IN  [d    |-> Returned(w, FALSE),
         fed  |-> acc.fed \o states,
         segs |-> acc.segs \o Intervals(NewSegments(w))]

Scored(samples, n) ==
    LET after[k \in 0..n] ==
            IF k = 0 THEN [d |-> d, fed |-> fed, segs |-> segs]
            ELSE ScoredNext(after[k - 1], FrameStates(ChunkOf(samples, k)))
    IN  after[n]

\* push_samples_i16
PushSamples(new) ==
    /\ mode = "stream"
    /\ \E samples \in {pending \o new} : \E n \in {Len(samples) \div ChunkSize} :
        /\ Len(fed) + n < MaxFrames
        /\ \E r \in {Scored(samples, n)} : d' = r.d /\ fed' = r.fed /\ segs' = r.segs
        /\ pending' = SubSeq(samples, n * ChunkSize + 1, Len(samples))
    /\ UNCHANGED <<mode, left, lost>>

\* the network fails on a chunk: what earlier chunks of the push have found is
\* not returned, and neither the chunk nor what follows it is kept
PushSamplesFails(new) ==
    /\ mode = "stream"
    /\ \E samples \in {pending \o new} : \E n \in 0..(Len(samples) \div ChunkSize - 1) :
        /\ Len(fed) + n < MaxFrames
        /\ \E r \in {Scored(samples, n)} : d' = r.d /\ fed' = r.fed
    /\ pending' = <<>>
    /\ lost' = TRUE
    /\ UNCHANGED <<mode, left, segs>>

\* finish_segments with samples left over: the last chunk is filled with silence
FinishPadded ==
    /\ mode = "stream"
    /\ pending # <<>>
    /\ \E chunk \in {pending \o [i \in 1..(ChunkSize - Len(pending)) |-> FALSE]} :
        Detect(FrameStates(chunk), ChunkSize, TRUE)
    /\ pending' = <<>>
    /\ mode' = "ended"
    /\ UNCHANGED <<left, lost>>

\* the network fails on the last chunk: the session goes on without it
FinishFails ==
    /\ mode = "stream"
    /\ pending # <<>>
    /\ pending' = <<>>
    /\ lost' = TRUE
    /\ UNCHANGED <<d, mode, left, fed, segs>>

\* finish_segments without samples left over
FinishEven ==
    /\ mode = "stream"
    /\ pending = <<>>
    /\ segs' = segs \o Intervals(NewSegments(Finalized(d)))
    /\ d' = Fresh
    /\ mode' = "finalized"
    /\ UNCHANGED <<left, pending, fed, lost>>

\* the model and the session may be used again
Again ==
    /\ mode \in {"ended", "finalized"}
    /\ mode' = "idle"
    /\ fed' = <<>>
    /\ segs' = <<>>
    /\ lost' = FALSE
    /\ UNCHANGED <<d, left, pending>>

\* what is pushed at once is all speech or all silence
Steady == {[i \in 1..n |-> b] : n \in PushSizes, b \in BOOLEAN}

VadNext ==
    \/ \E n \in 1..MaxFrames : StartOffline(n)
    \/ OfflineChunk
    \/ StartStream
    \/ \E new \in Steady : PushSamples(new)
    \/ \E new \in Steady : PushSamplesFails(new)
    \/ FinishPadded
    \/ FinishFails
    \/ FinishEven
    \/ Again

VadSpec == VadInit /\ [][VadNext]_vadVars

-----------------------------------------------------------------------------
(* Properties *)

Ended == mode \in {"ended", "finalized"}

\* Segments are returned in order: each lies within the frames heard, has at
\* most one frame more than the longest segment allowed, and begins after the
\* one before it has ended, so no audio is in two segments.  The detector keeps
\* this with four counters (data_buf_start_frame, latest_confirmed_speech_frame,
\* confirmed_start_frame, frm_cnt) that chunks, forced ends and failures move.
SegmentsInOrder ==
    \A i \in 1..Len(segs) :
        /\ segs[i][1] >= (IF i = 1 THEN 0 ELSE segs[i - 1][2])
        /\ segs[i][1] < segs[i][2]
        /\ segs[i][2] <= Len(fed)
        /\ segs[i][2] - segs[i][1] <= MaxSegment + 1

\* The output of the detector, had it been given all frames at once.
AtOnce == Chunk(Fresh, fed, WaveLen(Len(fed)), TRUE).out

\* The split of the frames into chunks cannot be seen in the segments: neither
\* the loop over feature chunks of detect_offline nor the chunks of a session,
\* nor what an earlier detection left behind, changes them.  A session that
\* ends without samples left over also returns the segment that was opened on
\* the very last frame, which no other end of a detection does.
ChunkingInvisible ==
    Ended /\ ~lost /\ fed # <<>> =>
        segs = Intervals(SelectSeq(AtOnce,
                   LAMBDA s : Completed(s) \/ (mode = "finalized" /\ s.opened)))

\* Segments follow the speech.  A frame at which enough frames of speech in a
\* row begin is in a segment that has been returned at the end of the
\* detection, though a segment may have been cut off for its length, or closed
\* by silence, just before or among them, and though the window forgets what it
\* has seen.  And a segment does not reach over a long silence: the window
\* notices silence when it has lost enough speech, EndSilence frames later the
\* segment ends, and no run of silence inside a returned segment is longer than
\* the two together, wherever chunks end and however the segment ended.
LongestGap == (Window - ToSilence) + EndSilence

SegmentsFollowSpeech ==
    /\ Ended /\ ~lost =>
           \A t \in 0..(Len(fed) - 2 * ToSpeech) :
               (\A i \in 0..(2 * ToSpeech - 2) : fed[t + i + 1]) =>
                   \E i \in 1..Len(segs) : segs[i][1] <= t /\ t < segs[i][2]
    /\ \A i \in 1..Len(segs) :
           \A t \in segs[i][1]..(segs[i][2] - LongestGap) :
               \E j \in 0..(LongestGap - 1) : fed[t + j + 1]

\* The test of vad.rs that compares the two ways on one waveform: a session
\* finds the same segments as the offline detection of the same samples.  A
\* stream whose pushes are whole chunks has samples that are alike in a chunk.
SameSamples == [i \in 1..(Len(fed) * ChunkSize) |-> fed[(i - 1) \div ChunkSize + 1]]

OfflineOut ==
    Intervals(SelectSeq(Chunk(Fresh, FrameStates(SameSamples), Len(SameSamples), TRUE).out, Completed))

OfflineMatchesStreaming ==
    mode = "finalized" /\ ~lost => segs = OfflineOut
=============================================================================
