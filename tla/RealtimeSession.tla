-------------------------- MODULE RealtimeSession --------------------------
(***************************************************************************)
(* One client of the realtime service: the loop over its messages          *)
(* (server.rs, run_socket), the byte stream that cuts appended audio into  *)
(* chunks (stream.rs, AudioBytesStream) and the pipeline that gives each   *)
(* chunk to the voice activity detector and to the recogniser              *)
(* (pipeline/mod.rs, RealtimePipeline), with the failures of each.         *)
(*                                                                         *)
(* A byte is the position at which the client appended it, so a chunk is a *)
(* sequence of positions.  A handler is one step: the loop awaits nothing  *)
(* between reading a message and sending its events, and reads the next    *)
(* message only then.                                                      *)
(***************************************************************************)
EXTENDS Integers, Sequences, FiniteSets

CONSTANTS
    ChunkBytes,    \* frame_bytes(): the bytes of a chunk, two for each sample
    AppendSizes,   \* bound: the bytes of one append
    MaxBytes,      \* bound: the bytes a client appends
    MaxMessages    \* bound: the messages a client sends

ASSUME ChunkAssumption == ChunkBytes \in Nat \ {0} /\ ChunkBytes % 2 = 0
ASSUME AppendAssumption == AppendSizes \subseteq Nat

VARIABLES
    buffer,     \* AudioBytesStream.buffer
    emitted,    \* AudioBytesStream.emitted_samples
    asr,        \* Qwen3AsrStreamModel.inner: "open", or taken by a finish
    sent,       \* the events the client has been sent
    socket,     \* "open" or "closed"
    received,   \* bytes appended so far
    messages,   \* messages handled so far
    chunks,     \* every chunk cut
    unsure      \* a finish of the detector or the recogniser has failed

vars == <<buffer, emitted, asr, sent, socket, received, messages, chunks, unsure>>

-----------------------------------------------------------------------------
(* AudioBytesStream *)

\* the chunk of these bytes, with the samples counted before it
ChunkFrom(bytes, before, last) ==
    [bytes |-> bytes, from |-> before, to |-> before + Len(bytes) \div 2, last |-> last]

\* the samples of the chunks of one push are not counted on
CutAtOnce(bytes, before) ==
    [k \in 1..(Len(bytes) \div ChunkBytes) |->
        ChunkFrom(SubSeq(bytes, (k - 1) * ChunkBytes + 1, k * ChunkBytes), before, FALSE)]

\* push: whole chunks are cut off the front of the buffer
Cut(bytes, before) ==
    [k \in 1..(Len(bytes) \div ChunkBytes) |->
        ChunkFrom(SubSeq(bytes, (k - 1) * ChunkBytes + 1, k * ChunkBytes),
                  before + (k - 1) * (ChunkBytes \div 2), FALSE)]

\* what push leaves in the buffer
Uncut(bytes) ==
    SubSeq(bytes, (Len(bytes) \div ChunkBytes) * ChunkBytes + 1, Len(bytes))

\* flush: one last chunk of the whole samples that are left
Flushed(bytes, before) ==
    IF Len(bytes) < 2 THEN <<>>
    ELSE <<ChunkFrom(SubSeq(bytes, 1, 2 * (Len(bytes) \div 2)), before, TRUE)>>

\* emitted_samples after these chunks
Samples(cs, before) == IF cs = <<>> THEN before ELSE cs[Len(cs)].to

-----------------------------------------------------------------------------
(* RealtimePipeline: what the models may answer. *)

\* a recogniser that has been finished fails on every chunk; one that has not
\* may have no new text
Recognised ==
    IF asr = "open" THEN {"text", "speech and text", "speech", "nothing", "asr fails"}
                    ELSE {"refused"}

\* push_chunk: a chunk the detector fails on is never given to the recogniser,
\* and what the detector has found in a chunk the recogniser fails on is lost
Outcomes == {"vad fails"} \cup Recognised

\* a failure is an event of an append, not of a finish
EventsOf(outcome, failures) ==
    CASE outcome = "text"            -> <<"text">>
      [] outcome = "speech and text" -> <<"speech", "text">>
      [] outcome = "speech"          -> <<"speech">>
      [] outcome = "nothing"         -> <<>>
      [] OTHER                       -> failures

\* the events of the chunks of a message, one chunk after the other
EventsOfAll(outcomes, failures) ==
    LET upTo[k \in 0..Len(outcomes)] ==
          IF k = 0 THEN <<>> ELSE upTo[k - 1] \o EventsOf(outcomes[k], failures)
    IN  upTo[Len(outcomes)]

-----------------------------------------------------------------------------
Init ==
    /\ buffer = <<>>
    /\ emitted = 0
    /\ asr = "open"
    /\ sent \in {<<>>, <<"created">>}
    /\ socket = "open"
    /\ received = 0
    /\ messages = 0
    /\ chunks = <<>>
    /\ unsure = FALSE

\* the loop has read a message
Reads ==
    /\ socket = "open"
    /\ messages < MaxMessages
    /\ messages' = messages + 1

\* the events of a message are sent one by one; the loop ends at one that fails
Sends(events) ==
    \/ /\ sent' = sent \o events
       /\ socket' = "open"
    \/ \E n \in 0..(Len(events) - 1) :
        /\ sent' = sent \o SubSeq(events, 1, n)
        /\ socket' = "closed"

\* append_base64_audio
Append64(n) ==
    /\ Reads
    /\ received + n <= MaxBytes
    /\ received' = received + n
    /\ \E bytes \in {buffer \o [i \in 1..n |-> received + i]} :
       \E cs \in {Cut(bytes, emitted)} :
       \E outcomes \in [DOMAIN cs -> Outcomes] :
        /\ buffer' = Uncut(bytes)
        /\ emitted' = Samples(cs, emitted)
        /\ chunks' = chunks \o cs
        /\ Sends(EventsOfAll(outcomes, <<"error">>))
    /\ UNCHANGED <<asr, unsure>>

\* a message that is no event, of which the loop tries to tell the client, and
\* an append that is not base64
Invalid ==
    /\ Reads
    /\ \/ sent' \in {sent, Append(sent, "error")} /\ UNCHANGED socket
       \/ Sends(<<"error">>)
    /\ UNCHANGED <<buffer, emitted, asr, received, chunks, unsure>>

\* session.update, input_audio_buffer.commit, and other frames of the socket
Ignored ==
    /\ Reads
    /\ UNCHANGED <<buffer, emitted, asr, sent, socket, received, chunks, unsure>>

\* inner is only borrowed by a finish
FinishesOpen(result) == asr' = "open"

\* RealtimePipeline::finish: the recogniser is finished after the detector, and
\* not at all when that fails; inner is taken even if its own finish fails
Finishes(result) == asr' = IF result = "vad fails" THEN asr ELSE "taken"

FinishResults ==
    {"vad fails"} \cup
    (IF asr = "open" THEN {"completed", "speech and completed", "asr fails"}
                     ELSE {"refused"})

FinishEvents(result) ==
    CASE result = "completed"            -> <<"completed", "finished">>
      [] result = "speech and completed" -> <<"speech", "completed", "finished">>
      [] OTHER                           -> <<"finished">>

\* RealtimeSession::finish: failures are not reported, the last byte of half a
\* sample is dropped
Finish ==
    /\ Reads
    /\ \E cs \in {Flushed(buffer, emitted)} :
       \E outcomes \in [DOMAIN cs -> Outcomes] :
       \E result \in FinishResults :
        /\ emitted' = Samples(cs, emitted)
        /\ chunks' = chunks \o cs
        /\ Finishes(result)
        /\ Sends(EventsOfAll(outcomes, <<>>) \o FinishEvents(result))
        /\ unsure' = (unsure \/ result \in {"vad fails", "asr fails"})
    /\ buffer' = <<>>
    /\ UNCHANGED received

\* Message::Close, an error of the socket, or its end
Close ==
    /\ socket = "open"
    /\ socket' = "closed"
    /\ UNCHANGED <<buffer, emitted, asr, sent, received, messages, chunks, unsure>>

Next ==
    \/ \E n \in AppendSizes : Append64(n)
    \/ Invalid
    \/ Ignored
    \/ Finish
    \/ Close

Spec == Init /\ [][Next]_vars

-----------------------------------------------------------------------------
(* Properties *)

First(chunk) == chunk.bytes[1]
Last(chunk)  == chunk.bytes[Len(chunk.bytes)]

SentFinished == {i \in DOMAIN sent : sent[i] = "finished"}

\* The chunks are the audio.  A chunk is whole samples of bytes that were
\* appended next to each other, full but for the last of a finish; chunks come
\* in the order of their bytes, no byte is in two of them or still in the
\* buffer, and their ranges follow each other without a gap, whatever failed
\* and however appends, finishes and samples are aligned.  A byte that is in
\* neither a chunk nor the buffer is half a sample cut off by a finish, one at
\* most for each.
ChunksAreTheAudio ==
    /\ \A k \in DOMAIN chunks :
        /\ chunks[k].bytes # <<>>
        /\ \A i \in DOMAIN chunks[k].bytes : chunks[k].bytes[i] = First(chunks[k]) + i - 1
        /\ Len(chunks[k].bytes) = ChunkBytes \/ chunks[k].last
        /\ chunks[k].from = (IF k = 1 THEN 0 ELSE chunks[k - 1].to)
        /\ 2 * (chunks[k].to - chunks[k].from) = Len(chunks[k].bytes)
    /\ \A k \in 2..Len(chunks) : Last(chunks[k - 1]) < First(chunks[k])
    /\ chunks # <<>> => /\ 1 <= First(chunks[1])
                        /\ Last(chunks[Len(chunks)]) <= received - Len(buffer)
    /\ emitted = Samples(chunks, 0)
    /\ \A i \in DOMAIN buffer : buffer[i] = received - Len(buffer) + i
    /\ received - Len(buffer) - 2 * emitted
            <= Cardinality(SentFinished) + (IF socket = "open" THEN 0 ELSE 1)

Completions == {i \in DOMAIN sent : sent[i] = "completed"}

\* The final text is sent at most once, right before the session is reported
\* finished, and after it the recogniser hears nothing more and no text is sent,
\* though a client may go on appending and finish again.  A session that is
\* reported finished without a final text is one whose finish has failed.
FinalTextOnce ==
    /\ \A i, j \in Completions : i = j
    /\ \A i \in Completions :
        /\ \A j \in DOMAIN sent : j > i => sent[j] # "text"
        /\ socket = "open" => i < Len(sent) /\ sent[i + 1] = "finished"
        /\ asr = "taken"
    /\ SentFinished # {} /\ ~unsure => Completions # {}

=============================================================================
