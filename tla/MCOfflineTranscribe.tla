-------------------------- MODULE MCOfflineTranscribe --------------------------
(* Small calls for OfflineTranscribe: one audio that is cut in up to four and  *)
(* one that is short, under every grouping option.                             *)
EXTENDS OfflineTranscribe

LongAudios ==
    {[len |-> 11, quiet |-> q, forced |-> ""] : q \in {{}, {5}, {2, 6, 7}}}
    \cup {[len |-> 11, quiet |-> {3, 8}, forced |-> "en"],
          [len |-> 5, quiet |-> {4}, forced |-> ""]}
ShortAudio == [len |-> 3, quiet |-> {1}, forced |-> "zh"]

OptionsOf(entries, stamped, audios, maxes) ==
    [entry : entries, timestamps : stamped, audios : audios, chunkMax : maxes,
     maxBatch : {0, 2}, budget : {0, 4, 7}, bucket : BOOLEAN]

ShortCalls == {<<ShortAudio>>, <<[len |-> 7, quiet |-> {4}, forced |-> ""]>>}

MCCalls ==
    OptionsOf({"transcribe"}, {FALSE}, {<<ShortAudio, a>> : a \in LongAudios}, {4})
    \cup OptionsOf({"aligner"}, {TRUE}, {<<a>> : a \in LongAudios}, {0})
    \cup OptionsOf({"aligner", "aligner_timed"}, BOOLEAN, ShortCalls, {0, 3})
    \cup OptionsOf({"transcribe", "transcribe_timed"}, {TRUE}, ShortCalls, {3})

MCRaws ==
    {[meta |-> "no", text |-> "nothing"], [meta |-> "only", text |-> "nothing"],
     [meta |-> "en", text |-> "words"], [meta |-> "none", text |-> "marks"]}

MCStampings == {<<1, 2>>, <<0, 9, 8, 2, 3, 4>>, <<0, 9, 8, 7, 1, 2>>}
=============================================================================
