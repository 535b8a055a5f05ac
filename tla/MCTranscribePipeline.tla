------------------------- MODULE MCTranscribePipeline --------------------------
(* Calls of two or three inputs for TranscribePipeline, some with a source given twice. *)
EXTENDS TranscribePipeline

MCCalls    == {<<"a", "b", "b">>, <<"a", "b", "c">>, <<"a", "a">>}
================================================================================
