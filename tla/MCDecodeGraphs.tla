----------------------------- MODULE MCDecodeGraphs -----------------------------
(* Three requests on a pool of blocks of two tokens, with graphs for contexts  *)
(* of two and of four tokens captured at the start and longer ones in service. *)
EXTENDS DecodeGraphs

MCRequests == 1..3
=============================================================================
