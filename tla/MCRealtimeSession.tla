-------------------------- MODULE MCRealtimeSession --------------------------
(***************************************************************************)
(* A client that appends bytes in pieces that fit neither chunks nor       *)
(* samples, finishes and goes on.                                          *)
(***************************************************************************)
EXTENDS RealtimeSession
=============================================================================
