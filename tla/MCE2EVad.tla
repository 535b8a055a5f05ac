------------------------------ MODULE MCE2EVad ------------------------------
(***************************************************************************)
(* The endpoint detector on short streams: every sequence of frames up to  *)
(* MaxFrames, long enough for a segment that is cut off for its length and *)
(* another after it.                                                       *)
(***************************************************************************)
EXTENDS E2EVad
=============================================================================
