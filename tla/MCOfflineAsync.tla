----------------------------- MODULE MCOfflineAsync -----------------------------
(* Small calls for OfflineAsync: waveforms without speech, all speech, two     *)
(* stretches of speech, and three of which two are merged.                     *)
EXTENDS OfflineAsync

MCWaves ==
    {[dur |-> 12, segs |-> <<>>],
     [dur |-> 12, segs |-> <<[start |-> 2, end |-> 11]>>],
     [dur |-> 12, segs |-> <<[start |-> 2, end |-> 3], [start |-> 9, end |-> 12]>>],
     [dur |-> 12, segs |-> <<[start |-> 1, end |-> 3], [start |-> 5, end |-> 6],
                            [start |-> 8, end |-> 9], [start |-> 11, end |-> 12]>>]}

(* every way of finding up to three stretches in a waveform of nine *)
ManyWaves ==
    {[dur |-> 9, segs |-> <<[start |-> a, end |-> b], [start |-> c, end |-> d]>>] :
        <<a, b, c, d>> \in {t \in (0..9) \X (0..9) \X (0..9) \X (0..9) :
                              t[1] < t[2] /\ t[2] <= t[3] /\ t[3] < t[4]}}
    \cup {[dur |-> 9, segs |-> <<[start |-> 0, end |-> b], [start |-> c, end |-> d],
                               [start |-> d, end |-> 9]>>] :
            <<b, c, d>> \in {t \in (1..4) \X (4..8) \X (5..8) : t[1] <= t[2] /\ t[2] < t[3]}}

MCCalls == [1..1 -> MCWaves \cup ManyWaves] \cup [1..3 -> MCWaves]
=============================================================================
