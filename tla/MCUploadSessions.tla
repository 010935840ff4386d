-------------------------- MODULE MCUploadSessions --------------------------
(* Instances of UploadSessions for TLC: which key each session id asks for. *)
EXTENDS UploadSessions, TLC

CONSTANTS k1, k2

OneKey == [s \in Sessions |-> k1]

\* The sessions are split over both keys, the first of them apart.
TwoKeys ==
    LET first == CHOOSE s \in Sessions : TRUE
    IN  [s \in Sessions |-> IF s = first THEN k2 ELSE k1]

RequestSymmetry == Permutations(Requests)
AllSymmetry == Permutations(Requests) \union Permutations(Sessions)
=============================================================================
