---------------------------- MODULE MCShareLinks ----------------------------
(* Instances of ShareLinks for TLC. *)
EXTENDS ShareLinks, TLC

RequestSymmetry == Permutations(Requests)
=============================================================================
