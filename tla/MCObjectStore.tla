---------------------------- MODULE MCObjectStore ----------------------------
(* Bounds of ObjectStore for TLC. *)
EXTENDS ObjectStore, TLC

CONSTANTS ka, kb, x, y, z, s1, r1, r2, t1

TwoFiles == ka :> x @@ kb :> y

StagedOf == s1 :> z

TargetOf == s1 :> ka

RequestSymmetry == Permutations(Requests)
=============================================================================
