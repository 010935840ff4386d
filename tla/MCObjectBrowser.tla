--------------------------- MODULE MCObjectBrowser ---------------------------
(* Bounds of ObjectBrowser for TLC. *)
EXTENDS ObjectBrowser

CONSTANTS k1, k2, m1, m2

ParentOf == [p \in Folders |-> Root]

SomeListings == {<<>>, <<k1, k2>>}
=============================================================================
