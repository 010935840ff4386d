----------------------------- MODULE ShareQuota -----------------------------
(* What the cap of a share promises: every download that is accounted for  *)
(* was paid for with one of Cap slots, and a slot is never given back.     *)
EXTENDS Naturals

CONSTANTS
    Cap,    \* slots of the share
    Seed    \* slots taken before this accounting began

VARIABLES left, paid, served

vars == <<left, paid, served>>

Init == left \in {Cap, Cap - Seed} /\ paid = 0 /\ served = 0

\* A download takes a slot ...
Take == left > 0 /\ left' = left - 1 /\ paid' = paid + 1 /\ UNCHANGED served

\* ... or a slot is gone with the answer that would have granted it;
Waste == left > 0 /\ left' = left - 1 /\ UNCHANGED <<paid, served>>

\* a download that has its slot is served, or fails and keeps the slot spent.
Deliver == paid > 0 /\ paid' = paid - 1 /\ served' = served + 1 /\ UNCHANGED left
Lose == paid > 0 /\ paid' = paid - 1 /\ UNCHANGED <<left, served>>

Next == Take \/ Waste \/ Deliver \/ Lose

Spec == Init /\ [][Next]_vars
=============================================================================
