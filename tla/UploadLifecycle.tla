--------------------------- MODULE UploadLifecycle ---------------------------
(***************************************************************************)
(* What the upload API promises of its sessions, whatever requests, passes *)
(* and restarts do behind it.  The record of a session is stored, ended,   *)
(* expires and goes, once each and in this order; the bytes of a session   *)
(* reach their target at most once; completed is said of a session whose   *)
(* bytes have, and aborted of one whose bytes never will.                  *)
(***************************************************************************)
EXTENDS Naturals

CONSTANT Sessions

VARIABLES
    state,      \* what the record of a session says of it
    written,    \* how often the bytes of a session have been written at their target
    discarded   \* sessions whose bytes will never be, before any is said to be aborted

vars == <<state, written, discarded>>

\* A session is "gone" once it was refused or its record was deleted.
States == {"none", "active", "completed", "aborted", "expired", "gone"}

TypeOK ==
    /\ state \in [Sessions -> States]
    /\ written \in [Sessions -> Nat]
    /\ discarded \subseteq Sessions

Init ==
    /\ state = [s \in Sessions |-> "none"]
    /\ written = [s \in Sessions |-> 0]
    /\ discarded = {}

Moves(s, to) ==
    \/ to = state[s]
    \/ state[s] = "none" /\ to \in {"active", "gone"}
    \/ state[s] = "active" /\ to = "completed" /\ written[s] > 0
    \/ state[s] = "active" /\ to = "aborted" /\ written[s] = 0
    \/ state[s] \in {"active", "completed", "aborted"} /\ to = "expired"
    \/ state[s] = "expired" /\ to = "gone"

\* Records move on, several of them at once when a pass writes them.
Record ==
    /\ state' \in [Sessions -> States]
    /\ \A s \in Sessions : Moves(s, state'[s])
    /\ discarded' = discarded \union {s \in Sessions : state'[s] = "aborted"}
    /\ UNCHANGED written

\* The bytes of a session reach their target; a promotion that has begun may
\* outlast the record, but nothing follows an abort, and nothing comes twice.
Write(s) ==
    /\ written[s] = 0
    /\ s \notin discarded
    /\ state[s] \in {"active", "expired", "gone"}
    /\ written' = [written EXCEPT ![s] = @ + 1]
    /\ UNCHANGED <<state, discarded>>

\* Bytes are given up, at once or before the record says so.
Discard(s) ==
    /\ written[s] = 0
    /\ s \notin discarded
    /\ discarded' = discarded \union {s}
    /\ UNCHANGED <<state, written>>

Next == Record \/ \E s \in Sessions : Write(s) \/ Discard(s)

Spec == Init /\ [][Next]_vars
=============================================================================
