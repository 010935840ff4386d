------------------------ MODULE UploadLifecycleProofs ------------------------
(***************************************************************************)
(* What the contract of a session says in the end, for any sessions: what  *)
(* UploadSessions and WebUpload keep because they implement it.            *)
(***************************************************************************)
EXTENDS UploadLifecycle, TLAPS

\* Nothing is written twice, nor both written and given up; completed is said of
\* written bytes only, and aborted only of bytes that were given up.
Exclusive ==
    \A s \in Sessions :
        /\ written[s] \in {0, 1}
        /\ s \in discarded => written[s] = 0
        /\ state[s] = "completed" => written[s] = 1
        /\ state[s] = "aborted" => s \in discarded

LEMMA InitContract ==
    ASSUME Init
    PROVE  TypeOK /\ Exclusive
  <1>1. TypeOK
    BY DEF Init, TypeOK, States
  <1> QED
    BY <1>1 DEF Init, Exclusive

\* Bytes that were written are given up by no record: an aborted one was not
\* written, and stays so.
LEMMA RecordContract ==
    ASSUME TypeOK, Exclusive, Record
    PROVE  TypeOK' /\ Exclusive'
  <1>1. TypeOK'
    BY DEF TypeOK, Record
  <1>2. ASSUME NEW s \in Sessions, state'[s] = "aborted"
        PROVE  written[s] = 0
    <2>1. CASE state[s] = "aborted"
      BY <2>1 DEF Exclusive
    <2>2. CASE state[s] = "active"
      BY <1>2, <2>2 DEF Record, Moves
    <2> QED
      BY <1>2, <2>1, <2>2 DEF Record, Moves
  <1>3. ASSUME NEW s \in Sessions, state'[s] = "completed"
        PROVE  written[s] = 1
    BY <1>3 DEF Record, Moves, Exclusive
  <1>4. \A s \in Sessions : s \in discarded' => written'[s] = 0
    BY <1>2 DEF Record, Exclusive
  <1> QED
    BY <1>1, <1>3, <1>4 DEF Record, Exclusive

LEMMA BytesContract ==
    ASSUME TypeOK, Exclusive, NEW s \in Sessions, Write(s) \/ Discard(s)
    PROVE  TypeOK' /\ Exclusive'
  BY DEF TypeOK, Exclusive, Write, Discard

LEMMA NextContract ==
    ASSUME TypeOK, Exclusive, [Next]_vars
    PROVE  TypeOK' /\ Exclusive'
  <1>1. CASE UNCHANGED vars
    BY <1>1 DEF vars, TypeOK, Exclusive
  <1> QED
    BY <1>1, RecordContract, BytesContract DEF Next

\* Whoever keeps the contract writes the bytes of a session once at most, calls no
\* session completed whose bytes did not reach their target, and none aborted whose
\* bytes did (POST /upload/complete and POST /upload/abort).
THEOREM ContractExclusive == Spec => [](TypeOK /\ Exclusive)
  <1>1. Init => TypeOK /\ Exclusive
    BY InitContract
  <1>2. TypeOK /\ Exclusive /\ [Next]_vars => (TypeOK /\ Exclusive)'
    BY NextContract
  <1> QED
    BY <1>1, <1>2, PTL DEF Spec
=============================================================================
