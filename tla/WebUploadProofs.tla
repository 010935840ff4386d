-------------------------- MODULE WebUploadProofs --------------------------
(***************************************************************************)
(* WebUpload for any number of uploads, slots, part workers and retries,   *)
(* and for files of any size: type correctness, the slots, the parts, and  *)
(* what is stored.                                                         *)
(*                                                                         *)
(* An upload's state is its own but for the gate (Gate).  Of its parts the *)
(* shared cursor separates what is left from what was taken, and what was  *)
(* taken is uploaded or with one busy worker (Parts).                      *)
(***************************************************************************)
EXTENDS WebUpload, UploadPolicyProofs, FiniteSetTheorems

-----------------------------------------------------------------------------
(* Steps of a worker.                                                      *)

BusyLabels == WorkerLabels \ {"off", "failed"}

AnyWorkerStates ==
    [at : WorkerLabels, part : Nat, tries : 0 .. MaxRetries, inner : 0 .. MaxRetries]

\* Who waits for a retry has one left.
WorkerStates ==
    {r \in AnyWorkerStates :
        /\ r.at = "sign.backoff" => r.inner < MaxRetries
        /\ r.at = "put.backoff" => r.tries < MaxRetries}

\* It goes on with the same part.
Continues(u, w) ==
    /\ \E r \in WorkerStates :
         /\ r.at \in BusyLabels
         /\ r.part = worker[u][w].part
         /\ Set(u, w, r)
    /\ UNCHANGED <<file, cancelled, gateVars, pc, tries, cursor, etags, failure, serverVars, lost>>

\* It fails: as refused only when the session lives and will not sign the part.
Fails(u, w) ==
    /\ w \in Busy(u)
    /\ \E why \in {"part", "refused", "session", "cancel"} :
         /\ WorkerFails(u, w, why)
         /\ why = "refused" =>
              /\ session[u] = "active"
              /\ ~SignPartAccepts(file[u].size, worker[u][w].part, Chunks(u)[worker[u][w].part])
         /\ why = "cancel" => u \in cancelled
    /\ UNCHANGED <<file, cancelled, gateVars, tries, session, bytes, lost>>

WorkerStep(u, w) ==
    \/ SignAnswered(u, w) \/ SignFails(u, w) \/ SignRetry(u, w) \/ PartRetry(u, w)
    \/ PutOk(u, w) \/ PutFails(u, w) \/ PartRefused(u, w) \/ PartCancelled(u, w)

\* The domains and ranges the steps below are read off.
Shape ==
    /\ pc \in [Uploads -> PageLabels]
    /\ worker \in [Uploads -> [Workers -> WorkerStates]]
    /\ etags \in [Uploads -> SUBSET Nat]
    /\ cursor \in [Uploads -> Nat]
    /\ call \in [Uploads -> [Calls -> {"none", "sent", "ok", "busy", "refused", "failed"}]]
    /\ item \in [Uploads -> {"", "uploading", "done", "error", "cancelled"}]
    /\ tries \in [Uploads -> 0 .. MaxRetries]
    /\ failure \in [Uploads -> {"", "init", "part", "refused", "session", "complete", "cancel"}]
    /\ session \in [Uploads -> {"none", "active", "completed", "aborted", "expired"}]
    /\ bytes \in [Uploads -> {"parts", "assembled", "stored", "dropped"}]
    /\ lost \in [Uploads -> SUBSET Calls]
    /\ cancelled \subseteq Uploads
    /\ \A u \in Uploads : At(u, "backoff") => tries[u] < MaxRetries

LEMMA WorkerShape ==
    ASSUME Shape, NEW u \in Uploads, NEW w \in Workers
    PROVE  worker[u][w] \in WorkerStates
  <1>1. worker \in [Uploads -> [Workers -> WorkerStates]]
    BY DEF Shape
  <1> QED
    BY <1>1

LEMMA RetryContinues ==
    ASSUME WebAssumption, Shape, NEW u \in Uploads, NEW w \in Busy(u), AttemptFails(u, w)
    PROVE  \/ /\ \E r \in WorkerStates :
                   /\ r.at \in BusyLabels /\ r.part = worker[u][w].part /\ Set(u, w, r)
              /\ UNCHANGED <<item, pc, call, failure, cursor, etags>>
           \/ WorkerFails(u, w, "part")
  <1> DEFINE r == [worker[u][w] EXCEPT !.at = "put.backoff", !.inner = 0]
  <1>1. worker[u][w] \in WorkerStates
    BY WorkerShape DEF Busy
  <1>2. CASE worker[u][w].tries < MaxRetries
    <2>1. 0 \in 0 .. MaxRetries /\ worker[u][w].tries \in 0 .. MaxRetries
      BY <1>1 DEF WorkerStates, AnyWorkerStates, WebAssumption
    <2>2. worker[u][w] \in AnyWorkerStates
      BY <1>1 DEF WorkerStates
    <2>3. /\ r.at = "put.backoff" /\ r.part = worker[u][w].part
          /\ r.tries = worker[u][w].tries /\ r.inner = 0
      BY <2>2 DEF AnyWorkerStates
    <2>4. r \in AnyWorkerStates
      BY <2>1, <2>2 DEF AnyWorkerStates, WorkerLabels
    <2>5. r \in WorkerStates /\ r.at \in BusyLabels /\ r.part = worker[u][w].part
      BY <1>2, <2>3, <2>4 DEF WorkerStates, BusyLabels, WorkerLabels
    <2> QED
      BY <1>2, <2>5 DEF AttemptFails
  <1>3. CASE ~(worker[u][w].tries < MaxRetries)
    BY <1>3 DEF AttemptFails
  <1> QED
    BY <1>2, <1>3

LEMMA WorkerCases ==
    ASSUME WebAssumption, Shape, NEW u \in Uploads, NEW w \in Workers, WorkerStep(u, w)
    PROVE  /\ w \in Busy(u)
           /\ \/ Continues(u, w) /\ (UNCHANGED item \/ Progress(u))
              \/ Fails(u, w) /\ UNCHANGED item
              \/ PutOk(u, w)
  <1>1. worker[u][w] \in WorkerStates /\ MaxRetries \in Nat
    BY WorkerShape DEF WebAssumption
  <1>2. w \in Busy(u)
    BY DEF WorkerStep, SignAnswered, SignFails, SignRetry, PartRetry, PutOk, PutFails,
           PartRefused, PartCancelled, Is, Busy
  <1> USE DEF gateVars, serverVars
  <1>3. CASE SignAnswered(u, w)
    <2> DEFINE r == [worker[u][w] EXCEPT !.at = "put"]
    <2>1. r \in WorkerStates /\ r.at \in BusyLabels /\ r.part = worker[u][w].part
      BY <1>1 DEF WorkerStates, AnyWorkerStates, WorkerLabels, BusyLabels
    <2>2. CASE Set(u, w, r) /\ UNCHANGED <<item, pc, call, failure, cursor, etags>>
      BY <1>2, <1>3, <2>1, <2>2 DEF SignAnswered, Continues
    <2> DEFINE Signs == SignPartAccepts(file[u].size, worker[u][w].part, Chunks(u)[worker[u][w].part])
    <2>3. CASE session[u] = "active" /\ ~Signs /\ WorkerFails(u, w, "refused")
      BY <1>2, <1>3, <2>3 DEF SignAnswered, Fails, WorkerFails
    <2>4. CASE session[u] # "active" /\ WorkerFails(u, w, "session")
      BY <1>2, <1>3, <2>4 DEF SignAnswered, Fails, WorkerFails
    <2> QED
      BY <1>3, <2>2, <2>3, <2>4 DEF SignAnswered
  <1>4. CASE SignFails(u, w)
    <2> DEFINE r == [worker[u][w] EXCEPT !.at = "sign.backoff"]
    <2>1. CASE AttemptFails(u, w)
      BY <1>2, <1>4, <2>1, RetryContinues DEF SignFails, Continues, Fails, WorkerFails
    <2>2. CASE ~AttemptFails(u, w)
      <3>1. /\ worker[u][w].inner < MaxRetries
            /\ Set(u, w, r) /\ UNCHANGED <<item, pc, call, failure, cursor, etags>>
        BY <1>4, <2>2 DEF SignFails
      <3>2. r \in WorkerStates /\ r.at \in BusyLabels /\ r.part = worker[u][w].part
        BY <1>1, <3>1 DEF WorkerStates, AnyWorkerStates, WorkerLabels, BusyLabels
      <3> QED
        BY <1>2, <1>4, <3>1, <3>2 DEF SignFails, Continues
    <2> QED
      BY <2>1, <2>2
  <1>5. CASE SignRetry(u, w)
    <2> DEFINE r == [worker[u][w] EXCEPT !.at = "sign", !.inner = @ + 1]
    <2>1. worker[u][w].tries \in 0 .. MaxRetries /\ worker[u][w].inner + 1 \in 0 .. MaxRetries
      BY <1>1, <1>5 DEF SignRetry, Is, WorkerStates, AnyWorkerStates
    <2>2. worker[u][w] \in AnyWorkerStates
      BY <1>1 DEF WorkerStates
    <2>3. /\ r.at = "sign" /\ r.part = worker[u][w].part
          /\ r.tries = worker[u][w].tries /\ r.inner = worker[u][w].inner + 1
      BY <2>2 DEF AnyWorkerStates
    <2>4. r \in AnyWorkerStates
      BY <2>1, <2>2 DEF AnyWorkerStates, WorkerLabels
    <2>5. r \in WorkerStates /\ r.at \in BusyLabels /\ r.part = worker[u][w].part
      BY <2>3, <2>4 DEF WorkerStates, BusyLabels, WorkerLabels
    <2> QED
      BY <1>2, <1>5, <2>5 DEF SignRetry, Continues
  <1>6. CASE PartRetry(u, w)
    <2> DEFINE r == [worker[u][w] EXCEPT !.at = "sign", !.tries = @ + 1]
    <2>1. worker[u][w].tries + 1 \in 0 .. MaxRetries /\ worker[u][w].inner \in 0 .. MaxRetries
      BY <1>1, <1>6 DEF PartRetry, Is, WorkerStates, AnyWorkerStates
    <2>2. worker[u][w] \in AnyWorkerStates
      BY <1>1 DEF WorkerStates
    <2>3. /\ r.at = "sign" /\ r.part = worker[u][w].part
          /\ r.tries = worker[u][w].tries + 1 /\ r.inner = worker[u][w].inner
      BY <2>2 DEF AnyWorkerStates
    <2>4. r \in AnyWorkerStates
      BY <2>1, <2>2 DEF AnyWorkerStates, WorkerLabels
    <2>5. r \in WorkerStates /\ r.at \in BusyLabels /\ r.part = worker[u][w].part
      BY <2>3, <2>4 DEF WorkerStates, BusyLabels, WorkerLabels
    <2> QED
      BY <1>2, <1>6, <2>5 DEF PartRetry, Continues
  <1>7. CASE PutFails(u, w)
    BY <1>2, <1>7, RetryContinues DEF PutFails, Continues, Fails, WorkerFails
  <1>8. CASE PartRefused(u, w) \/ PartCancelled(u, w)
    BY <1>2, <1>8 DEF PartRefused, PartCancelled, Fails, WorkerFails
  <1> QED
    BY <1>2, <1>3, <1>4, <1>5, <1>6, <1>7, <1>8 DEF WorkerStep

-----------------------------------------------------------------------------
(* Type correctness.                                                       *)

HolderLabels == PageLabels \ {"new", "waiting", "over"}

\* What a step does to the places of uploads and to the gate.
GateStep ==
    \/ UNCHANGED <<pc, gateVars>>
    \/ \E u \in Uploads : pc[u] = "new" /\ Acquire(u)
    \/ \E u \in Holders, label \in HolderLabels : Goto(u, label) /\ UNCHANGED gateVars
    \/ \E u \in Holders : Release(u)

LEMMA HolderPlace ==
    ASSUME Shape, NEW u \in Uploads, pc[u] \in HolderLabels
    PROVE  u \in Holders
  BY DEF Holders, HolderLabels

\* The steps of the page that are no worker's.
EngineStep(u) ==
    \/ Start(u) \/ InitAnswered(u) \/ InitLost(u) \/ InitRetry(u) \/ InitCancelled(u)
    \/ CompleteAnswered(u) \/ CompleteLost(u) \/ AbortEnds(u)

LEMMA PageCases ==
    ASSUME NEW u \in Uploads, Page(u)
    PROVE  EngineStep(u) \/ \E w \in Workers : WorkerStep(u, w)
  BY DEF Page, EngineStep, WorkerStep

LEMMA EngineGate ==
    ASSUME Shape, NEW u \in Uploads, EngineStep(u)
    PROVE  /\ u \in Holders
           /\ \/ \E label \in HolderLabels : Goto(u, label) /\ UNCHANGED gateVars
              \/ Release(u)
  <1>1. pc[u] \in HolderLabels
    BY DEF EngineStep, Start, InitAnswered, InitLost, InitRetry, InitCancelled,
           CompleteAnswered, CompleteLost, AbortEnds, At, HolderLabels, PageLabels
  <1>2. \/ Release(u)
        \/ \E label \in {"init", "backoff", "parts", "complete", "abort"} :
             Goto(u, label) /\ UNCHANGED gateVars
    BY DEF EngineStep, Start, InitAnswered, InitLost, InitRetry, InitCancelled,
           CompleteAnswered, CompleteLost, AbortEnds, ToAbort, Finish, gateVars
  <1>3. ASSUME NEW label \in {"init", "backoff", "parts", "complete", "abort"}
        PROVE  label \in HolderLabels
    BY DEF HolderLabels, PageLabels
  <1>4. u \in Holders
    BY <1>1, HolderPlace
  <1> QED
    BY <1>2, <1>3, <1>4

LEMMA WorkerGate ==
    ASSUME WebAssumption, Shape, NEW u \in Uploads, NEW w \in Workers, WorkerStep(u, w)
    PROVE  /\ UNCHANGED gateVars
           /\ \/ UNCHANGED pc
              \/ /\ pc[u] = "parts" /\ u \in Holders
                 /\ \E label \in {"abort", "complete"} : Goto(u, label)
  <1>1. CASE Continues(u, w)
    BY <1>1 DEF Continues
  <1>2. CASE Fails(u, w)
    BY <1>2 DEF Fails, WorkerFails, At, Holders
  <1>3. CASE PutOk(u, w)
    BY <1>3 DEF PutOk, At, Holders
  <1> QED
    BY <1>1, <1>2, <1>3, WorkerCases

\* The steps of the Worker, and what they leave.
LEMMA ServerCases ==
    ASSUME NEW u \in Uploads, Server(u)
    PROVE  /\ Served
           /\ \/ ServeInit(u) \/ Assemble(u) \/ Promote(u) \/ MarkCompleted(u)
              \/ CompleteFails(u) \/ ServeAbort(u) \/ Expire(u)
  BY DEF Server, ServeComplete, ServeInit, Assemble, Promote, MarkCompleted, CompleteFails,
         ServeAbort, Expire

LEMMA GateCases ==
    ASSUME WebAssumption, Shape, [Next]_vars
    PROVE  GateStep
  <1>1. CASE \E u \in Uploads : Enqueue(u)
    BY <1>1 DEF Enqueue, At, GateStep
  <1>2. CASE \E u \in Uploads : Cancel(u) \/ Server(u)
    BY <1>2, ServerCases DEF Cancel, Served, GateStep
  <1>3. CASE ClearFinished \/ UNCHANGED vars
    BY <1>3 DEF ClearFinished, vars, GateStep
  <1>4. CASE \E u \in Uploads : EngineStep(u)
    BY <1>4, EngineGate DEF GateStep
  <1>5. CASE \E u \in Uploads, w \in Workers : WorkerStep(u, w)
    BY <1>5, WorkerGate DEF GateStep, HolderLabels, PageLabels
  <1> QED
    BY <1>1, <1>2, <1>3, <1>4, <1>5, PageCases DEF Next, User

\* All of Shape but the places.
DataShape ==
    /\ worker \in [Uploads -> [Workers -> WorkerStates]]
    /\ etags \in [Uploads -> SUBSET Nat]
    /\ cursor \in [Uploads -> Nat]
    /\ call \in [Uploads -> [Calls -> {"none", "sent", "ok", "busy", "refused", "failed"}]]
    /\ item \in [Uploads -> {"", "uploading", "done", "error", "cancelled"}]
    /\ tries \in [Uploads -> 0 .. MaxRetries]
    /\ failure \in [Uploads -> {"", "init", "part", "refused", "session", "complete", "cancel"}]
    /\ session \in [Uploads -> {"none", "active", "completed", "aborted", "expired"}]
    /\ bytes \in [Uploads -> {"parts", "assembled", "stored", "dropped"}]
    /\ lost \in [Uploads -> SUBSET Calls]
    /\ cancelled \subseteq Uploads

LEMMA CallTyped ==
    ASSUME Shape, NEW u \in Uploads, NEW c \in Calls,
           NEW answer \in {"none", "sent", "ok", "busy", "refused", "failed"},
           call' = [call EXCEPT ![u][c] = answer]
    PROVE  call' \in [Uploads -> [Calls -> {"none", "sent", "ok", "busy", "refused", "failed"}]]
  <1>1. call \in [Uploads -> [Calls -> {"none", "sent", "ok", "busy", "refused", "failed"}]]
    BY DEF Shape
  <1> QED
    BY <1>1

LEMMA LostTyped ==
    ASSUME Shape, NEW u \in Uploads, NEW c \in Calls, GiveUp(u, c)
    PROVE  lost' \in [Uploads -> SUBSET Calls]
  BY DEF Shape, GiveUp

LEMMA PoolTyped ==
    ASSUME WebAssumption, Shape, NEW u \in Uploads, PoolStart(u)
    PROVE  /\ cursor' \in [Uploads -> Nat]
           /\ worker' \in [Uploads -> [Workers -> WorkerStates]]
  <1> DEFINE first == Workers \intersect DOMAIN SliceIntoChunks(file[u].size)
             pool == [w \in Workers |->
                        IF w \in DOMAIN SliceIntoChunks(file[u].size)
                        THEN [at |-> "sign", part |-> w, tries |-> 0, inner |-> 0]
                        ELSE Off]
  <1>1. IsFiniteSet(Workers) /\ Workers \subseteq Nat
    <2>1. IsFiniteSet(1 .. Cardinality(Workers))
      BY FS_Interval DEF WebAssumption
    <2> QED
      BY <2>1 DEF WebAssumption
  <1>2. IsFiniteSet(first)
    BY <1>1, FS_Intersection
  <1>3. Cardinality(first) \in Nat
    BY <1>2, FS_CardinalityType
  <1>4. cursor' = [cursor EXCEPT ![u] = Cardinality(first)]
    BY DEF PoolStart
  <1>5. cursor' \in [Uploads -> Nat]
    BY <1>3, <1>4 DEF Shape
  <1>6. ASSUME NEW w \in Workers
        PROVE  /\ [at |-> "sign", part |-> w, tries |-> 0, inner |-> 0] \in WorkerStates
               /\ Off \in WorkerStates
    BY <1>1 DEF WorkerStates, AnyWorkerStates, WorkerLabels, Off, WebAssumption
  <1>7. pool \in [Workers -> WorkerStates]
    BY <1>6
  <1>8. worker' = [worker EXCEPT ![u] = pool]
    BY DEF PoolStart
  <1>9. worker' \in [Uploads -> [Workers -> WorkerStates]]
    BY <1>7, <1>8 DEF Shape
  <1> QED
    BY <1>5, <1>9

LEMMA WorkerTyped ==
    ASSUME Shape, NEW u \in Uploads, NEW w \in Workers, NEW r \in WorkerStates, Set(u, w, r)
    PROVE  worker' \in [Uploads -> [Workers -> WorkerStates]]
  <1>1. worker \in [Uploads -> [Workers -> WorkerStates]]
    BY DEF Shape
  <1> QED
    BY <1>1 DEF Set

LEMMA WorkerStepTyped ==
    ASSUME WebAssumption, Shape, NEW u \in Uploads, NEW w \in Workers, WorkerStep(u, w)
    PROVE  DataShape'
  <1>1. CASE Continues(u, w) /\ (UNCHANGED item \/ Progress(u))
    <2>1. worker' \in [Uploads -> [Workers -> WorkerStates]]
      BY <1>1, WorkerTyped DEF Continues
    <2>2. item' \in [Uploads -> {"", "uploading", "done", "error", "cancelled"}]
      BY <1>1 DEF Progress, Shape
    <2> QED
      BY <1>1, <2>1, <2>2 DEF Continues, Shape, DataShape, serverVars
  <1>2. CASE Fails(u, w) /\ UNCHANGED item
    <2>1. PICK why \in {"part", "refused", "session", "cancel"} : WorkerFails(u, w, why)
      BY <1>2 DEF Fails
    <2> DEFINE r == [worker[u][w] EXCEPT !.at = "failed"]
    <2>2. r \in WorkerStates
      BY WorkerShape DEF WorkerStates, AnyWorkerStates, WorkerLabels
    <2>3. worker' \in [Uploads -> [Workers -> WorkerStates]]
      BY <2>1, <2>2, WorkerTyped DEF WorkerFails
    <2>4. call' \in [Uploads -> [Calls -> {"none", "sent", "ok", "busy", "refused", "failed"}]]
      <3>1. CASE Send(u, "abort")
        BY <3>1, CallTyped DEF Send, Calls
      <3>2. CASE UNCHANGED call
        BY <3>2 DEF Shape
      <3> QED
        BY <2>1, <3>1, <3>2 DEF WorkerFails
    <2>5. failure' \in [Uploads -> {"", "init", "part", "refused", "session", "complete", "cancel"}]
      BY <2>1 DEF WorkerFails, Shape
    <2> QED
      BY <1>2, <2>1, <2>3, <2>4, <2>5 DEF Fails, WorkerFails, Shape, DataShape
  <1>3. CASE PutOk(u, w)
    <2>1. worker[u][w] \in WorkerStates /\ worker[u][w].part \in Nat /\ cursor[u] \in Nat
      BY WorkerShape DEF WorkerStates, AnyWorkerStates, Shape
    <2>2. /\ worker' \in [Uploads -> [Workers -> WorkerStates]]
          /\ cursor' \in [Uploads -> Nat]
      <3>1. /\ [at |-> "sign", part |-> cursor[u] + 1, tries |-> 0, inner |-> 0] \in WorkerStates
            /\ Off \in WorkerStates
        BY <2>1 DEF WorkerStates, AnyWorkerStates, WorkerLabels, Off, WebAssumption
      <3>2. worker' \in [Uploads -> [Workers -> WorkerStates]]
        BY <1>3, <3>1, WorkerTyped DEF PutOk, NextChunk
      <3>3. UNCHANGED cursor \/ cursor' = [cursor EXCEPT ![u] = cursor[u] + 1]
        BY <1>3 DEF PutOk, NextChunk
      <3>4. cursor \in [Uploads -> Nat]
        BY DEF Shape
      <3>5. cursor[u] + 1 \in Nat
        BY <2>1
      <3>6. cursor' \in [Uploads -> Nat]
        BY <3>3, <3>4, <3>5
      <3> QED
        BY <3>2, <3>6
    <2>3. etags' \in [Uploads -> SUBSET Nat]
      BY <1>3, <2>1 DEF PutOk, Shape
    <2>4. item' \in [Uploads -> {"", "uploading", "done", "error", "cancelled"}]
      BY <1>3 DEF PutOk, Progress, Shape
    <2>5. call' \in [Uploads -> [Calls -> {"none", "sent", "ok", "busy", "refused", "failed"}]]
      <3>1. CASE Send(u, "complete")
        BY <3>1, CallTyped DEF Send, Calls
      <3>2. CASE UNCHANGED call
        BY <3>2 DEF Shape
      <3> QED
        BY <1>3, <3>1, <3>2 DEF PutOk
    <2> QED
      BY <1>3, <2>2, <2>3, <2>4, <2>5 DEF PutOk, Shape, DataShape
  <1> QED
    BY <1>1, <1>2, <1>3, WorkerCases

LEMMA FinishTyped ==
    ASSUME Shape, NEW u \in Uploads, NEW ending \in {"done", "error", "cancelled"}, Finish(u, ending)
    PROVE  item' \in [Uploads -> {"", "uploading", "done", "error", "cancelled"}]
  BY DEF Finish, Shape

LEMMA EngineTyped ==
    ASSUME WebAssumption, Shape, NEW u \in Uploads, EngineStep(u)
    PROVE  DataShape'
  <1>1. item' \in [Uploads -> {"", "uploading", "done", "error", "cancelled"}]
    <2>1. UNCHANGED item \/ \E ending \in {"done", "error", "cancelled"} : Finish(u, ending)
      BY DEF EngineStep, Start, InitAnswered, InitLost, InitRetry, InitCancelled,
             CompleteAnswered, CompleteLost, AbortEnds, ToAbort
    <2> QED
      BY <2>1, FinishTyped DEF Shape
  <1>2. call' \in [Uploads -> [Calls -> {"none", "sent", "ok", "busy", "refused", "failed"}]]
    <2>1. UNCHANGED call \/ Send(u, "init") \/ Send(u, "abort")
      BY DEF EngineStep, Start, InitAnswered, InitLost, InitRetry, InitCancelled,
             CompleteAnswered, CompleteLost, AbortEnds, ToAbort, serverVars
    <2> QED
      BY <2>1, CallTyped DEF Send, Calls, Shape
  <1>3. lost' \in [Uploads -> SUBSET Calls]
    <2>1. UNCHANGED lost \/ \E c \in Calls : GiveUp(u, c)
      BY DEF EngineStep, Start, InitAnswered, InitLost, InitRetry, InitCancelled,
             CompleteAnswered, CompleteLost, AbortEnds, Calls
    <2> QED
      BY <2>1, LostTyped DEF Shape
  <1>4. failure' \in [Uploads -> {"", "init", "part", "refused", "session", "complete", "cancel"}]
    <2>1. \/ UNCHANGED failure
          \/ \E why \in {"init", "complete", "cancel"} : failure' = [failure EXCEPT ![u] = why]
      BY DEF EngineStep, Start, InitAnswered, InitLost, InitRetry, InitCancelled,
             CompleteAnswered, CompleteLost, AbortEnds, ToAbort
    <2> QED
      BY <2>1 DEF Shape
  <1>5. UNCHANGED <<session, bytes, cancelled, etags>>
    BY DEF EngineStep, Start, InitAnswered, InitLost, InitRetry, InitCancelled,
           CompleteAnswered, CompleteLost, AbortEnds, Unchanged, serverVars
  <1>6. cursor' \in [Uploads -> Nat] /\ worker' \in [Uploads -> [Workers -> WorkerStates]]
    <2>1. UNCHANGED <<cursor, worker>> \/ PoolStart(u)
      BY DEF EngineStep, Start, InitAnswered, InitLost, InitRetry, InitCancelled,
             CompleteAnswered, CompleteLost, AbortEnds, Unchanged
    <2> QED
      BY <2>1, PoolTyped DEF Shape
  <1>7. tries' \in [Uploads -> 0 .. MaxRetries]
    <2>1. tries \in [Uploads -> 0 .. MaxRetries] /\ MaxRetries \in Nat
      BY DEF Shape, WebAssumption
    <2>2. CASE UNCHANGED tries
      BY <2>1, <2>2
    <2>3. CASE InitRetry(u)
      <3>1. tries[u] < MaxRetries /\ tries' = [tries EXCEPT ![u] = tries[u] + 1]
        BY <2>3 DEF InitRetry, Shape
      <3>2. tries[u] + 1 \in 0 .. MaxRetries
        BY <2>1, <3>1
      <3> QED
        BY <2>1, <3>1, <3>2
    <2> QED
      BY <2>2, <2>3
      DEF EngineStep, Start, InitAnswered, InitLost, InitCancelled,
          CompleteAnswered, CompleteLost, AbortEnds
  <1>8. /\ session' \in [Uploads -> {"none", "active", "completed", "aborted", "expired"}]
        /\ bytes' \in [Uploads -> {"parts", "assembled", "stored", "dropped"}]
        /\ cancelled' \subseteq Uploads
        /\ etags' \in [Uploads -> SUBSET Nat]
    BY <1>5 DEF Shape
  <1> QED
    BY <1>1, <1>2, <1>3, <1>4, <1>6, <1>7, <1>8 DEF DataShape

\* A step of the Worker answers a call that was sent, or none, and is of one upload.
LEMMA ServerMoves ==
    ASSUME NEW u \in Uploads, Server(u)
    PROVE  /\ \/ UNCHANGED call
              \/ \E c \in Calls, answer \in {"ok", "busy", "refused", "failed"} :
                   call[u][c] = "sent" /\ Answer(u, c, answer)
           /\ \/ UNCHANGED session
              \/ \E state \in {"active", "completed", "aborted", "expired"} :
                   session' = [session EXCEPT ![u] = state]
           /\ \/ UNCHANGED bytes
              \/ \E place \in {"assembled", "stored", "dropped"} :
                   bytes' = [bytes EXCEPT ![u] = place]
  <1> USE ServerCases DEF ServeInit, Assemble, Promote, MarkCompleted, CompleteFails, ServeAbort, Expire
  <1>1. \/ UNCHANGED call
        \/ \E c \in Calls, answer \in {"ok", "busy", "refused", "failed"} :
             call[u][c] = "sent" /\ Answer(u, c, answer)
    BY DEF Calls
  <1>2. \/ UNCHANGED session
        \/ \E state \in {"active", "completed", "aborted", "expired"} :
             session' = [session EXCEPT ![u] = state]
    OBVIOUS
  <1>3. \/ UNCHANGED bytes
        \/ \E place \in {"assembled", "stored", "dropped"} :
             bytes' = [bytes EXCEPT ![u] = place]
    OBVIOUS
  <1> QED
    BY <1>1, <1>2, <1>3

LEMMA ServerTyped ==
    ASSUME Shape, NEW u \in Uploads, Server(u)
    PROVE  DataShape'
  <1>1. call' \in [Uploads -> [Calls -> {"none", "sent", "ok", "busy", "refused", "failed"}]]
    <2>1. CASE UNCHANGED call
      BY <2>1 DEF Shape
    <2>2. CASE ~UNCHANGED call
      BY <2>2, ServerMoves, CallTyped DEF Answer
    <2> QED
      BY <2>1, <2>2
  <1>2. session' \in [Uploads -> {"none", "active", "completed", "aborted", "expired"}]
    BY ServerMoves DEF Shape
  <1>3. bytes' \in [Uploads -> {"parts", "assembled", "stored", "dropped"}]
    BY ServerMoves DEF Shape
  <1>4. UNCHANGED <<item, cancelled, engineVars, failure, lost>>
    BY ServerCases DEF Served
  <1> QED
    BY <1>1, <1>2, <1>3, <1>4 DEF DataShape, Shape, engineVars

LEMMA OthersTyped ==
    ASSUME Shape,
           ClearFinished \/ UNCHANGED vars \/ \E u \in Uploads : User(u)
    PROVE  DataShape'
  <1>1. UNCHANGED <<engineVars, failure, serverVars, lost>>
    BY DEF ClearFinished, vars, User, Enqueue, Cancel
  <1>2. item' \in [Uploads -> {"", "uploading", "done", "error", "cancelled"}]
    <2>1. CASE ClearFinished
      BY <2>1 DEF ClearFinished
    <2>2. CASE ~ClearFinished
      BY <2>2 DEF Shape, vars, User, Enqueue, Cancel
    <2> QED
      BY <2>1, <2>2
  <1>3. cancelled' \subseteq Uploads
    BY DEF ClearFinished, vars, User, Enqueue, Cancel, Shape
  <1> QED
    BY <1>1, <1>2, <1>3 DEF DataShape, Shape, engineVars, serverVars

\* Where a slot's release and its acquisition leave the uploads.
LEMMA ReleasePlaces ==
    ASSUME Shape, NEW u \in Uploads, Release(u)
    PROVE  /\ pc' \in [Uploads -> PageLabels]
           /\ \A g \in Uploads : pc'[g] = pc[g] \/ pc'[g] = "over" \/ pc'[g] = "granted"
           /\ pc'[u] = "over" \/ pc'[u] = "granted"
  <1> USE DEF PageLabels
  <1>1. pc \in [Uploads -> PageLabels]
    BY DEF Shape
  <1>2. CASE waiters # <<>>
    <2>1. pc' = [[pc EXCEPT ![u] = "over"] EXCEPT ![Head(waiters)] = "granted"]
      BY <1>2 DEF Release
    <2> QED
      BY <1>1, <2>1
  <1>3. CASE waiters = <<>>
    BY <1>1, <1>3 DEF Release
  <1> QED
    BY <1>2, <1>3

LEMMA PlacesTyped ==
    ASSUME Shape, GateStep
    PROVE  pc' \in [Uploads -> PageLabels]
  <1>1. CASE UNCHANGED <<pc, gateVars>>
    BY <1>1 DEF Shape
  <1>2. CASE \E u \in Uploads : pc[u] = "new" /\ Acquire(u)
    <2>1. \E u \in Uploads, label \in {"granted", "waiting"} : pc' = [pc EXCEPT ![u] = label]
      BY <1>2 DEF Acquire
    <2>2. pc \in [Uploads -> PageLabels] /\ {"granted", "waiting"} \subseteq PageLabels
      BY DEF Shape, PageLabels
    <2> QED
      BY <2>1, <2>2
  <1>3. CASE \E u \in Holders, label \in HolderLabels : Goto(u, label) /\ UNCHANGED gateVars
    BY <1>3 DEF Goto, HolderLabels, Shape
  <1>4. CASE \E u \in Holders : Release(u)
    BY <1>4, ReleasePlaces DEF Holders
  <1> QED
    BY <1>1, <1>2, <1>3, <1>4 DEF GateStep

\* Only a busy answer leads to another try of init, while there is one left.
LEMMA BackoffStep ==
    ASSUME WebAssumption, Shape, [Next]_vars
    PROVE  \A u \in Uploads : pc'[u] = "backoff" => tries'[u] < MaxRetries
  <1> SUFFICES ASSUME NEW u \in Uploads, pc'[u] = "backoff"
               PROVE  tries'[u] < MaxRetries
    OBVIOUS
  <1>1. /\ pc \in [Uploads -> PageLabels] /\ DOMAIN tries = Uploads
        /\ pc[u] = "backoff" => tries[u] < MaxRetries
    BY DEF Shape, At
  <1>2. CASE EngineStep(u)
    <2>1. CASE Release(u)
      BY <2>1, ReleasePlaces
    <2>2. CASE InitAnswered(u) /\ ~Release(u)
      BY <1>1, <2>2 DEF InitAnswered, Goto, Finish
    <2>3. CASE ~InitAnswered(u) /\ ~Release(u)
      BY <1>1, <1>2, <2>3
      DEF EngineStep, Start, InitLost, InitRetry, InitCancelled, CompleteAnswered,
          CompleteLost, AbortEnds, ToAbort, Goto, Finish
    <2> QED
      BY <2>1, <2>2, <2>3
  <1>3. ASSUME NEW g \in Uploads, g # u, EngineStep(g)
        PROVE  tries'[u] < MaxRetries
    <2>1. pc'[u] = pc[u]
      BY <1>1, <1>3, EngineGate, ReleasePlaces DEF Goto
    <2>2. tries' = tries \/ tries' = [tries EXCEPT ![g] = @ + 1]
      BY <1>3
      DEF EngineStep, Start, InitAnswered, InitLost, InitRetry, InitCancelled,
          CompleteAnswered, CompleteLost, AbortEnds
    <2> QED
      BY <1>1, <1>3, <2>1, <2>2
  <1>4. ASSUME NEW g \in Uploads, NEW w \in Workers, WorkerStep(g, w)
        PROVE  tries'[u] < MaxRetries
    <2>1. pc'[u] = pc[u]
      BY <1>1, <1>4, WorkerGate DEF Goto
    <2>2. UNCHANGED tries
      BY <1>4, WorkerCases DEF Continues, Fails, PutOk
    <2> QED
      BY <1>1, <2>1, <2>2
  <1>5. CASE \E g \in Uploads : Enqueue(g)
    BY <1>1, <1>5 DEF Enqueue, Acquire, engineVars
  <1>6. CASE ClearFinished \/ UNCHANGED vars \/ \E g \in Uploads : Cancel(g) \/ Server(g)
    BY <1>1, <1>6, ServerCases DEF ClearFinished, vars, Cancel, Served, engineVars
  <1> QED
    BY <1>2, <1>3, <1>4, <1>5, <1>6, PageCases DEF Next, User

LEMMA NextShape ==
    ASSUME WebAssumption, Shape, [Next]_vars
    PROVE  Shape'
  <1>1. DataShape'
    BY WorkerStepTyped, EngineTyped, ServerTyped, OthersTyped, PageCases DEF Next
  <1>2. pc' \in [Uploads -> PageLabels]
    BY GateCases, PlacesTyped
  <1> QED
    BY <1>1, <1>2, BackoffStep DEF Shape, DataShape, At

LEMMA InitShape ==
    ASSUME WebAssumption, Init
    PROVE  Shape
  <1>1. Off \in WorkerStates
    BY DEF Off, WorkerStates, AnyWorkerStates, WorkerLabels, WebAssumption
  <1>2. NoCalls \in [Calls -> {"none", "sent", "ok", "busy", "refused", "failed"}]
    BY DEF NoCalls
  <1>3. worker \in [Uploads -> [Workers -> WorkerStates]]
    BY <1>1 DEF Init
  <1>4. tries \in [Uploads -> 0 .. MaxRetries]
    <2>1. 0 \in 0 .. MaxRetries
      BY DEF WebAssumption
    <2> QED
      BY <2>1 DEF Init
  <1> QED
    BY <1>2, <1>3, <1>4 DEF Init, Shape, PageLabels, At

-----------------------------------------------------------------------------
(* The slots.                                                              *)

\* The slots taken are those of the uploads that run, and all are when the queue
\* is not empty.
Slots ==
    /\ active = Cardinality(Holders)
    /\ active <= MaxActive
    /\ waiters # <<>> => active = MaxActive

\* The uploads of the queue wait, each in it once.
Gate ==
    /\ active \in Nat /\ waiters \in Seq(Uploads)
    /\ \A i, j \in 1 .. Len(waiters) : waiters[i] = waiters[j] => i = j
    /\ \A i \in 1 .. Len(waiters) : pc[waiters[i]] = "waiting"
    /\ Slots

LEMMA HoldersFinite ==
    ASSUME WebAssumption
    PROVE  IsFiniteSet(Holders)
  BY FS_Subset DEF WebAssumption, Holders

LEMMA StepGate ==
    ASSUME WebAssumption, Shape, Gate, GateStep
    PROVE  Gate'
  <1>1. /\ pc \in [Uploads -> PageLabels] /\ active \in Nat /\ waiters \in Seq(Uploads)
        /\ MaxActive \in Nat \ {0} /\ IsFiniteSet(Holders)
        /\ active = Cardinality(Holders) /\ active <= MaxActive
        /\ waiters # <<>> => active = MaxActive
        /\ \A i \in 1 .. Len(waiters) : pc[waiters[i]] = "waiting" /\ waiters[i] \in Uploads
        /\ \A i, j \in 1 .. Len(waiters) : waiters[i] = waiters[j] => i = j
    <2>1. /\ active \in Nat /\ waiters \in Seq(Uploads)
          /\ active = Cardinality(Holders) /\ active <= MaxActive
          /\ waiters # <<>> => active = MaxActive
          /\ \A i \in 1 .. Len(waiters) : pc[waiters[i]] = "waiting"
          /\ \A i, j \in 1 .. Len(waiters) : waiters[i] = waiters[j] => i = j
      BY DEF Gate, Slots
    <2>2. \A i \in 1 .. Len(waiters) : waiters[i] \in Uploads
      BY <2>1
    <2>3. pc \in [Uploads -> PageLabels] /\ MaxActive \in Nat \ {0}
      BY DEF Shape, WebAssumption
    <2> QED
      BY <2>1, <2>2, <2>3, HoldersFinite
  <1>2. CASE UNCHANGED <<pc, gateVars>>
    BY <1>2 DEF Gate, Slots, Holders, gateVars
  <1>3. ASSUME NEW u \in Uploads, pc[u] = "new", Acquire(u)
        PROVE  Gate'
    <2>1. CASE active < MaxActive
      <3>1. active' = active + 1 /\ pc' = [pc EXCEPT ![u] = "granted"] /\ waiters' = waiters
        BY <1>3, <2>1 DEF Acquire
      <3>2. waiters = <<>>
        BY <1>1, <2>1
      <3>3. Holders' = Holders \union {u} /\ u \notin Holders
        BY <1>1, <1>3, <3>1 DEF Holders
      <3>4. Cardinality(Holders') = active + 1
        BY <1>1, <3>3, FS_AddElement
      <3> QED
        BY <1>1, <2>1, <3>1, <3>2, <3>4 DEF Gate, Slots
    <2>2. CASE ~(active < MaxActive)
      <3>1. active' = active /\ pc' = [pc EXCEPT ![u] = "waiting"] /\ waiters' = Append(waiters, u)
        BY <1>3, <2>2 DEF Acquire
      <3>2. Holders' = Holders
        BY <1>1, <1>3, <3>1 DEF Holders
      <3>3. active = MaxActive
        BY <1>1, <2>2
      <3>4. \A i \in 1 .. Len(waiters) : waiters[i] # u
        BY <1>1, <1>3
      <3>5. /\ waiters' \in Seq(Uploads) /\ Len(waiters') = Len(waiters) + 1
            /\ waiters'[Len(waiters) + 1] = u
            /\ \A i \in 1 .. Len(waiters) : waiters'[i] = waiters[i]
        BY <1>1, <3>1
      <3>6. \A i \in 1 .. Len(waiters') : i \in 1 .. Len(waiters) \/ i = Len(waiters) + 1
        BY <1>1, <3>5
      <3>7. \A i, j \in 1 .. Len(waiters') : waiters'[i] = waiters'[j] => i = j
        BY <1>1, <3>4, <3>5, <3>6
      <3>8. \A i \in 1 .. Len(waiters') : pc'[waiters'[i]] = "waiting"
        BY <1>1, <3>1, <3>5, <3>6
      <3> QED
        BY <1>1, <3>1, <3>2, <3>3, <3>5, <3>7, <3>8 DEF Gate, Slots
    <2> QED
      BY <2>1, <2>2
  <1>4. ASSUME NEW u \in Holders, NEW label \in HolderLabels, Goto(u, label), UNCHANGED gateVars
        PROVE  Gate'
    <2>1. pc' = [pc EXCEPT ![u] = label] /\ u \in Uploads
      BY <1>4 DEF Goto, Holders
    <2>2. Holders' = Holders
      BY <1>1, <1>4, <2>1 DEF Holders, HolderLabels
    <2>3. \A i \in 1 .. Len(waiters) : pc'[waiters[i]] = "waiting"
      BY <1>1, <2>1 DEF Holders
    <2> QED
      BY <1>1, <1>4, <2>2, <2>3 DEF Gate, Slots, gateVars
  <1>5. ASSUME NEW u \in Holders, Release(u)
        PROVE  Gate'
    <2>1. u \in Uploads /\ pc[u] \notin {"new", "waiting", "over"}
      BY DEF Holders
    <2>2. Cardinality(Holders \ {u}) = active - 1 /\ active > 0 /\ IsFiniteSet(Holders \ {u})
      <3>1. Cardinality(Holders \ {u}) = Cardinality(Holders) - 1 /\ IsFiniteSet(Holders \ {u})
        BY <1>1, FS_RemoveElement
      <3>2. Cardinality(Holders \ {u}) \in Nat
        BY <3>1, FS_CardinalityType
      <3> QED
        BY <1>1, <3>1, <3>2
    <2>3. CASE waiters = <<>>
      <3>1. active' = active - 1 /\ pc' = [pc EXCEPT ![u] = "over"] /\ waiters' = waiters
        BY <1>5, <2>2, <2>3 DEF Release
      <3>2. Holders' = Holders \ {u}
        BY <1>1, <2>1, <3>1 DEF Holders
      <3> QED
        BY <1>1, <2>2, <2>3, <3>1, <3>2 DEF Gate, Slots
    <2>4. CASE waiters # <<>>
      <3> DEFINE v == Head(waiters)
      <3>1. /\ active' = active /\ waiters' = Tail(waiters)
            /\ pc' = [[pc EXCEPT ![u] = "over"] EXCEPT ![v] = "granted"]
        BY <1>5, <2>4 DEF Release
      <3>2. v = waiters[1] /\ v \in Uploads /\ pc[v] = "waiting" /\ 1 \in 1 .. Len(waiters)
        BY <1>1, <2>4
      <3>3. v # u
        BY <2>1, <3>2
      <3> HIDE DEF v
      <3>4. Holders' = (Holders \ {u}) \union {v} /\ v \notin Holders \ {u}
        BY <1>1, <2>1, <3>1, <3>2, <3>3 DEF Holders
      <3>5. Cardinality(Holders') = active
        <4>1. Cardinality((Holders \ {u}) \union {v}) = Cardinality(Holders \ {u}) + 1
          BY <2>2, <3>4, FS_AddElement
        <4> QED
          BY <1>1, <2>2, <3>4, <4>1
      <3>6. /\ waiters' \in Seq(Uploads) /\ Len(waiters') = Len(waiters) - 1
            /\ \A i \in 1 .. Len(waiters') : waiters'[i] = waiters[i + 1] /\ i + 1 \in 1 .. Len(waiters)
        BY <1>1, <2>4, <3>1
      <3>7. \A i, j \in 1 .. Len(waiters') : waiters'[i] = waiters'[j] => i = j
        BY <1>1, <3>6
      <3>8. \A i \in 1 .. Len(waiters') : waiters'[i] # v
        BY <1>1, <3>2, <3>6
      <3>9. \A i \in 1 .. Len(waiters') : pc'[waiters'[i]] = "waiting"
        BY <1>1, <2>1, <3>1, <3>6, <3>8
      <3> QED
        BY <1>1, <2>4, <3>1, <3>5, <3>6, <3>7, <3>9 DEF Gate, Slots
    <2> QED
      BY <2>3, <2>4
  <1> QED
    BY <1>2, <1>3, <1>4, <1>5 DEF GateStep

LEMMA InitGate ==
    ASSUME WebAssumption, Init
    PROVE  Gate
  <1>1. Holders = {}
    BY DEF Init, Holders
  <1>2. Cardinality(Holders) = 0
    BY <1>1, FS_EmptySet
  <1>3. active = 0 /\ waiters = <<>> /\ 0 <= MaxActive
    <2>1. 0 <= MaxActive
      BY DEF WebAssumption
    <2> QED
      BY <2>1 DEF Init
  <1>4. waiters \in Seq(Uploads) /\ 1 .. Len(waiters) = {}
    BY <1>3
  <1> QED
    BY <1>2, <1>3, <1>4 DEF Gate, Slots

\* The types, and the gate: its waiters are distinct uploads that wait, and its
\* count is that of the uploads that run.
THEOREM GateInvariant == Spec => [](Shape /\ Gate)
  <1>1. Init => Shape /\ Gate
    BY InitShape, InitGate, WebAssumption
  <1>2. Shape /\ Gate /\ [Next]_vars => (Shape /\ Gate)'
    BY NextShape, GateCases, StepGate, WebAssumption
  <1> QED
    BY <1>1, <1>2, PTL DEF Spec

\* Whoever waits is in the queue.
Queued == \A u \in Uploads : At(u, "waiting") => \E i \in DOMAIN waiters : waiters[i] = u

LEMMA StepQueued ==
    ASSUME Shape, Gate, Queued, GateStep
    PROVE  Queued'
  <1>1. pc \in [Uploads -> PageLabels] /\ waiters \in Seq(Uploads)
    BY DEF Shape, Gate
  <1>2. CASE UNCHANGED <<pc, gateVars>>
    BY <1>2 DEF Queued, At, gateVars
  <1>3. ASSUME NEW u \in Uploads, Acquire(u)
        PROVE  Queued'
    <2>1. CASE active < MaxActive
      BY <1>1, <1>3, <2>1 DEF Acquire, Queued, At
    <2>2. CASE ~(active < MaxActive)
      <3>1. pc' = [pc EXCEPT ![u] = "waiting"] /\ waiters' = Append(waiters, u)
        BY <1>3, <2>2 DEF Acquire
      <3>2. /\ DOMAIN waiters' = 1 .. Len(waiters) + 1 /\ DOMAIN waiters = 1 .. Len(waiters)
            /\ Len(waiters) \in Nat /\ waiters'[Len(waiters) + 1] = u
            /\ \A i \in 1 .. Len(waiters) : waiters'[i] = waiters[i]
        BY <1>1, <3>1
      <3> QED
        BY <1>1, <3>1, <3>2 DEF Queued, At
    <2> QED
      BY <2>1, <2>2
  <1>4. ASSUME NEW u \in Holders, NEW label \in HolderLabels, Goto(u, label), UNCHANGED gateVars
        PROVE  Queued'
    BY <1>1, <1>4 DEF Goto, HolderLabels, Queued, At, gateVars
  <1>5. ASSUME NEW u \in Holders, Release(u)
        PROVE  Queued'
    <2>1. CASE waiters = <<>>
      BY <1>1, <1>5, <2>1 DEF Release, Queued, At
    <2>2. CASE waiters # <<>>
      <3>1. waiters' = Tail(waiters) /\ pc' = [pc EXCEPT ![u] = "over", ![waiters[1]] = "granted"]
        BY <1>1, <1>5, <2>2 DEF Release
      <3>2. /\ DOMAIN waiters = 1 .. Len(waiters) /\ Len(waiters) \in Nat \ {0}
            /\ DOMAIN waiters' = 1 .. Len(waiters) - 1
            /\ \A i \in DOMAIN waiters' : waiters'[i] = waiters[i + 1]
        BY <1>1, <2>2, <3>1
      <3>3. ASSUME NEW g \in Uploads, pc'[g] = "waiting"
            PROVE  \E i \in DOMAIN waiters' : waiters'[i] = g
        <4>1. pc[g] = "waiting" /\ g # waiters[1]
          BY <1>1, <3>1, <3>3
        <4>2. PICK i \in DOMAIN waiters : waiters[i] = g
          BY <4>1 DEF Queued, At
        <4>3. i # 1
          BY <4>1, <4>2
        <4>4. i - 1 \in DOMAIN waiters' /\ (i - 1) + 1 = i
          BY <3>2, <4>2, <4>3
        <4>5. waiters'[i - 1] = g
          BY <3>2, <4>2, <4>4
        <4> QED
          BY <4>4, <4>5
      <3> QED
        BY <3>3 DEF Queued, At
    <2> QED
      BY <2>1, <2>2
  <1> QED
    BY <1>2, <1>3, <1>4, <1>5 DEF GateStep

\* No more uploads run than there are slots, each running upload holds exactly
\* one, and nobody waits beside a free one or outside the queue, however many
\* uploads there are (useUploadQueue.ts:48-71).
THEOREM SlotsHold == Spec => []SlotsBounded
  <1>1. Init => Queued
    BY DEF Init, Queued, At
  <1>2. Shape /\ Gate /\ Queued /\ [Next]_vars => Queued'
    BY GateCases, StepQueued, WebAssumption
  <1>3. Gate /\ Queued => SlotsBounded
    BY DEF Gate, Slots, Queued, SlotsBounded
  <1> QED
    BY <1>1, <1>2, <1>3, GateInvariant, PTL DEF Spec

-----------------------------------------------------------------------------
(* The parts.                                                              *)

Late(u) == pc[u] \in {"parts", "complete", "abort", "over"}

Taken(u) == {worker[u][w].part : w \in Busy(u)}

Accepted(u) == file[u].size \in Nat \ {0} /\ InitAccepts(file[u])

\* Nothing is taken before init was answered, and what is taken was let through.
Begun(u) ==
    /\ file[u] # NoFile \/ pc[u] # "new" => file[u].size \in Nat
    /\ \/ pc[u] \in {"parts", "complete", "abort"}
       \/ call[u]["init"] = "ok"
       \/ session[u] # "none"
       \/ Busy(u) # {}
       \/ etags[u] # {}
       \/ call[u]["complete"] # "none"
       => Accepted(u)
    /\ call[u]["init"] # "none" => pc[u] # "new"
    /\ ~Late(u) => Busy(u) = {} /\ etags[u] = {} /\ call[u]["complete"] = "none"

\* The parts up to the cursor were taken, each by one worker; while the upload
\* goes on they are uploaded or still with it, and some worker is busy.
Cut(u) ==
    /\ Accepted(u) => cursor[u] <= ExpectedPartCount(file[u].size)
    /\ etags[u] \subseteq 1 .. cursor[u]
    /\ \A w \in Busy(u) : worker[u][w].part \in 1 .. cursor[u] \ etags[u]
    /\ \A v, w \in Busy(u) : v # w => worker[u][v].part # worker[u][w].part
    /\ pc[u] = "parts" =>
         /\ 1 .. cursor[u] \subseteq etags[u] \union Taken(u)
         /\ call[u]["complete"] = "none"
         /\ Busy(u) # {}
    /\ call[u]["complete"] # "none" =>
         Busy(u) = {} /\ etags[u] = 1 .. ExpectedPartCount(file[u].size)
    /\ failure[u] # "refused"

Parts == \A u \in Uploads : Begun(u) /\ Cut(u)

\* The numbers of a file's chunks, and the count of them.
LEMMA AcceptedNumbers ==
    ASSUME LimitsAssumption, NEW u, Accepted(u)
    PROVE  /\ Numbers(u) = 1 .. ExpectedPartCount(file[u].size)
           /\ ExpectedPartCount(file[u].size) \in Nat \ {0}
           /\ Cardinality(Numbers(u)) = ExpectedPartCount(file[u].size)
           /\ ExpectedPartCount(file[u].size) <= MaxParts
  <1> DEFINE n == ExpectedPartCount(file[u].size)
  <1>1. Numbers(u) = 1 .. n /\ n \in Nat \ {0}
    BY ChunksAreExpected, CountBounds DEF Accepted, Numbers, Chunks
  <1>2. Cardinality(1 .. n) = n
    BY <1>1, FS_Interval
  <1> QED
    BY <1>1, <1>2 DEF Accepted, InitAccepts

\* An upload that a step leaves alone, or only gives a slot.
LEMMA PartsKept ==
    ASSUME NEW u, Begun(u), Cut(u),
           file' = file, worker'[u] = worker[u], etags'[u] = etags[u], cursor'[u] = cursor[u],
           failure'[u] = failure[u], session'[u] = session[u], call'[u] = call[u],
           pc'[u] = pc[u] \/ (pc[u] = "waiting" /\ pc'[u] = "granted")
    PROVE  Begun(u)' /\ Cut(u)'
  <1>1. Busy(u)' = Busy(u) /\ Taken(u)' = Taken(u) /\ (Accepted(u)' <=> Accepted(u))
    BY DEF Busy, Taken, Accepted
  <1>2. Late(u)' = Late(u) /\ (pc'[u] = "new" <=> pc[u] = "new")
        /\ (pc'[u] \in {"parts", "complete", "abort"} <=> pc[u] \in {"parts", "complete", "abort"})
        /\ (pc'[u] = "parts" <=> pc[u] = "parts")
    BY DEF Late
  <1>3. Begun(u)'
    BY <1>1, <1>2 DEF Begun
  <1>4. Cut(u)'
    BY <1>1, <1>2 DEF Cut
  <1> QED
    BY <1>3, <1>4

\* A slot that is given up goes to an upload that waits.
LEMMA ReleaseOthers ==
    ASSUME Shape, Gate, NEW u \in Uploads, Release(u)
    PROVE  \A g \in Uploads : g # u =>
             pc'[g] = pc[g] \/ (pc[g] = "waiting" /\ pc'[g] = "granted")
  <1>1. pc \in [Uploads -> PageLabels] /\ waiters \in Seq(Uploads)
    BY DEF Shape, Gate
  <1>2. CASE waiters # <<>>
    <2>1. pc' = [[pc EXCEPT ![u] = "over"] EXCEPT ![Head(waiters)] = "granted"]
      BY <1>2 DEF Release
    <2>2. Head(waiters) = waiters[1] /\ 1 \in 1 .. Len(waiters)
      BY <1>1, <1>2
    <2>3. pc[Head(waiters)] = "waiting"
      BY <2>2 DEF Gate
    <2> QED
      BY <1>1, <2>1, <2>3
  <1>3. CASE waiters = <<>>
    BY <1>1, <1>3 DEF Release
  <1> QED
    BY <1>2, <1>3

LEMMA ReleaseOwn ==
    ASSUME Shape, Gate, NEW u \in Holders, Release(u)
    PROVE  pc'[u] = "over"
  <1>1. pc \in [Uploads -> PageLabels] /\ waiters \in Seq(Uploads) /\ u \in Uploads
        /\ pc[u] # "waiting"
    BY DEF Shape, Gate, Holders
  <1>2. CASE waiters # <<>>
    <2>1. pc' = [[pc EXCEPT ![u] = "over"] EXCEPT ![Head(waiters)] = "granted"]
      BY <1>2 DEF Release
    <2>2. Head(waiters) = waiters[1] /\ 1 \in 1 .. Len(waiters)
      BY <1>1, <1>2
    <2>3. pc[Head(waiters)] = "waiting"
      BY <2>2 DEF Gate
    <2> QED
      BY <1>1, <2>1, <2>3
  <1>3. CASE waiters = <<>>
    BY <1>1, <1>3 DEF Release
  <1> QED
    BY <1>2, <1>3

\* What a step of upload u leaves of another upload's state.
SameUpload(g) ==
    /\ worker'[g] = worker[g] /\ etags'[g] = etags[g] /\ cursor'[g] = cursor[g]
    /\ failure'[g] = failure[g] /\ call'[g] = call[g]
    /\ session'[g] = session[g] /\ bytes'[g] = bytes[g]
    /\ pc'[g] = pc[g] \/ (pc[g] = "waiting" /\ pc'[g] = "granted")

LEMMA WorkerAlone ==
    ASSUME WebAssumption, Shape, NEW u \in Uploads, NEW w \in Workers, WorkerStep(u, w)
    PROVE  file' = file /\ \A g \in Uploads : g # u => SameUpload(g)
  <1> USE DEF Shape, SameUpload, serverVars
  <1>1. CASE Continues(u, w)
    BY <1>1 DEF Continues, Set
  <1>2. CASE Fails(u, w)
    BY <1>2 DEF Fails, WorkerFails, Set, Goto, Send
  <1>3. CASE PutOk(u, w)
    BY <1>3 DEF PutOk, NextChunk, Set, Goto, Send
  <1> QED
    BY <1>1, <1>2, <1>3, WorkerCases

LEMMA ContinuesParts ==
    ASSUME WebAssumption, LimitsAssumption, Shape, Parts,
           NEW u \in Uploads, NEW w \in Busy(u), Continues(u, w)
    PROVE  Begun(u)' /\ Cut(u)'
  <1>1. PICK r \in WorkerStates :
          r.at \in BusyLabels /\ r.part = worker[u][w].part /\ Set(u, w, r)
    BY DEF Continues
  <1>2. w \in Workers /\ worker[u][w].at \in BusyLabels
    BY WorkerShape DEF Busy, BusyLabels, WorkerStates, AnyWorkerStates
  <1>3. \A v \in Workers : worker'[u][v] = IF v = w THEN r ELSE worker[u][v]
    BY <1>1, <1>2 DEF Set, Shape
  <1>4. Busy(u)' = Busy(u) /\ \A v \in Busy(u) : worker'[u][v].part = worker[u][v].part
    BY <1>1, <1>2, <1>3 DEF Busy, BusyLabels
  <1>5. Taken(u)' = Taken(u)
    BY <1>4 DEF Taken
  <1>6. UNCHANGED <<file, pc, cursor, etags, failure, session, call>>
    BY DEF Continues, serverVars
  <1> QED
    BY <1>4, <1>5, <1>6 DEF Parts, Begun, Cut, Late, Accepted

LEMMA FailsParts ==
    ASSUME WebAssumption, LimitsAssumption, Shape, Parts,
           NEW u \in Uploads, NEW w \in Busy(u), Fails(u, w)
    PROVE  Begun(u)' /\ Cut(u)'
  <1>1. PICK why \in {"part", "refused", "session", "cancel"} :
          /\ WorkerFails(u, w, why)
          /\ why = "refused" =>
               /\ session[u] = "active"
               /\ ~SignPartAccepts(file[u].size, worker[u][w].part, Chunks(u)[worker[u][w].part])
    BY DEF Fails
  <1>2. Begun(u) /\ Cut(u) /\ Accepted(u) /\ Late(u)
    BY DEF Parts, Begun
  <1>3. why # "refused"
    <2>1. /\ worker[u][w].part \in 1 .. cursor[u] /\ cursor[u] \in Nat
          /\ cursor[u] <= ExpectedPartCount(file[u].size)
      BY <1>2 DEF Cut, Shape
    <2>2. worker[u][w].part \in Numbers(u)
      BY <1>2, <2>1, AcceptedNumbers
    <2>3. SignPartAccepts(file[u].size, worker[u][w].part, Chunks(u)[worker[u][w].part])
      BY <1>2, <2>2, ChunksAccepted DEF Accepted, InitAccepts, Numbers, Chunks
    <2> QED
      BY <1>1, <2>3
  <1>4. w \in Workers
    BY DEF Busy
  <1>5. \A v \in Workers :
          IF v = w THEN worker'[u][v].at = "failed" ELSE worker'[u][v] = worker[u][v]
    <2>1. worker[u][w] \in AnyWorkerStates
      BY <1>4, WorkerShape DEF WorkerStates
    <2>2. [worker[u][w] EXCEPT !.at = "failed"].at = "failed"
      BY <2>1 DEF AnyWorkerStates
    <2> QED
      BY <1>1, <1>4, <2>2 DEF WorkerFails, Set, Shape
  <1>6. Busy(u)' = Busy(u) \ {w} /\ \A v \in Busy(u) \ {w} : worker'[u][v] = worker[u][v]
    BY <1>4, <1>5 DEF Busy
  <1>7. UNCHANGED <<file, cursor, etags, session>> /\ call'[u]["complete"] = call[u]["complete"]
        /\ call'[u]["init"] = call[u]["init"]
    <2>1. UNCHANGED <<file, cursor, etags, session>>
      BY <1>1 DEF Fails, WorkerFails
    <2>2. call' = call \/ call' = [call EXCEPT ![u]["abort"] = "sent"]
      BY <1>1 DEF WorkerFails, Send
    <2>3. call \in [Uploads -> [Calls -> {"none", "sent", "ok", "busy", "refused", "failed"}]]
      BY DEF Shape
    <2> QED
      BY <2>1, <2>2, <2>3 DEF Calls
  <1>8. /\ Late(u)' /\ pc'[u] # "parts" /\ failure'[u] # "refused" /\ pc'[u] # "new"
    BY <1>1, <1>2, <1>3 DEF WorkerFails, At, Goto, Shape, Late, Cut
  <1>9. Accepted(u)'
    BY <1>2, <1>7 DEF Accepted
  <1>10. Begun(u)'
    BY <1>7, <1>8, <1>9 DEF Begun, Accepted
  <1>11. Cut(u)'
    BY <1>2, <1>6, <1>7, <1>8 DEF Cut, Accepted
  <1> QED
    BY <1>10, <1>11

LEMMA PutParts ==
    ASSUME WebAssumption, LimitsAssumption, Shape, Parts,
           NEW u \in Uploads, NEW w \in Busy(u), PutOk(u, w)
    PROVE  Begun(u)' /\ Cut(u)'
  <1> DEFINE n == ExpectedPartCount(file[u].size)
             p == worker[u][w].part
  <1>1. Begun(u) /\ Cut(u) /\ Accepted(u) /\ Late(u) /\ w \in Workers
    BY DEF Parts, Begun, Busy
  <1>2. cursor[u] \in Nat /\ cursor[u] <= n /\ n \in Nat \ {0} /\ Cardinality(Numbers(u)) = n
    BY <1>1, AcceptedNumbers DEF Cut, Shape
  <1>3. UNCHANGED <<file, failure, session>>
    BY DEF PutOk
  <1>4. Accepted(u)'
    BY <1>1, <1>3 DEF Accepted
  <1>5. etags'[u] = etags[u] \union {p}
    BY DEF PutOk, Shape
  <1>6. p \in 1 .. cursor[u] /\ etags[u] \subseteq 1 .. cursor[u]
    BY <1>1 DEF Cut
  <1>7. call'[u]["init"] = call[u]["init"]
        /\ (pc'[u] = "complete" \/ call'[u]["complete"] = call[u]["complete"])
    <2>1. call' = call \/ (call' = [call EXCEPT ![u]["complete"] = "sent"] /\ pc'[u] = "complete")
      BY DEF PutOk, Send, Goto, Shape
    <2>2. call \in [Uploads -> [Calls -> {"none", "sent", "ok", "busy", "refused", "failed"}]]
      BY DEF Shape
    <2> QED
      BY <2>1, <2>2 DEF Calls
  <1>8. pc'[u] = pc[u] \/ pc'[u] = "complete"
    BY DEF PutOk, Goto, Shape
  <1>9. Begun(u)'
    BY <1>1, <1>3, <1>4, <1>7, <1>8 DEF Begun, Late, Accepted
  <1>10. call[u]["complete"] = "none"
    BY <1>1 DEF Cut
  <1>11. CASE cursor[u] < n
    <2>1. /\ cursor'[u] = cursor[u] + 1 /\ UNCHANGED <<pc, call>>
          /\ Set(u, w, [at |-> "sign", part |-> cursor[u] + 1, tries |-> 0, inner |-> 0])
      <3>1. cursor[u] < Cardinality(Numbers(u)) /\ cursor[u] # Cardinality(Numbers(u))
        BY <1>2, <1>11
      <3>2. /\ cursor' = [cursor EXCEPT ![u] = @ + 1]
            /\ Set(u, w, [at |-> "sign", part |-> cursor[u] + 1, tries |-> 0, inner |-> 0])
        BY <3>1 DEF PutOk, NextChunk
      <3>3. UNCHANGED <<pc, call>>
        BY <3>1 DEF PutOk
      <3>4. cursor'[u] = cursor[u] + 1
        BY <3>2 DEF Shape
      <3> QED
        BY <3>2, <3>3, <3>4
    <2>2. \A v \in Workers : worker'[u][v] =
            IF v = w THEN [at |-> "sign", part |-> cursor[u] + 1, tries |-> 0, inner |-> 0]
            ELSE worker[u][v]
      BY <2>1, <1>1 DEF Set, Shape
    <2>3. /\ Busy(u)' = Busy(u) /\ worker'[u][w].part = cursor[u] + 1
          /\ \A v \in Busy(u) : v # w => worker'[u][v].part = worker[u][v].part
      BY <1>1, <2>2 DEF Busy
    <2>4. \A v \in Busy(u) : v # w =>
            worker[u][v].part \in 1 .. cursor[u] \ (etags[u] \union {p})
      BY <1>1 DEF Cut
    <2>5. \A v \in Busy(u) : worker'[u][v].part \in 1 .. cursor'[u] \ etags'[u]
      <3>1. 1 .. cursor'[u] = 1 .. cursor[u] \union {cursor[u] + 1}
        BY <1>2, <2>1
      <3>2. cursor[u] + 1 \notin etags'[u]
        BY <1>2, <1>5, <1>6
      <3> QED
        BY <1>5, <2>3, <2>4, <3>1, <3>2
    <2>6. \A v, x \in Busy(u) : v # x => worker'[u][v].part # worker'[u][x].part
      BY <1>1, <1>2, <2>3, <2>4 DEF Cut
    <2>7. pc[u] = "parts" => 1 .. cursor'[u] \subseteq etags'[u] \union Taken(u)'
      <3>1. SUFFICES ASSUME pc[u] = "parts", NEW i \in 1 .. cursor'[u]
                     PROVE  i \in etags'[u] \union Taken(u)'
        OBVIOUS
      <3>2. CASE i = cursor[u] + 1
        BY <2>3, <3>2 DEF Taken
      <3>3. CASE i \in 1 .. cursor[u]
        <4>1. i \in etags[u] \/ \E v \in Busy(u) : i = worker[u][v].part
          BY <1>1, <3>1, <3>3 DEF Cut, Taken
        <4> QED
          BY <1>5, <2>3, <4>1 DEF Taken
      <3> QED
        BY <1>2, <2>1, <3>2, <3>3
    <2>8. cursor'[u] <= n /\ etags'[u] \subseteq 1 .. cursor'[u]
      BY <1>2, <1>5, <1>6, <1>11, <2>1
    <2>9. Cut(u)'
      BY <1>1, <1>3, <1>10, <2>1, <2>3, <2>5, <2>6, <2>7, <2>8 DEF Cut
    <2> QED
      BY <1>9, <2>9
  <1>12. CASE cursor[u] = n
    <2>1. UNCHANGED cursor /\ Set(u, w, Off)
      BY <1>2, <1>12 DEF PutOk, NextChunk
    <2>2. \A v \in Workers : worker'[u][v] = IF v = w THEN Off ELSE worker[u][v]
      BY <2>1, <1>1 DEF Set, Shape
    <2>3. Busy(u)' = Busy(u) \ {w} /\ \A v \in Busy(u) \ {w} : worker'[u][v] = worker[u][v]
      BY <1>1, <2>2 DEF Busy, Off
    <2>4. \A v \in Busy(u)' : worker'[u][v].part \in 1 .. cursor'[u] \ etags'[u]
      BY <1>1, <1>5, <2>1, <2>3 DEF Cut
    <2>5. \A v, x \in Busy(u)' : v # x => worker'[u][v].part # worker'[u][x].part
      BY <1>1, <2>3 DEF Cut
    <2>6. pc[u] = "parts" => 1 .. cursor[u] \subseteq etags'[u] \union Taken(u)'
      <3>1. SUFFICES ASSUME pc[u] = "parts", NEW i \in 1 .. cursor[u]
                     PROVE  i \in etags'[u] \union Taken(u)'
        OBVIOUS
      <3>2. i \in etags[u] \/ \E v \in Busy(u) : i = worker[u][v].part
        BY <1>1, <3>1 DEF Cut, Taken
      <3> QED
        BY <1>5, <2>3, <3>2 DEF Taken
    <2>7. etags'[u] \subseteq 1 .. n
      BY <1>5, <1>6, <1>12
    <2>8. CASE At(u, "parts") /\ Busy(u) = {w}
      <3>1. pc'[u] = "complete"
        BY <1>2, <1>12, <2>8 DEF PutOk, Goto, Shape
      <3>2. Busy(u)' = {} /\ Taken(u)' = {}
        BY <2>3, <2>8 DEF Taken
      <3>3. etags'[u] = 1 .. n
        BY <1>12, <2>6, <2>7, <2>8, <3>2 DEF At
      <3>4. Cut(u)'
        BY <1>1, <1>2, <1>3, <1>12, <2>1, <2>4, <2>5, <2>7, <3>1, <3>2, <3>3 DEF Cut
      <3> QED
        BY <1>9, <3>4
    <2>9. CASE ~(At(u, "parts") /\ Busy(u) = {w})
      <3>1. UNCHANGED <<pc, call>>
        BY <2>9 DEF PutOk
      <3>2. pc[u] = "parts" => Busy(u)' # {}
        BY <2>3, <2>9 DEF At
      <3>3. Cut(u)'
        BY <1>1, <1>2, <1>3, <1>10, <1>12, <2>1, <2>4, <2>5, <2>6, <2>7, <3>1, <3>2 DEF Cut
      <3> QED
        BY <1>9, <3>3
    <2> QED
      BY <2>8, <2>9
  <1> QED
    BY <1>2, <1>11, <1>12

\* An upload that moves on, without a chunk.
LEMMA MovedParts ==
    ASSUME NEW u, Begun(u), Cut(u), file' = file, pc[u] # "new",
           worker'[u] = worker[u], etags'[u] = etags[u], cursor'[u] = cursor[u],
           session'[u] = session[u], failure'[u] # "refused",
           call'[u]["complete"] = call[u]["complete"],
           call'[u]["init"] \in {call[u]["init"], "sent"},
           pc'[u] \notin {"new", "parts"}, Late(u) => Late(u)',
           pc'[u] \in {"complete", "abort"} => pc[u] \in {"parts", "complete", "abort"}
    PROVE  Begun(u)' /\ Cut(u)'
  <1>1. Busy(u)' = Busy(u) /\ (Accepted(u)' <=> Accepted(u))
    BY DEF Busy, Accepted
  <1>2. Begun(u)'
    BY <1>1 DEF Begun
  <1>3. Cut(u)'
    BY <1>1 DEF Cut
  <1> QED
    BY <1>2, <1>3

\* The first chunks go to the first workers, as many as there are of both.
LEMMA PoolParts ==
    ASSUME WebAssumption, LimitsAssumption, Shape, Parts, NEW u \in Uploads,
           At(u, "init"), call[u]["init"] = "ok", Goto(u, "parts"), PoolStart(u),
           UNCHANGED <<file, etags, failure, session, call>>
    PROVE  Begun(u)' /\ Cut(u)'
  <1> DEFINE n == ExpectedPartCount(file[u].size)
             K == Cardinality(Workers)
             m == IF K <= n THEN K ELSE n
  <1>1. Begun(u) /\ Cut(u) /\ Accepted(u)
    BY DEF Parts, Begun
  <1>2. etags[u] = {} /\ call[u]["complete"] = "none"
    BY <1>1 DEF Begun, Late, At
  <1>3. Numbers(u) = 1 .. n /\ n \in Nat \ {0}
    BY <1>1, AcceptedNumbers
  <1>4. K \in Nat \ {0} /\ Workers = 1 .. K
    BY DEF WebAssumption
  <1>5. m \in Nat \ {0} /\ m <= n /\ Workers \intersect Numbers(u) = 1 .. m
    BY <1>3, <1>4
  <1>6. Cardinality(1 .. m) = m
    BY <1>5, FS_Interval
  <1>7. cursor'[u] = m
    <2>1. cursor' = [cursor EXCEPT ![u] = Cardinality(Workers \intersect Numbers(u))]
      BY DEF PoolStart, Numbers, Chunks
    <2> QED
      BY <1>5, <1>6, <2>1 DEF Shape
  <1>8. \A w \in Workers : worker'[u][w] =
          IF w \in Numbers(u) THEN [at |-> "sign", part |-> w, tries |-> 0, inner |-> 0] ELSE Off
    BY DEF PoolStart, Numbers, Chunks, Shape
  <1>9. /\ Busy(u)' = 1 .. m
        /\ \A w \in 1 .. m : worker'[u][w].part = w
    <2>1. \A w \in Workers :
            /\ w \in Numbers(u) => worker'[u][w].at = "sign" /\ worker'[u][w].part = w
            /\ w \notin Numbers(u) => worker'[u][w].at = "off"
      <3> SUFFICES ASSUME NEW w \in Workers
                   PROVE  /\ w \in Numbers(u) => worker'[u][w].at = "sign" /\ worker'[u][w].part = w
                          /\ w \notin Numbers(u) => worker'[u][w].at = "off"
        OBVIOUS
      <3>1. CASE w \in Numbers(u)
        <4>1. worker'[u][w] = [at |-> "sign", part |-> w, tries |-> 0, inner |-> 0]
          BY <1>8, <3>1
        <4> QED
          BY <3>1, <4>1
      <3>2. CASE w \notin Numbers(u)
        <4>1. worker'[u][w] = Off
          BY <1>8, <3>2
        <4> QED
          BY <3>2, <4>1 DEF Off
      <3> QED
        BY <3>1, <3>2
    <2>2. Busy(u)' = Workers \intersect Numbers(u)
      BY <2>1 DEF Busy
    <2> QED
      BY <1>5, <2>1, <2>2
  <1>10. Taken(u)' = 1 .. m
    BY <1>9 DEF Taken
  <1>11. pc'[u] = "parts"
    BY DEF Goto, Shape
  <1>12. Accepted(u)'
    BY <1>1 DEF Accepted
  <1>13. Begun(u)'
    BY <1>1, <1>2, <1>11, <1>12 DEF Begun, Late, Accepted
  <1>14. Busy(u)' # {}
    BY <1>5, <1>9
  <1>15. Cut(u)'
    BY <1>1, <1>2, <1>5, <1>7, <1>9, <1>10, <1>11, <1>14 DEF Cut
  <1> QED
    BY <1>13, <1>15

LEMMA EngineAlone ==
    ASSUME Shape, Gate, NEW u \in Uploads, EngineStep(u)
    PROVE  file' = file /\ \A g \in Uploads : g # u => SameUpload(g)
  <1>1. file' = file
    BY DEF EngineStep, Start, InitAnswered, InitLost, InitRetry, InitCancelled,
           CompleteAnswered, CompleteLost, AbortEnds, Unchanged
  <1>2. \A g \in Uploads : g # u =>
          pc'[g] = pc[g] \/ (pc[g] = "waiting" /\ pc'[g] = "granted")
    BY EngineGate, ReleaseOthers DEF Goto, Shape
  <1>3. UNCHANGED <<etags, session, bytes>>
    BY DEF EngineStep, Start, InitAnswered, InitLost, InitRetry, InitCancelled,
           CompleteAnswered, CompleteLost, AbortEnds, Unchanged, serverVars
  <1>4. \A g \in Uploads : g # u => call'[g] = call[g]
    BY DEF EngineStep, Start, InitAnswered, InitLost, InitRetry, InitCancelled,
           CompleteAnswered, CompleteLost, AbortEnds, serverVars, Send, ToAbort, Shape
  <1>5. \A g \in Uploads : g # u => failure'[g] = failure[g]
    BY DEF EngineStep, Start, InitAnswered, InitLost, InitRetry, InitCancelled,
           CompleteAnswered, CompleteLost, AbortEnds, ToAbort, Shape
  <1>6. \A g \in Uploads : g # u => worker'[g] = worker[g] /\ cursor'[g] = cursor[g]
    BY DEF EngineStep, Start, InitAnswered, InitLost, InitRetry, InitCancelled,
           CompleteAnswered, CompleteLost, AbortEnds, Unchanged, PoolStart, Shape
  <1> QED
    BY <1>1, <1>2, <1>3, <1>4, <1>5, <1>6 DEF SameUpload

\* The engine's steps but the one that starts the workers.
LEMMA EngineMoves ==
    ASSUME Shape, Gate, Parts, NEW u \in Uploads, EngineStep(u)
    PROVE  \/ /\ At(u, "init") /\ call[u]["init"] = "ok" /\ Goto(u, "parts") /\ PoolStart(u)
              /\ UNCHANGED <<file, etags, failure, session, call>>
           \/ /\ pc[u] # "new" /\ UNCHANGED <<file, worker, etags, cursor, session>>
              /\ failure'[u] # "refused"
              /\ \/ call' = call
                 \/ \E c \in {"init", "abort"} : call' = [call EXCEPT ![u][c] = "sent"]
              /\ pc'[u] \notin {"new", "parts"} /\ (Late(u) => Late(u)')
              /\ pc'[u] \in {"complete", "abort"} => pc[u] \in {"parts", "complete", "abort"}
  <1>1. failure[u] # "refused"
    BY DEF Parts, Cut
  <1>2. u \in Holders /\ pc[u] # "new"
    BY EngineGate DEF Holders
  <1>3. Release(u) => pc'[u] = "over"
    BY <1>2, ReleaseOwn
  <1>4. \A label : Goto(u, label) => pc'[u] = label
    BY DEF Goto, Shape
  <1>5. \A why : failure' = [failure EXCEPT ![u] = why] => failure'[u] = why
    BY DEF Shape
  <1> USE DEF Late, At, Unchanged, serverVars, engineVars
  <1>6. CASE Start(u) \/ InitRetry(u)
    BY <1>1, <1>2, <1>3, <1>4, <1>6 DEF Start, InitRetry, Finish, Send
  <1>7. CASE InitAnswered(u)
    <2>1. CASE call[u]["init"] = "ok"
      BY <1>7, <2>1 DEF InitAnswered
    <2>2. CASE call[u]["init"] # "ok"
      BY <1>1, <1>2, <1>3, <1>4, <1>5, <1>7, <2>2 DEF InitAnswered, Finish
    <2> QED
      BY <2>1, <2>2
  <1>8. CASE InitLost(u) \/ InitCancelled(u)
    BY <1>2, <1>3, <1>5, <1>8 DEF InitLost, InitCancelled, Finish
  <1>9. CASE CompleteAnswered(u) \/ CompleteLost(u)
    BY <1>1, <1>2, <1>3, <1>4, <1>5, <1>9 DEF CompleteAnswered, CompleteLost, ToAbort, Finish, Send
  <1>10. CASE AbortEnds(u)
    BY <1>1, <1>2, <1>3, <1>10 DEF AbortEnds, Finish
  <1> QED
    BY <1>6, <1>7, <1>8, <1>9, <1>10 DEF EngineStep

LEMMA EngineParts ==
    ASSUME WebAssumption, LimitsAssumption, Shape, Gate, Parts, NEW u \in Uploads, EngineStep(u)
    PROVE  Begun(u)' /\ Cut(u)'
  <1>1. CASE At(u, "init") /\ call[u]["init"] = "ok" /\ Goto(u, "parts") /\ PoolStart(u)
             /\ UNCHANGED <<file, etags, failure, session, call>>
    BY <1>1, PoolParts
  <1>2. CASE /\ pc[u] # "new" /\ UNCHANGED <<file, worker, etags, cursor, session>>
             /\ failure'[u] # "refused"
             /\ \/ call' = call
                \/ \E c \in {"init", "abort"} : call' = [call EXCEPT ![u][c] = "sent"]
             /\ pc'[u] \notin {"new", "parts"} /\ (Late(u) => Late(u)')
             /\ pc'[u] \in {"complete", "abort"} => pc[u] \in {"parts", "complete", "abort"}
    <2>1. call'[u]["complete"] = call[u]["complete"] /\ call'[u]["init"] \in {call[u]["init"], "sent"}
      <3>1. call \in [Uploads -> [Calls -> {"none", "sent", "ok", "busy", "refused", "failed"}]]
        BY DEF Shape
      <3> QED
        BY <1>2, <3>1 DEF Calls
    <2>2. Begun(u) /\ Cut(u)
      BY DEF Parts
    <2> QED
      BY <1>2, <2>1, <2>2, MovedParts
  <1> QED
    BY <1>1, <1>2, EngineMoves

LEMMA ServerAlone ==
    ASSUME Shape, NEW u \in Uploads, Server(u)
    PROVE  \A g \in Uploads : g # u => SameUpload(g)
  <1> SUFFICES ASSUME NEW g \in Uploads, g # u
               PROVE  SameUpload(g)
    OBVIOUS
  <1>1. UNCHANGED <<pc, worker, etags, cursor, failure>>
    BY ServerCases DEF Served, engineVars
  <1>2. call'[g] = call[g]
    <2>1. \/ UNCHANGED call
          \/ \E c \in Calls, answer \in {"ok", "busy", "refused", "failed"} :
               call' = [call EXCEPT ![u][c] = answer]
      BY ServerMoves DEF Answer
    <2>2. DOMAIN call = Uploads
      BY DEF Shape
    <2> QED
      BY <2>1, <2>2
  <1>3. session'[g] = session[g] /\ bytes'[g] = bytes[g]
    <2>1. DOMAIN session = Uploads /\ DOMAIN bytes = Uploads
      BY DEF Shape
    <2> QED
      BY <2>1, ServerMoves
  <1> QED
    BY <1>1, <1>2, <1>3 DEF SameUpload

LEMMA ServerParts ==
    ASSUME Shape, Parts, NEW u \in Uploads, Server(u)
    PROVE  Begun(u)' /\ Cut(u)' /\ file' = file /\ \A g \in Uploads : g # u => SameUpload(g)
  <1>1. UNCHANGED <<file, pc, worker, etags, cursor, failure>>
    BY ServerCases DEF Served, engineVars
  <1>2. Begun(u) /\ Cut(u)
    BY DEF Parts
  <1>3. call \in [Uploads -> [Calls -> {"none", "sent", "ok", "busy", "refused", "failed"}]]
    BY DEF Shape
  <1>4. /\ call'[u]["init"] # "none" <=> call[u]["init"] # "none"
        /\ call'[u]["complete"] # "none" <=> call[u]["complete"] # "none"
    <2>1. CASE UNCHANGED call
      BY <2>1
    <2>2. ASSUME NEW c \in Calls, NEW answer \in {"ok", "busy", "refused", "failed"},
                 call[u][c] = "sent", Answer(u, c, answer)
          PROVE  \A d \in Calls : call'[u][d] # "none" <=> call[u][d] # "none"
      BY <1>3, <2>2 DEF Answer
    <2> QED
      BY <2>1, <2>2, ServerMoves DEF Calls
  <1>5. call'[u]["init"] = "ok" \/ session'[u] # "none" => Accepted(u)
    <2>1. CASE ServeInit(u)
      <3>1. file[u].size \in Nat
        BY <1>2, <2>1 DEF ServeInit, Begun
      <3>2. CASE InitAccepts(file[u])
        BY <3>1, <3>2 DEF Accepted, InitAccepts
      <3>3. CASE ~InitAccepts(file[u])
        BY <1>2, <1>3, <2>1, <3>3 DEF ServeInit, Answer, Begun, Calls
      <3> QED
        BY <3>2, <3>3
    <2>2. CASE ~ServeInit(u)
      <3>1. session[u] # "none" \/ session'[u] = session[u]
        BY <2>2, ServerCases
        DEF Assemble, Promote, MarkCompleted, CompleteFails, ServeAbort, Expire
      <3>2. call'[u]["init"] = call[u]["init"]
        BY <1>3, <2>2, ServerCases
        DEF Assemble, Promote, MarkCompleted, CompleteFails, ServeAbort, Expire, Answer, Calls
      <3> QED
        BY <1>2, <3>1, <3>2 DEF Begun
    <2> QED
      BY <2>1, <2>2
  <1>6. Busy(u)' = Busy(u) /\ Taken(u)' = Taken(u) /\ (Accepted(u)' <=> Accepted(u))
        /\ Late(u)' = Late(u)
    BY <1>1 DEF Busy, Taken, Accepted, Late
  <1>7. Begun(u)'
    BY <1>1, <1>2, <1>4, <1>5, <1>6 DEF Begun
  <1>8. Cut(u)'
    BY <1>1, <1>2, <1>4, <1>6 DEF Cut
  <1> QED
    BY <1>1, <1>7, <1>8, ServerAlone

\* A queued upload has a file and has begun nothing.
LEMMA EnqueueParts ==
    ASSUME Shape, Parts, NEW u \in Uploads, Enqueue(u)
    PROVE  Begun(u)' /\ Cut(u)' /\ file' = file /\ \A g \in Uploads : g # u => SameUpload(g)
  <1>1. UNCHANGED <<file, worker, etags, cursor, failure, session, bytes, call>>
    BY DEF Enqueue, engineVars, serverVars
  <1>2. pc[u] = "new" /\ file[u] # NoFile /\ pc'[u] \in {"waiting", "granted"}
        /\ \A g \in Uploads : g # u => pc'[g] = pc[g]
    BY DEF Enqueue, At, Acquire, Shape
  <1>3. Busy(u)' = Busy(u) /\ (Accepted(u)' <=> Accepted(u))
    BY <1>1 DEF Busy, Accepted
  <1>4. Begun(u) /\ Cut(u)
    BY DEF Parts
  <1>5. Begun(u)'
    BY <1>1, <1>2, <1>3, <1>4 DEF Begun, Late
  <1>6. Cut(u)'
    BY <1>1, <1>2, <1>3, <1>4 DEF Cut
  <1> QED
    BY <1>1, <1>2, <1>5, <1>6 DEF SameUpload

LEMMA InitParts ==
    ASSUME WebAssumption, LimitsAssumption, Init
    PROVE  Parts
  <1> SUFFICES ASSUME NEW u \in Uploads
               PROVE  Begun(u) /\ Cut(u)
    BY DEF Parts
  <1>1. /\ pc[u] = "new" /\ etags[u] = {} /\ cursor[u] = 0 /\ failure[u] = ""
        /\ session[u] = "none" /\ \A c \in Calls : call[u][c] = "none"
    BY DEF Init, NoCalls
  <1>2. Busy(u) = {}
    BY DEF Init, Busy, Off
  <1>3. file[u] # NoFile => file[u].size \in Nat
    <2>1. PICK drop \in Drops :
            file = [v \in Uploads |-> IF v \in DOMAIN drop THEN drop[v] ELSE NoFile]
      BY DEF Init
    <2> QED
      BY <2>1 DEF WebAssumption
  <1>4. Begun(u)
    BY <1>1, <1>2, <1>3 DEF Begun, Calls
  <1>5. Accepted(u) => 0 <= ExpectedPartCount(file[u].size)
    BY AcceptedNumbers
  <1>6. Cut(u)
    BY <1>1, <1>2, <1>5 DEF Cut, Calls
  <1> QED
    BY <1>4, <1>6

LEMMA NextParts ==
    ASSUME WebAssumption, LimitsAssumption, Shape, Gate, Parts, [Next]_vars
    PROVE  Parts'
  <1>1. ASSUME NEW u \in Uploads, file' = file, Begun(u)', Cut(u)',
               \A g \in Uploads : g # u => SameUpload(g)
        PROVE  Parts'
    BY <1>1, PartsKept DEF Parts, SameUpload
  <1>2. CASE \E u \in Uploads : Enqueue(u)
    BY <1>1, <1>2, EnqueueParts
  <1>3. CASE \E u \in Uploads : Server(u)
    BY <1>1, <1>3, ServerParts
  <1>4. CASE \E u \in Uploads : EngineStep(u)
    BY <1>1, <1>4, EngineParts, EngineAlone
  <1>5. CASE \E u \in Uploads, w \in Workers : WorkerStep(u, w)
    <2>1. PICK u \in Uploads, w \in Workers : WorkerStep(u, w)
      BY <1>5
    <2>2. w \in Busy(u) /\ (Continues(u, w) \/ Fails(u, w) \/ PutOk(u, w))
      BY <2>1, WorkerCases
    <2>3. Begun(u)' /\ Cut(u)'
      BY <2>2, ContinuesParts, FailsParts, PutParts
    <2> QED
      BY <1>1, <2>1, <2>3, WorkerAlone
  <1>6. CASE (\E u \in Uploads : Cancel(u)) \/ ClearFinished \/ UNCHANGED vars
    <2>1. UNCHANGED <<file, worker, etags, cursor, failure, session, call, pc>>
      BY <1>6 DEF Cancel, ClearFinished, vars, engineVars, serverVars
    <2> QED
      BY <2>1, PartsKept DEF Parts
  <1> QED
    BY <1>2, <1>3, <1>4, <1>5, <1>6, PageCases DEF Next, User

\* The cursor divides an upload's parts: those above it are untouched, those
\* below it uploaded or with one worker while the upload goes on.
THEOREM PartsInvariant == Spec => [](Shape /\ Gate /\ Parts)
  <1>1. Init => Shape /\ Gate /\ Parts
    BY InitShape, InitGate, InitParts, WebAssumption, LimitsAssumption
  <1>2. Shape /\ Gate /\ Parts /\ [Next]_vars => (Shape /\ Gate /\ Parts)'
    BY NextShape, GateCases, StepGate, NextParts, WebAssumption, LimitsAssumption
  <1> QED
    BY <1>1, <1>2, PTL DEF Spec

\* No two workers of an upload send the same part, nor one that is uploaded,
\* complete is sent only of all parts, and until then some worker is busy, whatever
\* the number of workers and parts and the order they end in
\* (web/src/lib/upload.ts:191-214).
THEOREM EveryPartHolds == Spec => []EveryPartOnce
  <1>1. Shape /\ Gate /\ Parts => EveryPartOnce
    <2>1. ASSUME Parts, NEW u \in Uploads, call[u]["complete"] # "none"
          PROVE  etags[u] = Numbers(u)
      BY <2>1, AcceptedNumbers, LimitsAssumption DEF Parts, Begun, Cut
    <2> QED
      BY <2>1 DEF Parts, Cut, EveryPartOnce, At
  <1> QED
    BY <1>1, PartsInvariant, PTL

\* A part of a live session is never refused, and a complete names the parts
\* that are expected, for files of every size (web/src/lib/upload.ts:82-119
\* and the Worker's routes/upload.ts:69-97, :282-331).
THEOREM PartsAgreeHolds == Spec => []PartsAgree
  <1>1. Shape /\ Gate /\ Parts => PartsAgree
    <2>1. ASSUME Parts, NEW u \in Uploads, call[u]["complete"] # "none"
          PROVE  CompletePartsAccepted(file[u].size, Named(u))
      <3>1. Accepted(u)
        BY <2>1 DEF Parts, Begun
      <3> QED
        BY <3>1, NumbersAccepted, LimitsAssumption
        DEF Accepted, InitAccepts, Named, Numbers, Chunks
    <2> QED
      BY <2>1 DEF Parts, Cut, PartsAgree
  <1> QED
    BY <1>1, PartsInvariant, PTL

\* The variables keep their types, and a worker's part and an etag are of a
\* chunk of the file.
THEOREM TypeCorrect == Spec => []TypeOK
  <1>1. Shape /\ Gate /\ Parts => TypeOK
    <2> SUFFICES ASSUME Shape, Gate, Parts
                 PROVE  TypeOK
      OBVIOUS
    <2>1. ASSUME NEW u \in Uploads
          PROVE  /\ \A w \in Busy(u) : worker[u][w].part \in Numbers(u)
                 /\ etags[u] # {} => etags[u] \subseteq Numbers(u)
      <3>1. Begun(u) /\ Cut(u) /\ cursor[u] \in Nat
        BY DEF Parts, Shape
      <3>2. Busy(u) # {} \/ etags[u] # {} =>
              /\ Accepted(u)
              /\ Numbers(u) = 1 .. ExpectedPartCount(file[u].size)
              /\ ExpectedPartCount(file[u].size) \in Nat
              /\ cursor[u] <= ExpectedPartCount(file[u].size)
        BY <3>1, AcceptedNumbers, LimitsAssumption DEF Begun, Cut
      <3>3. Busy(u) # {} \/ etags[u] # {} => 1 .. cursor[u] \subseteq Numbers(u)
        BY <3>1, <3>2
      <3> QED
        BY <3>1, <3>3 DEF Cut
    <2>2. worker \in [Uploads -> [Workers -> AnyWorkerStates]]
      <3>1. worker \in [Uploads -> [Workers -> WorkerStates]]
        BY DEF Shape
      <3>2. WorkerStates \subseteq AnyWorkerStates
        BY DEF WorkerStates
      <3> QED
        BY <3>1, <3>2
    <2>3. active \in Nat /\ waiters \in Seq(Uploads)
      BY DEF Gate
    <2> QED
      BY <2>1, <2>2, <2>3 DEF Shape, TypeOK, AnyWorkerStates
  <1> QED
    BY <1>1, PartsInvariant, PTL

-----------------------------------------------------------------------------
(* What is stored, what the user is told, and what is left behind.         *)

\* The answers of init and the session.
Opened(u) ==
    /\ call[u]["init"] \in {"none", "sent", "busy", "refused"} => session[u] = "none"
    /\ pc[u] \in {"new", "waiting", "granted"} => call[u]["init"] = "none"
    /\ pc[u] = "backoff" => call[u]["init"] = "busy"

\* What an upload's session says of its file.
Kept(u) ==
    /\ session[u] = "none" => bytes[u] = "parts"
    /\ session[u] = "completed" => bytes[u] = "stored"
    /\ session[u] = "aborted" => bytes[u] = "dropped"
    /\ bytes[u] \in {"assembled", "stored"} =>
         call[u]["complete"] # "none" /\ StagedAccepted(file[u], file[u].size)

\* The answers of complete and abort.
Closed(u) ==
    /\ call[u]["complete"] = "ok" =>
         bytes[u] = "stored" /\ session[u] \in {"completed", "expired"}
    /\ call[u]["abort"] = "ok" =>
         bytes[u] = "dropped" /\ session[u] \in {"aborted", "expired"}
    /\ call[u]["abort"] \in {"none", "sent", "ok", "failed"}
    /\ pc[u] = "abort" => call[u]["abort"] # "none"

\* How an upload ended: an unseen complete is noted, an unseen init too.
Ended(u) ==
    /\ pc[u] \in {"abort", "over"} /\ call[u]["complete"] # "none" =>
         \/ "complete" \in lost[u]
         \/ call[u]["complete"] = "failed"
         \/ pc[u] = "over" /\ call[u]["complete"] = "ok" /\ item[u] \in {"done", ""}
    /\ pc[u] = "over" =>
         \/ call[u]["init"] \in {"none", "busy", "refused", "failed"} \/ "init" \in lost[u]
         \/ call[u]["abort"] \in {"ok", "failed"} \/ "abort" \in lost[u]
         \/ call[u]["complete"] = "ok"

\* What the items say.
Told(u) ==
    /\ item[u] \in {"done", "error", "cancelled"} => pc[u] = "over"
    /\ item[u] = "done" => call[u]["complete"] = "ok"
    /\ failure[u] = "cancel" \/ item[u] = "cancelled" => u \in cancelled

Outcome == \A u \in Uploads : Opened(u) /\ Kept(u) /\ Closed(u) /\ Ended(u) /\ Told(u)

\* The invariant holds where nothing of it changes but a slot that is granted,
\* and an item that is cleared.
LEMMA OutcomeKept ==
    ASSUME NEW u, Opened(u), Kept(u), Closed(u), Ended(u), Told(u),
           file' = file, failure'[u] = failure[u], session'[u] = session[u],
           bytes'[u] = bytes[u], call'[u] = call[u],
           lost'[u] = lost[u], cancelled \subseteq cancelled',
           item'[u] \in {item[u], ""} \/ (item'[u] = "uploading" /\ call[u]["complete"] = "none"),
           pc'[u] = pc[u] \/ (pc[u] = "waiting" /\ pc'[u] = "granted")
    PROVE  Opened(u)' /\ Kept(u)' /\ Closed(u)' /\ Ended(u)' /\ Told(u)'
  <1>1. Opened(u)' /\ Kept(u)' /\ Closed(u)'
    BY DEF Opened, Kept, Closed
  <1>2. Ended(u)'
    BY DEF Ended
  <1>3. Told(u)'
    BY DEF Told
  <1> QED
    BY <1>1, <1>2, <1>3

LEMMA CallAt ==
    ASSUME Shape, NEW u \in Uploads
    PROVE  \A a :
             /\ call' = [call EXCEPT ![u]["init"] = a] =>
                  /\ call'[u]["init"] = a /\ call'[u]["complete"] = call[u]["complete"]
                  /\ call'[u]["abort"] = call[u]["abort"]
             /\ call' = [call EXCEPT ![u]["complete"] = a] =>
                  /\ call'[u]["complete"] = a /\ call'[u]["init"] = call[u]["init"]
                  /\ call'[u]["abort"] = call[u]["abort"]
             /\ call' = [call EXCEPT ![u]["abort"] = a] =>
                  /\ call'[u]["abort"] = a /\ call'[u]["init"] = call[u]["init"]
                  /\ call'[u]["complete"] = call[u]["complete"]
  <1>1. call \in [Uploads -> [Calls -> {"none", "sent", "ok", "busy", "refused", "failed"}]]
    BY DEF Shape
  <1> QED
    BY <1>1 DEF Calls

\* What else a step of upload u leaves of another upload.
SameTale(g) == item'[g] = item[g] /\ lost'[g] = lost[g]

LEMMA WorkerOutcome ==
    ASSUME WebAssumption, Shape, Parts, Outcome,
           NEW u \in Uploads, NEW w \in Workers, WorkerStep(u, w)
    PROVE  /\ Opened(u)' /\ Kept(u)' /\ Closed(u)' /\ Ended(u)' /\ Told(u)'
           /\ cancelled' = cancelled
           /\ \A g \in Uploads : g # u => SameTale(g)
  <1>1. Opened(u) /\ Kept(u) /\ Closed(u) /\ Ended(u) /\ Told(u)
    BY DEF Outcome
  <1>2. w \in Busy(u) /\ call[u]["complete"] = "none"
    BY WorkerCases DEF Parts, Cut
  <1>4. Progress(u) => /\ item'[u] \in {"", "uploading"}
                      /\ \A g \in Uploads : g # u => item'[g] = item[g]
    BY DEF Progress, Shape
  <1>5. CASE Continues(u, w) /\ (UNCHANGED item \/ Progress(u))
    <2>1. UNCHANGED <<file, cancelled, pc, failure, session, bytes, call, lost>>
      BY <1>5 DEF Continues, serverVars
    <2>2. item'[u] \in {item[u], ""} \/ item'[u] = "uploading"
      BY <1>4, <1>5
    <2>3. Opened(u)' /\ Kept(u)' /\ Closed(u)' /\ Ended(u)' /\ Told(u)'
      BY <1>1, <1>2, <2>1, <2>2, OutcomeKept
    <2> QED
      BY <1>4, <1>5, <2>1, <2>3 DEF SameTale
  <1>6. CASE Fails(u, w) /\ UNCHANGED item
    <2>1. UNCHANGED <<file, cancelled, session, bytes, lost, item>>
      BY <1>6 DEF Fails
    <2>2. CASE At(u, "parts")
      <3>1. PICK why \in {"part", "refused", "session", "cancel"} :
              /\ pc' = [pc EXCEPT ![u] = "abort"]
              /\ call' = [call EXCEPT ![u]["abort"] = "sent"]
              /\ failure' = [failure EXCEPT ![u] = why]
              /\ why = "cancel" => u \in cancelled
        BY <1>6, <2>2 DEF Fails, WorkerFails, Goto, Send
      <3>2. pc'[u] = "abort" /\ failure'[u] = why
        BY <3>1 DEF Shape
      <3>3. /\ call'[u]["abort"] = "sent" /\ call'[u]["init"] = call[u]["init"]
            /\ call'[u]["complete"] = "none"
        BY <1>2, <3>1, CallAt
      <3>4. Opened(u)' /\ Kept(u)' /\ Closed(u)'
        BY <1>1, <1>2, <2>1, <3>2, <3>3 DEF Opened, Kept, Closed
      <3>5. Ended(u)' /\ Told(u)'
        BY <1>1, <2>1, <2>2, <3>1, <3>2, <3>3 DEF Ended, Told, At
      <3> QED
        BY <2>1, <3>4, <3>5 DEF SameTale
    <2>3. CASE ~At(u, "parts")
      <3>1. UNCHANGED <<pc, call, failure>>
        BY <1>6, <2>3 DEF Fails, WorkerFails
      <3>2. Opened(u)' /\ Kept(u)' /\ Closed(u)' /\ Ended(u)' /\ Told(u)'
        BY <1>1, <2>1, <3>1, OutcomeKept
      <3> QED
        BY <2>1, <3>2 DEF SameTale
    <2> QED
      BY <2>2, <2>3
  <1>7. CASE PutOk(u, w)
    <2>1. UNCHANGED <<file, cancelled, failure, session, bytes, lost>> /\ Progress(u)
      BY <1>7 DEF PutOk
    <2>2. CASE UNCHANGED <<pc, call>>
      <3>1. Opened(u)' /\ Kept(u)' /\ Closed(u)' /\ Ended(u)' /\ Told(u)'
        BY <1>1, <1>2, <1>4, <2>1, <2>2, OutcomeKept
      <3> QED
        BY <1>4, <2>1, <3>1 DEF SameTale
    <2>3. CASE At(u, "parts") /\ Goto(u, "complete") /\ Send(u, "complete")
      <3>1. pc'[u] = "complete"
        BY <2>3 DEF Goto, Shape
      <3>2. /\ call'[u]["complete"] = "sent" /\ call'[u]["init"] = call[u]["init"]
            /\ call'[u]["abort"] = call[u]["abort"]
        BY <2>3, CallAt DEF Send
      <3>3. Opened(u)' /\ Kept(u)' /\ Closed(u)'
        BY <1>1, <1>2, <2>1, <3>1, <3>2 DEF Opened, Kept, Closed
      <3>4. Ended(u)' /\ Told(u)'
        BY <1>1, <1>4, <2>1, <3>1 DEF Ended, Told
      <3> QED
        BY <1>4, <2>1, <3>3, <3>4 DEF SameTale
    <2> QED
      BY <1>7, <2>2, <2>3 DEF PutOk
  <1> QED
    BY <1>5, <1>6, <1>7, WorkerCases

LEMMA ServerOutcome ==
    ASSUME Shape, Outcome, NEW u \in Uploads, Server(u)
    PROVE  /\ Opened(u)' /\ Kept(u)' /\ Closed(u)' /\ Ended(u)' /\ Told(u)'
           /\ UNCHANGED <<cancelled, item, lost>>
  <1>1. Opened(u) /\ Kept(u) /\ Closed(u) /\ Ended(u) /\ Told(u)
    BY DEF Outcome
  <1>2. UNCHANGED <<file, item, cancelled, pc, failure, lost>>
    BY ServerCases DEF Served
  <1>3. \A x : session' = [session EXCEPT ![u] = x] => session'[u] = x
    BY DEF Shape
  <1>4. \A x : bytes' = [bytes EXCEPT ![u] = x] => bytes'[u] = x
    BY DEF Shape
  <1>5. CASE ServeInit(u)
    <2>1. PICK answer \in {"ok", "failed", "refused", "busy"} :
            /\ call' = [call EXCEPT ![u]["init"] = answer]
            /\ \/ session' = [session EXCEPT ![u] = "active"] /\ answer \in {"ok", "failed"}
               \/ UNCHANGED session /\ answer \in {"refused", "busy"}
      BY <1>5 DEF ServeInit, Answer
    <2>2. /\ call'[u]["init"] = answer /\ call'[u]["complete"] = call[u]["complete"]
          /\ call'[u]["abort"] = call[u]["abort"]
      BY <2>1, CallAt
    <2>3. session[u] = "none" /\ call[u]["init"] = "sent" /\ bytes' = bytes
      BY <1>1, <1>5 DEF Opened, ServeInit
    <2>4. \/ session'[u] = "active" /\ answer \in {"ok", "failed"}
          \/ session'[u] = "none" /\ answer \in {"refused", "busy"}
      BY <1>3, <2>1, <2>3
    <2>5. Opened(u)'
      BY <1>1, <1>2, <2>2, <2>3, <2>4 DEF Opened
    <2>6. Kept(u)' /\ Closed(u)'
      BY <1>1, <1>2, <2>2, <2>3, <2>4 DEF Kept, Closed
    <2>7. Ended(u)' /\ Told(u)'
      BY <1>1, <1>2, <2>2, <2>3 DEF Ended, Told
    <2> QED
      BY <1>2, <2>5, <2>6, <2>7
  <1>6. ASSUME NEW answer \in {"ok", "failed"}, Answer(u, "complete", answer),
               call[u]["complete"] = "sent",
               session[u] = "none" <=> session'[u] = "none", Kept(u)',
               answer = "ok" => bytes'[u] = "stored" /\ session'[u] \in {"completed", "expired"},
               call[u]["abort"] = "ok" => bytes'[u] = "dropped" /\ session'[u] \in {"aborted", "expired"}
        PROVE  Opened(u)' /\ Closed(u)' /\ Ended(u)' /\ Told(u)'
    <2>1. /\ call'[u]["complete"] = answer /\ call'[u]["init"] = call[u]["init"]
          /\ call'[u]["abort"] = call[u]["abort"]
      BY <1>6, CallAt DEF Answer
    <2> QED
      BY <1>1, <1>2, <1>6, <2>1 DEF Opened, Closed, Ended, Told
  <1>7. CASE Assemble(u)
    <2>1. /\ call[u]["complete"] = "sent" /\ session[u] = "active" /\ bytes[u] = "parts"
      BY <1>7 DEF Assemble
    <2>2. CASE StagedAccepted(file[u], file[u].size)
      <3>1. bytes'[u] = "assembled" /\ UNCHANGED <<session, call>>
        BY <1>4, <1>7, <2>2 DEF Assemble
      <3>2. Opened(u)' /\ Kept(u)' /\ Closed(u)'
        BY <1>1, <1>2, <2>1, <2>2, <3>1 DEF Opened, Kept, Closed
      <3>3. Ended(u)' /\ Told(u)'
        BY <1>1, <1>2, <3>1 DEF Ended, Told
      <3> QED
        BY <1>2, <3>2, <3>3
    <2>3. CASE ~StagedAccepted(file[u], file[u].size)
      <3>1. /\ bytes'[u] = "dropped" /\ session'[u] \in {"active", "aborted"}
            /\ Answer(u, "complete", "failed")
        BY <1>3, <1>4, <1>7, <2>3 DEF Assemble
      <3>2. Kept(u)'
        BY <3>1 DEF Kept
      <3> QED
        BY <1>1, <1>2, <1>6, <2>1, <3>1, <3>2 DEF Closed
    <2> QED
      BY <2>2, <2>3
  <1>8. CASE Promote(u)
    <2>1. /\ call[u]["complete"] = "sent" /\ bytes[u] = "assembled" /\ bytes'[u] = "stored"
          /\ UNCHANGED <<session, call>>
      BY <1>4, <1>8 DEF Promote
    <2>2. Opened(u)' /\ Kept(u)' /\ Closed(u)'
      BY <1>1, <1>2, <2>1 DEF Opened, Kept, Closed
    <2>3. Ended(u)' /\ Told(u)'
      BY <1>1, <1>2, <2>1 DEF Ended, Told
    <2> QED
      BY <1>2, <2>2, <2>3
  <1>9. CASE MarkCompleted(u)
    <2>1. /\ call[u]["complete"] = "sent" /\ session[u] = "active" /\ session'[u] = "completed"
          /\ bytes[u] = "stored" /\ bytes' = bytes
      BY <1>3, <1>9 DEF MarkCompleted
    <2>2. PICK answer \in {"ok", "failed"} : Answer(u, "complete", answer)
      BY <1>9 DEF MarkCompleted
    <2>3. Kept(u)'
      BY <1>1, <1>2, <2>1, <2>2, CallAt DEF Kept, Answer
    <2> QED
      BY <1>1, <1>2, <1>6, <2>1, <2>2, <2>3 DEF Closed
  <1>10. CASE CompleteFails(u)
    <2>1. /\ call[u]["complete"] = "sent" /\ UNCHANGED <<session, bytes>>
          /\ Answer(u, "complete", "failed")
      BY <1>10 DEF CompleteFails
    <2>2. Kept(u)'
      BY <1>1, <1>2, <2>1, CallAt DEF Kept, Answer
    <2> QED
      BY <1>1, <1>2, <1>6, <2>1, <2>2 DEF Closed
  <1>11. CASE ServeAbort(u)
    <2>1. PICK answer \in {"ok", "failed"} :
            /\ Answer(u, "abort", answer)
            /\ \/ /\ session[u] = "active" /\ bytes[u] = "parts"
                  /\ bytes' = [bytes EXCEPT ![u] = "dropped"]
                  /\ \/ session' = [session EXCEPT ![u] = "aborted"]
                     \/ answer = "failed" /\ UNCHANGED session
               \/ session[u] = "aborted" /\ UNCHANGED <<session, bytes>>
               \/ answer = "failed" /\ UNCHANGED <<session, bytes>>
      BY <1>11 DEF ServeAbort
    <2>2. /\ call'[u]["abort"] = answer /\ call'[u]["init"] = call[u]["init"]
          /\ call'[u]["complete"] = call[u]["complete"]
      BY <2>1, CallAt DEF Answer
    <2>3. \/ /\ session[u] = "active" /\ bytes[u] = "parts" /\ bytes'[u] = "dropped"
             /\ session'[u] = "aborted" \/ (answer = "failed" /\ session'[u] = "active")
          \/ session[u] = "aborted" /\ UNCHANGED <<session, bytes>>
          \/ answer = "failed" /\ UNCHANGED <<session, bytes>>
      BY <1>3, <1>4, <2>1
    <2>4. call[u]["abort"] = "sent"
      BY <1>11 DEF ServeAbort
    <2>5. Opened(u)' /\ Kept(u)' /\ Closed(u)'
      BY <1>1, <1>2, <2>2, <2>3, <2>4 DEF Opened, Kept, Closed
    <2>6. Ended(u)' /\ Told(u)'
      BY <1>1, <1>2, <2>2, <2>4 DEF Ended, Told
    <2> QED
      BY <1>2, <2>5, <2>6
  <1>12. CASE Expire(u)
    <2>1. /\ session[u] \in {"active", "completed", "aborted"} /\ session'[u] = "expired"
          /\ UNCHANGED <<bytes, call>>
      BY <1>3, <1>12 DEF Expire
    <2>2. Opened(u)' /\ Kept(u)' /\ Closed(u)'
      BY <1>1, <1>2, <2>1 DEF Opened, Kept, Closed
    <2>3. Ended(u)' /\ Told(u)'
      BY <1>1, <1>2, <2>1 DEF Ended, Told
    <2> QED
      BY <1>2, <2>2, <2>3
  <1> QED
    BY <1>2, <1>5, <1>7, <1>8, <1>9, <1>10, <1>11, <1>12, ServerCases

LEMMA EngineTales ==
    ASSUME Shape, NEW u \in Uploads, EngineStep(u)
    PROVE  cancelled' = cancelled /\ \A g \in Uploads : g # u => SameTale(g)
  <1>1. cancelled' = cancelled
    BY DEF EngineStep, Start, InitAnswered, InitLost, InitRetry, InitCancelled,
           CompleteAnswered, CompleteLost, AbortEnds, Unchanged
  <1>2. \A g \in Uploads : g # u => lost'[g] = lost[g]
    BY DEF EngineStep, Start, InitAnswered, InitLost, InitRetry, InitCancelled,
           CompleteAnswered, CompleteLost, AbortEnds, GiveUp, Shape
  <1>3. \A g \in Uploads : g # u => item'[g] = item[g]
    BY DEF EngineStep, Start, InitAnswered, InitLost, InitRetry, InitCancelled,
           CompleteAnswered, CompleteLost, AbortEnds, Finish, ToAbort, Shape
  <1> QED
    BY <1>1, <1>2, <1>3 DEF SameTale

LEMMA EngineOutcome ==
    ASSUME Shape, Gate, Parts, Outcome, NEW u \in Uploads, EngineStep(u)
    PROVE  Opened(u)' /\ Kept(u)' /\ Closed(u)' /\ Ended(u)' /\ Told(u)'
  <1>1. Opened(u) /\ Kept(u) /\ Closed(u) /\ Ended(u) /\ Told(u) /\ Begun(u) /\ Cut(u)
    BY DEF Outcome, Parts
  <1>2. UNCHANGED <<file, cancelled, session, bytes>>
    BY EngineTales DEF EngineStep, Start, InitAnswered, InitLost, InitRetry, InitCancelled,
           CompleteAnswered, CompleteLost, AbortEnds, Unchanged, serverVars
  <1>3. \A status : Finish(u, status) => pc'[u] = "over" /\ item'[u] = status
    BY EngineGate, ReleaseOwn DEF Finish, Shape
  <1>4. \A label : Goto(u, label) => pc'[u] = label
    BY DEF Goto, Shape
  <1>5. \A why : failure' = [failure EXCEPT ![u] = why] => failure'[u] = why
    BY DEF Shape
  <1>6. \A c : GiveUp(u, c) => c \in lost'[u] /\ lost[u] \subseteq lost'[u]
    <2>1. \A c : GiveUp(u, c) => lost'[u] = lost[u] \union {c}
      BY DEF GiveUp, Shape
    <2> QED
      BY <2>1
  <1> USE DEF At, Unchanged, serverVars
  <1>7. CASE Start(u)
    <2>1. call[u]["complete"] = "none" /\ call[u]["init"] = "none" /\ session[u] = "none"
      BY <1>1, <1>7 DEF Start, Opened, Begun, Late
    <2>2. failure' = failure /\ lost' = lost
      BY <1>7 DEF Start
    <2>3. CASE u \in cancelled
      <3>1. pc'[u] = "over" /\ item'[u] = "cancelled" /\ call' = call
        BY <1>3, <1>7, <2>3 DEF Start
      <3> QED
        BY <1>1, <1>2, <2>1, <2>2, <2>3, <3>1 DEF Opened, Kept, Closed, Ended, Told
    <2>4. CASE u \notin cancelled
      <3>1. pc'[u] = "init" /\ item' = item
        BY <1>4, <1>7, <2>4 DEF Start
      <3>2. /\ call'[u]["init"] = "sent" /\ call'[u]["complete"] = call[u]["complete"]
            /\ call'[u]["abort"] = call[u]["abort"]
        BY <1>7, <2>4, CallAt DEF Start, Send
      <3>3. pc[u] = "granted"
        BY <1>7 DEF Start
      <3> QED
        BY <1>1, <1>2, <2>1, <2>2, <3>1, <3>2, <3>3 DEF Opened, Kept, Closed, Ended, Told
    <2> QED
      BY <2>3, <2>4
  <1>8. CASE InitAnswered(u)
    <2>1. call' = call /\ lost' = lost /\ u \notin cancelled /\ pc[u] = "init"
      BY <1>8 DEF InitAnswered
    <2>2. call[u]["complete"] = "none"
      BY <1>1, <2>1 DEF Begun, Late
    <2>3. CASE call[u]["init"] \in {"refused", "failed", "busy"} /\ Finish(u, "error")
               /\ failure' = [failure EXCEPT ![u] = "init"]
      <3>1. pc'[u] = "over" /\ item'[u] = "error" /\ failure'[u] = "init"
        BY <1>3, <1>5, <2>3
      <3> QED
        BY <1>1, <1>2, <2>1, <2>2, <2>3, <3>1 DEF Opened, Kept, Closed, Ended, Told
    <2>4. CASE /\ item' = item /\ failure' = failure
               /\ Goto(u, "parts") \/ (Goto(u, "backoff") /\ call[u]["init"] = "busy")
      <3>1. pc'[u] = "parts" \/ (pc'[u] = "backoff" /\ call[u]["init"] = "busy")
        BY <1>4, <2>4
      <3> QED
        BY <1>1, <1>2, <2>1, <2>2, <2>4, <3>1 DEF Opened, Kept, Closed, Ended, Told
    <2> QED
      BY <1>8, <2>3, <2>4 DEF InitAnswered
  <1>9. CASE InitLost(u)
    <2>1. /\ call' = call /\ pc[u] = "init" /\ pc'[u] = "over" /\ item'[u] = "error"
          /\ failure'[u] = "init" /\ "init" \in lost'[u]
      BY <1>3, <1>5, <1>6, <1>9 DEF InitLost
    <2>2. call[u]["complete"] = "none"
      BY <1>1, <2>1 DEF Begun, Late
    <2> QED
      BY <1>1, <1>2, <2>1, <2>2 DEF Opened, Kept, Closed, Ended, Told
  <1>10. CASE InitRetry(u)
    <2>1. /\ item' = item /\ failure' = failure /\ lost' = lost
          /\ pc[u] = "backoff" /\ pc'[u] = "init"
      BY <1>4, <1>10 DEF InitRetry
    <2>2. /\ call'[u]["init"] = "sent" /\ call'[u]["complete"] = call[u]["complete"]
          /\ call'[u]["abort"] = call[u]["abort"]
      BY <1>10, CallAt DEF InitRetry, Send
    <2>3. session[u] = "none"
      BY <1>1, <2>1 DEF Opened
    <2> QED
      BY <1>1, <1>2, <2>1, <2>2, <2>3 DEF Opened, Kept, Closed, Ended, Told
  <1>11. CASE InitCancelled(u)
    <2>1. /\ call' = call /\ pc[u] \in {"init", "backoff"} /\ u \in cancelled
          /\ pc'[u] = "over" /\ item'[u] = "cancelled"
      BY <1>3, <1>11 DEF InitCancelled
    <2>2. call[u]["complete"] = "none"
      BY <1>1, <2>1 DEF Begun, Late
    <2>3. "init" \in lost'[u] \/ call[u]["init"] = "busy"
      BY <1>1, <1>6, <1>11 DEF InitCancelled, Opened
    <2> QED
      BY <1>1, <1>2, <2>1, <2>2, <2>3 DEF Opened, Kept, Closed, Ended, Told
  <1>12. ASSUME NEW why, ToAbort(u, why), pc[u] = "complete", why = "cancel" => u \in cancelled,
                lost[u] \subseteq lost'[u],
                call[u]["complete"] = "failed" \/ "complete" \in lost'[u]
         PROVE  Opened(u)' /\ Kept(u)' /\ Closed(u)' /\ Ended(u)' /\ Told(u)'
    <2>1. pc'[u] = "abort" /\ failure'[u] = why /\ item' = item
      BY <1>4, <1>5, <1>12 DEF ToAbort
    <2>2. /\ call'[u]["abort"] = "sent" /\ call'[u]["complete"] = call[u]["complete"]
          /\ call'[u]["init"] = call[u]["init"]
      BY <1>12, CallAt DEF ToAbort, Send
    <2> QED
      BY <1>1, <1>2, <1>12, <2>1, <2>2 DEF Opened, Kept, Closed, Ended, Told
  <1>13. CASE CompleteAnswered(u)
    <2>1. CASE call[u]["complete"] = "ok" /\ Finish(u, "done") /\ UNCHANGED <<call, failure>>
      <3>1. pc'[u] = "over" /\ item'[u] = "done" /\ lost' = lost
        BY <1>3, <1>13, <2>1 DEF CompleteAnswered
      <3> QED
        BY <1>1, <1>2, <2>1, <3>1 DEF Opened, Kept, Closed, Ended, Told
    <2>2. CASE call[u]["complete"] = "failed" /\ ToAbort(u, "complete")
      BY <1>12, <1>13, <2>2 DEF CompleteAnswered
    <2> QED
      BY <1>13, <2>1, <2>2 DEF CompleteAnswered
  <1>14. CASE CompleteLost(u)
    BY <1>6, <1>12, <1>14 DEF CompleteLost
  <1>15. CASE AbortEnds(u)
    <2>1. /\ call' = call /\ failure' = failure /\ pc[u] = "abort" /\ pc'[u] = "over"
          /\ item'[u] = IF failure[u] = "cancel" THEN "cancelled" ELSE "error"
      BY <1>3, <1>15 DEF AbortEnds
    <2>2. lost[u] \subseteq lost'[u] /\ (call[u]["abort"] = "sent" => "abort" \in lost'[u])
      BY <1>6, <1>15 DEF AbortEnds
    <2> QED
      BY <1>1, <1>2, <2>1, <2>2 DEF Opened, Kept, Closed, Ended, Told
  <1> QED
    BY <1>7, <1>8, <1>9, <1>10, <1>11, <1>13, <1>14, <1>15 DEF EngineStep

LEMMA InitOutcome ==
    ASSUME Init
    PROVE  Outcome
  BY DEF Init, Outcome, Opened, Kept, Closed, Ended, Told, NoCalls, Calls

LEMMA NextOutcome ==
    ASSUME WebAssumption, Shape, Gate, Parts, Outcome, [Next]_vars
    PROVE  Outcome'
  <1>1. ASSUME NEW u \in Uploads, file' = file, cancelled \subseteq cancelled',
               Opened(u)', Kept(u)', Closed(u)', Ended(u)', Told(u)',
               \A g \in Uploads : g # u => SameUpload(g) /\ SameTale(g)
        PROVE  Outcome'
    <2>1. ASSUME NEW g \in Uploads, g # u
          PROVE  Opened(g)' /\ Kept(g)' /\ Closed(g)' /\ Ended(g)' /\ Told(g)'
      BY <1>1, <2>1, OutcomeKept DEF SameUpload, SameTale, Outcome
    <2> QED
      BY <1>1, <2>1 DEF Outcome
  <1>2. CASE \E u \in Uploads : Enqueue(u)
    <2>1. PICK u \in Uploads : Enqueue(u)
      BY <1>2
    <2>2. UNCHANGED <<file, cancelled, failure, session, bytes, call, lost>>
      BY <2>1 DEF Enqueue, serverVars
    <2>3. pc[u] = "new" /\ item'[u] = "uploading" /\ pc'[u] \in {"waiting", "granted"}
          /\ \A g \in Uploads : g # u => item'[g] = item[g]
      BY <2>1 DEF Enqueue, At, Acquire, Shape
    <2>4. Opened(u)' /\ Kept(u)' /\ Closed(u)' /\ Ended(u)' /\ Told(u)'
      BY <2>2, <2>3 DEF Outcome, Opened, Kept, Closed, Ended, Told
    <2> QED
      BY <1>1, <2>1, <2>2, <2>3, <2>4, EnqueueParts DEF SameTale
  <1>3. CASE \E u \in Uploads : Server(u)
    BY <1>1, <1>3, ServerParts, ServerOutcome DEF SameTale
  <1>4. CASE \E u \in Uploads : EngineStep(u)
    BY <1>1, <1>4, EngineAlone, EngineTales, EngineOutcome
  <1>5. CASE \E u \in Uploads, w \in Workers : WorkerStep(u, w)
    BY <1>1, <1>5, WorkerAlone, WorkerOutcome
  <1>6. CASE (\E u \in Uploads : Cancel(u)) \/ ClearFinished \/ UNCHANGED vars
    <2>1. UNCHANGED <<file, failure, session, bytes, call, lost, pc>> /\ cancelled \subseteq cancelled'
      BY <1>6 DEF Cancel, ClearFinished, vars, serverVars
    <2>2. \A u \in Uploads : item'[u] \in {item[u], ""}
      BY <1>6 DEF Cancel, ClearFinished, vars
    <2> QED
      BY <2>1, <2>2, OutcomeKept DEF Outcome
  <1> QED
    BY <1>2, <1>3, <1>4, <1>5, <1>6, PageCases DEF Next, User

\* The answers the page saw and did not see agree with the session's state and
\* with what the item says.
THEOREM OutcomeInvariant == Spec => [](Shape /\ Gate /\ Parts /\ Outcome)
  <1>1. Init => Shape /\ Gate /\ Parts /\ Outcome
    BY InitShape, InitGate, InitParts, InitOutcome, WebAssumption, LimitsAssumption
  <1>2. Shape /\ Gate /\ Parts /\ Outcome /\ [Next]_vars =>
          (Shape /\ Gate /\ Parts /\ Outcome)'
    BY NextShape, GateCases, StepGate, NextParts, NextOutcome, WebAssumption, LimitsAssumption
  <1> QED
    BY <1>1, <1>2, PTL DEF Spec

\* The user is told done only of what is stored, and a stored file is reported
\* as failed or cancelled only when its complete was lost or answered with a
\* failure, under every order of answers, cancels and late serves
\* (web/src/lib/upload.ts:203-235, useUploadQueue.ts:112-153).
THEOREM OutcomeHolds == Spec => []OutcomeHonest
  <1>1. Outcome => OutcomeHonest
    BY DEF Outcome, Kept, Closed, Ended, Told, OutcomeHonest
  <1> QED
    BY <1>1, OutcomeInvariant, PTL

\* An ended upload leaves a live session only when the answer of its init was
\* not seen or its abort did not arrive (web/src/lib/upload.ts:227-235).
THEOREM NoSessionLeftHolds == Spec => []NoSessionLeft
  <1>1. Outcome => NoSessionLeft
    BY DEF Outcome, Opened, Kept, Closed, Ended, NoSessionLeft, At
  <1> QED
    BY <1>1, OutcomeInvariant, PTL

\* Nothing empty, too large, blocked or deceptive is stored, whatever the limits
\* of the deployment (routes/upload.ts:69-90, :417-480).
THEOREM StoredHolds == Spec => []StoredIsAllowed
  <1>1. Parts /\ Outcome => StoredIsAllowed
    <2> SUFFICES ASSUME Parts, Outcome, NEW u \in Uploads, bytes[u] = "stored"
                 PROVE  /\ file[u].size \in 1 .. R2MaxParts * PartSize
                        /\ {file[u].type, file[u].magic} \intersect BlockedMime = {}
                        /\ ~Deceptive(file[u])
                        /\ file[u].prefix # <<>> => file[u].prefix[1] # Staging
      BY DEF StoredIsAllowed
    <2> DEFINE n == ExpectedPartCount(file[u].size)
    <2>1. Accepted(u) /\ StagedAccepted(file[u], file[u].size)
      BY DEF Parts, Begun, Outcome, Kept
    <2>2. file[u].size \in 1 .. R2MaxParts * PartSize
      <3>1. file[u].size \in Nat \ {0} /\ n <= MaxParts
        BY <2>1 DEF Accepted, InitAccepts
      <3>2. n \in Nat \ {0} /\ file[u].size <= n * PartSize
        BY <3>1, CountBounds, LimitsAssumption
      <3>3. n <= R2MaxParts /\ R2MaxParts \in Nat /\ PartSize \in Nat
        BY <3>1, <3>2, LimitsAssumption DEF LimitsAssumption, MaxParts
      <3>4. n * PartSize <= R2MaxParts * PartSize
        BY <3>2, <3>3, ProductsOrdered
      <3>5. n * PartSize \in Nat /\ R2MaxParts * PartSize \in Nat
        BY <3>2, <3>3
      <3> QED
        BY <3>1, <3>2, <3>4, <3>5
    <2>3. /\ file[u].type \notin BlockedMime /\ file[u].magic \notin BlockedMime
          /\ ~Deceptive(file[u])
      BY <2>1, LimitsAssumption
      DEF LimitsAssumption, StagedAccepted, TypeAllowed, MagicAllowed,
          MagicMimeMatchesDeclared, Deceptive
    <2>4. file[u].prefix # <<>> => file[u].prefix[1] # Staging
      BY <2>1 DEF Accepted, InitAccepts, PrefixAllowed
    <2> QED
      BY <2>2, <2>3, <2>4
  <1> QED
    BY <1>1, OutcomeInvariant, PTL

\* A file that is done or cancelled is not marked uploading again by a worker
\* that is late (useUploadQueue.ts:119-130).
THEOREM FinishedHolds == Spec => FinishedStays
  <1>1. Shape /\ Gate /\ Parts /\ Outcome /\ [Next]_vars =>
          [\A u \in Uploads :
             item[u] \in {"done", "cancelled"} => item'[u] \in {item[u], ""}]_item
    <2> SUFFICES ASSUME Shape, Gate, Parts, Outcome, [Next]_vars, item' # item,
                        NEW u \in Uploads, item[u] \in {"done", "cancelled"}
                 PROVE  item'[u] \in {item[u], ""}
      OBVIOUS
    <2>1. pc[u] = "over" /\ (u \in cancelled \/ Busy(u) = {})
      BY DEF Outcome, Told, Parts, Cut
    <2>2. CASE \E g \in Uploads : Enqueue(g)
      <3>1. PICK g \in Uploads : Enqueue(g)
        BY <2>2
      <3>2. g # u /\ item' = [item EXCEPT ![g] = "uploading"]
        BY <2>1, <3>1 DEF Enqueue, At
      <3> QED
        BY <3>2 DEF Shape
    <2>3. CASE \E g \in Uploads : EngineStep(g)
      <3>1. PICK g \in Uploads : EngineStep(g)
        BY <2>3
      <3>2. g # u
        BY <2>1, <3>1, EngineGate DEF Holders
      <3> QED
        BY <3>1, <3>2, EngineTales DEF SameTale
    <2>4. CASE \E g \in Uploads, w \in Workers : WorkerStep(g, w)
      <3>1. PICK g \in Uploads, w \in Workers : WorkerStep(g, w)
        BY <2>4
      <3>2. CASE g # u
        BY <3>1, <3>2, WorkerOutcome, WebAssumption DEF SameTale
      <3>3. CASE g = u
        <4>1. u \in cancelled
          BY <2>1, <3>1, <3>3, WorkerCases, WebAssumption
        <4>2. PartCancelled(u, w)
          BY <3>1, <3>3, <4>1 DEF WorkerStep, SignAnswered, SignFails, SignRetry, PartRetry,
             PutOk, PutFails, PartRefused
        <4> QED
          BY <4>2 DEF PartCancelled, WorkerFails
      <3> QED
        BY <3>2, <3>3
    <2>5. CASE (\E g \in Uploads : Server(g) \/ Cancel(g)) \/ ClearFinished \/ UNCHANGED vars
      BY <2>5, ServerCases DEF Served, Cancel, ClearFinished, vars
    <2> QED
      BY <2>2, <2>3, <2>4, <2>5, PageCases DEF Next, User
  <1> QED
    BY <1>1, OutcomeInvariant, PTL DEF Spec, FinishedStays

-----------------------------------------------------------------------------
(* The contract of a session, as the page meets it.                        *)

Stored == [u \in Uploads |-> IF bytes[u] = "stored" THEN 1 ELSE 0]

Dropped == {u \in Uploads : bytes[u] = "dropped"}

\* A record that moves on, with the bytes that are dropped with it.
LEMMA RecordStep ==
    ASSUME Shape, Shape', Outcome, NEW u \in Uploads,
           NEW state \in {"active", "completed", "aborted", "expired"},
           session' = [session EXCEPT ![u] = state], Lifecycle!Moves(u, state),
           \/ bytes' = bytes /\ (state = "aborted" => session[u] = "aborted")
           \/ /\ bytes' = [bytes EXCEPT ![u] = "dropped"]
              /\ bytes[u] = "parts" /\ state = "aborted"
    PROVE  Lifecycle!Next
  <1>1. DOMAIN session = Uploads /\ DOMAIN bytes = Uploads
    BY DEF Shape
  <1>2. session'[u] = state /\ \A v \in Uploads : v # u => session'[v] = session[v]
    BY <1>1
  <1>3. \A v \in Uploads : Lifecycle!Moves(v, session'[v])
    BY <1>2 DEF Lifecycle!Moves
  <1>4. Stored' = Stored
    <2>1. \A v \in Uploads : bytes'[v] = "stored" <=> bytes[v] = "stored"
      BY <1>1
    <2> QED
      BY <2>1 DEF Stored
  <1>5. \A v \in Uploads : session[v] = "aborted" => bytes[v] = "dropped"
    BY DEF Outcome, Kept
  <1>6. Dropped' = Dropped \union {v \in Uploads : session'[v] = "aborted"}
    <2>1. CASE bytes' = bytes /\ (state = "aborted" => session[u] = "aborted")
      BY <1>2, <1>5, <2>1 DEF Dropped
    <2>2. CASE bytes' = [bytes EXCEPT ![u] = "dropped"] /\ state = "aborted"
      <3>1. Dropped' = Dropped \union {u}
        BY <1>1, <2>2 DEF Dropped
      <3>2. \A v \in Uploads : session'[v] = "aborted" => v = u \/ v \in Dropped
        BY <1>2, <1>5 DEF Dropped
      <3> QED
        BY <1>2, <2>2, <3>1, <3>2
    <2> QED
      BY <2>1, <2>2
  <1>7. session' \in [Uploads -> Lifecycle!States]
    BY DEF Shape, Lifecycle!States
  <1> QED
    BY <1>3, <1>4, <1>6, <1>7 DEF Lifecycle!Next, Lifecycle!Record, Stored, Dropped

\* Bytes that are given up while the record still says active.
LEMMA DropStep ==
    ASSUME Shape, NEW u \in Uploads, bytes[u] = "parts",
           UNCHANGED session, bytes' = [bytes EXCEPT ![u] = "dropped"]
    PROVE  Lifecycle!Next
  <1>1. DOMAIN bytes = Uploads
    BY DEF Shape
  <1>2. \A v \in Uploads : bytes'[v] = "stored" <=> bytes[v] = "stored"
    BY <1>1
  <1>3. Stored' = Stored /\ Stored[u] = 0
    BY <1>2 DEF Stored
  <1>4. Dropped' = Dropped \union {u} /\ u \notin Dropped
    BY <1>1 DEF Dropped
  <1> QED
    BY <1>3, <1>4 DEF Lifecycle!Next, Lifecycle!Discard, Stored, Dropped

LEMMA PromoteStep ==
    ASSUME Shape, Outcome, NEW u \in Uploads, Promote(u)
    PROVE  Lifecycle!Next
  <1>1. DOMAIN bytes = Uploads /\ bytes[u] = "assembled"
    BY DEF Shape, Promote
  <1>2. /\ Stored[u] = 0 /\ Stored' = [Stored EXCEPT ![u] = @ + 1]
        /\ Dropped' = Dropped /\ u \notin Dropped
    <2>1. bytes' = [bytes EXCEPT ![u] = "stored"]
      BY DEF Promote
    <2>2. \A v \in Uploads \ {u} : Stored'[v] = Stored[v]
      BY <1>1, <2>1 DEF Stored
    <2>3. Stored[u] = 0 /\ Stored'[u] = 1
      BY <1>1, <2>1 DEF Stored
    <2>4. /\ Stored = [v \in Uploads |-> Stored[v]]
          /\ Stored' = [v \in Uploads |-> Stored'[v]]
      BY DEF Stored
    <2>5. Stored' = [Stored EXCEPT ![u] = @ + 1]
      BY <2>2, <2>3, <2>4
    <2> QED
      BY <1>1, <2>1, <2>3, <2>5 DEF Dropped
  <1>3. session[u] \in {"active", "expired"}
    BY <1>1 DEF Shape, Outcome, Kept
  <1> QED
    BY <1>2, <1>3 DEF Promote, Lifecycle!Next, Lifecycle!Write, Stored, Dropped

LEMMA ServerKeepsContract ==
    ASSUME Shape, Shape', Outcome, NEW u \in Uploads, Server(u)
    PROVE  [Lifecycle!Next]_Lifecycle!vars
  <1>1. CASE UNCHANGED <<session, bytes>>
    BY <1>1 DEF Lifecycle!vars
  <1>2. CASE ServeInit(u) /\ ~UNCHANGED <<session, bytes>>
    <2>1. session[u] = "none" /\ session' = [session EXCEPT ![u] = "active"] /\ bytes' = bytes
      BY <1>2 DEF ServeInit, Outcome, Opened
    <2> QED
      BY <2>1, RecordStep DEF Lifecycle!Moves
  <1>3. CASE Assemble(u)
    <2>1. session[u] = "active" /\ bytes[u] = "parts" /\ Stored[u] = 0
      BY <1>3 DEF Assemble, Stored
    <2>2. CASE StagedAccepted(file[u], file[u].size)
      <3>1. bytes' = [bytes EXCEPT ![u] = "assembled"] /\ session' = session
        BY <1>3, <2>2 DEF Assemble
      <3>2. Stored' = Stored /\ Dropped' = Dropped
        <4>1. DOMAIN bytes = Uploads
          BY DEF Shape
        <4>2. \A v \in Uploads : /\ bytes'[v] = "stored" <=> bytes[v] = "stored"
                                 /\ bytes'[v] = "dropped" <=> bytes[v] = "dropped"
          BY <2>1, <3>1, <4>1
        <4> QED
          BY <4>2 DEF Stored, Dropped
      <3> QED
        BY <3>1, <3>2 DEF Lifecycle!vars, Stored, Dropped
    <2>3. CASE ~StagedAccepted(file[u], file[u].size)
      <3>1. PICK end \in {"active", "aborted"} : session' = [session EXCEPT ![u] = end]
        BY <1>3, <2>3 DEF Assemble
      <3>2. bytes' = [bytes EXCEPT ![u] = "dropped"]
        BY <1>3, <2>3 DEF Assemble
      <3>3. CASE end = "aborted"
        BY <2>1, <3>1, <3>2, <3>3, RecordStep DEF Lifecycle!Moves, Stored
      <3>4. CASE end = "active"
        <4>1. session' = session
          <5>1. session = [v \in Uploads |-> session[v]]
            BY DEF Shape
          <5> QED
            BY <2>1, <3>1, <3>4, <5>1
        <4> QED
          BY <2>1, <3>2, <4>1, DropStep
      <3> QED
        BY <3>3, <3>4
    <2> QED
      BY <2>2, <2>3
  <1>4. CASE Promote(u)
    BY <1>4, PromoteStep
  <1>5. CASE MarkCompleted(u)
    <2>1. /\ session[u] = "active" /\ session' = [session EXCEPT ![u] = "completed"]
          /\ bytes[u] = "stored" /\ bytes' = bytes
      BY <1>5 DEF MarkCompleted
    <2>2. Lifecycle!Moves(u, "completed")
      BY <2>1 DEF Lifecycle!Moves
    <2> QED
      BY <2>1, <2>2, RecordStep
  <1>6. CASE CompleteFails(u)
    BY <1>1, <1>6 DEF CompleteFails
  <1>7. CASE ServeAbort(u) /\ ~UNCHANGED <<session, bytes>>
    <2>1. /\ session[u] = "active" /\ bytes[u] = "parts"
          /\ bytes' = [bytes EXCEPT ![u] = "dropped"]
          /\ UNCHANGED session \/ session' = [session EXCEPT ![u] = "aborted"]
      BY <1>7 DEF ServeAbort
    <2> QED
      BY <2>1, DropStep, RecordStep DEF Lifecycle!Moves
  <1>8. CASE Expire(u)
    BY <1>8, RecordStep DEF Expire, Lifecycle!Moves
  <1> QED
    BY <1>1, <1>2, <1>3, <1>4, <1>5, <1>6, <1>7, <1>8, ServerCases

\* Steps of the user and of the page reach sessions and files by calls only.
LEMMA PageKeepsContract ==
    ASSUME WebAssumption, Shape, [Next]_vars, \A u \in Uploads : ~Server(u)
    PROVE  UNCHANGED <<session, bytes>>
  <1>1. ASSUME NEW u \in Uploads, EngineStep(u)
        PROVE  UNCHANGED <<session, bytes>>
    BY <1>1
    DEF EngineStep, Start, InitAnswered, InitLost, InitRetry, InitCancelled,
        CompleteAnswered, CompleteLost, AbortEnds, serverVars
  <1>2. ASSUME NEW u \in Uploads, NEW w \in Workers, WorkerStep(u, w)
        PROVE  UNCHANGED <<session, bytes>>
    BY <1>2, WorkerCases DEF Continues, Fails, PutOk, serverVars
  <1>3. ASSUME NEW u \in Uploads, User(u)
        PROVE  UNCHANGED <<session, bytes>>
    BY <1>3 DEF User, Enqueue, Cancel, serverVars
  <1>4. CASE ClearFinished \/ UNCHANGED vars
    BY <1>4 DEF ClearFinished, vars, serverVars
  <1> QED
    BY <1>1, <1>2, <1>3, <1>4, PageCases DEF Next

\* What the page assumes of the Worker is the contract of a session, the one that
\* the Durable Object, R2 and the requests keep (UploadSessions): whatever pages
\* lose, retry or cancel, for any uploads (routes/upload.ts, web/src/lib/upload.ts).
THEOREM PageKeepsLifecycle == Spec => LifecycleSpec
  <1>1. Init => Lifecycle!Init
    BY DEF Init, Lifecycle!Init
  <1>2. (Shape /\ Gate /\ Parts /\ Outcome) /\ (Shape /\ Gate /\ Parts /\ Outcome)'
          /\ [Next]_vars => [Lifecycle!Next]_Lifecycle!vars
    <2> SUFFICES ASSUME Shape, Shape', Outcome, [Next]_vars
                 PROVE  [Lifecycle!Next]_Lifecycle!vars
      OBVIOUS
    <2>1. CASE \E u \in Uploads : Server(u)
      BY <2>1, ServerKeepsContract
    <2>2. CASE \A u \in Uploads : ~Server(u)
      BY <2>2, PageKeepsContract, WebAssumption DEF Lifecycle!vars
    <2> QED
      BY <2>1, <2>2
  <1> QED
    BY <1>1, <1>2, OutcomeInvariant, PTL DEF Spec, LifecycleSpec, Lifecycle!Spec
=============================================================================
