------------------------ MODULE UploadSessionsProofs ------------------------
(***************************************************************************)
(* UploadSessions for every value of its constants: type correctness, how  *)
(* an upload ends, and who may write where.                                *)
(*                                                                         *)
(* R2 completes or aborts a multipart upload once.  Whatever a request has *)
(* reached past its assembly, or past its abort, is therefore settled for  *)
(* good, and what is marked or stored afterwards can be read off it        *)
(* (Progress, Ends).  A create judges expiry by an earlier reading of the  *)
(* clock, which counts more sessions as active, never fewer (JobsPast).    *)
(***************************************************************************)
EXTENDS UploadSessions, FiniteSetTheorems, WellFoundedInduction, TLAPS

-----------------------------------------------------------------------------
(* The least of some numbers.                                              *)

LEMMA LessIsWellFounded ==
    IsWellFoundedOn({p \in Nat \X Nat : p[1] < p[2]}, Nat)
  BY NatLessThanWellFounded DEF OpToRel

LEMMA MinOfNats ==
    ASSUME NEW S, S \subseteq Nat, S # {}
    PROVE  Min(S) \in S /\ \A y \in S : Min(S) <= y
  <1> DEFINE R == {p \in Nat \X Nat : p[1] < p[2]}
  <1>1. PICK x \in S : \A y \in S : ~(<<y, x>> \in R)
    BY LessIsWellFounded, WFMin, Zenon
  <1>2. ASSUME NEW y \in S
        PROVE  x <= y
    <2>1. x \in Nat /\ y \in Nat
      OBVIOUS
    <2>2. <<y, x>> \notin R
      BY <1>1
    <2>3. y < x => <<y, x>> \in R
      BY <2>1
    <2> QED
      BY <2>1, <2>2, <2>3
  <1> QED
    BY <1>2 DEF Min

-----------------------------------------------------------------------------
(* Type correctness.                                                       *)

LEMMA NextAlarmTyped ==
    ASSUME ConstantsAssumption, TypeOK, NEW st \in [Sessions -> Statuses]
    PROVE  NextAlarm(st) \in Nat \union {NoAlarm}
  <1> DEFINE S == {NextEvent(st, s) : s \in Recorded(st)}
  <1>1. CASE Recorded(st) = {}
    BY <1>1 DEF NextAlarm
  <1>2. CASE Recorded(st) # {}
    <2>1. S \subseteq Nat
      BY DEF NextEvent, Recorded, TypeOK, ConstantsAssumption
    <2>2. S # {}
      BY <1>2
    <2>3. Min(S) \in Nat
      BY <2>1, <2>2, MinOfNats
    <2> QED
      BY <1>2, <2>3 DEF NextAlarm
  <1> QED
    BY <1>1, <1>2

LEMMA PruneJobTyped ==
    ASSUME TypeOK
    PROVE  PruneJob \in Jobs
  BY DEF PruneJob, Jobs, Recorded, TypeOK

LEMMA PrunedTyped ==
    ASSUME TypeOK, NEW j
    PROVE  Pruned(j) \in [Sessions -> Statuses]
  BY DEF Pruned, Statuses, TypeOK

\* A request that has answered leaves its slot well typed.
LEMMA ReturnTyped ==
    ASSUME TypeOK, NEW h \in Requests, Return(h)
    PROVE  /\ pc' \in [Agents -> Labels]
           /\ sess' \in [Requests -> Sessions \union {NoSession}]
           /\ \A g \in Requests : pc'[g] \notin {"idle", "gc.prune"} =>
                                    sess'[g] \in Sessions
  BY DEF TypeOK, Return, Goto, Labels, LoadCalls, PruneCalls, Agents

\* A request that goes on knows its session.
LEMMA GotoTyped ==
    ASSUME TypeOK, NEW h \in Requests, NEW label \in Labels, Goto(h, label),
           NEW s \in Sessions, sess' = [sess EXCEPT ![h] = s]
    PROVE  /\ pc' \in [Agents -> Labels]
           /\ sess' \in [Requests -> Sessions \union {NoSession}]
           /\ \A g \in Requests : pc'[g] \notin {"idle", "gc.prune"} =>
                                    sess'[g] \in Sessions
  BY DEF TypeOK, Goto, Agents

LEMMA StepTyped ==
    ASSUME TypeOK, NEW h \in Requests, NEW label \in Labels, Goto(h, label),
           pc[h] \notin {"idle", "gc.prune"}, UNCHANGED sess
    PROVE  /\ pc' \in [Agents -> Labels]
           /\ sess' \in [Requests -> Sessions \union {NoSession}]
           /\ \A g \in Requests : pc'[g] \notin {"idle", "gc.prune"} =>
                                    sess'[g] \in Sessions
  BY DEF TypeOK, Goto, Agents

\* Requests at an await of the Worker that change nothing else.
QuietStep(h) ==
    \/ InitReply(h) \/ CreateCallLost(h) \/ LoadRefused(h)
    \/ SignGet(h) \/ SignRecord(h) \/ CompleteGet(h)
    \/ AssembleRefused(h) \/ Validate(h) \/ PromoteRead(h)
    \/ AbortGet(h) \/ RequestDies(h)
    \/ \E s \in Sessions : SignPart(h, s) \/ Complete(h, s) \/ Abort(h, s)

LEMMA QuietTyped ==
    ASSUME TypeOK, NEW h \in Requests, UNCHANGED world, QuietStep(h)
    PROVE  TypeOK'
  <1>1. UNCHANGED <<now, status, expiresAt, alarm, upload, staged, verdict,
                    target, job, faults, resets, written, aborted>>
    BY DEF world, frame, store, r2, history
  <1>2. \/ Return(h)
        \/ /\ pc[h] \notin {"idle", "gc.prune"}
           /\ UNCHANGED sess
           /\ \E label \in Labels : Goto(h, label)
        \/ \E s \in Sessions, label \in Labels :
             Goto(h, label) /\ sess' = [sess EXCEPT ![h] = s]
    BY DEF QuietStep, InitReply, CreateCallLost, LoadRefused, SignGet, SignRecord,
           CompleteGet, AssembleRefused, Validate, PromoteRead, AbortGet,
           RequestDies, SignPart, Complete, Abort, RequestBegin, LoadedActive,
           Labels, LoadCalls, PruneCalls
  <1>3. /\ pc' \in [Agents -> Labels]
        /\ sess' \in [Requests -> Sessions \union {NoSession}]
        /\ \A g \in Requests : pc'[g] \notin {"idle", "gc.prune"} =>
                                 sess'[g] \in Sessions
    BY <1>2, ReturnTyped, GotoTyped, StepTyped
  <1> QED
    BY <1>1, <1>3 DEF TypeOK

\* Steps of a request on R2 and on its own record.
LEMMA RequestTyped ==
    ASSUME ConstantsAssumption, TypeOK, NEW h \in Requests,
           \/ \E s \in Sessions : InitBegin(h, s)
           \/ InitCleanup(h) \/ Assemble(h) \/ RejectDelete(h) \/ PromotePut(h)
           \/ PromoteClean(h) \/ MarkCompleted(h) \/ AbortUpload(h)
           \/ MarkAborted(h)
    PROVE  TypeOK'
  <1> USE DEF frame, store, r2, history
  <1>1. ASSUME NEW s \in Sessions, InitBegin(h, s)
        PROVE  TypeOK'
    <2>1. /\ pc' \in [Agents -> Labels]
          /\ sess' \in [Requests -> Sessions \union {NoSession}]
          /\ \A g \in Requests : pc'[g] \notin {"idle", "gc.prune"} =>
                                   sess'[g] \in Sessions
      BY <1>1, GotoTyped DEF InitBegin, Labels
    <2> QED
      BY <1>1, <2>1 DEF InitBegin, TypeOK, ConstantsAssumption
  <1>2. CASE InitCleanup(h)
    BY <1>2, ReturnTyped DEF InitCleanup, FaultAt, TypeOK
  <1>3. CASE Assemble(h)
    <2>1. sess[h] \in Sessions
      BY <1>3 DEF Assemble, TypeOK
    <2>2. /\ pc' \in [Agents -> Labels]
          /\ sess' \in [Requests -> Sessions \union {NoSession}]
          /\ \A g \in Requests : pc'[g] \notin {"idle", "gc.prune"} =>
                                   sess'[g] \in Sessions
      BY <1>3, StepTyped DEF Assemble, Labels
    <2> QED
      BY <1>3, <2>1, <2>2 DEF Assemble, TypeOK
  <1>4. CASE RejectDelete(h)
    BY <1>4, StepTyped DEF RejectDelete, FaultAt, Labels, LoadCalls, TypeOK
  <1>5. CASE PromotePut(h)
    <2>1. sess[h] \in Sessions
      BY <1>5 DEF PromotePut, TypeOK
    <2>2. /\ pc' \in [Agents -> Labels]
          /\ sess' \in [Requests -> Sessions \union {NoSession}]
          /\ \A g \in Requests : pc'[g] \notin {"idle", "gc.prune"} =>
                                   sess'[g] \in Sessions
      BY <1>5, StepTyped DEF PromotePut, Labels
    <2> QED
      BY <1>5, <2>1, <2>2 DEF PromotePut, TypeOK, ConstantsAssumption
  <1>6. CASE PromoteClean(h)
    BY <1>6, StepTyped DEF PromoteClean, FaultAt, Labels, LoadCalls, TypeOK
  <1>7. CASE MarkCompleted(h)
    BY <1>7, ReturnTyped DEF MarkCompleted, LoadedActive, TypeOK, Statuses
  <1>8. CASE AbortUpload(h)
    BY <1>8, ReturnTyped, StepTyped DEF AbortUpload, Labels, LoadCalls, TypeOK
  <1>9. CASE MarkAborted(h)
    <2>1. sess[h] \in Sessions
      BY <1>9 DEF MarkAborted, LoadedActive, TypeOK
    <2> QED
      BY <1>9, <2>1, ReturnTyped
      DEF MarkAborted, LoadedActive, TypeOK, Statuses
  <1> QED
    BY <1>1, <1>2, <1>3, <1>4, <1>5, <1>6, <1>7, <1>8, <1>9

\* A create that ends, whatever its pass took from its listing.
LEMMA CreateCommitTyped ==
    ASSUME ConstantsAssumption, TypeOK, NEW h \in Requests, NEW j,
           pc[h] \in {"create", "create.prune"}, CreateCommit(h, j),
           job' \in [Agents -> Jobs]
    PROVE  TypeOK'
  <1> DEFINE st == [Pruned(j) EXCEPT ![sess[h]] = "active"]
  <1>1. Pruned(j) \in [Sessions -> Statuses]
    BY PrunedTyped
  <1>2. st \in [Sessions -> Statuses]
    BY <1>1 DEF Statuses
  <1>3. NextAlarm(st) \in Nat \union {NoAlarm}
    BY <1>2, NextAlarmTyped
  <1>4. /\ status' \in [Sessions -> Statuses]
        /\ alarm' \in Nat \union {NoAlarm}
    BY <1>1, <1>2, <1>3 DEF CreateCommit, TypeOK
  <1>5. /\ pc' \in [Agents -> Labels]
        /\ sess' \in [Requests -> Sessions \union {NoSession}]
        /\ \A g \in Requests : pc'[g] \notin {"idle", "gc.prune"} =>
                                 sess'[g] \in Sessions
    BY StepTyped DEF CreateCommit, Labels
  <1> QED
    BY <1>4, <1>5 DEF CreateCommit, TypeOK, frame, r2, history

\* A pass of the alarm or of /gc-expired that ends.
LEMMA PruneCommitTyped ==
    ASSUME ConstantsAssumption, TypeOK, NEW a \in Agents, NEW j,
           PruneCommit(a, j), job' \in [Agents -> Jobs]
    PROVE  TypeOK'
  <1>1. Pruned(j) \in [Sessions -> Statuses]
    BY PrunedTyped
  <1>2. NextAlarm(Pruned(j)) \in Nat \union {NoAlarm}
    BY <1>1, NextAlarmTyped
  <1>3. /\ pc' \in [Agents -> Labels]
        /\ \A g \in Requests : pc'[g] \notin {"idle", "gc.prune"} =>
                                 sess[g] \in Sessions
    BY DEF PruneCommit, Goto, TypeOK, Labels, Agents
  <1> QED
    BY <1>1, <1>2, <1>3 DEF PruneCommit, TypeOK, frame, r2, history

\* A pass that gives way to await R2.
LEMMA PruneBeginTyped ==
    ASSUME TypeOK, NEW a \in Agents, NEW j \in Jobs, NEW label \in PruneCalls,
           job' = [job EXCEPT ![a] = j], Goto(a, label),
           a \in Requests => sess[a] \in Sessions \/ label = "gc.prune",
           alarm' \in Nat \union {NoAlarm},
           UNCHANGED <<frame, status, r2, sess, faults, history>>
    PROVE  TypeOK'
  <1>1. pc' \in [Agents -> Labels] /\ job' \in [Agents -> Jobs]
    BY DEF TypeOK, Goto, Labels
  <1>2. \A g \in Requests : pc'[g] \notin {"idle", "gc.prune"} =>
                              sess[g] \in Sessions
    BY DEF TypeOK, Goto, Agents
  <1> QED
    BY <1>1, <1>2 DEF TypeOK, frame, r2, history

LEMMA PassTyped ==
    ASSUME ConstantsAssumption, TypeOK,
           \/ \E h \in Requests : CreateCall(h) \/ CreatePruned(h)
                                    \/ LoadExpired(h) \/ LoadReleased(h)
                                    \/ GcExpired(h)
           \/ \E a \in Agents : ReleaseOne(a) \/ PruneDone(a)
           \/ AlarmFires
    PROVE  TypeOK'
  <1>1. PruneJob \in Jobs /\ NoJob \in Jobs
    BY PruneJobTyped DEF NoJob, Jobs
  <1>2. job \in [Agents -> Jobs] /\ Requests \subseteq Agents /\ Alarm \in Agents
    BY DEF TypeOK, Agents
  <1>3. \A a \in Agents : [job EXCEPT ![a] = NoJob] \in [Agents -> Jobs]
    BY <1>1, <1>2
  <1>4. ASSUME NEW h \in Requests, CreateCall(h)
        PROVE  TypeOK'
    <2>1. sess[h] \in Sessions
      BY <1>4 DEF CreateCall, TypeOK
    <2>2. CASE CreateCommit(h, PruneJob) /\ UNCHANGED job
      BY <1>2, <1>4, <2>2, CreateCommitTyped DEF CreateCall
    <2>3. CASE /\ job' = [job EXCEPT ![h] = PruneJob]
               /\ Goto(h, "create.prune")
               /\ UNCHANGED <<frame, store, r2, sess, faults, history>>
      BY <1>1, <1>2, <2>1, <2>3, PruneBeginTyped DEF PruneCalls, store, TypeOK
    <2> QED
      BY <1>4, <2>2, <2>3 DEF CreateCall
  <1>5. ASSUME NEW h \in Requests, CreatePruned(h)
        PROVE  TypeOK'
    BY <1>2, <1>3, <1>5, CreateCommitTyped DEF CreatePruned
  <1>6. ASSUME NEW h \in Requests, LoadExpired(h)
        PROVE  TypeOK'
    <2>1. sess[h] \in Sessions
      BY <1>6 DEF LoadExpired, TypeOK, LoadCalls
    <2>2. [at |-> now, todo |-> {sess[h]}, marks |-> {sess[h]}, dels |-> {}]
            \in Jobs
      BY <2>1 DEF Jobs, TypeOK
    <2>3. CASE InFlight(sess[h])
      BY <1>2, <1>6, <2>1, <2>2, <2>3, PruneBeginTyped
      DEF LoadExpired, PruneCalls, TypeOK
    <2>4. CASE ~InFlight(sess[h])
      BY <1>6, <2>1, <2>4, ReturnTyped
      DEF LoadExpired, TypeOK, Statuses, frame, r2, history
    <2> QED
      BY <2>3, <2>4
  <1>7. ASSUME NEW h \in Requests, LoadReleased(h)
        PROVE  TypeOK'
    BY <1>2, <1>3, <1>7, ReturnTyped, PrunedTyped
    DEF LoadReleased, TypeOK, frame, r2, history
  <1>8. ASSUME NEW h \in Requests, GcExpired(h)
        PROVE  TypeOK'
    <2>1. CASE PruneCommit(h, PruneJob) /\ UNCHANGED job
      BY <1>2, <2>1, PruneCommitTyped
    <2>2. CASE /\ job' = [job EXCEPT ![h] = PruneJob]
               /\ Goto(h, "gc.prune")
               /\ UNCHANGED <<frame, store, r2, sess, faults, history>>
      BY <1>1, <1>2, <2>2, PruneBeginTyped DEF PruneCalls, store, TypeOK
    <2> QED
      BY <1>8, <2>1, <2>2 DEF GcExpired
  <1>9. CASE AlarmFires
    <2>1. CASE PruneCommit(Alarm, PruneJob) /\ UNCHANGED job
      BY <1>2, <2>1, PruneCommitTyped
    <2>2. CASE /\ job' = [job EXCEPT ![Alarm] = PruneJob]
               /\ alarm' = NoAlarm
               /\ Goto(Alarm, "alarm.prune")
               /\ UNCHANGED <<frame, status, r2, sess, faults, history>>
      BY <1>1, <1>2, <2>2, PruneBeginTyped DEF PruneCalls, ConstantsAssumption
    <2> QED
      BY <1>9, <2>1, <2>2 DEF AlarmFires
  <1>10. ASSUME NEW a \in Agents, PruneDone(a)
         PROVE  TypeOK'
    BY <1>3, <1>10, PruneCommitTyped DEF PruneDone
  <1>11. ASSUME NEW a \in Agents, ReleaseOne(a)
         PROVE  TypeOK'
    <2>1. PICK s \in job[a].todo : job' = [job EXCEPT ![a].todo = @ \ {s}]
      BY <1>11 DEF ReleaseOne
    <2>2. job[a] \in Jobs
      BY <1>2
    <2>3. [job[a] EXCEPT !.todo = @ \ {s}] \in Jobs
      BY <2>2 DEF Jobs
    <2>4. job' = [job EXCEPT ![a] = [job[a] EXCEPT !.todo = @ \ {s}]]
      BY <2>1
    <2>5. job' \in [Agents -> Jobs]
      BY <1>2, <2>3, <2>4
    <2>6. /\ upload' \in [Sessions -> {"none", "open", "completed", "aborted"}]
          /\ staged' \subseteq Sessions
          /\ faults' \in Nat
      BY <1>11 DEF ReleaseOne, TypeOK, FaultAt
    <2> QED
      BY <1>11, <2>5, <2>6 DEF ReleaseOne, TypeOK, frame, store, history
  <1> QED
    BY <1>4, <1>5, <1>6, <1>7, <1>8, <1>9, <1>10, <1>11

LEMMA EnvironmentTyped ==
    ASSUME ConstantsAssumption, TypeOK, Reset \/ Tick \/ UNCHANGED vars
    PROVE  TypeOK'
  <1>1. CASE Reset
    <2>1. pc' \in [Agents -> Labels] /\ job' \in [Agents -> Jobs]
      BY <1>1 DEF Reset, TypeOK, Labels, NoJob, Jobs
    <2>2. \A h \in Requests : pc'[h] \notin {"idle", "gc.prune"} =>
                                /\ pc[h] \notin {"idle", "gc.prune"}
                                /\ sess'[h] = sess[h]
      BY <1>1 DEF Reset, PruneCalls, Agents
    <2>3. sess' \in [Requests -> Sessions \union {NoSession}]
      BY <1>1 DEF Reset, TypeOK
    <2> QED
      BY <1>1, <2>1, <2>2, <2>3 DEF Reset, TypeOK, r2, history
  <1>2. CASE Tick
    BY <1>2 DEF Tick, TypeOK, store, r2, history
  <1>3. CASE UNCHANGED vars
    BY <1>3 DEF TypeOK, vars, world, frame, store, r2, history
  <1> QED
    BY <1>1, <1>2, <1>3

LEMMA NextTyped ==
    ASSUME ConstantsAssumption, TypeOK, [Next]_vars
    PROVE  TypeOK'
  <1>1. ASSUME NEW h \in Requests,
               Client(h) \/ RequestStep(h) \/ CreateCallLost(h) \/ RequestDies(h)
        PROVE  TypeOK'
    <2>1. CASE UNCHANGED world
      BY <1>1, <2>1, QuietTyped, RequestTyped, PassTyped
      DEF Client, RequestStep, QuietStep
    <2>2. CASE ~UNCHANGED world
      BY <1>1, <2>2, RequestTyped, PassTyped
      DEF Client, RequestStep, CreateCallLost, RequestDies, SignPart, Complete,
          Abort, RequestBegin, InitReply, LoadRefused, SignGet, SignRecord,
          CompleteGet, AssembleRefused, Validate, PromoteRead, AbortGet, world
    <2> QED
      BY <2>1, <2>2
  <1> QED
    BY <1>1, PassTyped, EnvironmentTyped DEF Next, AgentStep

-----------------------------------------------------------------------------
(* How an upload ends.                                                     *)

Rejecting == {"reject.delete", "reject.mark"}
Written == {"promote.clean", "complete.mark"}
Passed == {"promote.read", "promote.put"} \union Written
Assembled == {"validate"} \union Rejecting \union Passed

\* What a request has settled by where it is.
Progress ==
    \A h \in Requests :
        /\ pc[h] \in Assembled => upload[sess[h]] = "completed"
        /\ pc[h] \in Rejecting => verdict[sess[h]] # "valid"
        /\ pc[h] \in Passed => verdict[sess[h]] = "valid"
        /\ pc[h] \in Written => sess[h] \in stored
        /\ pc[h] = "abort.mark" => upload[sess[h]] = "aborted"

\* What was stored was assembled and is valid; what was marked aborted was
\* aborted in R2, or assembled and found invalid.
Ends ==
    /\ \A s \in stored : upload[s] = "completed" /\ verdict[s] = "valid"
    /\ \A s \in aborted :
         \/ upload[s] = "aborted"
         \/ upload[s] = "completed" /\ verdict[s] # "valid"

IInv == TypeOK /\ Progress /\ Ends /\ CompletedWasStored

\* The labels at which nothing is settled yet.
Free == Labels \ (Assembled \union {"abort.mark"})

\* R2 settles an upload once, and no step undoes what it settled.
Settles ==
    /\ \A s \in Sessions :
         upload[s] \in {"completed", "aborted"} =>
           upload'[s] = upload[s] /\ verdict'[s] = verdict[s]
    /\ stored \subseteq stored'

\* Where a request may be after a step that settles nothing.
Drifts(h) == (pc'[h] = pc[h] /\ sess'[h] = sess[h]) \/ pc'[h] \in Free

LEMMA DriftKeepsProgress ==
    ASSUME TypeOK, Progress, Settles, NEW h \in Requests, Drifts(h)
    PROVE  /\ pc'[h] \in Assembled => upload'[sess'[h]] = "completed"
           /\ pc'[h] \in Rejecting => verdict'[sess'[h]] # "valid"
           /\ pc'[h] \in Passed => verdict'[sess'[h]] = "valid"
           /\ pc'[h] \in Written => sess'[h] \in stored'
           /\ pc'[h] = "abort.mark" => upload'[sess'[h]] = "aborted"
  <1>1. CASE pc'[h] \in Free
    BY <1>1 DEF Free, Assembled, Rejecting, Passed, Written
  <1>2. CASE /\ pc'[h] = pc[h] /\ sess'[h] = sess[h]
             /\ pc[h] \in Assembled \union {"abort.mark"}
    <2>1. sess[h] \in Sessions
      BY <1>2 DEF TypeOK, Assembled, Rejecting, Passed, Written
    <2>2. upload[sess[h]] \in {"completed", "aborted"}
      BY <1>2 DEF Progress
    <2> QED
      BY <1>2, <2>1, <2>2 DEF Progress, Settles
  <1>3. CASE pc'[h] = pc[h] /\ pc[h] \notin Assembled \union {"abort.mark"}
    BY <1>3 DEF Assembled, Rejecting, Passed, Written
  <1> QED
    BY <1>1, <1>2, <1>3 DEF Drifts

\* A step that settles nothing and marks or stores nothing.
LEMMA DriftKeepsIInv ==
    ASSUME IInv, TypeOK', Settles, \A h \in Requests : Drifts(h),
           UNCHANGED <<stored, aborted>>,
           \A s \in Sessions : status'[s] = "completed" => status[s] = "completed"
    PROVE  IInv'
  <1>1. Progress'
    BY DriftKeepsProgress DEF Progress, IInv
  <1>2. Ends'
    BY DEF IInv, Ends, Settles, TypeOK, stored
  <1>3. CompletedWasStored'
    BY DEF IInv, CompletedWasStored
  <1> QED
    BY <1>1, <1>2, <1>3 DEF IInv

LEMMA InitIInv == ConstantsAssumption /\ Init => IInv
  <1> SUFFICES ASSUME ConstantsAssumption, Init
               PROVE  IInv
    OBVIOUS
  <1>1. TypeOK
    <2>1. NoJob \in Jobs
      BY DEF NoJob, Jobs
    <2>2. pc \in [Agents -> Labels] /\ job \in [Agents -> Jobs]
      BY <2>1 DEF Init, Labels
    <2>3. \A h \in Requests : pc[h] = "idle"
      BY DEF Init, Agents
    <2> QED
      BY <2>2, <2>3 DEF Init, TypeOK, Statuses
  <1>2. stored = {}
    BY DEF Init, stored
  <1>3. Progress /\ Ends /\ CompletedWasStored
    BY <1>2 DEF Init, Progress, Ends, CompletedWasStored, Agents, Assembled, Rejecting,
           Passed, Written
  <1> QED
    BY <1>1, <1>3 DEF IInv

\* Passes and their commits.
\* One agent moves to a label at which nothing is settled.
LEMMA GotoDrifts ==
    ASSUME TypeOK, NEW a \in Agents, NEW label \in Free, Goto(a, label),
           \A h \in Requests : h # a => sess'[h] = sess[h]
    PROVE  \A h \in Requests : Drifts(h)
  BY DEF TypeOK, Goto, Drifts, Agents

LEMMA ReturnDrifts ==
    ASSUME TypeOK, NEW h \in Requests, Return(h)
    PROVE  \A g \in Requests : Drifts(g)
  BY DEF TypeOK, Return, Goto, Drifts, Agents, Free, Assembled, Rejecting,
         Passed, Written, Labels

LEMMA FreeLabels ==
    PruneCalls \union {"idle", "init.reply", "init.cleanup", "create", "sign.get",
                       "sign.record", "complete.get", "abort.get", "abort.r2",
                       "assemble"} \subseteq Free
  BY DEF Free, Assembled, Rejecting, Passed, Written, Labels, LoadCalls,
         PruneCalls

\* Passes and their commits move records only to active and to expired.
LEMMA PassIInv ==
    ASSUME IInv, TypeOK',
           \/ \E h \in Requests : CreateCall(h) \/ CreatePruned(h)
                                    \/ LoadExpired(h) \/ LoadReleased(h)
                                    \/ GcExpired(h)
           \/ \E a \in Agents : ReleaseOne(a) \/ PruneDone(a)
           \/ AlarmFires
    PROVE  IInv'
  <1> USE DEF frame, store, r2, history, stored
  <1>1. UNCHANGED <<stored, aborted, verdict>>
    BY DEF CreateCall, CreatePruned, CreateCommit, LoadExpired, LoadReleased,
           GcExpired, ReleaseOne, PruneDone, PruneCommit, AlarmFires
  <1>2. \/ UNCHANGED upload
        \/ \E s \in Sessions : /\ upload[s] = "open"
                               /\ upload' = [upload EXCEPT ![s] = "aborted"]
    BY DEF CreateCall, CreatePruned, CreateCommit, LoadExpired, LoadReleased,
           GcExpired, ReleaseOne, PruneDone, PruneCommit, AlarmFires, IInv,
           TypeOK, Jobs
  <1>3. Settles
    BY <1>1, <1>2 DEF Settles, IInv, TypeOK
  <1>4. \A h \in Requests : Drifts(h)
    <2>1. \/ UNCHANGED <<pc, sess>>
          \/ \E h \in Requests : Return(h)
          \/ /\ UNCHANGED sess
             /\ \E a \in Agents, label \in Free : Goto(a, label)
      BY FreeLabels
      DEF CreateCall, CreatePruned, CreateCommit, LoadExpired, LoadReleased,
          GcExpired, ReleaseOne, PruneDone, PruneCommit, AlarmFires, PruneCalls,
          Agents
    <2> QED
      BY <2>1, GotoDrifts, ReturnDrifts DEF Drifts, IInv
  <1>5. \A s \in Sessions : status'[s] = "completed" => status[s] = "completed"
    <2>1. \A j : \A s \in Sessions :
            Pruned(j)[s] = "completed" => status[s] = "completed"
      BY DEF Pruned
    <2>2. \/ UNCHANGED status
          \/ \E j : status' = Pruned(j)
          \/ \E j, s : status' = [Pruned(j) EXCEPT ![s] = "active"]
          \/ \E s : status' = [status EXCEPT ![s] = "expired"]
      BY DEF CreateCall, CreatePruned, CreateCommit, LoadExpired,
             LoadReleased, GcExpired, ReleaseOne, PruneDone, PruneCommit,
             AlarmFires
    <2>3. \A j : DOMAIN Pruned(j) = Sessions
      BY DEF Pruned
    <2> QED
      BY <2>1, <2>2, <2>3 DEF IInv, TypeOK
  <1> QED
    BY <1>1, <1>3, <1>4, <1>5, DriftKeepsIInv

\* Steps of a request that settle nothing.
LEMMA QuietIInv ==
    ASSUME IInv, TypeOK', NEW h \in Requests,
           \/ InitReply(h) \/ CreateCallLost(h) \/ InitCleanup(h)
           \/ LoadRefused(h) \/ SignGet(h) \/ SignRecord(h)
           \/ CompleteGet(h) \/ AssembleRefused(h) \/ AbortGet(h)
           \/ RequestDies(h)
           \/ \E s \in Sessions : \/ InitBegin(h, s) \/ SignPart(h, s)
                                 \/ Complete(h, s) \/ Abort(h, s)
    PROVE  IInv'
  <1> USE DEF world, frame, store, r2, history, stored
  <1>1. UNCHANGED <<stored, aborted, verdict, status>>
    BY DEF InitReply, CreateCallLost, InitCleanup, LoadRefused, SignGet,
           SignRecord, CompleteGet, AssembleRefused, AbortGet, RequestDies,
           InitBegin, SignPart, Complete, Abort, RequestBegin
  <1>2. \/ UNCHANGED upload
        \/ \E s, u : /\ upload[s] \in {"none", "open"}
                     /\ upload' = [upload EXCEPT ![s] = u]
    BY DEF InitReply, CreateCallLost, InitCleanup, LoadRefused, SignGet,
           SignRecord, CompleteGet, AssembleRefused, AbortGet, RequestDies,
           InitBegin, SignPart, Complete, Abort, RequestBegin
  <1>3. Settles
    BY <1>1, <1>2 DEF Settles, IInv, TypeOK
  <1>4. \A g \in Requests : Drifts(g)
    <2>1. \/ Return(h)
          \/ /\ \A g \in Requests : g # h => sess'[g] = sess[g]
             /\ \E label \in Free : Goto(h, label)
      BY FreeLabels
      DEF InitReply, CreateCallLost, InitCleanup, LoadRefused, SignGet,
          SignRecord, CompleteGet, AssembleRefused, AbortGet, RequestDies,
          InitBegin, SignPart, Complete, Abort, RequestBegin, IInv, TypeOK
    <2> QED
      BY <2>1, GotoDrifts, ReturnDrifts DEF IInv, Agents
  <1> QED
    BY <1>1, <1>3, <1>4, DriftKeepsIInv

\* One request moves; what it settles is shown, and the others drift.
LEMMA OneMoves ==
    ASSUME IInv, TypeOK', Settles, NEW h \in Requests, NEW label \in Labels,
           Goto(h, label), UNCHANGED sess,
           label \in Assembled => upload'[sess[h]] = "completed",
           label \in Rejecting => verdict'[sess[h]] # "valid",
           label \in Passed => verdict'[sess[h]] = "valid",
           label \in Written => sess[h] \in stored',
           label = "abort.mark" => upload'[sess[h]] = "aborted"
    PROVE  Progress'
  <1>1. pc'[h] = label
    BY DEF Goto, IInv, TypeOK, Agents
  <1>2. \A g \in Requests : g # h => Drifts(g)
    BY DEF Goto, IInv, TypeOK, Agents, Drifts
  <1> QED
    BY <1>1, <1>2, DriftKeepsProgress DEF Progress, IInv

LEMMA AssembleIInv ==
    ASSUME IInv, TypeOK', NEW h \in Requests, Assemble(h)
    PROVE  IInv'
  <1> DEFINE s == sess[h]
  <1>1. s \in Sessions /\ upload[s] = "open"
    BY DEF Assemble, IInv, TypeOK
  <1>2. PICK v \in {"valid", "wrong_size", "wrong_type"} :
            /\ verdict' = [verdict EXCEPT ![s] = v]
            /\ Goto(h, IF v = "wrong_size" THEN "reject.delete" ELSE "validate")
    BY DEF Assemble
  <1>3. /\ upload' = [upload EXCEPT ![s] = "completed"]
        /\ UNCHANGED <<status, stored, aborted, sess>>
    BY DEF Assemble, store, history, stored
  <1>4. Settles
    BY <1>1, <1>2, <1>3 DEF Settles, IInv, TypeOK
  <1>5. upload'[s] = "completed" /\ verdict'[s] = v
    BY <1>1, <1>2, <1>3 DEF IInv, TypeOK
  <1>6. Progress'
    BY <1>2, <1>3, <1>4, <1>5, OneMoves
    DEF Labels, LoadCalls, Assembled, Rejecting, Passed, Written
  <1>7. Ends' /\ CompletedWasStored'
    BY <1>1, <1>3, <1>4 DEF Settles, Ends, CompletedWasStored, IInv, TypeOK, stored
  <1> QED
    BY <1>6, <1>7 DEF IInv

LEMMA ValidateIInv ==
    ASSUME IInv, TypeOK', NEW h \in Requests,
           Validate(h) \/ PromoteRead(h) \/ RejectDelete(h)
    PROVE  IInv'
  <1>1. UNCHANGED <<status, upload, verdict, stored, aborted>>
    BY DEF Validate, PromoteRead, RejectDelete, world, frame, store, r2, history, stored
  <1>2. Settles
    BY <1>1 DEF Settles
  <1>3. CASE Return(h)
    BY <1>1, <1>2, <1>3, ReturnDrifts, DriftKeepsIInv DEF IInv
  <1>4. ASSUME UNCHANGED sess, NEW label \in Labels, Goto(h, label),
               pc[h] \in Assembled, label \in Rejecting \union {"promote.read", "promote.put"},
               label \in Rejecting <=> verdict[sess[h]] # "valid"
        PROVE  IInv'
    <2>1. upload[sess[h]] = "completed"
      BY <1>4 DEF IInv, Progress
    <2>2. Progress'
      BY <1>1, <1>2, <1>4, <2>1, OneMoves DEF Rejecting, Passed, Written
    <2> QED
      BY <1>1, <2>2 DEF IInv, Ends, CompletedWasStored
  <1>5. CASE Validate(h)
    BY <1>3, <1>4, <1>5
    DEF Validate, Labels, LoadCalls, Assembled, Rejecting, Passed, Written
  <1>6. CASE PromoteRead(h)
    BY <1>3, <1>4, <1>6
    DEF PromoteRead, Labels, LoadCalls, Assembled, Rejecting, Passed, Written,
        IInv, Progress
  <1>7. CASE RejectDelete(h)
    BY <1>4, <1>7
    DEF RejectDelete, Labels, LoadCalls, Assembled, Rejecting, Passed, Written,
        IInv, Progress
  <1> QED
    BY <1>5, <1>6, <1>7

\* The sessions whose bytes were put at their target are one more.
LEMMA WriteAdds ==
    ASSUME TypeOK, NEW h \in Requests, PromotePut(h)
    PROVE  stored' = stored \union {sess[h]}
  <1>1. sess[h] \in Sessions
    BY DEF PromotePut, TypeOK
  <1>2. written \in [Sessions -> Nat] /\ written' = [written EXCEPT ![sess[h]] = @ + 1]
    BY DEF PromotePut, TypeOK
  <1>3. \A s \in Sessions : written'[s] > 0 <=> written[s] > 0 \/ s = sess[h]
    BY <1>1, <1>2
  <1> QED
    BY <1>1, <1>3 DEF stored

LEMMA PromotePutIInv ==
    ASSUME IInv, TypeOK', NEW h \in Requests, PromotePut(h)
    PROVE  IInv'
  <1> DEFINE s == sess[h]
  <1>1. s \in Sessions /\ upload[s] = "completed" /\ verdict[s] = "valid"
    BY DEF PromotePut, IInv, TypeOK, Progress, Assembled, Passed
  <1>2. /\ stored' = stored \union {s}
        /\ Goto(h, "promote.clean")
        /\ UNCHANGED <<status, upload, verdict, aborted, sess>>
    BY WriteAdds DEF PromotePut, frame, store, IInv
  <1>3. Settles
    BY <1>2 DEF Settles
  <1>4. Progress'
    BY <1>1, <1>2, <1>3, OneMoves
    DEF Labels, Assembled, Rejecting, Passed, Written
  <1> QED
    BY <1>1, <1>2, <1>4 DEF IInv, Ends, CompletedWasStored

LEMMA PromoteCleanIInv ==
    ASSUME IInv, TypeOK', NEW h \in Requests, PromoteClean(h)
    PROVE  IInv'
  <1>1. /\ upload[sess[h]] = "completed" /\ verdict[sess[h]] = "valid"
        /\ sess[h] \in stored
    BY DEF PromoteClean, IInv, Progress, Assembled, Passed, Written
  <1>2. /\ Goto(h, "complete.mark")
        /\ UNCHANGED <<status, upload, verdict, stored, aborted, sess>>
    BY DEF PromoteClean, frame, store, history, stored
  <1>3. Settles
    BY <1>2 DEF Settles
  <1>4. Progress'
    BY <1>1, <1>2, <1>3, OneMoves
    DEF Labels, LoadCalls, Assembled, Rejecting, Passed, Written
  <1> QED
    BY <1>2, <1>4 DEF IInv, Ends, CompletedWasStored

LEMMA AbortUploadIInv ==
    ASSUME IInv, TypeOK', NEW h \in Requests, AbortUpload(h)
    PROVE  IInv'
  <1>1. UNCHANGED <<status, verdict, stored, aborted>>
    BY DEF AbortUpload, frame, store, history, stored
  <1>2. CASE upload[sess[h]] # "open"
    <2>1. Return(h) /\ UNCHANGED upload
      BY <1>2 DEF AbortUpload
    <2>2. Settles
      BY <1>1, <2>1 DEF Settles
    <2> QED
      BY <1>1, <2>1, <2>2, ReturnDrifts, DriftKeepsIInv DEF IInv
  <1>3. CASE upload[sess[h]] = "open"
    <2>1. /\ upload' = [upload EXCEPT ![sess[h]] = "aborted"]
          /\ Goto(h, "abort.mark") /\ UNCHANGED sess
      BY <1>3 DEF AbortUpload
    <2>2. sess[h] \in Sessions
      BY DEF AbortUpload, IInv, TypeOK
    <2>3. Settles
      BY <1>1, <1>3, <2>1 DEF Settles, IInv, TypeOK
    <2>4. upload'[sess[h]] = "aborted"
      BY <2>1, <2>2 DEF IInv, TypeOK
    <2>5. Progress'
      BY <2>1, <2>3, <2>4, OneMoves
      DEF Labels, LoadCalls, Assembled, Rejecting, Passed, Written
    <2> QED
      BY <1>1, <1>3, <2>1, <2>5 DEF IInv, Ends, CompletedWasStored, TypeOK
  <1> QED
    BY <1>2, <1>3

LEMMA MarkIInv ==
    ASSUME IInv, TypeOK', NEW h \in Requests, MarkCompleted(h) \/ MarkAborted(h)
    PROVE  IInv'
  <1>1. UNCHANGED <<upload, verdict, stored>> /\ Return(h)
    BY DEF MarkCompleted, MarkAborted, frame, r2, history, stored
  <1>2. Settles
    BY <1>1 DEF Settles
  <1>3. Progress'
    BY <1>1, <1>2, ReturnDrifts, DriftKeepsProgress DEF IInv, Progress
  <1>4. CASE MarkCompleted(h)
    <2>1. sess[h] \in stored
      BY <1>4 DEF MarkCompleted, LoadedActive, IInv, Progress, Written
    <2>2. /\ status' = [status EXCEPT ![sess[h]] = "completed"]
          /\ UNCHANGED aborted
      BY <1>4 DEF MarkCompleted, history
    <2> QED
      BY <1>1, <1>3, <2>1, <2>2 DEF IInv, Ends, CompletedWasStored, TypeOK
  <1>5. CASE MarkAborted(h)
    <2>1. \/ upload[sess[h]] = "aborted"
          \/ upload[sess[h]] = "completed" /\ verdict[sess[h]] # "valid"
      BY <1>5 DEF MarkAborted, LoadedActive, IInv, Progress, Assembled, Rejecting
    <2>2. /\ status' = [status EXCEPT ![sess[h]] = "aborted"]
          /\ aborted' = aborted \union {sess[h]}
      BY <1>5 DEF MarkAborted
    <2> QED
      BY <1>1, <1>3, <2>1, <2>2 DEF IInv, Ends, CompletedWasStored, TypeOK
  <1> QED
    BY <1>4, <1>5

LEMMA EnvironmentIInv ==
    ASSUME IInv, TypeOK', Reset \/ Tick \/ UNCHANGED vars
    PROVE  IInv'
  <1>1. UNCHANGED <<status, upload, verdict, stored, aborted>>
    BY DEF Reset, Tick, vars, world, frame, store, r2, history, stored
  <1>2. Settles
    BY <1>1 DEF Settles
  <1>3. \A h \in Requests : Drifts(h)
    <2>1. CASE Reset
      BY <2>1, FreeLabels DEF Reset, Drifts, PruneCalls, Agents, IInv, TypeOK
    <2>2. CASE Tick \/ UNCHANGED vars
      BY <2>2 DEF Tick, vars, Drifts
    <2> QED
      BY <2>1, <2>2
  <1> QED
    BY <1>1, <1>2, <1>3, DriftKeepsIInv

LEMMA NextIInv ==
    ASSUME ConstantsAssumption, IInv, [Next]_vars
    PROVE  IInv'
  <1>1. TypeOK'
    BY NextTyped DEF IInv
  <1>2. ASSUME NEW h \in Requests,
               Client(h) \/ RequestStep(h) \/ CreateCallLost(h) \/ RequestDies(h)
        PROVE  IInv'
    BY <1>1, <1>2, PassIInv, QuietIInv, AssembleIInv, ValidateIInv,
       PromotePutIInv, PromoteCleanIInv, AbortUploadIInv, MarkIInv
    DEF Client, RequestStep
  <1> QED
    BY <1>1, <1>2, PassIInv, EnvironmentIInv DEF Next, AgentStep

\* Where a request is tells what R2 has settled for its upload, in every state of
\* complete and abort (routes/upload.ts).
THEOREM Inductive == Spec => []IInv
  <1>1. Init => IInv
    BY InitIInv, ConstantsAssumption
  <1>2. IInv /\ [Next]_vars => IInv'
    BY NextIInv, ConstantsAssumption
  <1> QED
    BY <1>1, <1>2, PTL DEF Spec

\* Records, R2 state, requests and passes are well typed in every reachable
\* state of the upload routes and of the Durable Object.
THEOREM TypeCorrect == Spec => []TypeOK
  <1>1. IInv => TypeOK
    BY DEF IInv
  <1> QED
    BY <1>1, Inductive, PTL

\* No session marked completed is without its bytes at the target key (POST
\* /upload/complete).
THEOREM CompletedHolds == Spec => []CompletedWasStored
  <1>1. IInv => CompletedWasStored
    BY DEF IInv
  <1> QED
    BY <1>1, Inductive, PTL

\* Bytes that fail validation never reach the target key, whatever completions
\* are retried or overlap (POST /upload/complete).
THEOREM OnlyValidHolds == Spec => []OnlyValidStored
  <1>1. IInv => OnlyValidStored
    BY DEF IInv, Ends, OnlyValidStored
  <1> QED
    BY <1>1, Inductive, PTL

\* No session that was marked aborted ever has bytes at its target key, whatever
\* completion its abort raced (POST /upload/abort).
THEOREM AbortedHolds == Spec => []AbortedNeverStored
  <1>1. IInv => AbortedNeverStored
    BY DEF IInv, Ends, AbortedNeverStored
  <1> QED
    BY <1>1, Inductive, PTL

-----------------------------------------------------------------------------
(* Who may write where.                                                    *)

\* A pass was listed at an earlier reading of the clock.
JobsPast == \A a \in Agents : job[a].at <= now

\* Records, requests and passes are about sessions that an init has drawn.
Known ==
    /\ \A s \in Sessions : status[s] # "none" => upload[s] # "none"
    /\ \A h \in Requests :
         pc[h] \notin {"idle", "gc.prune"} => upload[sess[h]] # "none"
    /\ \A a \in Agents : \A s \in job[a].marks : upload[s] # "none"

WInv == TypeOK /\ JobsPast /\ Known /\ OneWriterPerKey /\ CapRespected

LEMMA InitWInv == ConstantsAssumption /\ Init => WInv
  <1> SUFFICES ASSUME ConstantsAssumption, Init
               PROVE  WInv
    OBVIOUS
  <1>1. TypeOK
    BY InitIInv DEF IInv
  <1>2. JobsPast /\ Known
    BY DEF Init, JobsPast, Known, NoJob, Agents
  <1>3. ActiveAt(status, now) = {}
    BY DEF Init, ActiveAt
  <1>4. OneWriterPerKey
    BY <1>3 DEF OneWriterPerKey
  <1>5. CapRespected
    BY <1>3, FS_EmptySet DEF CapRespected, ConstantsAssumption
  <1> QED
    BY <1>1, <1>2, <1>4, <1>5 DEF WInv

\* The sessions that hold their key and count against the limit are finitely
\* many.
LEMMA ActiveFinite ==
    ASSUME ConstantsAssumption, NEW st, NEW t
    PROVE  /\ IsFiniteSet(ActiveAt(st, t))
           /\ Cardinality(ActiveAt(st, t)) \in Nat
  <1>1. ActiveAt(st, t) \subseteq Sessions
    BY DEF ActiveAt
  <1>2. IsFiniteSet(ActiveAt(st, t))
    BY <1>1, FS_Subset DEF ConstantsAssumption
  <1> QED
    BY <1>2, FS_CardinalityType

\* A step after which no session is active that was not, with the expiry it had.
LEMMA FewerWriters ==
    ASSUME ConstantsAssumption, WInv, TypeOK', now <= now',
           \A s \in Sessions : status'[s] = "active" =>
             status[s] = "active" /\ expiresAt'[s] = expiresAt[s]
    PROVE  OneWriterPerKey' /\ CapRespected'
  <1>1. ActiveAt(status, now)' \subseteq ActiveAt(status, now)
    BY DEF ActiveAt, ExpiredAt, WInv, TypeOK
  <1>2. OneWriterPerKey'
    BY <1>1 DEF OneWriterPerKey, WInv
  <1>3. Cardinality(ActiveAt(status, now)') <= Cardinality(ActiveAt(status, now))
    BY <1>1, ActiveFinite, FS_Subset
  <1>4. Cardinality(ActiveAt(status, now)') \in Nat
    <2>1. IsFiniteSet(ActiveAt(status, now)')
      BY <1>1, ActiveFinite, FS_Subset
    <2> QED
      BY <2>1, FS_CardinalityType
  <1>5. CapRespected'
    BY <1>3, <1>4, ActiveFinite DEF CapRespected, WInv, ConstantsAssumption
  <1> QED
    BY <1>2, <1>5

\* A create that is accepted: what it judged by its earlier reading of the clock
\* includes whatever is active now.
LEMMA CreateWriters ==
    ASSUME ConstantsAssumption, WInv, NEW h \in Requests, NEW j \in Jobs,
           TypeOK', j.at <= now,
           pc[h] \in {"create", "create.prune"}, CreateCommit(h, j)
    PROVE  OneWriterPerKey' /\ CapRespected'
  <1> DEFINE s == sess[h]
             st == Pruned(j)
             busy == ActiveAt(st, j.at)
  <1>1. /\ s \in Sessions
        /\ st \in [Sessions -> Statuses]
        /\ \A t \in Sessions : st[t] = "active" => status[t] = "active"
    BY PrunedTyped DEF WInv, TypeOK, Pruned
  <1>2. UNCHANGED <<now, expiresAt>>
    BY DEF CreateCommit, frame
  <1>3. CASE Refused(s, st, j.at)
    <2>1. status' = st
      BY <1>3 DEF CreateCommit
    <2>2. now <= now'
      BY <1>2 DEF WInv, TypeOK
    <2>3. \A t \in Sessions : status'[t] = "active" =>
            status[t] = "active" /\ expiresAt'[t] = expiresAt[t]
      BY <1>1, <1>2, <2>1
    <2> QED
      BY <2>2, <2>3, FewerWriters
  <1>4. CASE ~Refused(s, st, j.at)
    <2>1. status' = [st EXCEPT ![s] = "active"]
      BY <1>4 DEF CreateCommit
    <2>2. \A t \in ActiveAt(status, now)' : t = s \/ t \in busy
      BY <1>1, <1>2, <2>1
      DEF ActiveAt, ExpiredAt, WInv, TypeOK, Jobs
    <2>3. \A t \in ActiveAt(status, now)' : t = s \/ t \in ActiveAt(status, now)
      BY <1>1, <1>2, <2>1 DEF ActiveAt, ExpiredAt, WInv, TypeOK
    <2>4. \A t \in busy : ObjectKey[t] # ObjectKey[s]
      BY <1>4 DEF Refused, KeyTaken
    <2>5. OneWriterPerKey'
      BY <2>2, <2>3, <2>4 DEF OneWriterPerKey, WInv
    <2>6. CASE MaxConcurrent > 0
      <3>1. Cardinality(busy) < MaxConcurrent
        BY <1>4, <2>6, ActiveFinite DEF Refused, LimitReached, ConstantsAssumption
      <3>2. /\ IsFiniteSet(busy \union {s})
            /\ Cardinality(busy \union {s}) <= Cardinality(busy) + 1
        BY ActiveFinite, FS_AddElement
      <3>3. ActiveAt(status, now)' \subseteq busy \union {s}
        BY <2>2
      <3>4. /\ IsFiniteSet(ActiveAt(status, now)')
            /\ Cardinality(ActiveAt(status, now)') <= Cardinality(busy \union {s})
        BY <3>2, <3>3, FS_Subset
      <3>5. /\ Cardinality(ActiveAt(status, now)') \in Nat
            /\ Cardinality(busy \union {s}) \in Nat
            /\ Cardinality(busy) \in Nat
        BY <3>2, <3>4, ActiveFinite, FS_CardinalityType
      <3> QED
        BY <2>5, <3>1, <3>2, <3>4, <3>5 DEF CapRespected, ConstantsAssumption
    <2> QED
      BY <2>5, <2>6 DEF CapRespected
  <1> QED
    BY <1>3, <1>4

\* Every step that is not an accepted create leaves no new writer.
LEMMA NextWriters ==
    ASSUME ConstantsAssumption, WInv, TypeOK', [Next]_vars
    PROVE  OneWriterPerKey' /\ CapRespected'
  <1>1. PruneJob \in Jobs /\ PruneJob.at = now
    BY PruneJobTyped DEF WInv, PruneJob
  <1>2. ASSUME NEW h \in Requests, CreateCall(h) \/ CreatePruned(h)
        PROVE  OneWriterPerKey' /\ CapRespected'
    <2>1. CASE CreateCall(h) /\ CreateCommit(h, PruneJob)
      BY <1>1, <2>1, CreateWriters DEF CreateCall, WInv, TypeOK
    <2>2. CASE CreatePruned(h)
      BY <2>2, CreateWriters DEF CreatePruned, WInv, TypeOK, JobsPast, Agents
    <2>3. CASE UNCHANGED <<frame, store>>
      BY <2>3, FewerWriters DEF frame, store, WInv, TypeOK
    <2> QED
      BY <1>2, <2>1, <2>2, <2>3 DEF CreateCall
  <1>3. ASSUME UNCHANGED <<now, expiresAt>>,
               \A s \in Sessions : status'[s] = "active" => status[s] = "active"
        PROVE  OneWriterPerKey' /\ CapRespected'
    BY <1>3, FewerWriters DEF WInv, TypeOK
  <1>4. ASSUME NEW h \in Requests, NEW s \in Sessions, InitBegin(h, s)
        PROVE  OneWriterPerKey' /\ CapRespected'
    <2>1. UNCHANGED <<now, status>> /\ status[s] = "none"
      BY <1>4 DEF InitBegin, store, WInv, Known
    <2>2. \A t \in Sessions : t # s => expiresAt'[t] = expiresAt[t]
      BY <1>4 DEF InitBegin, WInv, TypeOK
    <2> QED
      BY <2>1, <2>2, FewerWriters DEF WInv, TypeOK
  <1>5. ASSUME NEW h \in Requests, UNCHANGED world
        PROVE  OneWriterPerKey' /\ CapRespected'
    BY <1>3, <1>5 DEF world, frame, store
  <1>6. ASSUME NEW h \in Requests,
               \/ InitCleanup(h) \/ Assemble(h) \/ RejectDelete(h)
               \/ PromotePut(h) \/ PromoteClean(h) \/ AbortUpload(h)
        PROVE  OneWriterPerKey' /\ CapRespected'
    <2>1. UNCHANGED <<now, expiresAt, status>>
      BY <1>6 DEF InitCleanup, Assemble, RejectDelete, PromotePut, PromoteClean,
                  AbortUpload, frame, store
    <2> QED
      BY <1>3, <2>1
  <1>7. ASSUME NEW h \in Requests, MarkCompleted(h) \/ MarkAborted(h)
        PROVE  OneWriterPerKey' /\ CapRespected'
    <2>1. /\ UNCHANGED <<now, expiresAt>>
          /\ \E s, end : end # "active" /\ status' = [status EXCEPT ![s] = end]
      BY <1>7 DEF MarkCompleted, MarkAborted, frame
    <2> QED
      BY <1>3, <2>1 DEF WInv, TypeOK
  <1>8. ASSUME \/ \E h \in Requests : LoadExpired(h) \/ LoadReleased(h) \/ GcExpired(h)
               \/ \E a \in Agents : ReleaseOne(a) \/ PruneDone(a)
               \/ AlarmFires
        PROVE  OneWriterPerKey' /\ CapRespected'
    <2>1. UNCHANGED <<now, expiresAt>>
      BY <1>8 DEF LoadExpired, LoadReleased, GcExpired, ReleaseOne, PruneDone,
                  PruneCommit, AlarmFires, frame
    <2>2. \/ UNCHANGED status
          \/ \E j : status' = Pruned(j)
          \/ \E s : status' = [status EXCEPT ![s] = "expired"]
      BY <1>8 DEF LoadExpired, LoadReleased, GcExpired, ReleaseOne, PruneDone,
                  PruneCommit, AlarmFires, store
    <2>3. \A j : \A s \in Sessions :
            Pruned(j)[s] = "active" => status[s] = "active"
      BY DEF Pruned
    <2> QED
      BY <1>3, <2>1, <2>2, <2>3 DEF WInv, TypeOK
  <1>9. CASE Reset \/ Tick \/ UNCHANGED vars
    <2>1. UNCHANGED <<status, expiresAt>> /\ now <= now'
      BY <1>9 DEF Reset, Tick, store, vars, world, frame, WInv, TypeOK
    <2> QED
      BY <2>1, FewerWriters
  <1>10. ASSUME NEW h \in Requests,
                Client(h) \/ RequestStep(h) \/ CreateCallLost(h) \/ RequestDies(h)
         PROVE  OneWriterPerKey' /\ CapRespected'
    <2>1. \/ UNCHANGED world
          \/ CreateCall(h) \/ CreatePruned(h)
          \/ \E s \in Sessions : InitBegin(h, s)
          \/ InitCleanup(h) \/ Assemble(h) \/ RejectDelete(h)
          \/ PromotePut(h) \/ PromoteClean(h) \/ AbortUpload(h)
          \/ MarkCompleted(h) \/ MarkAborted(h)
          \/ LoadExpired(h) \/ LoadReleased(h) \/ GcExpired(h)
      BY <1>10
      DEF Client, RequestStep, CreateCallLost, RequestDies, SignPart, Complete,
          Abort, RequestBegin, InitReply, LoadRefused, SignGet, SignRecord,
          CompleteGet, AssembleRefused, Validate, PromoteRead, AbortGet
    <2> QED
      BY <1>2, <1>4, <1>5, <1>6, <1>7, <1>8, <2>1
  <1> QED
    BY <1>8, <1>9, <1>10 DEF Next, AgentStep

\* A session once drawn stays drawn.
LEMMA DrawnStays ==
    ASSUME TypeOK,
           \/ UNCHANGED upload
           \/ \E s, u : u # "none" /\ upload' = [upload EXCEPT ![s] = u]
    PROVE  \A s \in Sessions : upload[s] # "none" => upload'[s] # "none"
  <1>1. ASSUME NEW s, NEW u, u # "none", upload' = [upload EXCEPT ![s] = u],
               NEW t \in Sessions, upload[t] # "none"
        PROVE  upload'[t] # "none"
    BY <1>1 DEF TypeOK
  <1> QED
    BY <1>1

\* What keeps everything about drawn sessions, and the passes in the past.
LEMMA KnownStep ==
    ASSUME TypeOK, TypeOK', Known, JobsPast, now <= now',
           \A s \in Sessions : upload[s] # "none" => upload'[s] # "none",
           \A s \in Sessions :
             status'[s] # "none" => status[s] # "none" \/ upload'[s] # "none",
           \A h \in Requests :
             \/ pc'[h] \in {"idle", "gc.prune"}
             \/ pc[h] \notin {"idle", "gc.prune"} /\ sess'[h] = sess[h]
             \/ upload'[sess'[h]] # "none",
           \A a \in Agents : \/ job'[a] = job[a]
                            \/ /\ job'[a].at <= now'
                               /\ \A s \in job'[a].marks : upload[s] # "none"
    PROVE  Known' /\ JobsPast'
  <1>1. \A a \in Agents : job[a] \in Jobs /\ job'[a] \in Jobs
    BY DEF TypeOK
  <1>2. \A s \in Sessions : status'[s] # "none" => upload'[s] # "none"
    BY DEF Known
  <1>3. \A h \in Requests :
          pc'[h] \notin {"idle", "gc.prune"} => upload'[sess'[h]] # "none"
    BY DEF Known, TypeOK
  <1>4. \A a \in Agents : \A s \in job'[a].marks : upload'[s] # "none"
    BY <1>1 DEF Known, Jobs
  <1>5. JobsPast'
    BY <1>1 DEF JobsPast, Jobs, TypeOK
  <1> QED
    BY <1>2, <1>3, <1>4, <1>5 DEF Known

LEMMA RequestKnown ==
    ASSUME WInv, TypeOK', NEW h \in Requests,
           \/ UNCHANGED world /\ QuietStep(h)
           \/ \E s \in Sessions : InitBegin(h, s)
           \/ InitCleanup(h) \/ Assemble(h) \/ RejectDelete(h) \/ PromotePut(h)
           \/ PromoteClean(h) \/ MarkCompleted(h) \/ AbortUpload(h)
           \/ MarkAborted(h)
    PROVE  Known' /\ JobsPast'
  <1> USE DEF world, frame, store, r2, history
  <1>1. UNCHANGED <<now, job>> /\ now <= now'
    BY DEF InitBegin, InitCleanup, Assemble, RejectDelete, PromotePut,
           PromoteClean, MarkCompleted, AbortUpload, MarkAborted, WInv, TypeOK
  <1>2. \/ UNCHANGED upload
        \/ \E s, u : u # "none" /\ upload' = [upload EXCEPT ![s] = u]
    BY DEF InitBegin, InitCleanup, Assemble, RejectDelete, PromotePut,
           PromoteClean, MarkCompleted, AbortUpload, MarkAborted
  <1>3. \A s \in Sessions : upload[s] # "none" => upload'[s] # "none"
    BY <1>2, DrawnStays DEF WInv
  <1>4. \/ UNCHANGED status
        \/ /\ status[sess[h]] = "active"
           /\ \E end : status' = [status EXCEPT ![sess[h]] = end]
    BY DEF InitBegin, InitCleanup, Assemble, RejectDelete, PromotePut,
           PromoteClean, MarkCompleted, AbortUpload, MarkAborted, LoadedActive
  <1>5. \A s \in Sessions : status'[s] # "none" => status[s] # "none"
    <2>1. CASE UNCHANGED status
      BY <2>1
    <2>2. ASSUME status[sess[h]] = "active", NEW end,
                 status' = [status EXCEPT ![sess[h]] = end]
          PROVE  \A s \in Sessions : status'[s] # "none" => status[s] # "none"
      <3>1. \A s \in Sessions : s # sess[h] => status'[s] = status[s]
        BY <2>2 DEF WInv, TypeOK
      <3> QED
        BY <2>2, <3>1
    <2> QED
      BY <1>4, <2>1, <2>2
  <1>6. \/ Return(h)
        \/ /\ pc[h] \notin {"idle", "gc.prune"} /\ UNCHANGED sess
           /\ \E label : Goto(h, label)
        \/ \E s \in Sessions : /\ upload'[s] # "none"
                               /\ sess' = [sess EXCEPT ![h] = s]
                               /\ \E label : Goto(h, label)
    BY DEF QuietStep, InitReply, CreateCallLost, LoadRefused, SignGet, SignRecord,
           CompleteGet, AssembleRefused, Validate, PromoteRead, AbortGet,
           RequestDies, SignPart, Complete, Abort, RequestBegin, LoadedActive,
           LoadCalls, PruneCalls, InitBegin, InitCleanup, Assemble, RejectDelete,
           PromotePut, PromoteClean, MarkCompleted, AbortUpload, MarkAborted,
           WInv, TypeOK
  <1>7. \A g \in Requests :
          \/ pc'[g] \in {"idle", "gc.prune"}
          \/ pc[g] \notin {"idle", "gc.prune"} /\ sess'[g] = sess[g]
          \/ upload'[sess'[g]] # "none"
    BY <1>6 DEF Return, Goto, WInv, TypeOK, Agents
  <1> QED
    BY <1>1, <1>3, <1>5, <1>7, KnownStep DEF WInv

LEMMA PassKnown ==
    ASSUME WInv, TypeOK',
           \/ \E h \in Requests : CreateCall(h) \/ CreatePruned(h)
                                    \/ LoadExpired(h) \/ LoadReleased(h)
                                    \/ GcExpired(h)
           \/ \E a \in Agents : ReleaseOne(a) \/ PruneDone(a)
           \/ AlarmFires
    PROVE  Known' /\ JobsPast'
  <1> USE DEF frame, store, r2, history
  <1>1. UNCHANGED now /\ now <= now'
    <2>1. UNCHANGED now
      BY DEF CreateCall, CreatePruned, CreateCommit, LoadExpired, LoadReleased,
             GcExpired, ReleaseOne, PruneDone, PruneCommit, AlarmFires
    <2> QED
      BY <2>1 DEF WInv, TypeOK
  <1>2. \/ UNCHANGED upload
        \/ \E s, u : u # "none" /\ upload' = [upload EXCEPT ![s] = u]
    BY DEF CreateCall, CreatePruned, CreateCommit, LoadExpired, LoadReleased,
           GcExpired, ReleaseOne, PruneDone, PruneCommit, AlarmFires
  <1>3. \A s \in Sessions : upload[s] # "none" => upload'[s] # "none"
    BY <1>2, DrawnStays DEF WInv
  <1>4. \A s \in PruneJob.marks : upload[s] # "none"
    BY DEF PruneJob, Recorded, WInv, Known
  <1>5. \A s \in Sessions :
          status'[s] # "none" => status[s] # "none" \/ upload'[s] # "none"
    <2>1. \/ UNCHANGED status
          \/ status' = Pruned(PruneJob)
          \/ \E a \in Agents : status' = Pruned(job[a])
          \/ \E h \in Requests, j \in {PruneJob} \union {job[a] : a \in Agents} :
               /\ status' = [Pruned(j) EXCEPT ![sess[h]] = "active"]
               /\ pc[h] \notin {"idle", "gc.prune"}
          \/ \E s : status[s] # "none" /\ status' = [status EXCEPT ![s] = "expired"]
      BY DEF CreateCall, CreatePruned, CreateCommit, LoadExpired, LoadReleased,
             GcExpired, ReleaseOne, PruneDone, PruneCommit, AlarmFires, Agents
    <2>2. \A j : \A s \in Sessions :
            Pruned(j)[s] # "none" => status[s] # "none" \/ s \in j.marks
      BY DEF Pruned
    <2>3. \A a \in Agents : \A s \in job[a].marks : upload[s] # "none"
      BY DEF WInv, Known
    <2>4. \A h \in Requests :
            pc[h] \notin {"idle", "gc.prune"} => upload[sess[h]] # "none"
      BY DEF WInv, Known
    <2>5. \A j : DOMAIN Pruned(j) = Sessions
      BY DEF Pruned
    <2>6. \A j \in {PruneJob} \union {job[a] : a \in Agents} : \A s \in Sessions :
            Pruned(j)[s] # "none" => status[s] # "none" \/ upload[s] # "none"
      BY <1>4, <2>2, <2>3
    <2> SUFFICES ASSUME NEW s \in Sessions, status'[s] # "none"
                 PROVE  status[s] # "none" \/ upload'[s] # "none"
      OBVIOUS
    <2>7. CASE \E h \in Requests, j \in {PruneJob} \union {job[a] : a \in Agents} :
                 /\ status' = [Pruned(j) EXCEPT ![sess[h]] = "active"]
                 /\ pc[h] \notin {"idle", "gc.prune"}
      BY <1>3, <2>4, <2>5, <2>6, <2>7
    <2>8. CASE \E t : status[t] # "none" /\ status' = [status EXCEPT ![t] = "expired"]
      BY <2>8 DEF WInv, TypeOK
    <2> QED
      BY <1>3, <2>1, <2>6, <2>7, <2>8
  <1>6. \A h \in Requests :
          \/ pc'[h] \in {"idle", "gc.prune"}
          \/ pc[h] \notin {"idle", "gc.prune"} /\ sess'[h] = sess[h]
          \/ upload'[sess'[h]] # "none"
    <2>1. \/ UNCHANGED <<pc, sess>>
          \/ \E h \in Requests : Return(h)
          \/ /\ UNCHANGED sess
             /\ \E a \in Agents, label \in Labels :
                  /\ Goto(a, label)
                  /\ \/ a = Alarm \/ label \in {"idle", "gc.prune"}
                     \/ pc[a] \notin {"idle", "gc.prune"}
      BY DEF CreateCall, CreatePruned, CreateCommit, LoadExpired, LoadReleased,
             GcExpired, ReleaseOne, PruneDone, PruneCommit, AlarmFires, Agents,
             Labels, LoadCalls, PruneCalls
    <2> QED
      BY <2>1, ConstantsAssumption
      DEF Return, Goto, WInv, TypeOK, Known, Agents, ConstantsAssumption
  <1>7. \A a \in Agents : \/ job'[a] = job[a]
                          \/ /\ job'[a].at <= now'
                             /\ \A s \in job'[a].marks : upload[s] # "none"
    <2>1. job \in [Agents -> Jobs]
      BY DEF WInv, TypeOK
    <2>2. \/ UNCHANGED job
          \/ \E a \in Agents : job' = [job EXCEPT ![a] = NoJob]
          \/ \E a \in Agents : job' = [job EXCEPT ![a] = PruneJob]
          \/ \E a \in Agents, s \in Sessions : job' = [job EXCEPT ![a].todo = @ \ {s}]
          \/ \E h \in Requests :
               /\ status[sess[h]] # "none" /\ sess[h] \in Sessions
               /\ job' = [job EXCEPT ![h] = [at |-> now, todo |-> {sess[h]},
                                            marks |-> {sess[h]}, dels |-> {}]]
      BY DEF CreateCall, CreatePruned, CreateCommit, LoadExpired, LoadReleased,
             GcExpired, ReleaseOne, PruneDone, PruneCommit, AlarmFires, Agents,
             WInv, TypeOK, LoadCalls, Jobs
    <2>3. CASE \E a \in Agents : job' = [job EXCEPT ![a] = NoJob]
      BY <1>1, <2>1, <2>3 DEF NoJob, WInv, TypeOK
    <2>4. CASE \E a \in Agents : job' = [job EXCEPT ![a] = PruneJob]
      <3>1. PruneJob.at <= now'
        BY <1>1 DEF PruneJob, WInv, TypeOK
      <3> QED
        BY <1>4, <2>1, <2>4, <3>1
    <2>5. CASE \E a \in Agents, s \in Sessions : job' = [job EXCEPT ![a].todo = @ \ {s}]
      <3>1. PICK a \in Agents, s \in Sessions :
                job' = [job EXCEPT ![a] = [job[a] EXCEPT !.todo = @ \ {s}]]
        BY <2>5
      <3>2. /\ job'[a].at = job[a].at /\ job'[a].marks = job[a].marks
            /\ \A b \in Agents : b # a => job'[b] = job[b]
        BY <2>1, <3>1 DEF Jobs
      <3> QED
        BY <1>1, <3>2 DEF WInv, JobsPast, Known
    <2>6. CASE \E h \in Requests :
               /\ status[sess[h]] # "none" /\ sess[h] \in Sessions
               /\ job' = [job EXCEPT ![h] = [at |-> now, todo |-> {sess[h]},
                                            marks |-> {sess[h]}, dels |-> {}]]
      BY <1>1, <2>1, <2>6 DEF WInv, Known, TypeOK
    <2> QED
      BY <2>2, <2>3, <2>4, <2>5, <2>6
  <1> QED
    BY <1>1, <1>3, <1>5, <1>6, <1>7, KnownStep DEF WInv

LEMMA EnvironmentKnown ==
    ASSUME WInv, TypeOK', Reset \/ Tick \/ UNCHANGED vars
    PROVE  Known' /\ JobsPast'
  <1>1. UNCHANGED <<status, upload>> /\ now <= now'
    BY DEF Reset, Tick, vars, world, frame, store, r2, history, WInv, TypeOK
  <1>2. \A a \in Agents : job'[a] = job[a] \/ job'[a] = NoJob
    BY DEF Reset, Tick, vars, world
  <1>3. \A a \in Agents : \/ job'[a] = job[a]
                          \/ /\ job'[a].at <= now'
                             /\ \A s \in job'[a].marks : upload[s] # "none"
    BY <1>2 DEF NoJob, TypeOK
  <1>4. \A h \in Requests :
          \/ pc'[h] \in {"idle", "gc.prune"}
          \/ pc[h] \notin {"idle", "gc.prune"} /\ sess'[h] = sess[h]
    BY DEF Reset, Tick, vars, PruneCalls, Agents, WInv, TypeOK
  <1> QED
    BY <1>1, <1>3, <1>4, KnownStep DEF WInv

LEMMA NextWInv ==
    ASSUME ConstantsAssumption, WInv, [Next]_vars
    PROVE  WInv'
  <1>1. TypeOK'
    BY NextTyped DEF WInv
  <1>2. ASSUME NEW h \in Requests,
               Client(h) \/ RequestStep(h) \/ CreateCallLost(h) \/ RequestDies(h)
        PROVE  Known' /\ JobsPast'
    <2>1. \/ UNCHANGED world /\ QuietStep(h)
          \/ CreateCall(h) \/ CreatePruned(h)
          \/ \E s \in Sessions : InitBegin(h, s)
          \/ InitCleanup(h) \/ Assemble(h) \/ RejectDelete(h)
          \/ PromotePut(h) \/ PromoteClean(h) \/ AbortUpload(h)
          \/ MarkCompleted(h) \/ MarkAborted(h)
          \/ LoadExpired(h) \/ LoadReleased(h) \/ GcExpired(h)
      BY <1>2
      DEF QuietStep, Client, RequestStep, CreateCallLost, RequestDies, SignPart,
          Complete, Abort, RequestBegin, InitReply, LoadRefused, SignGet,
          SignRecord, CompleteGet, AssembleRefused, Validate, PromoteRead,
          AbortGet
    <2> QED
      BY <1>1, <2>1, RequestKnown, PassKnown
  <1>3. Known' /\ JobsPast'
    BY <1>1, <1>2, PassKnown, EnvironmentKnown DEF Next, AgentStep
  <1> QED
    BY <1>1, <1>3, NextWriters DEF WInv

\* Records, requests and passes name drawn sessions only, listings lie in the
\* past, and the writers and the limit that /create checks hold in every state
\* (upload-sessions.ts).
THEOREM WritersInductive == Spec => []WInv
  <1>1. Init => WInv
    BY InitWInv, ConstantsAssumption
  <1>2. WInv /\ [Next]_vars => WInv'
    BY NextWInv, ConstantsAssumption
  <1> QED
    BY <1>1, <1>2, PTL DEF Spec

\* At most one unexpired active session targets a key, however creates overlap
\* (activeSessionForObjectKey).
THEOREM OneWriterHolds == Spec => []OneWriterPerKey
  <1>1. WInv => OneWriterPerKey
    BY DEF WInv
  <1> QED
    BY <1>1, WritersInductive, PTL

\* An owner never has more unexpired active sessions than the limit, however
\* creates overlap (activeSessionCount).
THEOREM LimitHolds == Spec => []CapRespected
  <1>1. WInv => CapRespected
    BY DEF WInv
  <1> QED
    BY <1>1, WritersInductive, PTL

-----------------------------------------------------------------------------
(* Who promotes when.                                                      *)

\* A multipart upload is assembled once, so one request is past the assembly.
Sole ==
    \A g, h \in Requests :
        pc[g] \in Assembled /\ pc[h] \in Assembled /\ sess[g] = sess[h] => g = h

\* The session of a request about to assemble has its record until it expires,
\* and that of one past the assembly is active until then.
Lasts(h) ==
    /\ pc[h] = "assemble" =>
         status[sess[h]] \in {"active", "completed", "aborted"} \/ ExpiredAt(sess[h], now)
    /\ pc[h] \in Assembled => status[sess[h]] = "active" \/ ExpiredAt(sess[h], now)

Lasting == \A h \in Requests : Lasts(h)

\* What a pass marks or deletes had expired when it was listed.
Due(j) == \A s \in j.marks \union j.dels : upload[s] # "none" /\ ExpiredAt(s, j.at)

Overdue == \A a \in Agents : Due(job[a])

\* A record marked aborted is remembered as such.
Remembered == \A s \in Sessions : status[s] = "aborted" => s \in aborted

PInv == IInv /\ WInv /\ Sole /\ Lasting /\ Overdue /\ Remembered

\* Where an agent waits for neither an assembly nor what follows it.
Calm == Labels \ (Assembled \union {"assemble"})

\* A request that stays where it is, advances past the assembly, or calms down.
Advances(h) ==
    \/ pc'[h] \in Calm
    \/ pc'[h] = pc[h] /\ sess'[h] = sess[h]
    \/ pc[h] \in Assembled /\ pc'[h] \in Assembled /\ sess'[h] = sess[h]

\* Expiries of drawn sessions are fixed, and time does not run back.
Timed ==
    /\ now <= now'
    /\ \A s \in Sessions : upload[s] # "none" => expiresAt'[s] = expiresAt[s]

\* A record is changed before its expiry only into an active one.
Spared ==
    \A s \in Sessions :
        status'[s] = status[s] \/ status'[s] = "active" \/ ExpiredAt(s, now)

LEMMA SoleStep ==
    ASSUME Sole,
           \A h \in Requests : pc'[h] \in Assembled => pc[h] \in Assembled /\ sess'[h] = sess[h]
    PROVE  Sole'
  BY DEF Sole

LEMMA AdvancesAlone ==
    ASSUME NEW h \in Requests, Advances(h)
    PROVE  pc'[h] \in Assembled => pc[h] \in Assembled /\ sess'[h] = sess[h]
  BY DEF Advances, Calm

LEMMA LastsStep ==
    ASSUME PInv, TypeOK', Timed, Spared, NEW h \in Requests, Advances(h)
    PROVE  Lasts(h)'
  <1>1. CASE pc'[h] \in Calm
    BY <1>1 DEF Calm, Lasts
  <1>2. CASE pc'[h] \notin Calm
    <2>1. \/ pc'[h] = "assemble" /\ pc[h] = "assemble"
          \/ pc'[h] \in Assembled /\ pc[h] \in Assembled
      BY <1>2 DEF Advances, Calm, TypeOK, Agents
    <2>2. sess'[h] = sess[h]
      BY <1>2 DEF Advances
    <2>3. pc[h] \notin {"idle", "gc.prune"}
      BY <2>1 DEF Assembled, Rejecting, Passed, Written
    <2>4. sess[h] \in Sessions /\ upload[sess[h]] # "none"
      BY <2>3 DEF PInv, WInv, Known, TypeOK
    <2>5. ExpiredAt(sess[h], now) => expiresAt'[sess'[h]] <= now'
      BY <2>2, <2>4 DEF Timed, ExpiredAt, PInv, WInv, TypeOK
    <2>6. \/ status'[sess[h]] = status[sess[h]]
          \/ status'[sess[h]] = "active"
          \/ ExpiredAt(sess[h], now)
      BY <2>4 DEF Spared
    <2>7. Lasts(h)
      BY DEF PInv, Lasting
    <2>8. "assemble" \notin Assembled
      BY DEF Assembled, Rejecting, Passed, Written
    <2> QED
      BY <2>1, <2>2, <2>5, <2>6, <2>7, <2>8 DEF Lasts, ExpiredAt
  <1> QED
    BY <1>1, <1>2

\* A step that leaves the passes alone.
LEMMA OverdueKept ==
    ASSUME PInv, TypeOK', Timed, UNCHANGED job,
           \A s \in Sessions : upload[s] # "none" => upload'[s] # "none"
    PROVE  Overdue'
  <1>1. ASSUME NEW a \in Agents, NEW s \in job[a].marks \union job[a].dels
        PROVE  upload'[s] # "none" /\ ExpiredAt(s, job[a].at)'
    <2>1. s \in Sessions /\ job[a].at \in Nat
      BY <1>1 DEF PInv, WInv, TypeOK, Jobs
    <2>2. upload[s] # "none" /\ ExpiredAt(s, job[a].at)
      BY <1>1 DEF PInv, Overdue, Due
    <2>3. expiresAt'[s] = expiresAt[s]
      BY <2>1, <2>2 DEF Timed
    <2> QED
      BY <2>1, <2>2, <2>3 DEF ExpiredAt
  <1> QED
    BY <1>1 DEF Overdue, Due, ExpiredAt

\* The steps of a request that leave records and passes alone, up to the one
\* that assembles.
LEMMA QuietPInv ==
    ASSUME PInv, IInv', WInv', UNCHANGED <<status, job, aborted>>, Timed,
           \A s \in Sessions : upload[s] # "none" => upload'[s] # "none",
           \A h \in Requests : Advances(h)
    PROVE  PInv'
  <1>1. TypeOK' /\ Spared
    BY DEF IInv, Spared
  <1>2. Sole'
    BY SoleStep, AdvancesAlone DEF PInv
  <1>3. Lasting'
    BY <1>1, LastsStep DEF Lasting
  <1>4. Overdue'
    BY <1>1, OverdueKept
  <1>5. Remembered'
    BY DEF PInv, Remembered
  <1> QED
    BY <1>2, <1>3, <1>4, <1>5 DEF PInv

LEMMA CompleteGetPInv ==
    ASSUME PInv, IInv', WInv', NEW h \in Requests, CompleteGet(h)
    PROVE  PInv'
  <1> USE DEF world, frame, store, r2, history
  <1>1. TypeOK /\ TypeOK'
    BY DEF PInv, IInv
  <1>2. UNCHANGED <<now, expiresAt, status, upload, job, aborted, sess>>
    BY DEF CompleteGet
  <1>3. Timed /\ Spared
    BY <1>1, <1>2 DEF Timed, Spared, TypeOK
  <1>4. pc'[h] = "assemble" /\ status[sess[h]] = "active"
    BY <1>1 DEF CompleteGet, LoadedActive, Goto, TypeOK, Agents
  <1>5. \A g \in Requests \ {h} : pc'[g] = pc[g]
    BY <1>1 DEF CompleteGet, Goto, TypeOK, Agents
  <1>6. "assemble" \notin Assembled
    BY DEF Assembled, Rejecting, Passed, Written
  <1>7. Sole'
    BY <1>2, <1>4, <1>5, <1>6, SoleStep DEF PInv
  <1>8. \A g \in Requests \ {h} : Lasts(g)'
    BY <1>1, <1>2, <1>3, <1>5, LastsStep DEF Advances
  <1>9. Lasts(h)'
    BY <1>2, <1>4, <1>6 DEF Lasts
  <1>10. Lasting'
    BY <1>8, <1>9 DEF Lasting
  <1>11. Overdue'
    BY <1>1, <1>2, <1>3, OverdueKept
  <1>12. Remembered'
    BY <1>2 DEF PInv, Remembered
  <1> QED
    BY <1>7, <1>10, <1>11, <1>12 DEF PInv

LEMMA AssemblePInv ==
    ASSUME PInv, IInv', WInv', NEW h \in Requests, Assemble(h)
    PROVE  PInv'
  <1> USE DEF store
  <1>1. TypeOK /\ TypeOK'
    BY DEF PInv, IInv
  <1>2. UNCHANGED <<now, expiresAt, status, job, aborted, sess>>
    BY DEF Assemble, history
  <1>3. Timed /\ Spared
    BY <1>1, <1>2 DEF Timed, Spared, TypeOK
  <1>4. sess[h] \in Sessions /\ upload[sess[h]] = "open" /\ pc[h] = "assemble"
    BY <1>1 DEF Assemble, TypeOK
  <1>5. pc'[h] \in Assembled
    BY <1>1 DEF Assemble, Goto, TypeOK, Agents, Assembled, Rejecting
  <1>6. \A g \in Requests \ {h} : pc'[g] = pc[g]
    BY <1>1 DEF Assemble, Goto, TypeOK, Agents
  <1>7. \A g \in Requests : pc[g] \in Assembled => sess[g] # sess[h]
    BY <1>4 DEF PInv, IInv, Progress
  <1>8. Sole'
    BY <1>2, <1>6, <1>7 DEF PInv, Sole
  <1>9. status[sess[h]] \notin {"completed", "aborted"}
    BY <1>4 DEF PInv, IInv, CompletedWasStored, Ends, Remembered
  <1>10. status[sess[h]] = "active" \/ ExpiredAt(sess[h], now)
    BY <1>4, <1>9 DEF PInv, Lasting, Lasts
  <1>11. "assemble" \notin Assembled
    BY DEF Assembled, Rejecting, Passed, Written
  <1>12. Lasts(h)'
    BY <1>2, <1>5, <1>10, <1>11 DEF Lasts, ExpiredAt
  <1>13. \A g \in Requests \ {h} : Lasts(g)'
    BY <1>1, <1>2, <1>3, <1>6, LastsStep DEF Advances
  <1>14. Lasting'
    BY <1>12, <1>13 DEF Lasting
  <1>15. \A s \in Sessions : upload[s] # "none" => upload'[s] # "none"
    BY <1>1 DEF Assemble, TypeOK
  <1>16. Overdue'
    BY <1>1, <1>2, <1>3, <1>15, OverdueKept
  <1>17. Remembered'
    BY <1>2 DEF PInv, Remembered
  <1> QED
    BY <1>8, <1>14, <1>16, <1>17 DEF PInv

\* Who marks a session is the one request past its assembly, or has aborted the
\* upload, so that there is none.
LEMMA MarkPInv ==
    ASSUME PInv, IInv', WInv', NEW h \in Requests, MarkCompleted(h) \/ MarkAborted(h)
    PROVE  PInv'
  <1> USE DEF frame, r2, history
  <1>1. TypeOK /\ TypeOK'
    BY DEF PInv, IInv
  <1>2. UNCHANGED <<now, expiresAt, upload, job>> /\ Return(h)
    BY DEF MarkCompleted, MarkAborted
  <1>3. Timed
    BY <1>1, <1>2 DEF Timed, TypeOK
  <1>4. /\ pc'[h] = "idle"
        /\ \A g \in Requests \ {h} : pc'[g] = pc[g] /\ sess'[g] = sess[g]
    BY <1>1, <1>2 DEF Return, Goto, TypeOK, Agents
  <1>5. "idle" \notin Assembled \union {"assemble"}
    BY DEF Assembled, Rejecting, Passed, Written
  <1>6. Sole'
    BY <1>4, <1>5, SoleStep DEF PInv
  <1>7. pc[h] \in Assembled \/ upload[sess[h]] = "aborted"
    BY DEF MarkCompleted, MarkAborted, LoadedActive, PInv, IInv, Progress, Assembled,
           Rejecting, Passed, Written
  <1>8. \A g \in Requests \ {h} : pc[g] \in Assembled => sess[g] # sess[h]
    BY <1>7 DEF PInv, Sole, IInv, Progress
  <1>9. PICK end \in {"completed", "aborted"} :
            /\ status' = [status EXCEPT ![sess[h]] = end]
            /\ aborted' = IF end = "aborted" THEN aborted \union {sess[h]} ELSE aborted
    BY DEF MarkCompleted, MarkAborted
  <1>10. \A s \in Sessions \ {sess[h]} : status'[s] = status[s]
    BY <1>1, <1>9 DEF TypeOK
  <1>11. sess[h] \in Sessions => status'[sess[h]] = end
    BY <1>1, <1>9 DEF TypeOK
  <1>12. ASSUME NEW g \in Requests \ {h}
         PROVE  Lasts(g)'
    <2>1. Lasts(g)
      BY DEF PInv, Lasting
    <2>2. CASE pc[g] \notin Assembled \union {"assemble"}
      BY <1>4, <2>2 DEF Lasts
    <2>3. CASE pc[g] \in Assembled \union {"assemble"}
      <3>1. sess[g] \in Sessions
        BY <1>1, <2>3 DEF TypeOK, Assembled, Rejecting, Passed, Written
      <3>2. CASE sess[g] # sess[h]
        BY <1>2, <1>4, <1>10, <2>1, <3>1, <3>2 DEF Lasts, ExpiredAt
      <3>3. CASE sess[g] = sess[h]
        BY <1>4, <1>8, <1>9, <1>11, <3>1, <3>3 DEF Lasts
      <3> QED
        BY <3>2, <3>3
    <2> QED
      BY <2>2, <2>3
  <1>13. Lasting'
    BY <1>4, <1>5, <1>12 DEF Lasting, Lasts
  <1>14. Overdue'
    BY <1>1, <1>2, <1>3, OverdueKept
  <1>15. Remembered'
    BY <1>9, <1>10, <1>11 DEF PInv, Remembered
  <1> QED
    BY <1>6, <1>13, <1>14, <1>15 DEF PInv

\* What a pass lists is due.
LEMMA PruneJobDue ==
    ASSUME PInv
    PROVE  Due(PruneJob)
  BY DEF PInv, WInv, Known, PruneJob, Recorded, Due

LEMMA PrunedSpares ==
    ASSUME TypeOK, NEW j \in Jobs, j.at <= now, Due(j), NEW s \in Sessions
    PROVE  Pruned(j)[s] = status[s] \/ ExpiredAt(s, now)
  <1>1. CASE s \in j.marks \union j.dels
    <2>1. expiresAt[s] <= j.at
      BY <1>1 DEF Due, ExpiredAt
    <2>2. expiresAt[s] \in Nat /\ j.at \in Nat /\ now \in Nat
      BY DEF TypeOK, Jobs
    <2> QED
      BY <2>1, <2>2 DEF ExpiredAt
  <1>2. CASE s \notin j.marks \union j.dels
    BY <1>2 DEF Pruned
  <1> QED
    BY <1>1, <1>2

LEMMA PassPInv ==
    ASSUME PInv, IInv', WInv',
           \/ \E h \in Requests : CreateCall(h) \/ CreatePruned(h)
                                    \/ LoadExpired(h) \/ LoadReleased(h)
                                    \/ GcExpired(h)
           \/ \E a \in Agents : ReleaseOne(a) \/ PruneDone(a)
           \/ AlarmFires
    PROVE  PInv'
  <1> USE DEF frame, store, r2, history
  <1>1. TypeOK /\ TypeOK'
    BY DEF PInv, IInv
  <1>2. UNCHANGED <<now, expiresAt, aborted>>
    BY DEF CreateCall, CreatePruned, CreateCommit, LoadExpired, LoadReleased,
           GcExpired, ReleaseOne, PruneDone, PruneCommit, AlarmFires
  <1>3. Timed
    BY <1>1, <1>2 DEF Timed, TypeOK
  <1>4. \A h \in Requests : Advances(h)
    <2>1. PruneCalls \union {"idle", "init.cleanup", "init.reply"} \subseteq Calm
      BY DEF Calm, Labels, PruneCalls, Assembled, Rejecting, Passed, Written
    <2>2. \/ UNCHANGED <<pc, sess>>
          \/ \E h \in Requests : Return(h)
          \/ /\ UNCHANGED sess
             /\ \E a \in Agents, label \in Calm : Goto(a, label)
      BY <2>1
      DEF CreateCall, CreatePruned, CreateCommit, LoadExpired, LoadReleased,
          GcExpired, ReleaseOne, PruneDone, PruneCommit, AlarmFires, PruneCalls,
          Agents
    <2>3. "idle" \in Calm
      BY <2>1
    <2> QED
      BY <1>1, <2>2, <2>3 DEF Advances, Return, Goto, TypeOK, Agents
  <1>5. \/ UNCHANGED status
        \/ \E j \in {PruneJob} \union {job[a] : a \in Agents} : status' = Pruned(j)
        \/ \E j \in {PruneJob} \union {job[a] : a \in Agents}, h \in Requests :
             status' = [Pruned(j) EXCEPT ![sess[h]] = "active"]
        \/ \E s \in Sessions :
             ExpiredAt(s, now) /\ status' = [status EXCEPT ![s] = "expired"]
    BY <1>1 DEF CreateCall, CreatePruned, CreateCommit, LoadExpired, LoadReleased,
           GcExpired, ReleaseOne, PruneDone, PruneCommit, AlarmFires, Agents, TypeOK,
           LoadCalls
  <1>6. \A j \in {PruneJob} \union {job[a] : a \in Agents} :
          j \in Jobs /\ j.at <= now /\ Due(j)
    <2>1. PruneJob \in Jobs /\ PruneJob.at <= now
      BY <1>1, PruneJobTyped DEF PruneJob, TypeOK
    <2>2. \A a \in Agents : job[a] \in Jobs /\ job[a].at <= now /\ Due(job[a])
      BY <1>1 DEF TypeOK, PInv, WInv, JobsPast, Overdue
    <2> QED
      BY <2>1, <2>2, PruneJobDue
  <1>7. \A j \in {PruneJob} \union {job[a] : a \in Agents} : \A s \in Sessions :
          Pruned(j)[s] = status[s] \/ ExpiredAt(s, now)
    BY <1>1, <1>6, PrunedSpares
  <1>8. \A j : DOMAIN Pruned(j) = Sessions
    BY DEF Pruned
  <1>9. Spared
    BY <1>1, <1>5, <1>7, <1>8 DEF Spared, TypeOK
  <1>10. Sole'
    BY <1>4, SoleStep, AdvancesAlone DEF PInv
  <1>11. Lasting'
    BY <1>1, <1>3, <1>4, <1>9, LastsStep DEF Lasting
  <1>12. \A s \in Sessions : status'[s] = "aborted" => status[s] = "aborted"
    <2>1. \A j : \A s \in Sessions : Pruned(j)[s] = "aborted" => status[s] = "aborted"
      BY DEF Pruned
    <2> QED
      BY <1>1, <1>5, <1>8, <2>1 DEF TypeOK
  <1>13. Remembered'
    BY <1>2, <1>12 DEF PInv, Remembered
  <1>14. \A s \in Sessions : upload[s] # "none" => upload'[s] # "none"
    <2>1. \/ UNCHANGED upload
          \/ \E s, u : u # "none" /\ upload' = [upload EXCEPT ![s] = u]
      BY DEF CreateCall, CreatePruned, CreateCommit, LoadExpired, LoadReleased,
             GcExpired, ReleaseOne, PruneDone, PruneCommit, AlarmFires
    <2> QED
      BY <1>1, <2>1, DrawnStays
  <1>15. \A a \in Agents :
           job'[a] \in Jobs /\ \A s \in job'[a].marks \union job'[a].dels :
             upload[s] # "none" /\ ExpiredAt(s, job'[a].at)
    <2>1. job \in [Agents -> Jobs] /\ job' \in [Agents -> Jobs]
      BY <1>1 DEF TypeOK
    <2>2. \/ UNCHANGED job
          \/ \E a \in Agents : job' = [job EXCEPT ![a] = NoJob]
          \/ \E a \in Agents : job' = [job EXCEPT ![a] = PruneJob]
          \/ \E a \in Agents, s \in Sessions : job' = [job EXCEPT ![a].todo = @ \ {s}]
          \/ \E h \in Requests :
               /\ status[sess[h]] # "none" /\ sess[h] \in Sessions
               /\ ExpiredAt(sess[h], now)
               /\ job' = [job EXCEPT ![h] = [at |-> now, todo |-> {sess[h]},
                                            marks |-> {sess[h]}, dels |-> {}]]
      BY <1>1
      DEF CreateCall, CreatePruned, CreateCommit, LoadExpired, LoadReleased,
             GcExpired, ReleaseOne, PruneDone, PruneCommit, AlarmFires, Agents,
             TypeOK, LoadCalls, Jobs
    <2>3. CASE UNCHANGED job
      BY <2>1, <2>3, <1>6 DEF Due
    <2>4. CASE \E a \in Agents : job' = [job EXCEPT ![a] = NoJob]
      BY <2>1, <2>4, <1>6 DEF NoJob, Due
    <2>5. CASE \E a \in Agents : job' = [job EXCEPT ![a] = PruneJob]
      BY <2>1, <2>5, <1>6 DEF Due
    <2>6. CASE \E a \in Agents, s \in Sessions : job' = [job EXCEPT ![a].todo = @ \ {s}]
      <3>1. PICK a \in Agents, s \in Sessions :
                job' = [job EXCEPT ![a] = [job[a] EXCEPT !.todo = @ \ {s}]]
        BY <2>6
      <3>2. /\ job'[a].at = job[a].at /\ job'[a].marks = job[a].marks
            /\ job'[a].dels = job[a].dels
            /\ \A b \in Agents : b # a => job'[b] = job[b]
        BY <2>1, <3>1 DEF Jobs
      <3> QED
        BY <2>1, <3>2, <1>6 DEF Due
    <2>7. CASE \E h \in Requests :
               /\ status[sess[h]] # "none" /\ sess[h] \in Sessions
               /\ ExpiredAt(sess[h], now)
               /\ job' = [job EXCEPT ![h] = [at |-> now, todo |-> {sess[h]},
                                            marks |-> {sess[h]}, dels |-> {}]]
      BY <2>1, <2>7, <1>6 DEF Due, PInv, WInv, Known
    <2> QED
      BY <2>2, <2>3, <2>4, <2>5, <2>6, <2>7
  <1>16. Overdue'
    BY <1>2, <1>14, <1>15 DEF Overdue, Due, ExpiredAt, Jobs
  <1> QED
    BY <1>10, <1>11, <1>13, <1>16 DEF PInv

\* The steps of a request before its assembly, of an abort up to its mark, and
\* of a request past its assembly up to its mark.
LEMMA RequestPInv ==
    ASSUME PInv, IInv', WInv', NEW h \in Requests,
           \/ UNCHANGED world /\ QuietStep(h) /\ ~CompleteGet(h)
           \/ \E s \in Sessions : InitBegin(h, s)
           \/ InitCleanup(h) \/ RejectDelete(h) \/ PromotePut(h) \/ PromoteClean(h)
           \/ AbortUpload(h)
    PROVE  PInv'
  <1> USE DEF world, frame, store, r2, history
  <1>1. TypeOK /\ TypeOK'
    BY DEF PInv, IInv
  <1>2. UNCHANGED <<now, status, job, aborted>>
    BY DEF InitBegin, InitCleanup, RejectDelete, PromotePut, PromoteClean, AbortUpload
  <1>3. \/ UNCHANGED expiresAt
        \/ \E s \in Sessions : \E t : upload[s] = "none" /\ expiresAt' = [expiresAt EXCEPT ![s] = t]
    BY DEF InitBegin, InitCleanup, RejectDelete, PromotePut, PromoteClean, AbortUpload
  <1>4. Timed
    BY <1>1, <1>2, <1>3 DEF Timed, TypeOK
  <1>5. \/ UNCHANGED upload
        \/ \E s, u : u # "none" /\ upload' = [upload EXCEPT ![s] = u]
    BY DEF InitBegin, InitCleanup, RejectDelete, PromotePut, PromoteClean, AbortUpload
  <1>6. \A s \in Sessions : upload[s] # "none" => upload'[s] # "none"
    BY <1>1, <1>5, DrawnStays
  <1>7. \/ Return(h)
        \/ /\ \A g \in Requests : g # h => sess'[g] = sess[g]
           /\ \E label \in Calm : Goto(h, label)
        \/ /\ pc[h] \in Assembled /\ UNCHANGED sess
           /\ \E label \in Assembled : Goto(h, label)
    <2>1. {"idle", "create", "init.cleanup", "init.reply", "abort.r2", "abort.mark",
           "sign.get", "sign.record", "complete.get", "abort.get"} \subseteq Calm
      BY DEF Calm, Labels, LoadCalls, Assembled, Rejecting, Passed, Written
    <2>2. Assembled = {"validate", "reject.delete", "reject.mark", "promote.read", "promote.put",
                       "promote.clean", "complete.mark"}
      BY DEF Assembled, Rejecting, Passed, Written
    <2> QED
      BY <1>1, <2>1, <2>2
      DEF QuietStep, InitReply, CreateCallLost, LoadRefused, SignGet, SignRecord,
          AssembleRefused, Validate, PromoteRead, AbortGet,
          RequestDies, SignPart, Complete, Abort, RequestBegin, InitBegin, InitCleanup,
          RejectDelete, PromotePut, PromoteClean, AbortUpload, TypeOK
  <1>8. "idle" \in Calm
    BY DEF Calm, Labels, Assembled, Rejecting, Passed, Written
  <1>9. \A g \in Requests : Advances(g)
    BY <1>1, <1>7, <1>8 DEF Advances, Return, Goto, TypeOK, Agents
  <1> QED
    BY <1>2, <1>4, <1>6, <1>9, QuietPInv

LEMMA EnvironmentPInv ==
    ASSUME PInv, IInv', WInv', Reset \/ Tick \/ UNCHANGED vars
    PROVE  PInv'
  <1>1. TypeOK /\ TypeOK'
    BY DEF PInv, IInv
  <1>2. UNCHANGED <<status, upload, expiresAt, aborted>> /\ now <= now'
    BY <1>1 DEF Reset, Tick, vars, world, frame, store, r2, history, TypeOK
  <1>3. Timed /\ Spared
    BY <1>2 DEF Timed, Spared
  <1>4. \A h \in Requests : Advances(h)
    BY <1>1 DEF Reset, Tick, vars, Advances, Calm, Labels, PruneCalls, Agents, TypeOK,
                Assembled, Rejecting, Passed, Written
  <1>5. Sole'
    BY <1>4, SoleStep, AdvancesAlone DEF PInv
  <1>6. Lasting'
    BY <1>1, <1>3, <1>4, LastsStep DEF Lasting
  <1>7. \A a \in Agents : job'[a] = job[a] \/ job'[a] = NoJob
    BY DEF Reset, Tick, vars, world
  <1>8. Overdue'
    BY <1>2, <1>7 DEF PInv, Overdue, Due, NoJob, ExpiredAt
  <1>9. Remembered'
    BY <1>2 DEF PInv, Remembered
  <1> QED
    BY <1>5, <1>6, <1>8, <1>9 DEF PInv

LEMMA InitPInv ==
    ASSUME ConstantsAssumption, Init
    PROVE  PInv
  <1>1. IInv /\ WInv
    BY InitIInv, InitWInv
  <1>2. \A h \in Requests : pc[h] \notin Assembled \union {"assemble"}
    BY DEF Init, Agents, Assembled, Rejecting, Passed, Written
  <1>3. Sole /\ Lasting
    BY <1>2 DEF Sole, Lasting, Lasts
  <1>4. Overdue /\ Remembered
    BY DEF Init, Overdue, Due, NoJob, Remembered
  <1> QED
    BY <1>1, <1>3, <1>4 DEF PInv

LEMMA NextPInv ==
    ASSUME ConstantsAssumption, PInv, [Next]_vars
    PROVE  PInv'
  <1>1. IInv' /\ WInv'
    BY NextIInv, NextWInv DEF PInv
  <1>2. ASSUME NEW h \in Requests,
               Client(h) \/ RequestStep(h) \/ CreateCallLost(h) \/ RequestDies(h)
        PROVE  PInv'
    <2>1. \/ UNCHANGED world /\ QuietStep(h) /\ ~CompleteGet(h)
          \/ CompleteGet(h) \/ CreateCall(h) \/ CreatePruned(h)
          \/ \E s \in Sessions : InitBegin(h, s)
          \/ InitCleanup(h) \/ Assemble(h) \/ RejectDelete(h)
          \/ PromotePut(h) \/ PromoteClean(h) \/ AbortUpload(h)
          \/ MarkCompleted(h) \/ MarkAborted(h)
          \/ LoadExpired(h) \/ LoadReleased(h) \/ GcExpired(h)
      BY <1>2
      DEF QuietStep, Client, RequestStep, CreateCallLost, RequestDies, SignPart,
          Complete, Abort, RequestBegin, InitReply, LoadRefused, SignGet,
          SignRecord, AssembleRefused, Validate, PromoteRead, AbortGet
    <2> QED
      BY <1>1, <2>1, RequestPInv, PassPInv, CompleteGetPInv, AssemblePInv, MarkPInv
  <1> QED
    BY <1>1, <1>2, PassPInv, EnvironmentPInv DEF Next, AgentStep

\* Two completions write one key at once only after a session of theirs has
\* expired: the record of a promotion lasts until then (promoteObject in POST
\* /upload/complete).
THEOREM PromotionsHold == Spec => []PromotionsDoNotRace
  <1>1. Init => PInv
    BY InitPInv, ConstantsAssumption
  <1>2. PInv /\ [Next]_vars => PInv'
    BY NextPInv, ConstantsAssumption
  <1>3. PInv => PromotionsDoNotRace
    <2> SUFFICES ASSUME PInv, NEW h \in Requests, NEW g \in Requests, h # g,
                        Promoting(h), Promoting(g), ObjectKey[sess[h]] = ObjectKey[sess[g]],
                        ~ExpiredAt(sess[h], now), ~ExpiredAt(sess[g], now)
                 PROVE  FALSE
      BY DEF PromotionsDoNotRace
    <2>1. pc[h] \in Assembled /\ pc[g] \in Assembled
      BY DEF Promoting, Assembled, Passed
    <2>2. sess[h] \in Sessions /\ sess[g] \in Sessions
      BY DEF Promoting, PInv, IInv, TypeOK
    <2>3. status[sess[h]] = "active" /\ status[sess[g]] = "active"
      BY <2>1 DEF PInv, Lasting, Lasts
    <2>4. sess[h] = sess[g]
      BY <2>2, <2>3 DEF PInv, WInv, OneWriterPerKey, ActiveAt
    <2> QED
      BY <2>1, <2>4 DEF PInv, Sole
  <1> QED
    BY <1>1, <1>2, <1>3, PTL DEF Spec

-----------------------------------------------------------------------------
(* What passes write back.                                                 *)

Unexpired == {"active", "completed", "aborted"}

Creating(h) == pc[h] \in {"create", "create.prune"}

\* Nothing that is still to be marked outlives its retention.
Fresh == \A s \in Sessions : Unsettled(s) => now < expiresAt[s] + Retention

\* What a pass will mark is still stored.
Alive == \A a \in Agents : \A s \in job[a].marks : status[s] # "none"

\* What a pass will delete is past its retention.
Outlived == \A a \in Agents : \A s \in job[a].dels : expiresAt[s] + Retention <= now

\* A session is created by the one request that drew it.
Unborn == \A h \in Requests : Creating(h) => status[sess[h]] = "none"

Own == \A g, h \in Requests : Creating(g) /\ Creating(h) /\ sess[g] = sess[h] => g = h

MInv == PInv /\ Fresh /\ Alive /\ Outlived /\ Unborn /\ Own

\* How a record may change.
Created(s) ==
    /\ status[s] = "none" /\ status'[s] = "active"
    /\ \E h \in Requests :
         Creating(h) /\ sess[h] = s /\ pc'[h] \notin {"create", "create.prune"}

Marked(s) == status[s] = "active" /\ status'[s] \in {"completed", "aborted"}

Ended(s) == status[s] \in Unexpired /\ status'[s] = "expired"

Deleted(s) ==
    status[s] = "expired" /\ status'[s] = "none" /\ expiresAt[s] + Retention <= now

Changes(s) == status'[s] = status[s] \/ Created(s) \/ Marked(s) \/ Ended(s) \/ Deleted(s)

Moving == \A s \in Sessions : Changes(s)

\* What a pass may newly list.
Lists ==
    \A a \in Agents :
        /\ \A s \in job'[a].marks :
             s \in job[a].marks \/ (status[s] \in Unexpired /\ status'[s] = status[s])
        /\ \A s \in job'[a].dels :
             s \in job[a].dels \/ (upload[s] # "none" /\ expiresAt[s] + Retention <= now)

\* No request begins to create.
NoneBegins ==
    \A h \in Requests :
        pc'[h] \in {"create", "create.prune"} => Creating(h) /\ sess'[h] = sess[h]

LEMMA FreshStep ==
    ASSUME MInv, Moving, Lists, NoneBegins, UNCHANGED <<now, expiresAt>>
    PROVE  Fresh'
  <1>1. ASSUME NEW s \in Sessions, Unsettled(s)'
        PROVE  Unsettled(s)
    <2>1. CASE status'[s] \in Unexpired
      <3>1. Changes(s)
        BY DEF Moving
      <3>2. status[s] \in Unexpired \/ Created(s)
        BY <2>1, <3>1 DEF Changes, Marked, Ended, Deleted, Unexpired
      <3> QED
        BY <3>2 DEF Created, Creating, Unsettled, Unexpired
    <2>2. CASE \E a \in Agents : s \in job'[a].marks
      BY <2>2 DEF Lists, Unsettled, Unexpired
    <2>3. CASE \E h \in Requests : sess'[h] = s /\ pc'[h] \in {"create", "create.prune"}
      BY <2>3 DEF NoneBegins, Unsettled, Creating
    <2> QED
      BY <1>1, <2>1, <2>2, <2>3 DEF Unsettled, Unexpired
  <1> QED
    BY <1>1 DEF Fresh, MInv

LEMMA AliveStep ==
    ASSUME ConstantsAssumption, MInv, TypeOK', Moving, Lists
    PROVE  Alive'
  <1>1. ASSUME NEW a \in Agents, NEW s \in job'[a].marks, status'[s] = "none"
        PROVE  FALSE
    <2>1. s \in Sessions
      BY <1>1 DEF TypeOK, Jobs
    <2>2. s \in job[a].marks
      BY <1>1 DEF Lists, Unexpired
    <2>3. status[s] # "none" /\ Unsettled(s)
      BY <2>2 DEF MInv, Alive, Unsettled
    <2>4. now < expiresAt[s] + Retention
      BY <2>1, <2>3 DEF MInv, Fresh
    <2>5. now \in Nat /\ expiresAt[s] \in Nat /\ Retention \in Nat
      BY <2>1 DEF MInv, PInv, IInv, TypeOK, ConstantsAssumption
    <2>6. ~Deleted(s)
      BY <2>4, <2>5 DEF Deleted
    <2> QED
      BY <1>1, <2>1, <2>3, <2>6 DEF Moving, Changes, Created, Marked, Ended
  <1> QED
    BY <1>1 DEF Alive

LEMMA OutlivedStep ==
    ASSUME ConstantsAssumption, MInv, TypeOK', Lists, Timed
    PROVE  Outlived'
  <1>1. ASSUME NEW a \in Agents, NEW s \in job'[a].dels
        PROVE  expiresAt'[s] + Retention <= now'
    <2>1. s \in Sessions
      BY <1>1 DEF TypeOK, Jobs
    <2>2. upload[s] # "none" /\ expiresAt[s] + Retention <= now
      BY <1>1 DEF Lists, MInv, Outlived, PInv, Overdue, Due
    <2>3. expiresAt'[s] = expiresAt[s]
      BY <2>1, <2>2 DEF Timed
    <2>4. /\ now \in Nat /\ now' \in Nat /\ expiresAt[s] \in Nat /\ Retention \in Nat
          /\ now <= now'
      BY <2>1 DEF MInv, PInv, IInv, TypeOK, ConstantsAssumption, Timed
    <2> QED
      BY <2>2, <2>3, <2>4
  <1> QED
    BY <1>1 DEF Outlived

LEMMA OwnStep ==
    ASSUME MInv, NoneBegins
    PROVE  Own'
  BY DEF MInv, Own, NoneBegins, Creating

LEMMA UnbornStep ==
    ASSUME MInv, Moving, NoneBegins
    PROVE  Unborn'
  <1>1. ASSUME NEW h \in Requests, pc'[h] \in {"create", "create.prune"}
        PROVE  status'[sess'[h]] = "none"
    <2>1. Creating(h) /\ sess'[h] = sess[h]
      BY <1>1 DEF NoneBegins
    <2>2. sess[h] \in Sessions /\ status[sess[h]] = "none"
      BY <2>1 DEF MInv, PInv, IInv, TypeOK, Unborn, Creating
    <2>3. ~Created(sess[h])
      BY <1>1, <2>1 DEF Created, MInv, Own
    <2> QED
      BY <2>1, <2>2, <2>3 DEF Moving, Changes, Marked, Ended, Deleted, Unexpired
  <1> QED
    BY <1>1 DEF Unborn, Creating

\* Everything that a step of these forms preserves.
LEMMA MovingStep ==
    ASSUME ConstantsAssumption, MInv, PInv', Moving, Lists, NoneBegins,
           UNCHANGED <<now, expiresAt>>
    PROVE  MInv'
  <1>1. TypeOK' /\ TypeOK
    BY DEF MInv, PInv, IInv
  <1>2. Timed
    BY <1>1 DEF Timed, TypeOK
  <1> QED
    BY <1>1, <1>2, FreshStep, AliveStep, OutlivedStep, OwnStep, UnbornStep DEF MInv

-----------------------------------------------------------------------------
(* The forms of the steps.                                                 *)

\* What an agent's pass may write now.
Listings == {PruneJob} \union {job[a] : a \in Agents}

\* The record of a request that creates is stored as active.
CreatedFrom(j, h) ==
    /\ Creating(h)
    /\ Goto(h, "init.reply")
    /\ status' = [Pruned(j) EXCEPT ![sess[h]] = "active"]

LEMMA ListingsDue ==
    ASSUME ConstantsAssumption, MInv, NEW j \in Listings
    PROVE  /\ j \in Jobs
           /\ \A s \in j.marks : status[s] # "none"
           /\ \A s \in j.dels : expiresAt[s] + Retention <= now
  <1>1. PruneJob \in Jobs /\ \A a \in Agents : job[a] \in Jobs
    BY PruneJobTyped DEF MInv, PInv, IInv, TypeOK
  <1>2. CASE j = PruneJob
    BY <1>1, <1>2 DEF PruneJob, Recorded
  <1>3. CASE \E a \in Agents : j = job[a]
    BY <1>1, <1>3 DEF MInv, Alive, Outlived
  <1> QED
    BY <1>2, <1>3 DEF Listings

\* What a pass writes moves every record forward.
LEMMA PrunedMoves ==
    ASSUME ConstantsAssumption, MInv, NEW j \in Listings, NEW s \in Sessions
    PROVE  \/ Pruned(j)[s] = status[s]
           \/ status[s] \in Unexpired /\ Pruned(j)[s] = "expired"
           \/ status[s] = "expired" /\ Pruned(j)[s] = "none" /\ expiresAt[s] + Retention <= now
  <1>1. status[s] \in {"none", "expired"} \union Unexpired
    BY DEF MInv, PInv, IInv, TypeOK, Statuses, Unexpired
  <1>2. CASE s \in j.dels
    <2>1. expiresAt[s] + Retention <= now
      BY <1>2, ListingsDue
    <2>2. now \in Nat /\ expiresAt[s] \in Nat /\ Retention \in Nat
      BY DEF MInv, PInv, IInv, TypeOK, ConstantsAssumption
    <2>3. ~Unsettled(s)
      BY <2>1, <2>2 DEF MInv, Fresh
    <2>4. status[s] \notin Unexpired
      BY <2>3 DEF Unsettled, Unexpired
    <2> QED
      BY <1>1, <1>2, <2>1, <2>4 DEF Pruned
  <1>3. CASE s \in j.marks /\ s \notin j.dels
    <2>1. status[s] # "none"
      BY <1>3, ListingsDue
    <2> QED
      BY <1>1, <1>3, <2>1 DEF Pruned
  <1>4. CASE s \notin j.marks \union j.dels
    BY <1>4 DEF Pruned
  <1> QED
    BY <1>2, <1>3, <1>4

LEMMA CreatedMoves ==
    ASSUME ConstantsAssumption, MInv, NEW j \in Listings, NEW h \in Requests, CreatedFrom(j, h),
           NEW s \in Sessions
    PROVE  Changes(s)
  <1>1. DOMAIN Pruned(j) = Sessions
    BY DEF Pruned
  <1>2. CASE s = sess[h]
    <2>1. status[s] = "none" /\ status'[s] = "active"
      BY <1>1, <1>2 DEF CreatedFrom, MInv, Unborn
    <2>2. pc'[h] = "init.reply"
      BY DEF CreatedFrom, Goto, MInv, PInv, IInv, TypeOK, Agents
    <2> QED
      BY <1>2, <2>1, <2>2 DEF CreatedFrom, Changes, Created
  <1>3. CASE s # sess[h]
    <2>1. status'[s] = Pruned(j)[s]
      BY <1>1, <1>3 DEF CreatedFrom
    <2> QED
      BY <2>1, PrunedMoves DEF Changes, Ended, Deleted
  <1> QED
    BY <1>2, <1>3

PassStep ==
    \/ \E h \in Requests : CreateCall(h) \/ CreatePruned(h) \/ LoadExpired(h)
                             \/ LoadReleased(h) \/ GcExpired(h)
    \/ \E a \in Agents : ReleaseOne(a) \/ PruneDone(a)
    \/ AlarmFires

\* What a pass does to the records.
LEMMA PassWrites ==
    ASSUME MInv, PassStep
    PROVE  \/ UNCHANGED status
           \/ \E j \in Listings : status' = Pruned(j)
           \/ \E j \in Listings, h \in Requests : CreatedFrom(j, h)
           \/ \E s \in Sessions : /\ status[s] \in Unexpired \union {"expired"}
                                  /\ status' = [status EXCEPT ![s] = "expired"]
  BY DEF PassStep, CreateCall, CreatePruned, CreateCommit, LoadExpired, LoadReleased, GcExpired,
         ReleaseOne, PruneDone, PruneCommit, AlarmFires, Agents, LoadCalls, Listings, CreatedFrom,
         Creating, store, MInv, PInv, IInv, TypeOK, Statuses, Unexpired

LEMMA PassMoves ==
    ASSUME ConstantsAssumption, MInv, PassStep
    PROVE  Moving
  <1>1. CASE UNCHANGED status
    BY <1>1 DEF Moving, Changes
  <1>2. CASE \E j \in Listings : status' = Pruned(j)
    BY <1>2, PrunedMoves DEF Moving, Changes, Ended, Deleted
  <1>3. CASE \E j \in Listings, h \in Requests : CreatedFrom(j, h)
    BY <1>3, CreatedMoves DEF Moving
  <1>4. CASE \E s \in Sessions : /\ status[s] \in Unexpired \union {"expired"}
                                 /\ status' = [status EXCEPT ![s] = "expired"]
    BY <1>4 DEF Moving, Changes, Ended, MInv, PInv, IInv, TypeOK
  <1> QED
    BY <1>1, <1>2, <1>3, <1>4, PassWrites

\* What a pass does to the listings; one that begins writes no record.
LEMMA PassLists ==
    ASSUME MInv, PassStep
    PROVE  \/ UNCHANGED job
           \/ \E a \in Agents : job' = [job EXCEPT ![a] = NoJob]
           \/ UNCHANGED status /\ \E a \in Agents : job' = [job EXCEPT ![a] = PruneJob]
           \/ \E a \in Agents, s \in Sessions : job' = [job EXCEPT ![a].todo = @ \ {s}]
           \/ /\ UNCHANGED status
              /\ \E h \in Requests :
                   /\ status[sess[h]] = "active" /\ sess[h] \in Sessions
                   /\ job' = [job EXCEPT ![h] = [at |-> now, todo |-> {sess[h]},
                                                marks |-> {sess[h]}, dels |-> {}]]
  BY DEF PassStep, CreateCall, CreatePruned, CreateCommit, LoadExpired, LoadReleased, GcExpired,
         ReleaseOne, PruneDone, PruneCommit, AlarmFires, Agents, LoadCalls, InFlight,
         store, MInv, PInv, IInv, TypeOK, Jobs

LEMMA PassKeepsLists ==
    ASSUME ConstantsAssumption, MInv, PassStep
    PROVE  Lists
  <1>1. job \in [Agents -> Jobs]
    BY DEF MInv, PInv, IInv, TypeOK
  <1>2. CASE UNCHANGED job
    BY <1>2 DEF Lists
  <1>3. CASE \E a \in Agents : job' = [job EXCEPT ![a] = NoJob]
    BY <1>1, <1>3 DEF Lists, NoJob
  <1>4. CASE UNCHANGED status /\ \E a \in Agents : job' = [job EXCEPT ![a] = PruneJob]
    <2>1. \A s \in PruneJob.marks : status[s] \in Unexpired
      BY DEF PruneJob, Recorded, MInv, PInv, IInv, TypeOK, Statuses, Unexpired
    <2>2. \A s \in PruneJob.dels : upload[s] # "none" /\ expiresAt[s] + Retention <= now
      BY DEF PruneJob, Recorded, MInv, PInv, WInv, Known
    <2> QED
      BY <1>1, <1>4, <2>1, <2>2 DEF Lists
  <1>5. CASE \E a \in Agents, s \in Sessions : job' = [job EXCEPT ![a].todo = @ \ {s}]
    <2>1. PICK a \in Agents, s \in Sessions :
              job' = [job EXCEPT ![a] = [job[a] EXCEPT !.todo = @ \ {s}]]
      BY <1>5
    <2>2. /\ job'[a].marks = job[a].marks /\ job'[a].dels = job[a].dels
          /\ \A b \in Agents : b # a => job'[b] = job[b]
      BY <1>1, <2>1 DEF Jobs
    <2> QED
      BY <2>2 DEF Lists
  <1>6. CASE /\ UNCHANGED status
             /\ \E h \in Requests :
                  /\ status[sess[h]] = "active" /\ sess[h] \in Sessions
                  /\ job' = [job EXCEPT ![h] = [at |-> now, todo |-> {sess[h]},
                                               marks |-> {sess[h]}, dels |-> {}]]
    BY <1>1, <1>6 DEF Lists, Unexpired
  <1> QED
    BY <1>2, <1>3, <1>4, <1>5, <1>6, PassLists

LEMMA PassBeginsNone ==
    ASSUME MInv, PassStep
    PROVE  NoneBegins
  <1>1. ASSUME NEW a \in Agents, NEW label, Goto(a, label), UNCHANGED sess,
               label \in {"create", "create.prune"} => pc[a] = "create"
        PROVE  NoneBegins
    BY <1>1 DEF NoneBegins, Creating, Goto, MInv, PInv, IInv, TypeOK, Agents
  <1>2. ASSUME NEW h \in Requests, Return(h)
        PROVE  NoneBegins
    BY <1>2 DEF NoneBegins, Creating, Return, Goto, MInv, PInv, IInv, TypeOK, Agents
  <1>3. CASE \E h \in Requests : CreateCall(h) \/ CreatePruned(h)
    BY <1>1, <1>3 DEF CreateCall, CreatePruned, CreateCommit, Agents
  <1>4. CASE \E h \in Requests : LoadExpired(h) \/ LoadReleased(h)
    BY <1>1, <1>2, <1>4 DEF LoadExpired, LoadReleased, Agents
  <1>5. CASE \E h \in Requests : GcExpired(h)
    BY <1>1, <1>5 DEF GcExpired, PruneCommit, Agents
  <1>6. CASE \E a \in Agents : ReleaseOne(a)
    BY <1>6 DEF ReleaseOne, NoneBegins, Creating
  <1>7. CASE \E a \in Agents : PruneDone(a)
    BY <1>1, <1>7 DEF PruneDone, PruneCommit
  <1>8. CASE AlarmFires
    BY <1>1, <1>8 DEF AlarmFires, PruneCommit, Agents
  <1> QED
    BY <1>3, <1>4, <1>5, <1>6, <1>7, <1>8 DEF PassStep

\* Steps of requests on R2 and on their own records.
RequestMoves(h) ==
    \/ UNCHANGED world /\ QuietStep(h)
    \/ InitCleanup(h) \/ Assemble(h) \/ RejectDelete(h) \/ PromotePut(h) \/ PromoteClean(h)
    \/ MarkCompleted(h) \/ AbortUpload(h) \/ MarkAborted(h)

LEMMA RequestBeginsNone ==
    ASSUME TypeOK, NEW h \in Requests, RequestMoves(h)
    PROVE  NoneBegins
  <1>1. \/ Return(h)
        \/ /\ \A g \in Requests : g # h => sess'[g] = sess[g]
           /\ \E label : label \notin {"create", "create.prune"} /\ Goto(h, label)
    BY DEF RequestMoves, InitCleanup, Assemble, RejectDelete, PromotePut, PromoteClean,
           MarkCompleted, AbortUpload, MarkAborted,
           QuietStep, InitReply, CreateCallLost, LoadRefused, SignGet, SignRecord,
           CompleteGet, AssembleRefused, Validate, PromoteRead, AbortGet,
           RequestDies, SignPart, Complete, Abort, RequestBegin, TypeOK
  <1> QED
    BY <1>1 DEF NoneBegins, Creating, Return, Goto, TypeOK, Agents

LEMMA RequestMInv ==
    ASSUME ConstantsAssumption, MInv, PInv', NEW h \in Requests, RequestMoves(h)
    PROVE  MInv' /\ Moving
  <1> USE DEF world, frame, store, r2, history
  <1>1. UNCHANGED <<now, expiresAt, job>>
    BY DEF RequestMoves, InitCleanup, Assemble, RejectDelete, PromotePut, PromoteClean,
           MarkCompleted, AbortUpload, MarkAborted
  <1>2. \/ UNCHANGED status
        \/ /\ status[sess[h]] = "active"
           /\ \E end \in {"completed", "aborted"} :
                status' = [status EXCEPT ![sess[h]] = end]
    BY DEF RequestMoves, InitCleanup, Assemble, RejectDelete, PromotePut, PromoteClean,
           MarkCompleted, AbortUpload, MarkAborted, LoadedActive
  <1>3. Moving
    BY <1>2 DEF Moving, Changes, Marked, MInv, PInv, IInv, TypeOK
  <1>4. Lists
    BY <1>1 DEF Lists
  <1>5. NoneBegins
    BY RequestBeginsNone DEF MInv, PInv, IInv
  <1> QED
    BY <1>1, <1>3, <1>4, <1>5, MovingStep

LEMMA InitBeginMInv ==
    ASSUME ConstantsAssumption, MInv, PInv', NEW h \in Requests, NEW s \in Sessions,
           InitBegin(h, s)
    PROVE  MInv' /\ Moving
  <1> USE DEF store
  <1>1. TypeOK /\ TypeOK'
    BY DEF MInv, PInv, IInv
  <1>2. UNCHANGED <<now, status, job>> /\ upload[s] = "none"
    BY DEF InitBegin
  <1>3. Moving /\ Lists
    BY <1>2 DEF Moving, Changes, Lists
  <1>4. Timed
    BY <1>1 DEF InitBegin, Timed, TypeOK
  <1>5. /\ pc'[h] = "create" /\ sess'[h] = s
        /\ \A g \in Requests \ {h} : pc'[g] = pc[g] /\ sess'[g] = sess[g]
    BY <1>1 DEF InitBegin, Goto, TypeOK, Agents
  <1>6. status[s] = "none"
    BY <1>2 DEF MInv, PInv, WInv, Known
  <1>7. \A g \in Requests : Creating(g) => sess[g] # s
    BY <1>2 DEF MInv, PInv, WInv, Known, Creating
  <1>8. Own'
    BY <1>5, <1>7 DEF MInv, Own, Creating
  <1>9. Unborn'
    BY <1>2, <1>5, <1>6 DEF MInv, Unborn, Creating
  <1>10. Fresh'
    <2>1. ASSUME NEW t \in Sessions \ {s}, Unsettled(t)'
          PROVE  now' < expiresAt'[t] + Retention
      <3>1. Unsettled(t)
        BY <1>2, <1>5, <2>1 DEF Unsettled
      <3>2. expiresAt'[t] = expiresAt[t]
        BY <1>1 DEF InitBegin, TypeOK
      <3> QED
        BY <1>2, <3>1, <3>2 DEF MInv, Fresh
    <2>2. now' < expiresAt'[s] + Retention
      BY <1>1, <1>2 DEF InitBegin, TypeOK, ConstantsAssumption
    <2> QED
      BY <2>1, <2>2 DEF Fresh
  <1> QED
    BY <1>1, <1>3, <1>4, <1>8, <1>9, <1>10, AliveStep, OutlivedStep DEF MInv

LEMMA EnvironmentMInv ==
    ASSUME ConstantsAssumption, MInv, PInv', Reset \/ Tick \/ UNCHANGED vars
    PROVE  MInv' /\ Moving
  <1> USE DEF world, frame, store, r2, history
  <1>1. UNCHANGED <<status, expiresAt>>
    BY DEF Reset, Tick, vars
  <1>2. Moving
    BY <1>1 DEF Moving, Changes
  <1>3. CASE Reset \/ UNCHANGED vars
    <2>1. UNCHANGED now
      BY <1>3 DEF Reset, vars
    <2>2. \A a \in Agents : job'[a] = job[a] \/ job'[a] = NoJob
      BY <1>3 DEF Reset, vars
    <2>3. Lists
      BY <2>2 DEF Lists, NoJob
    <2>4. NoneBegins
      BY <1>3 DEF Reset, vars, NoneBegins, Creating, PruneCalls, Agents
    <2> QED
      BY <1>1, <1>2, <2>1, <2>3, <2>4, MovingStep
  <1>4. CASE Tick
    <2>1. TypeOK /\ TypeOK'
      BY DEF MInv, PInv, IInv
    <2>2. UNCHANGED <<pc, sess, job, upload>> /\ now' = now + 1
      BY <1>4 DEF Tick
    <2>3. Timed
      BY <1>1, <2>1, <2>2 DEF Timed, TypeOK
    <2>4. Lists
      BY <2>2 DEF Lists
    <2>5. \A s \in Sessions : Unsettled(s)' => Unsettled(s)
      BY <1>1, <2>2 DEF Unsettled
    <2>6. Fresh'
      BY <1>1, <1>4, <2>2, <2>5 DEF Tick, Prompt, Fresh
    <2>7. Own' /\ Unborn'
      BY <1>1, <2>2 DEF MInv, Own, Unborn, Creating
    <2> QED
      BY <1>2, <2>1, <2>3, <2>4, <2>6, <2>7, AliveStep, OutlivedStep DEF MInv
  <1> QED
    BY <1>3, <1>4

LEMMA InitMInv ==
    ASSUME ConstantsAssumption, Init
    PROVE  MInv
  <1>1. \A h \in Requests : ~Creating(h)
    BY DEF Init, Agents, Creating
  <1>2. \A s \in Sessions : ~Unsettled(s)
    BY DEF Init, Agents, Unsettled, NoJob
  <1>3. Fresh /\ Unborn /\ Own
    BY <1>1, <1>2 DEF Fresh, Unborn, Own
  <1>4. Alive /\ Outlived
    BY DEF Init, Alive, Outlived, NoJob
  <1> QED
    BY <1>3, <1>4, InitPInv DEF MInv

LEMMA NextForms ==
    ASSUME [Next]_vars
    PROVE  \/ PassStep
           \/ \E h \in Requests : RequestMoves(h)
           \/ \E h \in Requests, s \in Sessions : InitBegin(h, s)
           \/ Reset \/ Tick \/ UNCHANGED vars
  <1>1. ASSUME NEW h \in Requests,
               Client(h) \/ RequestStep(h) \/ CreateCallLost(h) \/ RequestDies(h)
        PROVE  RequestMoves(h) \/ PassStep \/ \E s \in Sessions : InitBegin(h, s)
    BY <1>1
    DEF RequestMoves, PassStep, QuietStep, Client, RequestStep, CreateCallLost, RequestDies,
        SignPart, Complete, Abort, RequestBegin, InitReply, LoadRefused, SignGet,
        SignRecord, CompleteGet, AssembleRefused, Validate, PromoteRead, AbortGet
  <1> QED
    BY <1>1 DEF Next, AgentStep, PassStep

LEMMA NextMInv ==
    ASSUME ConstantsAssumption, MInv, [Next]_vars
    PROVE  MInv' /\ Moving
  <1>1. PInv'
    BY NextPInv DEF MInv
  <1>2. CASE PassStep
    <2>1. UNCHANGED <<now, expiresAt>>
      BY <1>2 DEF PassStep, CreateCall, CreatePruned, CreateCommit, LoadExpired, LoadReleased,
         GcExpired, ReleaseOne, PruneDone, PruneCommit, AlarmFires, frame
    <2> QED
      BY <1>1, <1>2, <2>1, MovingStep, PassMoves, PassKeepsLists, PassBeginsNone
  <1> QED
    BY <1>1, <1>2, NextForms, RequestMInv, InitBeginMInv, EnvironmentMInv

\* The invariant of what passes write holds in every state: nothing to be marked
\* outlives its retention while every pass is over in time (pruneExpiredSessions).
THEOREM PassesInductive == Spec => []MInv
  <1>1. Init => MInv
    BY InitMInv, ConstantsAssumption
  <1>2. MInv /\ [Next]_vars => MInv'
    BY NextMInv, ConstantsAssumption
  <1> QED
    BY <1>1, <1>2, PTL DEF Spec

\* A pass that writes back what it listed before it gave way never moves a record
\* back, nor brings back one that is gone (pruneExpiredSessions, loadSession).
THEOREM ForwardHolds == Spec => StatusForward
  <1>1. MInv /\ [Next]_vars =>
          [\A s \in Sessions :
             \/ status'[s] = status[s]
             \/ status[s] = "none" /\ status'[s] = "active" /\ upload[s] # "none"
             \/ status[s] = "active" /\ status'[s] \in {"completed", "aborted"}
             \/ status[s] \in {"active", "completed", "aborted"} /\ status'[s] = "expired"
             \/ status[s] = "expired" /\ status'[s] = "none"]_status
    <2> SUFFICES ASSUME MInv, [Next]_vars, NEW s \in Sessions
                 PROVE  \/ status'[s] = status[s]
                        \/ status[s] = "none" /\ status'[s] = "active" /\ upload[s] # "none"
                        \/ status[s] = "active" /\ status'[s] \in {"completed", "aborted"}
                        \/ status[s] \in {"active", "completed", "aborted"}
                             /\ status'[s] = "expired"
                        \/ status[s] = "expired" /\ status'[s] = "none"
      OBVIOUS
    <2>1. Changes(s)
      BY NextMInv, ConstantsAssumption DEF Moving
    <2>2. Created(s) => upload[s] # "none"
      BY DEF Created, Creating, MInv, PInv, WInv, Known
    <2> QED
      BY <2>1, <2>2 DEF Changes, Created, Marked, Ended, Deleted, Unexpired
  <1> QED
    BY <1>1, PassesInductive, PTL DEF Spec, StatusForward

-----------------------------------------------------------------------------
(* The alarm.                                                              *)

\* The next alarm is no later than anything that must happen.
LEMMA NextAlarmCovers ==
    ASSUME ConstantsAssumption, TypeOK, NEW st \in [Sessions -> Statuses], Recorded(st) # {}
    PROVE  /\ NextAlarm(st) # NoAlarm
           /\ \A s \in Recorded(st) : NextAlarm(st) <= NextEvent(st, s)
  <1> DEFINE events == {NextEvent(st, s) : s \in Recorded(st)}
  <1>1. \A s \in Recorded(st) : NextEvent(st, s) \in Nat
    BY DEF Recorded, NextEvent, TypeOK, ConstantsAssumption
  <1>2. events \in SUBSET Nat /\ events # {}
    BY <1>1
  <1>3. Min(events) \in Nat /\ \A e \in events : Min(events) <= e
    BY <1>2, MinOfNats
  <1>4. NextAlarm(st) = Min(events)
    BY DEF NextAlarm
  <1>5. \A s \in Recorded(st) : NextEvent(st, s) \in events
    OBVIOUS
  <1> QED
    BY <1>3, <1>4, <1>5 DEF ConstantsAssumption

LEMMA ScheduledCovers ==
    ASSUME ConstantsAssumption, TypeOK, MInv', alarm' = NextAlarm(status'),
           UNCHANGED expiresAt
    PROVE  AlarmCovers'
  <1>1. status' \in [Sessions -> Statuses]
    BY DEF MInv, PInv, IInv, TypeOK
  <1>2. CASE Recorded(status') = {}
    BY <1>2 DEF AlarmCovers, Recorded
  <1>3. CASE Recorded(status') # {}
    <2>1. NextAlarm(status') # NoAlarm
      BY <1>1, <1>3, NextAlarmCovers
    <2>2. \A s \in Recorded(status') : NextAlarm(status') <= NextEvent(status', s)
      BY <1>1, <1>3, NextAlarmCovers
    <2>3. \A s \in Recorded(status') : NextEvent(status, s)' = NextEvent(status', s)
      BY DEF NextEvent
    <2> QED
      BY <2>1, <2>2, <2>3 DEF AlarmCovers, Recorded
  <1> QED
    BY <1>2, <1>3

\* An alarm that stays set covers what records move on to, when none is new.
LEMMA KeptCovers ==
    ASSUME ConstantsAssumption, MInv, MInv', AlarmCovers, Moving, Timed, UNCHANGED alarm,
           pc'[Alarm] = pc[Alarm], \A s \in Sessions : ~Created(s)
    PROVE  AlarmCovers'
  <1> SUFFICES ASSUME Recorded(status') # {}, pc'[Alarm] # "alarm.prune"
               PROVE  /\ alarm' # NoAlarm
                      /\ \A s \in Recorded(status') : \/ alarm' <= now'
                                                      \/ alarm' <= NextEvent(status, s)'
    BY DEF AlarmCovers, Recorded
  <1>1. \A s \in Recorded(status') : s \in Recorded(status)
    BY DEF Recorded, Moving, Changes, Created, Marked, Ended, Deleted, Unexpired
  <1>2. /\ alarm # NoAlarm
        /\ \A s \in Recorded(status) : alarm <= now \/ alarm <= NextEvent(status, s)
    BY <1>1 DEF AlarmCovers
  <1>3. alarm \in Nat /\ now \in Nat /\ now' \in Nat /\ now <= now' /\ Retention \in Nat
    BY <1>2 DEF MInv, PInv, IInv, TypeOK, Timed, ConstantsAssumption
  <1>4. ASSUME NEW s \in Recorded(status')
        PROVE  alarm' <= now' \/ alarm' <= NextEvent(status, s)'
    <2>1. s \in Sessions /\ s \in Recorded(status) /\ Changes(s)
      BY <1>1 DEF Recorded, Moving
    <2>2. expiresAt'[s] = expiresAt[s] /\ expiresAt[s] \in Nat
      BY <2>1 DEF Recorded, MInv, PInv, IInv, WInv, Known, TypeOK, Timed
    <2>3. status'[s] = "expired" \/ status[s] # "expired"
      BY <1>4, <2>1 DEF Changes, Created, Marked, Ended, Deleted, Recorded, Unexpired
    <2>4. NextEvent(status, s) \in Nat /\ NextEvent(status, s)' \in Nat
          /\ NextEvent(status, s) <= NextEvent(status, s)'
      BY <1>3, <2>2, <2>3 DEF NextEvent
    <2>5. alarm <= now \/ alarm <= NextEvent(status, s)
      BY <1>2, <2>1
    <2> QED
      BY <1>3, <2>4, <2>5
  <1> QED
    BY <1>2, <1>4

LEMMA PassCovers ==
    ASSUME ConstantsAssumption, MInv, MInv', AlarmCovers, PassStep
    PROVE  AlarmCovers'
  <1>1. UNCHANGED <<now, expiresAt>>
    BY DEF PassStep, CreateCall, CreatePruned, CreateCommit, LoadExpired, LoadReleased,
       GcExpired, ReleaseOne, PruneDone, PruneCommit, AlarmFires, frame
  <1>2. Timed
    BY <1>1 DEF Timed, MInv, PInv, IInv, TypeOK
  <1>3. \/ alarm' = NextAlarm(status')
        \/ pc'[Alarm] = "alarm.prune"
        \/ /\ UNCHANGED alarm /\ pc'[Alarm] = pc[Alarm]
           /\ \A h \in Requests : ~(Creating(h) /\ Goto(h, "init.reply"))
    <2>1. Alarm \in Agents /\ Alarm \notin Requests /\ pc \in [Agents -> Labels]
      BY DEF Agents, ConstantsAssumption, MInv, PInv, IInv, TypeOK
    <2>2. ASSUME NEW h \in Requests, CreateCall(h) \/ CreatePruned(h)
          PROVE  \/ alarm' = NextAlarm(status')
                 \/ /\ UNCHANGED alarm
                    /\ \E label \in {"init.cleanup", "create.prune"} : Goto(h, label)
      BY <2>2 DEF CreateCall, CreatePruned, CreateCommit, store
    <2>3. ASSUME NEW h \in Requests, LoadExpired(h) \/ LoadReleased(h)
          PROVE  UNCHANGED alarm /\ \E label \in {"load.expire", "idle"} : Goto(h, label)
      BY <2>3 DEF LoadExpired, LoadReleased, Return
    <2>4. ASSUME NEW h \in Requests, GcExpired(h)
          PROVE  alarm' = NextAlarm(status') \/ (UNCHANGED alarm /\ Goto(h, "gc.prune"))
      BY <2>4 DEF GcExpired, PruneCommit, store
    <2>5. ASSUME NEW a \in Agents, ReleaseOne(a)
          PROVE  UNCHANGED <<alarm, pc>> /\ pc[a] \in PruneCalls
      BY <2>5 DEF ReleaseOne, store
    <2>6. ASSUME NEW a \in Agents, PruneDone(a)
          PROVE  alarm' = NextAlarm(status')
      BY <2>6 DEF PruneDone, PruneCommit
    <2>7. CASE AlarmFires
      BY <2>1, <2>7 DEF AlarmFires, PruneCommit, Goto
    <2>8. ASSUME NEW h \in Requests, NEW label \in {"init.cleanup", "create.prune", "load.expire",
                                                    "idle", "gc.prune"},
                 Goto(h, label)
          PROVE  /\ pc'[Alarm] = pc[Alarm]
                 /\ \A g \in Requests : ~(Creating(g) /\ Goto(g, "init.reply"))
      BY <2>1, <2>8 DEF Goto, Agents, Creating
    <2>9. ASSUME NEW g \in Requests, UNCHANGED pc
          PROVE  ~(Creating(g) /\ Goto(g, "init.reply"))
      BY <2>1, <2>9 DEF Goto, Agents, Creating
    <2> QED
      BY <2>2, <2>3, <2>4, <2>5, <2>6, <2>7, <2>8, <2>9 DEF PassStep
  <1>4. ASSUME NEW s \in Sessions, Created(s)
        PROVE  \E h \in Requests : Creating(h) /\ Goto(h, "init.reply")
    <2>1. \A j \in Listings : Pruned(j)[s] = status[s] \/ status[s] # "none"
      BY PrunedMoves DEF Unexpired
    <2>2. status[s] = "none" /\ status'[s] = "active"
      BY <1>4 DEF Created
    <2>3. status \in [Sessions -> Statuses]
      BY DEF MInv, PInv, IInv, TypeOK
    <2> QED
      BY <2>1, <2>2, <2>3, PassWrites DEF CreatedFrom
  <1>5. TypeOK /\ Moving
    BY PassMoves DEF MInv, PInv, IInv
  <1>6. CASE alarm' = NextAlarm(status')
    BY <1>1, <1>5, <1>6, ScheduledCovers
  <1>7. CASE pc'[Alarm] = "alarm.prune"
    BY <1>7 DEF AlarmCovers
  <1>8. CASE /\ UNCHANGED alarm /\ pc'[Alarm] = pc[Alarm]
             /\ \A h \in Requests : ~(Creating(h) /\ Goto(h, "init.reply"))
    BY <1>2, <1>4, <1>5, <1>8, KeptCovers
  <1> QED
    BY <1>3, <1>6, <1>7, <1>8

LEMMA RestCovers ==
    ASSUME ConstantsAssumption, MInv, MInv', AlarmCovers, Moving, ~Reset,
           \/ \E h \in Requests : RequestMoves(h)
           \/ \E h \in Requests, s \in Sessions : InitBegin(h, s)
           \/ Tick \/ UNCHANGED vars
    PROVE  AlarmCovers'
  <1> USE DEF world, frame, store, r2, history
  <1>1. Alarm \notin Requests /\ TypeOK
    BY DEF ConstantsAssumption, MInv, PInv, IInv
  <1>2. UNCHANGED alarm
    BY DEF RequestMoves, InitBegin, Tick, vars, InitCleanup, Assemble, RejectDelete, PromotePut,
           PromoteClean, MarkCompleted, AbortUpload, MarkAborted
  <1>3. \/ UNCHANGED pc
        \/ \E h \in Requests : \E label : Goto(h, label)
    BY DEF RequestMoves, InitBegin, Tick, vars, InitCleanup, Assemble, RejectDelete, PromotePut,
           PromoteClean, MarkCompleted, AbortUpload, MarkAborted, QuietStep, InitReply,
           CreateCallLost, LoadRefused, SignGet, SignRecord,
           CompleteGet, AssembleRefused, Validate, PromoteRead, AbortGet,
           RequestDies, SignPart, Complete, Abort, RequestBegin, Return
  <1>4. pc'[Alarm] = pc[Alarm]
    BY <1>1, <1>3 DEF Goto, TypeOK, Agents
  <1>5. \A s \in Sessions : status[s] = "none" => status'[s] # "active"
    BY <1>1 DEF RequestMoves, InitBegin, Tick, vars, InitCleanup, Assemble, RejectDelete,
           PromotePut, PromoteClean, MarkCompleted, AbortUpload, MarkAborted, TypeOK
  <1>6. Timed
    BY <1>1 DEF RequestMoves, InitBegin, Tick, vars, InitCleanup, Assemble, RejectDelete,
           PromotePut, PromoteClean, MarkCompleted, AbortUpload, MarkAborted, TypeOK, Timed
  <1> QED
    BY <1>2, <1>4, <1>5, <1>6, KeptCovers DEF Created

LEMMA ResetCovers ==
    ASSUME ConstantsAssumption, MInv, MInv', AlarmCovers, Reset
    PROVE  AlarmCovers'
  <1> USE DEF r2, history
  <1>1. TypeOK /\ Alarm \in Agents /\ UNCHANGED <<now, status, expiresAt>>
    BY DEF MInv, PInv, IInv, Reset, Agents
  <1>2. CASE pc[Alarm] \in PruneCalls
    <2>1. alarm' = now
      BY <1>1, <1>2 DEF Reset
    <2> QED
      BY <1>1, <2>1 DEF AlarmCovers, TypeOK, ConstantsAssumption
  <1>3. CASE pc[Alarm] \notin PruneCalls
    <2>1. UNCHANGED alarm /\ pc'[Alarm] = pc[Alarm]
      BY <1>1, <1>3 DEF Reset
    <2> QED
      BY <1>1, <2>1 DEF AlarmCovers, Recorded, NextEvent
  <1> QED
    BY <1>2, <1>3

\* While a record is stored, an alarm is set for no later than the next thing
\* that must happen to it, or the handler runs and will set it (scheduleNextAlarm).
THEOREM AlarmHolds == Spec => []AlarmCovers
  <1>1. Init => AlarmCovers
    BY DEF Init, AlarmCovers, Recorded
  <1>2. MInv /\ MInv' /\ AlarmCovers /\ [Next]_vars => AlarmCovers'
    <2> SUFFICES ASSUME MInv, MInv', AlarmCovers, [Next]_vars
                 PROVE  AlarmCovers'
      OBVIOUS
    <2>1. Moving
      BY NextMInv, ConstantsAssumption
    <2> QED
      BY <2>1, NextForms, PassCovers, ResetCovers, RestCovers, ConstantsAssumption
  <1> QED
    BY <1>1, <1>2, PassesInductive, PTL DEF Spec

-----------------------------------------------------------------------------
(* What an upload holds in R2.                                             *)

\* Nothing of the upload is left to release.
Gone(s) == upload[s] # "open" /\ s \notin staged

\* The same after a step.
Left(s) == upload'[s] # "open" /\ s \notin staged'

Marking == {"complete.mark", "reject.mark"}

Over == {"completed", "aborted", "expired"}

\* What is staged has been assembled.
StagedAssembled == \A s \in staged : upload[s] = "completed"

\* While R2 does as told: whoever is about to mark a session has cleaned up, a
\* record that is no longer active holds nothing, and a pass has released what
\* it is done with.
Cleaned == \A h \in Requests : pc[h] \in Marking => Gone(sess[h])

Emptied == \A s \in Sessions : status[s] \in Over => Gone(s)

Freed == \A a \in Agents : \A s \in job[a].marks \ job[a].todo : Gone(s)

Tidy == Cleaned /\ Emptied /\ Freed

RInv == IInv /\ WInv /\ StagedAssembled /\ (faults = 0 => Tidy)

\* What is gone stays gone.
Empties == \A s \in Sessions : upload[s] # "none" /\ Gone(s) => Left(s)

\* Requests get to their mark, records to their end and passes beyond their
\* releases with nothing left in R2.
MarksClean ==
    \A h \in Requests :
        pc'[h] \in Marking => (pc[h] \in Marking /\ sess'[h] = sess[h]) \/ Left(sess'[h])

EndsEmpty ==
    \A s \in Sessions : status'[s] \in Over => status'[s] = status[s] \/ Left(s)

FreesAll ==
    \A a \in Agents : \A s \in job'[a].marks \ job'[a].todo :
        s \in job[a].marks \ job[a].todo \/ Left(s)

LEMMA TidyStep ==
    ASSUME WInv, WInv', Tidy, Empties, MarksClean, EndsEmpty, FreesAll
    PROVE  Tidy'
  <1>1. TypeOK /\ TypeOK' /\ Known
    BY DEF WInv
  <1>2. ASSUME NEW h \in Requests, pc'[h] \in Marking
        PROVE  Left(sess'[h])
    <2>1. CASE pc[h] \in Marking /\ sess'[h] = sess[h]
      <3>1. Gone(sess[h])
        BY <2>1 DEF Tidy, Cleaned
      <3>2. sess[h] \in Sessions /\ upload[sess[h]] # "none"
        BY <1>1, <2>1 DEF Known, TypeOK, Marking
      <3> QED
        BY <2>1, <3>1, <3>2 DEF Empties
    <2> QED
      BY <1>2, <2>1 DEF MarksClean
  <1>3. ASSUME NEW s \in Sessions, status'[s] \in Over
        PROVE  Left(s)
    <2>1. CASE status'[s] = status[s]
      <3>1. Gone(s) /\ upload[s] # "none"
        BY <1>1, <1>3, <2>1 DEF Tidy, Emptied, Known, Over
      <3> QED
        BY <3>1 DEF Empties
    <2> QED
      BY <1>3, <2>1 DEF EndsEmpty
  <1>4. ASSUME NEW a \in Agents, NEW s \in job'[a].marks \ job'[a].todo
        PROVE  Left(s)
    <2>1. CASE s \in job[a].marks \ job[a].todo
      <3>1. Gone(s) /\ upload[s] # "none" /\ s \in Sessions
        BY <1>1, <2>1 DEF Tidy, Freed, Known, TypeOK, Jobs
      <3> QED
        BY <3>1 DEF Empties
    <2> QED
      BY <2>1 DEF FreesAll
  <1> QED
    BY <1>2, <1>3, <1>4 DEF Tidy, Cleaned, Emptied, Freed, Gone, Left

\* R2 as a step may change it.
LEMMA StorageStep ==
    ASSUME RInv, TypeOK',
           \/ UNCHANGED upload
           \/ \E s \in Sessions : /\ upload[s] = "open"
                                  /\ upload' = [upload EXCEPT ![s] = "aborted"]
           \/ \E s \in Sessions : /\ upload[s] = "none"
                                  /\ upload' = [upload EXCEPT ![s] = "open"],
           staged' \subseteq staged
    PROVE  StagedAssembled' /\ Empties
  BY DEF RInv, IInv, StagedAssembled, TypeOK, Empties, Gone, Left

LEMMA RequestTidy ==
    ASSUME RInv, IInv', WInv', NEW h \in Requests,
           RequestMoves(h) \/ \E s \in Sessions : InitBegin(h, s)
    PROVE  RInv'
  <1> USE DEF world, frame, store, r2, history
  <1>1. TypeOK /\ TypeOK'
    BY DEF RInv, IInv
  <1>2. StagedAssembled' /\ Empties
    <2>1. CASE Assemble(h)
      <3>1. sess[h] \in Sessions /\ upload[sess[h]] = "open"
        BY <1>1, <2>1 DEF Assemble, TypeOK
      <3>2. upload' = [upload EXCEPT ![sess[h]] = "completed"] /\ staged' = staged \union {sess[h]}
        BY <2>1 DEF Assemble
      <3> QED
        BY <1>1, <3>1, <3>2 DEF RInv, StagedAssembled, Empties, Gone, Left, TypeOK
    <2>2. CASE ~Assemble(h)
      <3>1. \/ UNCHANGED upload
            \/ \E s \in Sessions : /\ upload[s] = "open"
                                   /\ upload' = [upload EXCEPT ![s] = "aborted"]
            \/ \E s \in Sessions : /\ upload[s] = "none"
                                   /\ upload' = [upload EXCEPT ![s] = "open"]
        BY <1>1, <2>2 DEF RequestMoves, InitBegin, InitCleanup, RejectDelete, PromotePut,
               PromoteClean, MarkCompleted, AbortUpload, MarkAborted, TypeOK
      <3>2. staged' \subseteq staged
        BY <2>2 DEF RequestMoves, InitBegin, InitCleanup, RejectDelete, PromotePut,
               PromoteClean, MarkCompleted, AbortUpload, MarkAborted
      <3> QED
        BY <1>1, <3>1, <3>2, StorageStep
    <2> QED
      BY <2>1, <2>2
  <1>3. ASSUME faults' = 0
        PROVE  Tidy'
    <2>1. faults = 0
      BY <1>1, <1>3 DEF RequestMoves, InitBegin, InitCleanup, Assemble, RejectDelete, PromotePut,
             PromoteClean, MarkCompleted, AbortUpload, MarkAborted, FaultAt, TypeOK
    <2>2. Tidy
      BY <2>1 DEF RInv
    <2>3. UNCHANGED job
      BY DEF RequestMoves, InitBegin, InitCleanup, Assemble, RejectDelete, PromotePut,
             PromoteClean, MarkCompleted, AbortUpload, MarkAborted
    <2>4. FreesAll
      BY <2>3 DEF FreesAll
    <2>5. EndsEmpty
      <3>1. CASE MarkCompleted(h)
        <4>1. Gone(sess[h])
          BY <2>2, <3>1 DEF MarkCompleted, LoadedActive, Tidy, Cleaned, Marking
        <4>2. UNCHANGED r2 /\ status' = [status EXCEPT ![sess[h]] = "completed"]
          BY <3>1 DEF MarkCompleted
        <4> QED
          BY <1>1, <4>1, <4>2 DEF EndsEmpty, Gone, Left, TypeOK
      <3>2. CASE MarkAborted(h)
        <4>1. Gone(sess[h])
          BY <2>2, <3>2 DEF MarkAborted, LoadedActive, Tidy, Cleaned, Marking, RInv, IInv,
             Progress, StagedAssembled, Gone
        <4>2. UNCHANGED r2 /\ status' = [status EXCEPT ![sess[h]] = "aborted"]
          BY <3>2 DEF MarkAborted
        <4> QED
          BY <1>1, <4>1, <4>2 DEF EndsEmpty, Gone, Left, TypeOK
      <3>3. CASE UNCHANGED status
        BY <3>3 DEF EndsEmpty
      <3> QED
        BY <3>1, <3>2, <3>3 DEF RequestMoves, InitBegin, InitCleanup, Assemble, RejectDelete,
           PromotePut, PromoteClean, AbortUpload
    <2>6. MarksClean
      <3>1. CASE RejectDelete(h) \/ PromoteClean(h)
        <4>1. staged' = staged \ {sess[h]} /\ UNCHANGED <<upload, sess>>
          BY <1>1, <1>3, <2>1, <3>1 DEF RejectDelete, PromoteClean, FaultAt
        <4>2. upload[sess[h]] = "completed"
          BY <3>1 DEF RejectDelete, PromoteClean, RInv, IInv, Progress, Assembled, Rejecting,
             Passed, Written
        <4>3. \A g \in Requests : g # h => pc'[g] = pc[g]
          BY <1>1, <3>1 DEF RejectDelete, PromoteClean, Goto, TypeOK, Agents
        <4> QED
          BY <4>1, <4>2, <4>3 DEF MarksClean, Left
      <3>2. CASE ~(RejectDelete(h) \/ PromoteClean(h))
        <4>1. \/ Return(h)
              \/ /\ \A g \in Requests : g # h => sess'[g] = sess[g]
                 /\ \E label : label \notin Marking /\ Goto(h, label)
          BY <1>1, <3>2 DEF RequestMoves, InitBegin, InitCleanup, Assemble, PromotePut,
             MarkCompleted, AbortUpload, MarkAborted, QuietStep, InitReply, CreateCallLost,
             LoadRefused, SignGet, SignRecord, CompleteGet, AssembleRefused, Validate,
             PromoteRead, AbortGet, RequestDies, SignPart, Complete, Abort, RequestBegin,
             Marking, TypeOK
        <4> QED
          BY <1>1, <4>1 DEF MarksClean, Marking, Return, Goto, TypeOK, Agents
      <3> QED
        BY <3>1, <3>2
    <2> QED
      BY <1>2, <2>2, <2>4, <2>5, <2>6, TidyStep DEF RInv
  <1> QED
    BY <1>2, <1>3 DEF RInv

\* A listing with nothing left to release marks only what holds nothing.
LEMMA ListingsGone ==
    ASSUME TypeOK, Tidy, NEW j \in Listings, j.todo = {}, NEW s \in j.marks
    PROVE  Gone(s)
  <1>1. CASE j = PruneJob
    <2>1. s \in Sessions /\ status[s] \in Over
      BY <1>1 DEF PruneJob, InFlight, Recorded, Over, TypeOK, Statuses
    <2> QED
      BY <2>1 DEF Tidy, Emptied
  <1>2. CASE \E a \in Agents : j = job[a]
    BY <1>2 DEF Tidy, Freed
  <1> QED
    BY <1>1, <1>2 DEF Listings

\* Only a release touches R2, and only a release can meet a fault.
LEMMA PassLeaves ==
    ASSUME PassStep, ~\E a \in Agents : ReleaseOne(a)
    PROVE  UNCHANGED <<upload, staged, faults>>
  <1> USE DEF frame, store, r2, history
  <1>1. CASE \E h \in Requests : CreateCall(h) \/ CreatePruned(h)
    BY <1>1 DEF CreateCall, CreatePruned, CreateCommit
  <1>2. CASE \E h \in Requests : LoadExpired(h)
    BY <1>2 DEF LoadExpired
  <1>3. CASE \E h \in Requests : LoadReleased(h)
    BY <1>3 DEF LoadReleased
  <1>4. CASE \E h \in Requests : GcExpired(h)
    BY <1>4 DEF GcExpired, PruneCommit
  <1>5. CASE \E a \in Agents : PruneDone(a)
    BY <1>5 DEF PruneDone, PruneCommit
  <1>6. CASE AlarmFires
    BY <1>6 DEF AlarmFires, PruneCommit
  <1> QED
    BY <1>1, <1>2, <1>3, <1>4, <1>5, <1>6 DEF PassStep

\* What a step of a pass other than a release does to the records ...
LEMMA PassEnds ==
    ASSUME TypeOK, PassStep
    PROVE  \/ UNCHANGED status
           \/ \E j \in Listings : j.todo = {} /\ status' = Pruned(j)
           \/ \E j \in Listings : \E s :
                j.todo = {} /\ status' = [Pruned(j) EXCEPT ![s] = "active"]
           \/ \E s \in Sessions :
                status[s] \in Over /\ status' = [status EXCEPT ![s] = "expired"]
  <1> USE DEF frame, store, r2, history
  <1>0. PruneJob \in Listings /\ \A a \in Agents : job[a] \in Listings
    BY DEF Listings
  <1>1. ASSUME NEW h \in Requests, CreateCall(h)
        PROVE  \/ UNCHANGED status
               \/ \E j \in Listings : j.todo = {} /\ status' = Pruned(j)
               \/ \E j \in Listings : \E s :
                    j.todo = {} /\ status' = [Pruned(j) EXCEPT ![s] = "active"]
    BY <1>0, <1>1 DEF CreateCall, CreateCommit
  <1>2. ASSUME NEW h \in Requests, CreatePruned(h)
        PROVE  \/ \E j \in Listings : j.todo = {} /\ status' = Pruned(j)
               \/ \E j \in Listings : \E s :
                    j.todo = {} /\ status' = [Pruned(j) EXCEPT ![s] = "active"]
    BY <1>0, <1>2 DEF CreatePruned, CreateCommit, Agents
  <1>3. ASSUME NEW h \in Requests, LoadExpired(h)
        PROVE  \/ UNCHANGED status
               \/ \E s \in Sessions :
                    status[s] \in Over /\ status' = [status EXCEPT ![s] = "expired"]
    <2>1. sess[h] \in Sessions /\ status[sess[h]] \in Statuses
      BY <1>3 DEF LoadExpired, TypeOK, LoadCalls
    <2> QED
      BY <1>3, <2>1 DEF LoadExpired, InFlight, Over, Statuses
  <1>4. ASSUME NEW h \in Requests, LoadReleased(h)
        PROVE  \E j \in Listings : j.todo = {} /\ status' = Pruned(j)
    BY <1>0, <1>4 DEF LoadReleased, Agents
  <1>5. ASSUME NEW h \in Requests, GcExpired(h)
        PROVE  \/ UNCHANGED status
               \/ \E j \in Listings : j.todo = {} /\ status' = Pruned(j)
    BY <1>0, <1>5 DEF GcExpired, PruneCommit
  <1>6. ASSUME NEW a \in Agents, ReleaseOne(a)
        PROVE  UNCHANGED status
    BY <1>6 DEF ReleaseOne
  <1>7. ASSUME NEW a \in Agents, PruneDone(a)
        PROVE  \E j \in Listings : j.todo = {} /\ status' = Pruned(j)
    BY <1>0, <1>7 DEF PruneDone, PruneCommit
  <1>8. ASSUME AlarmFires
        PROVE  \/ UNCHANGED status
               \/ \E j \in Listings : j.todo = {} /\ status' = Pruned(j)
    BY <1>0, <1>8 DEF AlarmFires, PruneCommit
  <1> QED
    BY <1>1, <1>2, <1>3, <1>4, <1>5, <1>6, <1>7, <1>8 DEF PassStep

\* ... and to the listings.
LEMMA PassJobs ==
    ASSUME PassStep, ~\E a \in Agents : ReleaseOne(a)
    PROVE  \/ UNCHANGED job
           \/ \E a \in Agents : job' = [job EXCEPT ![a] = NoJob]
           \/ \E a \in Agents : job' = [job EXCEPT ![a] = PruneJob]
           \/ \E h \in Requests :
                job' = [job EXCEPT ![h] = [at |-> now, todo |-> {sess[h]},
                                           marks |-> {sess[h]}, dels |-> {}]]
  <1>0. Alarm \in Agents /\ Requests \subseteq Agents
    BY DEF Agents
  <1>1. CASE \E h \in Requests : CreateCall(h) \/ CreatePruned(h)
    BY <1>0, <1>1 DEF CreateCall, CreatePruned
  <1>2. CASE \E h \in Requests : LoadExpired(h)
    BY <1>2 DEF LoadExpired
  <1>3. CASE \E h \in Requests : LoadReleased(h)
    BY <1>0, <1>3 DEF LoadReleased
  <1>4. CASE \E h \in Requests : GcExpired(h)
    BY <1>0, <1>4 DEF GcExpired
  <1>5. CASE \E a \in Agents : PruneDone(a)
    BY <1>5 DEF PruneDone
  <1>6. CASE AlarmFires
    BY <1>0, <1>6 DEF AlarmFires
  <1> QED
    BY <1>1, <1>2, <1>3, <1>4, <1>5, <1>6 DEF PassStep

LEMMA PassTidy ==
    ASSUME RInv, IInv', WInv', PassStep
    PROVE  RInv'
  <1> USE DEF frame, store, r2, history
  <1>1. TypeOK /\ TypeOK'
    BY DEF RInv, IInv
  <1>2. /\ \/ UNCHANGED upload
           \/ \E s \in Sessions : /\ upload[s] = "open"
                                  /\ upload' = [upload EXCEPT ![s] = "aborted"]
        /\ staged' \subseteq staged
    BY <1>1 DEF PassStep, CreateCall, CreatePruned, CreateCommit, LoadExpired, LoadReleased,
       GcExpired, ReleaseOne, PruneDone, PruneCommit, AlarmFires, TypeOK, Jobs
  <1>3. StagedAssembled' /\ Empties
    BY <1>1, <1>2, StorageStep
  <1>4. ASSUME faults' = 0
        PROVE  Tidy'
    <2>1. faults = 0
      <3>1. CASE \E a \in Agents : ReleaseOne(a)
        BY <1>1, <1>4, <3>1 DEF ReleaseOne, FaultAt, TypeOK
      <3> QED
        BY <1>4, <3>1, PassLeaves
    <2>2. Tidy
      BY <2>1 DEF RInv
    <2>3. MarksClean
      <3>1. \/ UNCHANGED <<pc, sess>>
            \/ \E h \in Requests : Return(h)
            \/ /\ UNCHANGED sess
               /\ \E a \in Agents : \E label : label \notin Marking /\ Goto(a, label)
        BY DEF PassStep, CreateCall, CreatePruned, CreateCommit, LoadExpired, LoadReleased,
           GcExpired, ReleaseOne, PruneDone, PruneCommit, AlarmFires, Agents, Marking
      <3> QED
        BY <1>1, <3>1 DEF MarksClean, Marking, Return, Goto, TypeOK, Agents
    <2>4. EndsEmpty
      <3>1. UNCHANGED status \/ UNCHANGED <<upload, staged>>
        BY PassLeaves DEF ReleaseOne
      <3>2. \A j : DOMAIN Pruned(j) = Sessions
        BY DEF Pruned
      <3>3. \A j \in Listings : j.todo = {} =>
              \A s \in Sessions : Pruned(j)[s] \in Over => Pruned(j)[s] = status[s] \/ Gone(s)
        <4>1. ASSUME NEW j \in Listings, j.todo = {}, NEW s \in Sessions, s \in j.marks
              PROVE  Gone(s)
          BY <1>1, <2>2, <4>1, ListingsGone
        <4> QED
          BY <4>1 DEF Pruned, Over
      <3>4. CASE UNCHANGED status
        BY <3>4 DEF EndsEmpty
      <3>5. ASSUME UNCHANGED <<upload, staged>>, NEW j \in Listings, j.todo = {},
                   status' = Pruned(j)
            PROVE  EndsEmpty
        BY <3>3, <3>5 DEF EndsEmpty, Gone, Left
      <3>6. ASSUME UNCHANGED <<upload, staged>>, NEW j \in Listings, j.todo = {},
                   NEW s, status' = [Pruned(j) EXCEPT ![s] = "active"]
            PROVE  EndsEmpty
        BY <3>2, <3>3, <3>6 DEF EndsEmpty, Gone, Left, Over
      <3>7. ASSUME UNCHANGED <<upload, staged>>, NEW s \in Sessions, status[s] \in Over,
                   status' = [status EXCEPT ![s] = "expired"]
            PROVE  EndsEmpty
        BY <1>1, <2>2, <3>7 DEF EndsEmpty, Gone, Left, Tidy, Emptied, TypeOK
      <3> QED
        BY <1>1, <3>1, <3>4, <3>5, <3>6, <3>7, PassEnds
    <2>5. FreesAll
      <3>1. job \in [Agents -> Jobs]
        BY <1>1 DEF TypeOK
      <3>2. ASSUME NEW a \in Agents, ReleaseOne(a)
            PROVE  \E s \in job[a].todo : job' = [job EXCEPT ![a].todo = @ \ {s}] /\ Left(s)
        <4>1. PICK s \in job[a].todo :
                /\ job' = [job EXCEPT ![a].todo = @ \ {s}]
                /\ \/ /\ upload' = IF upload[s] = "open"
                                   THEN [upload EXCEPT ![s] = "aborted"] ELSE upload
                      /\ staged' = staged \ {s}
                   \/ faults' = faults + 1
          BY <3>2 DEF ReleaseOne, FaultAt
        <4>2. a \in Agents /\ s \in Sessions
          BY <3>1, <3>2 DEF Jobs
        <4>3. /\ upload' = IF upload[s] = "open"
                           THEN [upload EXCEPT ![s] = "aborted"] ELSE upload
              /\ staged' = staged \ {s}
          BY <1>4, <2>1, <4>1
        <4>4. Left(s)
          BY <1>1, <4>2, <4>3 DEF Left, TypeOK
        <4> QED
          BY <4>1, <4>4
      <3>3. CASE UNCHANGED job
        BY <3>3 DEF FreesAll
      <3>4. CASE \E a \in Agents : job' = [job EXCEPT ![a] = NoJob]
        BY <3>1, <3>4 DEF FreesAll, NoJob
      <3>5. CASE /\ UNCHANGED <<upload, staged>>
                 /\ \E a \in Agents : job' = [job EXCEPT ![a] = PruneJob]
        <4>1. \A s \in PruneJob.marks \ PruneJob.todo : Gone(s)
          BY <1>1, <2>2 DEF PruneJob, InFlight, Recorded, Over, TypeOK, Statuses, Tidy, Emptied
        <4> QED
          BY <3>1, <3>5, <4>1 DEF FreesAll, Gone, Left
      <3>6. ASSUME NEW a \in Agents, NEW s \in job[a].todo,
                   job' = [job EXCEPT ![a].todo = @ \ {s}], Left(s)
            PROVE  FreesAll
        <4>1. job' = [job EXCEPT ![a] = [job[a] EXCEPT !.todo = @ \ {s}]]
          BY <3>6
        <4>2. /\ job'[a].marks = job[a].marks /\ job'[a].todo = job[a].todo \ {s}
              /\ \A b \in Agents : b # a => job'[b] = job[b]
          BY <3>1, <4>1 DEF Jobs
        <4> QED
          BY <3>6, <4>2 DEF FreesAll
      <3>7. CASE \E h \in Requests :
                   job' = [job EXCEPT ![h] = [at |-> now, todo |-> {sess[h]},
                                              marks |-> {sess[h]}, dels |-> {}]]
        BY <3>1, <3>7 DEF FreesAll
      <3> QED
        BY <3>2, <3>3, <3>4, <3>5, <3>6, <3>7, PassLeaves, PassJobs
    <2> QED
      BY <1>3, <2>2, <2>3, <2>4, <2>5, TidyStep DEF RInv
  <1> QED
    BY <1>3, <1>4 DEF RInv

LEMMA EnvironmentTidy ==
    ASSUME RInv, IInv', WInv', Reset \/ Tick \/ UNCHANGED vars
    PROVE  RInv'
  <1> USE DEF world, frame, store, r2, history
  <1>1. TypeOK
    BY DEF RInv, IInv
  <1>2. UNCHANGED <<status, upload, staged, faults>>
    BY DEF Reset, Tick, vars
  <1>3. \A a \in Agents : job'[a] = job[a] \/ job'[a] = NoJob
    BY DEF Reset, Tick, vars
  <1>4. \A h \in Requests :
          \/ pc'[h] = pc[h] /\ sess'[h] = sess[h]
          \/ pc'[h] \notin Marking
    BY <1>1 DEF Reset, Tick, vars, Marking, PruneCalls, Agents, TypeOK
  <1>5. Empties /\ EndsEmpty
    BY <1>2 DEF Empties, EndsEmpty, Gone, Left
  <1>6. FreesAll
    BY <1>3 DEF FreesAll, NoJob
  <1>7. MarksClean
    BY <1>4 DEF MarksClean
  <1>8. StagedAssembled'
    BY <1>2 DEF RInv, StagedAssembled
  <1> QED
    BY <1>2, <1>5, <1>6, <1>7, <1>8, TidyStep DEF RInv

\* A record marked expired holds nothing in R2 while R2 does as told, whatever
\* its requests did and wherever a pass was interrupted (releaseExpiredUploadResources).
THEOREM ReleasedHolds == Spec => []ExpiredReleased
  <1>1. Init => RInv
    <2> SUFFICES ASSUME Init
                 PROVE  RInv
      OBVIOUS
    <2>1. IInv /\ WInv
      BY InitIInv, InitWInv, ConstantsAssumption
    <2> QED
      BY <2>1 DEF Init, RInv, StagedAssembled, Tidy, Cleaned, Emptied, Freed, NoJob, Marking, Over,
                  Agents
  <1>2. RInv /\ [Next]_vars => RInv'
    <2> SUFFICES ASSUME RInv, [Next]_vars
                 PROVE  RInv'
      OBVIOUS
    <2>1. IInv' /\ WInv'
      BY NextIInv, NextWInv, ConstantsAssumption DEF RInv
    <2> QED
      BY <2>1, NextForms, RequestTidy, PassTidy, EnvironmentTidy
  <1>3. RInv => ExpiredReleased
    BY DEF RInv, Tidy, Emptied, Over, Gone, ExpiredReleased
  <1> QED
    BY <1>1, <1>2, <1>3, PTL DEF Spec

-----------------------------------------------------------------------------
(* The contract of a session.                                              *)

\* Where a request has assembled a session's bytes and not yet written them.
Unput == {"validate", "promote.read", "promote.put"}

Heading == {"assemble"} \union Unput

\* What a request is about to write has not been written.
Unwritten == \A h \in Requests : pc[h] \in Unput => sess[h] \notin stored

\* A session that a request completes is not one that another creates.
Apart == \A g, h \in Requests : pc[g] \in Heading /\ Creating(h) => sess[g] # sess[h]

LInv == MInv /\ Unwritten /\ Apart

\* A request begins to complete, assembles, or goes on towards the write.
Heads(h) ==
    \/ pc'[h] \notin Heading
    \/ pc'[h] = pc[h] /\ sess'[h] = sess[h]
    \/ pc[h] \in Unput /\ pc'[h] \in Unput /\ sess'[h] = sess[h]
    \/ CompleteGet(h)
    \/ Assemble(h)

\* A step of one agent that heads nowhere.
LEMMA OneHeads ==
    ASSUME TypeOK,
           \/ UNCHANGED <<pc, sess>>
           \/ \E g \in Requests : Return(g)
           \/ \E g \in Requests, label \in Labels \ Heading :
                /\ Goto(g, label)
                /\ \A h \in Requests : h # g => sess'[h] = sess[h]
           \/ \E a \in Agents, label \in Labels \ Heading : Goto(a, label) /\ UNCHANGED sess,
           NEW h \in Requests
    PROVE  Heads(h)
  <1>1. "idle" \notin Heading
    BY DEF Heading, Unput
  <1> QED
    BY <1>1 DEF Heads, Return, Goto, TypeOK, Agents

LEMMA PassHeads ==
    ASSUME TypeOK, PassStep, NEW h \in Requests
    PROVE  Heads(h)
  <1>1. PruneCalls \union {"idle", "init.cleanup", "init.reply"} \subseteq Labels \ Heading
    BY DEF Labels, PruneCalls, Heading, Unput
  <1>2. \/ UNCHANGED <<pc, sess>>
        \/ \E g \in Requests : Return(g)
        \/ \E a \in Agents, label \in Labels \ Heading : Goto(a, label) /\ UNCHANGED sess
    BY <1>1
    DEF PassStep, CreateCall, CreatePruned, CreateCommit, LoadExpired, LoadReleased,
        GcExpired, ReleaseOne, PruneDone, PruneCommit, AlarmFires, PruneCalls, Agents
  <1> QED
    BY <1>2, OneHeads

LEMMA RequestHeads ==
    ASSUME TypeOK, NEW g \in Requests,
           RequestMoves(g) \/ \E s \in Sessions : InitBegin(g, s),
           NEW h \in Requests
    PROVE  Heads(h)
  <1>1. {"idle", "create", "init.cleanup", "init.reply", "abort.r2", "abort.mark",
         "sign.get", "sign.record", "complete.get", "abort.get", "reject.delete",
         "reject.mark", "promote.clean", "complete.mark"} \subseteq Labels \ Heading
    BY DEF Labels, LoadCalls, Heading, Unput
  <1>2. CASE CompleteGet(g) \/ Assemble(g)
    BY <1>2 DEF CompleteGet, Assemble, Heads, Goto, TypeOK, Agents
  <1>3. CASE pc[g] \in Unput /\ UNCHANGED sess /\ \E label \in Unput : Goto(g, label)
    BY <1>3 DEF Heads, Goto, TypeOK, Agents
  <1>4. \/ CompleteGet(g) \/ Assemble(g)
        \/ pc[g] \in Unput /\ UNCHANGED sess /\ \E label \in Unput : Goto(g, label)
        \/ Return(g)
        \/ \E label \in Labels \ Heading :
             Goto(g, label) /\ \A i \in Requests : i # g => sess'[i] = sess[i]
    BY <1>1
    DEF RequestMoves, InitBegin, InitCleanup, RejectDelete, PromotePut, PromoteClean,
        MarkCompleted, AbortUpload, MarkAborted, QuietStep, InitReply, CreateCallLost,
        LoadRefused, SignGet, SignRecord, AssembleRefused, Validate, PromoteRead, AbortGet,
        RequestDies, SignPart, Complete, Abort, RequestBegin, Unput, TypeOK
  <1> QED
    BY <1>2, <1>3, <1>4, OneHeads

LEMMA NextHeads ==
    ASSUME TypeOK, [Next]_vars, NEW h \in Requests
    PROVE  Heads(h)
  <1>1. CASE Reset
    BY <1>1 DEF Reset, Heads, Heading, Unput, PruneCalls, Agents
  <1>2. CASE Tick \/ UNCHANGED vars
    BY <1>2 DEF Tick, vars, Heads
  <1> QED
    BY <1>1, <1>2, NextForms, PassHeads, RequestHeads

\* No step but an init draws a session, and none takes it back.
LEMMA NextDraws ==
    ASSUME TypeOK, [Next]_vars
    PROVE  \A s \in Sessions : upload[s] # "none" => upload'[s] # "none"
  <1> USE DEF world, frame, store, r2, history
  <1>1. ASSUME PassStep
        PROVE  \/ UNCHANGED upload
               \/ \E s, u : u # "none" /\ upload' = [upload EXCEPT ![s] = u]
    BY <1>1 DEF PassStep, CreateCall, CreatePruned, CreateCommit, LoadExpired, LoadReleased,
           GcExpired, ReleaseOne, PruneDone, PruneCommit, AlarmFires
  <1>2. ASSUME NEW h \in Requests, RequestMoves(h) \/ \E s \in Sessions : InitBegin(h, s)
        PROVE  \/ UNCHANGED upload
               \/ \E s, u : u # "none" /\ upload' = [upload EXCEPT ![s] = u]
    BY <1>2 DEF RequestMoves, InitBegin, InitCleanup, Assemble, RejectDelete, PromotePut,
           PromoteClean, MarkCompleted, AbortUpload, MarkAborted
  <1>3. CASE Reset \/ Tick \/ UNCHANGED vars
    BY <1>3 DEF Reset, Tick, vars
  <1> QED
    BY <1>1, <1>2, <1>3, NextForms, DrawnStays

\* Which steps write bytes, and which remember an abort.
LEMMA NextHistory ==
    ASSUME [Next]_vars
    PROVE  \/ \E h \in Requests : PromotePut(h)
           \/ UNCHANGED <<written, target>> /\ \/ UNCHANGED aborted
                                               \/ \E h \in Requests : MarkAborted(h)
  <1> USE DEF world, frame, store, r2, history
  <1>1. ASSUME PassStep
        PROVE  UNCHANGED <<written, target, aborted>>
    BY <1>1 DEF PassStep, CreateCall, CreatePruned, CreateCommit, LoadExpired, LoadReleased,
           GcExpired, ReleaseOne, PruneDone, PruneCommit, AlarmFires
  <1>2. ASSUME NEW h \in Requests, RequestMoves(h) \/ \E s \in Sessions : InitBegin(h, s),
               ~PromotePut(h)
        PROVE  UNCHANGED <<written, target>> /\ (UNCHANGED aborted \/ MarkAborted(h))
    BY <1>2 DEF RequestMoves, InitBegin, InitCleanup, Assemble, RejectDelete,
           PromoteClean, MarkCompleted, AbortUpload, MarkAborted
  <1>3. CASE Reset \/ Tick \/ UNCHANGED vars
    BY <1>3 DEF Reset, Tick, vars
  <1> QED
    BY <1>1, <1>2, <1>3, NextForms

\* A session is created by the request that drew it or not at all.
LEMMA NextCreates ==
    ASSUME MInv, [Next]_vars
    PROVE  \/ NoneBegins
           \/ \E g \in Requests, s \in Sessions :
                /\ InitBegin(g, s)
                /\ sess'[g] = s
                /\ \A h \in Requests \ {g} : pc'[h] = pc[h] /\ sess'[h] = sess[h]
  <1> USE DEF MInv, PInv, IInv
  <1>1. ASSUME NEW h \in Requests, RequestMoves(h)
        PROVE  NoneBegins
    BY <1>1, RequestBeginsNone
  <1>2. ASSUME NEW h \in Requests, NEW s \in Sessions, InitBegin(h, s)
        PROVE  /\ sess'[h] = s
               /\ \A g \in Requests \ {h} : pc'[g] = pc[g] /\ sess'[g] = sess[g]
    BY <1>2 DEF InitBegin, Goto, TypeOK, Agents
  <1>3. CASE Reset
    BY <1>3 DEF Reset, NoneBegins, Creating, PruneCalls, Agents
  <1>4. CASE Tick \/ UNCHANGED vars
    BY <1>4 DEF Tick, vars, NoneBegins, Creating
  <1> QED
    BY <1>1, <1>2, <1>3, <1>4, NextForms, PassBeginsNone

LEMMA ApartStep ==
    ASSUME LInv, [Next]_vars
    PROVE  Apart'
  <1> USE DEF LInv, MInv, PInv, WInv
  <1>1. ASSUME NEW g \in Requests, pc'[g] \in Heading
        PROVE  /\ sess'[g] = sess[g]
               /\ pc[g] \in Heading \/ status[sess[g]] = "active"
               /\ upload[sess[g]] # "none"
    <2>1. /\ sess'[g] = sess[g]
          /\ pc[g] \in Heading \/ status[sess[g]] = "active"
          /\ pc[g] \notin {"idle", "gc.prune"}
      BY <1>1, NextHeads DEF Heads, Heading, Unput, CompleteGet, Assemble, LoadedActive
    <2> QED
      BY <2>1 DEF Known
  <1>2. ASSUME NEW g \in Requests, NEW h \in Requests,
               pc'[g] \in Heading, Creating(h), sess'[h] = sess[h]
        PROVE  sess'[g] # sess'[h]
    BY <1>1, <1>2 DEF Apart, Unborn
  <1>3. CASE NoneBegins
    BY <1>2, <1>3 DEF Apart, NoneBegins, Creating
  <1>4. ASSUME NEW i \in Requests, NEW s \in Sessions, InitBegin(i, s), sess'[i] = s,
               \A h \in Requests \ {i} : pc'[h] = pc[h] /\ sess'[h] = sess[h]
        PROVE  Apart'
    <2>1. upload[s] = "none"
      BY <1>4 DEF InitBegin
    <2> QED
      BY <1>1, <1>2, <1>4, <2>1 DEF Apart, Creating
  <1> QED
    BY <1>3, <1>4, NextCreates

LEMMA UnwrittenStep ==
    ASSUME LInv, [Next]_vars
    PROVE  Unwritten'
  <1> USE DEF LInv, MInv, PInv, IInv
  <1>1. Unput \subseteq Assembled /\ "assemble" \notin Unput
    BY DEF Unput, Assembled, Passed
  <1>2. SUFFICES ASSUME NEW h \in Requests, pc'[h] \in Unput
                 PROVE  sess'[h] \notin stored'
    BY DEF Unwritten
  <1>3. CASE Assemble(h)
    <2>1. upload[sess[h]] = "open" /\ UNCHANGED <<sess, stored>>
      BY <1>3 DEF Assemble, history, stored
    <2> QED
      BY <2>1 DEF Ends
  <1>4. CASE pc[h] \in Unput /\ sess'[h] = sess[h]
    <2>1. sess[h] \notin stored /\ sess[h] \in Sessions
      BY <1>4 DEF Unwritten, Unput, TypeOK
    <2>2. CASE UNCHANGED stored
      BY <1>4, <2>1, <2>2
    <2>3. ASSUME NEW g \in Requests, PromotePut(g)
          PROVE  sess[h] \notin stored'
      <3>1. pc[g] \in Assembled /\ pc'[g] = "promote.clean"
        BY <2>3 DEF PromotePut, Goto, TypeOK, Agents, Assembled, Passed
      <3>2. g # h
        BY <1>2, <3>1 DEF Unput
      <3>3. sess[g] # sess[h]
        BY <1>1, <1>4, <3>1, <3>2 DEF Sole
      <3> QED
        BY <2>1, <2>3, <3>3, WriteAdds
    <2> QED
      BY <1>4, <2>2, <2>3, NextHistory DEF stored
  <1>5. \/ Assemble(h)
        \/ pc[h] \in Unput /\ sess'[h] = sess[h]
    <2>1. CompleteGet(h) => pc'[h] = "assemble"
      BY DEF CompleteGet, Goto, TypeOK, Agents
    <2> QED
      BY <1>1, <1>2, <2>1, NextHeads DEF Heads, Heading
  <1> QED
    BY <1>3, <1>4, <1>5

LEMMA InitLInv ==
    ASSUME ConstantsAssumption, Init
    PROVE  LInv
  <1>1. \A h \in Requests : pc[h] = "idle"
    BY DEF Init, Agents
  <1>2. Unwritten /\ Apart
    BY <1>1 DEF Unwritten, Apart, Heading, Unput
  <1> QED
    BY <1>2, InitMInv DEF LInv

LEMMA NextLInv ==
    ASSUME ConstantsAssumption, LInv, [Next]_vars
    PROVE  LInv'
  BY ApartStep, UnwrittenStep, NextMInv DEF LInv

\* No request writes what was written before, in every state of the completions of
\* a session and of the create that drew it (routes/upload.ts).
THEOREM WritesInductive == Spec => []LInv
  <1>1. Init => LInv
    BY InitLInv, ConstantsAssumption
  <1>2. LInv /\ [Next]_vars => LInv'
    BY NextLInv, ConstantsAssumption
  <1> QED
    BY <1>1, <1>2, PTL DEF Spec

\* Bytes that were replaced at their key never come back, whatever completions are
\* retried, delayed or overlap (promoteObject in POST /upload/complete).
THEOREM ReplacedHolds == Spec => ReplacedStaysReplaced
  <1>1. ASSUME LInv, [Next]_vars, NEW k \in Keys, target'[k] # target[k]
        PROVE  target'[k] \notin stored
    <2>1. PICK h \in Requests : PromotePut(h)
      BY <1>1, NextHistory
    <2>2. sess[h] \notin stored
      BY <1>1, <2>1 DEF LInv, Unwritten, Unput, PromotePut
    <2> QED
      BY <1>1, <2>1, <2>2 DEF PromotePut, LInv, MInv, PInv, IInv, TypeOK
  <1>2. LInv /\ [Next]_vars =>
          [\A k \in Keys : target'[k] # target[k] => target'[k] \notin stored]_target
    BY <1>1
  <1> QED
    BY <1>2, WritesInductive, PTL DEF Spec, ReplacedStaysReplaced

\* A session that has not been created yet.
Drawing(s) ==
    /\ status[s] = "none"
    /\ upload[s] = "none" \/ \E h \in Requests : sess[h] = s /\ Creating(h)

LEMMA StateForms ==
    ASSUME NEW s \in Sessions
    PROVE  /\ SessionState(s) = "none" <=> Drawing(s)
           /\ status[s] # "none" => SessionState(s) = status[s]
           /\ status[s] = "none" /\ ~Drawing(s) => SessionState(s) = "gone"
  BY DEF SessionState, Drawing, Creating

\* What is created or gone is never to be created again.
LEMMA DrawingStep ==
    ASSUME LInv, [Next]_vars, NEW s \in Sessions, status[s] = "none", Drawing(s)'
    PROVE  Drawing(s)
  <1>1. upload'[s] = "none" => upload[s] = "none"
    BY NextDraws DEF LInv, MInv, PInv, IInv
  <1>2. ASSUME NEW h \in Requests, sess'[h] = s, pc'[h] \in {"create", "create.prune"}
        PROVE  Drawing(s)
    <2>1. CASE NoneBegins
      BY <1>2, <2>1 DEF NoneBegins, Drawing
    <2>2. ASSUME NEW g \in Requests, NEW t \in Sessions, InitBegin(g, t), sess'[g] = t,
                 \A i \in Requests \ {g} : pc'[i] = pc[i] /\ sess'[i] = sess[i]
          PROVE  Drawing(s)
      BY <1>2, <2>2 DEF InitBegin, Drawing, Creating
    <2> QED
      BY <2>1, <2>2, NextCreates DEF LInv
  <1> QED
    BY <1>1, <1>2 DEF Drawing, Creating

\* Whatever a step writes moves each session on as the contract has it.
LEMMA RecordMoves ==
    ASSUME ConstantsAssumption, LInv, [Next]_vars, UNCHANGED written, NEW s \in Sessions
    PROVE  Lifecycle!Moves(s, SessionState(s)')
  <1> USE DEF Lifecycle!Moves
  <1>1. LInv' /\ Changes(s)
    BY NextLInv, NextMInv DEF LInv, Moving
  <1>2. status[s] \in Statuses /\ status'[s] \in Statuses
    BY <1>1 DEF LInv, MInv, PInv, IInv, TypeOK
  <1>3. /\ SessionState(s) = "none" <=> Drawing(s)
        /\ status[s] # "none" => SessionState(s) = status[s]
        /\ status[s] = "none" /\ ~Drawing(s) => SessionState(s) = "gone"
    BY StateForms
  <1>4. /\ SessionState(s)' = "none" <=> Drawing(s)'
        /\ status'[s] # "none" => SessionState(s)' = status'[s]
        /\ status'[s] = "none" /\ ~Drawing(s)' => SessionState(s)' = "gone"
    BY DEF SessionState, Drawing, Creating
  <1>5. CASE status'[s] = status[s]
    <2>1. status[s] = "none" /\ Drawing(s)' => Drawing(s)
      BY DrawingStep
    <2> QED
      BY <1>3, <1>4, <1>5, <2>1
  <1>6. CASE Created(s)
    <2>1. Drawing(s)
      BY <1>6 DEF Created, Drawing
    <2> QED
      BY <1>3, <1>4, <1>6, <2>1 DEF Created
  <1>7. CASE Marked(s)
    <2>0. written[s] \in Nat /\ UNCHANGED stored
      BY <1>1 DEF LInv, MInv, PInv, IInv, TypeOK, stored
    <2>1. status'[s] = "completed" => written[s] > 0
      BY <1>1, <2>0 DEF LInv, MInv, PInv, IInv, CompletedWasStored, stored
    <2>2. status'[s] = "aborted" => written[s] = 0
      <3>1. status'[s] = "aborted" => s \notin stored
        BY <1>1, <2>0 DEF LInv, MInv, PInv, IInv, Remembered, Ends
      <3> QED
        BY <2>0, <3>1 DEF stored
    <2> QED
      BY <1>3, <1>4, <1>7, <2>1, <2>2 DEF Marked
  <1>8. CASE Ended(s)
    BY <1>3, <1>4, <1>8 DEF Ended, Unexpired
  <1>9. CASE Deleted(s)
    <2>1. upload'[s] # "none"
      BY <1>9, NextDraws DEF Deleted, LInv, MInv, PInv, IInv, WInv, Known
    <2>2. ASSUME NEW h \in Requests, sess'[h] = s, pc'[h] \in {"create", "create.prune"}
          PROVE  FALSE
      <3>1. CASE NoneBegins
        BY <1>9, <2>2, <3>1 DEF NoneBegins, LInv, MInv, Unborn, Deleted
      <3>2. CASE \E g \in Requests, t \in Sessions : InitBegin(g, t)
        BY <1>9, <3>2 DEF InitBegin, store, Deleted
      <3> QED
        BY <3>1, <3>2, NextCreates DEF LInv
    <2>3. ~Drawing(s)'
      BY <2>1, <2>2 DEF Drawing, Creating
    <2> QED
      BY <1>3, <1>4, <1>9, <2>3 DEF Deleted
  <1> QED
    BY <1>1, <1>5, <1>6, <1>7, <1>8, <1>9 DEF Changes

\* Every step but the write of bytes is one of records.
LEMMA RecordStep ==
    ASSUME ConstantsAssumption, LInv, [Next]_vars, UNCHANGED written,
           UNCHANGED aborted \/ \E h \in Requests : MarkAborted(h)
    PROVE  Lifecycle!Record
  <1>1. LInv' /\ TypeOK /\ TypeOK'
    BY NextLInv DEF LInv, MInv, PInv, IInv
  <1>2. \A s \in Sessions : Lifecycle!Moves(s, SessionState(s)')
    BY RecordMoves
  <1>3. \A s \in Sessions : SessionState(s)' = "aborted" <=> status'[s] = "aborted"
    BY DEF SessionState
  <1>4. \A s \in Sessions : status'[s] = "aborted" => s \in aborted'
    BY <1>1 DEF LInv, MInv, PInv, Remembered
  <1>5. \A s \in aborted' : s \in aborted \/ status'[s] = "aborted"
    <2>1. ASSUME NEW h \in Requests, MarkAborted(h)
          PROVE  aborted' = aborted \union {sess[h]} /\ status'[sess[h]] = "aborted"
      BY <1>1, <2>1 DEF MarkAborted, LoadedActive, TypeOK
    <2> QED
      BY <2>1
  <1>6. aborted \subseteq aborted'
    BY DEF MarkAborted
  <1>7. aborted' = aborted \union {s \in Sessions : SessionState(s)' = "aborted"}
    BY <1>1, <1>3, <1>4, <1>5, <1>6 DEF TypeOK
  <1>8. [s \in Sessions |-> SessionState(s)]' \in [Sessions -> Lifecycle!States]
    BY <1>1 DEF SessionState, Lifecycle!States, TypeOK, Statuses
  <1> QED
    BY <1>2, <1>7, <1>8 DEF Lifecycle!Record

\* A promotion writes the bytes of a session that was created and not ended.
LEMMA WriteStep ==
    ASSUME ConstantsAssumption, LInv, NEW h \in Requests, PromotePut(h)
    PROVE  Lifecycle!Write(sess[h]) /\ sess[h] \in Sessions
  <1> DEFINE s == sess[h]
  <1> USE DEF LInv, MInv, PInv, IInv
  <1>1. pc[h] \in Unput /\ pc[h] \in Assembled /\ pc[h] \in Heading
    BY DEF PromotePut, Unput, Assembled, Passed, Heading
  <1>2. s \in Sessions /\ upload[s] = "completed" /\ verdict[s] = "valid"
    BY DEF PromotePut, TypeOK, Progress, Assembled, Passed
  <1>3. s \notin stored /\ s \notin aborted
    BY <1>1, <1>2 DEF Unwritten, Ends
  <1>10. written[s] = 0
    BY <1>2, <1>3 DEF TypeOK, stored
  <1>4. status[s] \in {"none", "active", "expired"}
    BY <1>2, <1>3 DEF TypeOK, Statuses, CompletedWasStored, Remembered
  <1>5. ~Drawing(s)
    BY <1>1, <1>2 DEF Drawing, Apart
  <1>6. SessionState(s) \in {"active", "expired", "gone"}
    BY <1>2, <1>4, <1>5, StateForms
  <1>7. UNCHANGED <<status, upload, aborted>> /\ written' = [written EXCEPT ![s] = @ + 1]
    BY DEF PromotePut, store
  <1>8. \A g \in Requests : (sess'[g] = sess[g]) /\ (Creating(g)' <=> Creating(g))
    BY DEF PromotePut, Creating, Goto, TypeOK, Agents
  <1>9. \A t \in Sessions : SessionState(t)' = SessionState(t)
    BY <1>7, <1>8 DEF SessionState, Creating
  <1> QED
    BY <1>2, <1>3, <1>10, <1>6, <1>7, <1>9 DEF Lifecycle!Write

LEMMA LifecycleInit ==
    ASSUME Init
    PROVE  Lifecycle!Init
  BY DEF Init, Lifecycle!Init, SessionState

LEMMA LifecycleStep ==
    ASSUME ConstantsAssumption, LInv, [Next]_vars
    PROVE  Lifecycle!Next
  <1>1. CASE \E h \in Requests : PromotePut(h)
    BY <1>1, WriteStep DEF Lifecycle!Next
  <1>2. CASE /\ UNCHANGED <<written, target>>
             /\ UNCHANGED aborted \/ \E h \in Requests : MarkAborted(h)
    BY <1>2, RecordStep DEF Lifecycle!Next
  <1> QED
    BY <1>1, <1>2, NextHistory

\* The Durable Object, R2 and the requests between them keep the contract of a
\* session, for any sessions, keys, requests, passes, restarts and R2 failures
\* (upload-sessions.ts, routes/upload.ts).
THEOREM SessionsImplementLifecycle == Spec => LifecycleSpec
  <1>1. Init => Lifecycle!Init
    BY LifecycleInit
  <1>2. LInv /\ [Next]_vars => [Lifecycle!Next]_Lifecycle!vars
    BY LifecycleStep, ConstantsAssumption
  <1> QED
    BY <1>1, <1>2, WritesInductive, PTL DEF Spec, LifecycleSpec, Lifecycle!Spec
=============================================================================
