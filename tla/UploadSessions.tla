--------------------------- MODULE UploadSessions ---------------------------
(***************************************************************************)
(* Multipart uploads of one owner: the owner's Durable Object (session     *)
(* records and one alarm), the R2 bucket (multipart uploads, staged        *)
(* objects, target objects) and the Worker requests that drive both.       *)
(*                                                                         *)
(* Grain of atomicity.  A request is a sequence of steps, one per await of *)
(* a Durable Object call or of an R2 call; anything may happen between two *)
(* of them.  Inside the Durable Object the input gate holds other events   *)
(* back while storage is read or written, so a run of storage calls is one *)
(* step; a handler gives way only while it awaits R2, which it does when   *)
(* it releases an expired upload.                                          *)
(***************************************************************************)
EXTENDS Naturals, FiniteSets, FiniteSetsExt

CONSTANTS
    Sessions,       \* session ids, each drawn at random by one upload/init
    Keys,           \* target object keys
    ObjectKey,      \* the key the init that draws a session id asks for
    Requests,       \* slots for concurrent Worker requests
    Alarm,          \* the Durable Object's alarm invocation
    NoAlarm,        \* value of an alarm slot that is not set
    NoSession,      \* value of a request or target slot that names none
    MaxConcurrent,  \* R2E_UPLOAD_MAX_CONCURRENT_PER_USER, 0 = no limit
    SessionTtl,     \* R2E_UPLOAD_SESSION_TTL_SEC, in ticks
    Retention,      \* EXPIRED_RETENTION_MS, in ticks
    Slack,          \* ticks within which an invocation ends and an alarm fires
    MaxTime,        \* bound on the clock
    FaultSites,     \* R2 calls that may fail although the request lives on
    MaxFaults,      \* bound on such failures
    MaxResets       \* bound on restarts of the Durable Object

Sites == {"release.abort", "release.delete", "init.abort",
          "reject.delete", "promote.delete"}

ASSUME ConstantsAssumption ==
    /\ IsFiniteSet(Sessions)
    /\ ObjectKey \in [Sessions -> Keys]
    /\ Alarm \notin Requests
    /\ NoAlarm \notin Nat
    /\ NoSession \notin Sessions
    /\ MaxConcurrent \in Nat
    /\ SessionTtl \in Nat \ {0}
    /\ Retention \in Nat \ {0}
    /\ Slack \in Nat \ {0}
    /\ MaxTime \in Nat
    /\ FaultSites \subseteq Sites
    /\ MaxFaults \in Nat
    /\ MaxResets \in Nat

\* A day of retention is long against one invocation.
ASSUME RetentionAssumption == Retention > Slack

VARIABLES
    now,        \* the clock every party reads (Date.now())
    status,     \* storage: the stored record's status, "none" without a record
    expiresAt,  \* the expiry an init fixes before it creates anything
    alarm,      \* storage: the alarm slot
    upload,     \* R2: state of the session's multipart upload
    staged,     \* R2: sessions with an object at their staging key
    verdict,    \* what validation finds in the bytes a session assembles
    target,     \* R2: the session whose bytes are at a target key
    pc,         \* where a request, or the alarm invocation, is
    sess,       \* the session a request is about
    job,        \* a Durable Object invocation's copy of what it listed
    faults,     \* R2 failures so far
    resets,     \* Durable Object restarts so far
    written,    \* history: how often the bytes of a session were put at their target
    aborted     \* history: sessions whose record has ever been aborted

store == <<status, alarm>>
r2 == <<upload, staged, target>>
history == <<written, aborted>>
frame == <<now, expiresAt, verdict, resets>>
\* Everything but the local state of the requests.
world == <<frame, store, r2, job, faults, history>>
vars == <<world, pc, sess>>

Agents == Requests \union {Alarm}
Statuses == {"none", "active", "completed", "aborted", "expired"}

\* The awaits at which a request asks the Durable Object to load its session.
LoadCalls == {"sign.get", "sign.record", "complete.get", "complete.mark",
              "reject.mark", "abort.get", "abort.mark"}

\* The awaits inside the Durable Object: another event may be delivered there.
PruneCalls == {"create.prune", "gc.prune", "alarm.prune", "load.expire"}

Labels == LoadCalls \union PruneCalls \union
          {"idle", "create", "init.reply", "init.cleanup", "assemble",
           "validate", "reject.delete", "promote.read", "promote.put",
           "promote.clean", "abort.r2"}

NoJob == [at |-> 0, todo |-> {}, marks |-> {}, dels |-> {}]

-----------------------------------------------------------------------------
(* The records of the Durable Object.                                      *)

ExpiredAt(s, t) == expiresAt[s] <= t

Recorded(st) == {s \in Sessions : st[s] # "none"}

\* Mutant: only an upload that has not begun counts as in flight.
InFlightInitOnly(s) == status[s] = "init"

\* Only a freshly posted record is in state "init": storage holds "active".
InFlight(s) == status[s] = "active"

ActiveAt(st, t) == {s \in Sessions : st[s] = "active" /\ ~ExpiredAt(s, t)}

NextEvent(st, s) ==
    IF st[s] = "expired" THEN expiresAt[s] + Retention ELSE expiresAt[s]

\* Mutant: no alarm for the deletion of an expired record.
NextAlarmPendingOnly(st) ==
    LET pending == {s \in Recorded(st) : st[s] # "expired"}
    IN  IF pending = {} THEN NoAlarm
        ELSE Min({expiresAt[s] : s \in pending})

NextAlarm(st) ==
    IF Recorded(st) = {}
    THEN NoAlarm
    ELSE Min({NextEvent(st, s) : s \in Recorded(st)})

\* Mutant: an expired record is deleted by the next pass, not a day later.
PruneJobNoRetention ==
    LET past == {s \in Recorded(status) : ExpiredAt(s, now)}
    IN  [at    |-> now,
         marks |-> {s \in past : status[s] # "expired"},
         todo  |-> {s \in past : InFlight(s)},
         dels  |-> {s \in past : status[s] = "expired"}]

\* What a pruning pass takes from its listing: the records to mark expired,
\* those of them whose R2 resources it must release first, and the expired
\* records whose retention is over.
PruneJob ==
    LET past == {s \in Recorded(status) : ExpiredAt(s, now)}
    IN  [at    |-> now,
         marks |-> {s \in past : status[s] # "expired"},
         todo  |-> {s \in past : InFlight(s)},
         dels  |-> {s \in past : /\ status[s] = "expired"
                                 /\ expiresAt[s] + Retention <= now}]

\* The records after a pass has written what it took from its listing.
Pruned(j) ==
    [s \in Sessions |-> IF s \in j.dels THEN "none"
                        ELSE IF s \in j.marks THEN "expired"
                        ELSE status[s]]

-----------------------------------------------------------------------------
Init ==
    /\ now = 0
    /\ status = [s \in Sessions |-> "none"]
    /\ expiresAt = [s \in Sessions |-> 0]
    /\ alarm = NoAlarm
    /\ upload = [s \in Sessions |-> "none"]
    /\ staged = {}
    /\ verdict = [s \in Sessions |-> "valid"]
    /\ target = [k \in Keys |-> NoSession]
    /\ pc = [a \in Agents |-> "idle"]
    /\ sess = [h \in Requests |-> NoSession]
    /\ job = [a \in Agents |-> NoJob]
    /\ faults = 0
    /\ resets = 0
    /\ written = [s \in Sessions |-> 0]
    /\ aborted = {}

Goto(a, label) == pc' = [pc EXCEPT ![a] = label]

\* The request is over: it leaves its slot without local state.
Return(h) ==
    /\ Goto(h, "idle")
    /\ sess' = [sess EXCEPT ![h] = NoSession]

\* An R2 call that fails is counted; one that works is not.
FaultAt(site) ==
    /\ site \in FaultSites
    /\ faults < MaxFaults
    /\ faults' = faults + 1

-----------------------------------------------------------------------------
(* POST /upload/init.                                                      *)

\* The policy checks pass; the expiry is fixed, then the multipart upload is
\* created at the staging key.
InitBegin(h, s) ==
    /\ pc[h] = "idle"
    /\ upload[s] = "none"
    /\ now + SessionTtl + Retention + Slack <= MaxTime
    /\ expiresAt' = [expiresAt EXCEPT ![s] = now + SessionTtl]
    /\ upload' = [upload EXCEPT ![s] = "open"]
    /\ sess' = [sess EXCEPT ![h] = s]
    /\ Goto(h, "create")
    /\ UNCHANGED <<now, store, staged, verdict, target, job, faults, resets,
                   history>>

KeyTaken(s, busy) == \E t \in busy : ObjectKey[t] = ObjectKey[s]
LimitReached(busy) == MaxConcurrent > 0 /\ Cardinality(busy) >= MaxConcurrent

\* Mutant: the key is not checked.
RefusedByLimitOnly(s, st, t) == LimitReached(ActiveAt(st, t))

\* Mutant: the limit is taken as the number of other sessions allowed.
RefusedOneLate(s, st, t) ==
    LET busy == ActiveAt(st, t)
    IN  \/ MaxConcurrent > 0 /\ Cardinality(busy) > MaxConcurrent
        \/ KeyTaken(s, busy)

\* /create answers 429 at the limit, 409 while another session has the key.
Refused(s, st, t) ==
    LET busy == ActiveAt(st, t)
    IN  LimitReached(busy) \/ KeyTaken(s, busy)

\* The end of /create, after the pruning pass j: the limit and the key are
\* checked at the time the call began, and the record and the alarm stored.
CreateCommit(h, j) ==
    LET s == sess[h]
        st == Pruned(j)
        st2 == [st EXCEPT ![s] = "active"]
    IN  /\ \/ /\ Refused(s, st, j.at)
              /\ status' = st
              /\ UNCHANGED alarm
              /\ Goto(h, "init.cleanup")
           \/ /\ ~Refused(s, st, j.at)
              /\ status' = st2
              /\ alarm' = NextAlarm(st2)
              /\ Goto(h, "init.reply")
        /\ UNCHANGED <<frame, r2, sess, faults, history>>

\* /create lists the records; with nothing to release it runs to its end.
CreateCall(h) ==
    /\ pc[h] = "create"
    /\ \/ /\ PruneJob.todo = {}
          /\ CreateCommit(h, PruneJob)
          /\ UNCHANGED job
       \/ /\ PruneJob.todo # {}
          /\ job' = [job EXCEPT ![h] = PruneJob]
          /\ Goto(h, "create.prune")
          /\ UNCHANGED <<frame, store, r2, sess, faults, history>>

CreatePruned(h) ==
    /\ pc[h] = "create.prune"
    /\ job[h].todo = {}
    /\ CreateCommit(h, job[h])
    /\ job' = [job EXCEPT ![h] = NoJob]

InitReply(h) ==
    /\ pc[h] = "init.reply"
    /\ Return(h)
    /\ UNCHANGED world

\* Mutant: the handler of the failed call no longer knows what to clean up.
CreateCallLostForgets(h) ==
    /\ pc[h] \in {"create", "init.reply"}
    /\ Goto(h, "init.cleanup")
    /\ sess' = [sess EXCEPT ![h] = NoSession]
    /\ UNCHANGED world

\* The call fails before it reaches the object, or its answer is lost after
\* the record was stored: init takes either for a refusal.
CreateCallLost(h) ==
    /\ pc[h] \in {"create", "init.reply"}
    /\ Goto(h, "init.cleanup")
    /\ UNCHANGED <<world, sess>>

\* The multipart upload a refused init created is aborted, best effort.
InitCleanup(h) ==
    /\ pc[h] = "init.cleanup"
    /\ \/ /\ upload' = IF upload[sess[h]] = "open"
                       THEN [upload EXCEPT ![sess[h]] = "aborted"]
                       ELSE upload
          /\ UNCHANGED faults
       \/ /\ FaultAt("init.abort")
          /\ UNCHANGED upload
    /\ Return(h)
    /\ UNCHANGED <<frame, store, staged, target, job, history>>

-----------------------------------------------------------------------------
(* The Durable Object: loading a session, pruning, the alarm.              *)

\* A request names a session: any that an init has drawn, whether its record
\* is stored yet, still, or no longer.
RequestBegin(h, s, label) ==
    /\ pc[h] = "idle"
    /\ upload[s] # "none"
    /\ sess' = [sess EXCEPT ![h] = s]
    /\ Goto(h, label)
    /\ UNCHANGED world

SignPart(h, s) == RequestBegin(h, s, "sign.get")
Complete(h, s) == RequestBegin(h, s, "complete.get")
Abort(h, s) == RequestBegin(h, s, "abort.get")

\* Loading a session past its expiry: one in flight is released first, which
\* awaits R2; any other is marked at once.  The caller gets 410.
LoadExpired(h) ==
    LET s == sess[h]
    IN  /\ pc[h] \in LoadCalls
        /\ status[s] # "none"
        /\ ExpiredAt(s, now)
        /\ \/ /\ InFlight(s)
              /\ job' = [job EXCEPT ![h] = [at |-> now, todo |-> {s},
                                            marks |-> {s}, dels |-> {}]]
              /\ Goto(h, "load.expire")
              /\ UNCHANGED <<status, sess>>
           \/ /\ ~InFlight(s)
              /\ status' = [status EXCEPT ![s] = "expired"]
              /\ Return(h)
              /\ UNCHANGED job
        /\ UNCHANGED <<frame, alarm, r2, faults, history>>

LoadReleased(h) ==
    /\ pc[h] = "load.expire"
    /\ job[h].todo = {}
    /\ status' = Pruned(job[h])
    /\ job' = [job EXCEPT ![h] = NoJob]
    /\ Return(h)
    /\ UNCHANGED <<frame, alarm, r2, faults, history>>

\* No record (404), or a record that is not active: every call refuses it or,
\* for an abort of an aborted session, reports success; nothing changes.
LoadRefused(h) ==
    LET s == sess[h]
    IN  /\ pc[h] \in LoadCalls
        /\ \/ status[s] = "none"
           \/ status[s] # "active" /\ ~ExpiredAt(s, now)
        /\ Return(h)
        /\ UNCHANGED world

\* A call that finds its session active and unexpired.
LoadedActive(h, label) ==
    /\ pc[h] = label
    /\ status[sess[h]] = "active"
    /\ ~ExpiredAt(sess[h], now)

\* One expired upload is released: its multipart upload aborted, then its
\* staged object deleted.  R2 refuses to abort an upload that is not open;
\* that error, like a transient one, is logged.  (Both calls are one step:
\* between them only an assembly of the same upload could matter, and it has
\* the effect of one before the abort or one after the delete.)
ReleaseOne(a) ==
    /\ pc[a] \in PruneCalls
    /\ \E s \in job[a].todo :
        /\ job' = [job EXCEPT ![a].todo = @ \ {s}]
        /\ \/ /\ upload' = IF upload[s] = "open"
                           THEN [upload EXCEPT ![s] = "aborted"] ELSE upload
              /\ staged' = staged \ {s}
              /\ UNCHANGED faults
           \/ /\ FaultAt("release.abort")
              /\ staged' = staged \ {s}
              /\ UNCHANGED upload
           \/ /\ FaultAt("release.delete")
              /\ upload' = IF upload[s] = "open"
                           THEN [upload EXCEPT ![s] = "aborted"] ELSE upload
              /\ UNCHANGED staged
    /\ UNCHANGED <<frame, store, target, pc, sess, history>>

\* The end of the alarm and of /gc-expired: store the pass, schedule the next.
PruneCommit(a, j) ==
    /\ status' = Pruned(j)
    /\ alarm' = NextAlarm(Pruned(j))
    /\ Goto(a, "idle")
    /\ UNCHANGED <<frame, r2, sess, faults, history>>

\* The alarm handler runs with the slot already cleared.
AlarmFires ==
    /\ pc[Alarm] = "idle"
    /\ alarm # NoAlarm
    /\ alarm <= now
    /\ \/ /\ PruneJob.todo = {}
          /\ PruneCommit(Alarm, PruneJob)
          /\ UNCHANGED job
       \/ /\ PruneJob.todo # {}
          /\ job' = [job EXCEPT ![Alarm] = PruneJob]
          /\ alarm' = NoAlarm
          /\ Goto(Alarm, "alarm.prune")
          /\ UNCHANGED <<frame, status, r2, sess, faults, history>>

GcExpired(h) ==
    /\ pc[h] = "idle"
    /\ \/ /\ PruneJob.todo = {}
          /\ PruneCommit(h, PruneJob)
          /\ UNCHANGED job
       \/ /\ PruneJob.todo # {}
          /\ job' = [job EXCEPT ![h] = PruneJob]
          /\ Goto(h, "gc.prune")
          /\ UNCHANGED <<frame, store, r2, sess, faults, history>>

PruneDone(a) ==
    /\ pc[a] \in {"alarm.prune", "gc.prune"}
    /\ job[a].todo = {}
    /\ PruneCommit(a, job[a])
    /\ job' = [job EXCEPT ![a] = NoJob]

-----------------------------------------------------------------------------
(* POST /upload/sign-part.  The signed URL and the record of its issue are *)
(* data nothing reads back; what matters is that both calls load.          *)

SignGet(h) ==
    /\ LoadedActive(h, "sign.get")
    /\ Goto(h, "sign.record")
    /\ UNCHANGED <<world, sess>>

SignRecord(h) ==
    /\ LoadedActive(h, "sign.record")
    /\ Return(h)
    /\ UNCHANGED world

-----------------------------------------------------------------------------
(* POST /upload/complete.                                                  *)

CompleteGet(h) ==
    /\ LoadedActive(h, "complete.get")
    /\ Goto(h, "assemble")
    /\ UNCHANGED <<world, sess>>

\* R2 assembles the parts at the staging key, once.  The size checks follow
\* without an await.
Assemble(h) ==
    LET s == sess[h]
    IN  /\ pc[h] = "assemble"
        /\ upload[s] = "open"
        /\ upload' = [upload EXCEPT ![s] = "completed"]
        /\ staged' = staged \union {s}
        /\ \E v \in {"valid", "wrong_size", "wrong_type"} :
            /\ verdict' = [verdict EXCEPT ![s] = v]
            /\ Goto(h, IF v = "wrong_size" THEN "reject.delete"
                       ELSE "validate")
        /\ UNCHANGED <<now, store, expiresAt, target, sess, job, faults, resets,
                       history>>

\* Mutant: an upload already assembled is taken for completed.
AssembleRefusedCompletes(h) ==
    /\ pc[h] = "assemble"
    /\ upload[sess[h]] # "open"
    /\ Goto(h, "complete.mark")
    /\ UNCHANGED <<world, sess>>

\* Mutant: a retry resumes at the promotion, behind the validation.
AssembleRefusedResumes(h) ==
    /\ pc[h] = "assemble"
    /\ upload[sess[h]] # "open"
    /\ Goto(h, "promote.read")
    /\ UNCHANGED <<world, sess>>

\* The upload is gone or already assembled: R2 refuses, the request fails.
AssembleRefused(h) ==
    /\ pc[h] = "assemble"
    /\ upload[sess[h]] # "open"
    /\ Return(h)
    /\ UNCHANGED world

\* The first bytes of the staged object decide on its type (404 without it).
Validate(h) ==
    LET s == sess[h]
    IN  /\ pc[h] = "validate"
        /\ \/ s \notin staged /\ Return(h)
           \/ /\ s \in staged
              /\ Goto(h, IF verdict[s] = "valid" THEN "promote.read"
                         ELSE "reject.delete")
              /\ UNCHANGED sess
        /\ UNCHANGED world

\* rejectStagedUpload: delete the staged object, then mark the session.
RejectDelete(h) ==
    /\ pc[h] = "reject.delete"
    /\ \/ staged' = staged \ {sess[h]} /\ UNCHANGED faults
       \/ FaultAt("reject.delete") /\ UNCHANGED staged
    /\ Goto(h, "reject.mark")
    /\ UNCHANGED <<frame, store, upload, target, sess, job, history>>

\* promoteObject: read the staged object (404 without it) ...
PromoteRead(h) ==
    /\ pc[h] = "promote.read"
    /\ \/ sess[h] \notin staged /\ Return(h)
       \/ sess[h] \in staged /\ Goto(h, "promote.put") /\ UNCHANGED sess
    /\ UNCHANGED world

\* ... write it at the target key ...
PromotePut(h) ==
    LET s == sess[h]
    IN  /\ pc[h] = "promote.put"
        /\ target' = [target EXCEPT ![ObjectKey[s]] = s]
        /\ written' = [written EXCEPT ![s] = @ + 1]
        /\ Goto(h, "promote.clean")
        /\ UNCHANGED <<frame, store, upload, staged, sess, job, faults, aborted>>

\* ... and delete the staged copy, best effort.
PromoteClean(h) ==
    /\ pc[h] = "promote.clean"
    /\ \/ staged' = staged \ {sess[h]} /\ UNCHANGED faults
       \/ FaultAt("promote.delete") /\ UNCHANGED staged
    /\ Goto(h, "complete.mark")
    /\ UNCHANGED <<frame, store, upload, target, sess, job, history>>

\* Mutant: the mark is written whatever the record has become meanwhile.
MarkCompletedAnyway(h) ==
    /\ pc[h] = "complete.mark"
    /\ status[sess[h]] # "none"
    /\ status' = [status EXCEPT ![sess[h]] = "completed"]
    /\ Return(h)
    /\ UNCHANGED <<frame, alarm, r2, job, faults, history>>

MarkCompleted(h) ==
    /\ LoadedActive(h, "complete.mark")
    /\ status' = [status EXCEPT ![sess[h]] = "completed"]
    /\ Return(h)
    /\ UNCHANGED <<frame, alarm, r2, job, faults, history>>

-----------------------------------------------------------------------------
(* POST /upload/abort.                                                     *)

\* Mutant: the record is marked before R2 has agreed to the abort.
AbortGetMarksFirst(h) ==
    /\ LoadedActive(h, "abort.get")
    /\ Goto(h, "abort.mark")
    /\ UNCHANGED <<world, sess>>

AbortGet(h) ==
    /\ LoadedActive(h, "abort.get")
    /\ Goto(h, "abort.r2")
    /\ UNCHANGED <<world, sess>>

\* Mutant: R2's refusal to abort is swallowed.
AbortUploadIgnoresRefusal(h) ==
    LET s == sess[h]
    IN  /\ pc[h] = "abort.r2"
        /\ upload' = IF upload[s] = "open"
                     THEN [upload EXCEPT ![s] = "aborted"] ELSE upload
        /\ Goto(h, "abort.mark")
        /\ UNCHANGED <<frame, store, staged, target, sess, job, faults, history>>

\* R2 aborts an open upload; for one already assembled or aborted the call
\* fails and the request with it, before the record is touched.
AbortUpload(h) ==
    LET s == sess[h]
    IN  /\ pc[h] = "abort.r2"
        /\ \/ /\ upload[s] = "open"
              /\ upload' = [upload EXCEPT ![s] = "aborted"]
              /\ Goto(h, "abort.mark")
              /\ UNCHANGED sess
           \/ upload[s] # "open" /\ Return(h) /\ UNCHANGED upload
        /\ UNCHANGED <<frame, store, staged, target, job, faults, history>>

\* Also the end of rejectStagedUpload.
MarkAborted(h) ==
    /\ \E label \in {"abort.mark", "reject.mark"} : LoadedActive(h, label)
    /\ status' = [status EXCEPT ![sess[h]] = "aborted"]
    /\ aborted' = aborted \union {sess[h]}
    /\ Return(h)
    /\ UNCHANGED <<frame, alarm, r2, job, faults, written>>

-----------------------------------------------------------------------------
(* Failures and time.                                                      *)

\* A request ends at any await of the Worker: refused by a check that changes
\* nothing (uploadId, part numbers), an R2 error, a lost answer, an eviction.
RequestDies(h) ==
    /\ pc[h] \notin {"idle"} \union PruneCalls
    /\ Return(h)
    /\ UNCHANGED world

\* The Durable Object restarts in the middle of its invocations.  Callers see
\* the call fail, and the platform runs an interrupted alarm again.
Reset ==
    LET hit == {a \in Agents : pc[a] \in PruneCalls}
    IN  /\ resets < MaxResets
        /\ hit # {}
        /\ resets' = resets + 1
        /\ pc' = [a \in Agents |->
                    IF a \notin hit THEN pc[a]
                    ELSE IF pc[a] = "create.prune" THEN "init.cleanup"
                    ELSE "idle"]
        /\ sess' = [h \in Requests |->
                      IF h \in hit /\ pc[h] # "create.prune"
                      THEN NoSession ELSE sess[h]]
        /\ job' = [a \in Agents |-> NoJob]
        /\ alarm' = IF Alarm \in hit THEN now ELSE alarm
        /\ UNCHANGED <<now, status, expiresAt, r2, verdict, faults, history>>

\* Invocations and deliveries are short against the retention of a day.  The
\* clock waits for a pass of the object and a due alarm to be over within Slack,
\* and for a record to be stored and, once past its expiry, to be marked (by an
\* alarm that is retried if need be, or by a pass under way) within Retention.
Unsettled(s) ==
    \/ status[s] \in {"active", "completed", "aborted"}
    \/ \E a \in Agents : s \in job[a].marks
    \/ \E h \in Requests : sess[h] = s /\ pc[h] \in {"create", "create.prune"}

Prompt ==
    /\ \A a \in Agents : pc[a] \in PruneCalls => now < job[a].at + Slack
    /\ alarm # NoAlarm => now < alarm + Slack
    /\ \A s \in Sessions : Unsettled(s) => now + 1 < expiresAt[s] + Retention

Tick ==
    /\ now < MaxTime
    /\ Prompt
    /\ now' = now + 1
    /\ UNCHANGED <<store, expiresAt, r2, verdict, pc, sess, job, faults, resets,
                   history>>

RequestStep(h) ==
    \/ CreateCall(h) \/ CreatePruned(h) \/ InitReply(h) \/ InitCleanup(h)
    \/ LoadExpired(h) \/ LoadReleased(h) \/ LoadRefused(h)
    \/ SignGet(h) \/ SignRecord(h)
    \/ CompleteGet(h) \/ Assemble(h) \/ AssembleRefused(h) \/ Validate(h)
    \/ RejectDelete(h) \/ PromoteRead(h) \/ PromotePut(h) \/ PromoteClean(h)
    \/ MarkCompleted(h) \/ AbortGet(h) \/ AbortUpload(h) \/ MarkAborted(h)

AgentStep(a) == ReleaseOne(a) \/ PruneDone(a)

Client(h) ==
    \/ GcExpired(h)
    \/ \E s \in Sessions :
        InitBegin(h, s) \/ SignPart(h, s) \/ Complete(h, s) \/ Abort(h, s)

Next ==
    \/ \E h \in Requests :
        Client(h) \/ RequestStep(h) \/ CreateCallLost(h) \/ RequestDies(h)
    \/ \E a \in Agents : AgentStep(a)
    \/ AlarmFires
    \/ Reset
    \/ Tick

Spec == Init /\ [][Next]_vars

\* The platform runs what it has accepted and delivers alarms; clients owe
\* nothing, and a request may die at any time.
Fairness ==
    /\ WF_vars(Tick)
    /\ WF_vars(AlarmFires)
    /\ \A a \in Agents : WF_vars(AgentStep(a))
    /\ \A h \in Requests : WF_vars(RequestStep(h))

FairSpec == Spec /\ Fairness

-----------------------------------------------------------------------------
(* Properties.                                                             *)

Jobs == [at : Nat, todo : SUBSET Sessions, marks : SUBSET Sessions,
         dels : SUBSET Sessions]

\* Type invariant: every variable holds a value of the kind its code does, and
\* a request that is not idle knows its session (a /gc-expired call has none).
TypeOK ==
    /\ now \in Nat
    /\ status \in [Sessions -> Statuses]
    /\ expiresAt \in [Sessions -> Nat]
    /\ alarm \in Nat \union {NoAlarm}
    /\ upload \in [Sessions -> {"none", "open", "completed", "aborted"}]
    /\ staged \subseteq Sessions
    /\ verdict \in [Sessions -> {"valid", "wrong_size", "wrong_type"}]
    /\ target \in [Keys -> Sessions \union {NoSession}]
    /\ pc \in [Agents -> Labels]
    /\ sess \in [Requests -> Sessions \union {NoSession}]
    /\ \A h \in Requests : pc[h] \notin {"idle", "gc.prune"} =>
                             sess[h] \in Sessions
    /\ job \in [Agents -> Jobs]
    /\ faults \in Nat
    /\ resets \in Nat
    /\ written \in [Sessions -> Nat]
    /\ aborted \subseteq Sessions

\* At most one unexpired active session targets a key, although /create gives
\* way to other creates while its pruning pass awaits R2 (upload-sessions.ts,
\* activeSessionForObjectKey).
OneWriterPerKey ==
    \A s, t \in ActiveAt(status, now) : ObjectKey[s] = ObjectKey[t] => s = t

\* An owner never holds more unexpired active sessions than the limit, also
\* when creates overlap and judge expiry by a clock reading taken before they
\* gave way (activeSessionCount).
CapRespected ==
    MaxConcurrent > 0 => Cardinality(ActiveAt(status, now)) <= MaxConcurrent

\* The sessions whose bytes have reached their target.
stored == {s \in Sessions : written[s] > 0}

\* A session that was ever marked aborted, by the abort route or by a failed
\* validation, never puts its bytes at the target key: the abort and the
\* assembly of one multipart upload exclude each other in R2.
AbortedNeverStored == stored \intersect aborted = {}

\* A session reported completed has its bytes written to the target key first.
CompletedWasStored == \A s \in Sessions : status[s] = "completed" => s \in stored

\* Bytes that fail a post-assembly check never reach the target key.
OnlyValidStored == \A s \in stored : verdict[s] = "valid"

Promoting(h) == pc[h] \in {"promote.read", "promote.put"}

\* Two completions promote to the same key at once only after the session of
\* one of them has expired: nobody aborts, completes or replaces the session
\* of a promotion that still has time.
PromotionsDoNotRace ==
    \A h, g \in Requests :
        /\ h # g
        /\ Promoting(h)
        /\ Promoting(g)
        /\ ObjectKey[sess[h]] = ObjectKey[sess[g]]
        => ExpiredAt(sess[h], now) \/ ExpiredAt(sess[g], now)

\* While any record is stored, an alarm is set for no later than the next
\* thing that must happen to one, or the alarm handler is running and will
\* set it; without it nothing would ever invoke pruning.
AlarmCovers ==
    \/ Recorded(status) = {}
    \/ pc[Alarm] = "alarm.prune"
    \/ /\ alarm # NoAlarm
       /\ \A s \in Recorded(status) :
            alarm <= now \/ alarm <= NextEvent(status, s)

\* A record marked expired holds nothing in R2: its multipart upload is not
\* open and nothing of it is left at its staging key (while R2 does as told).
ExpiredReleased ==
    faults = 0 =>
        \A s \in Sessions :
            status[s] = "expired" => upload[s] # "open" /\ s \notin staged

\* A record only moves forward: active, then completed or aborted, then
\* expired, then gone.  A pass that writes back stale copies of the records it
\* listed never takes a step back, nor brings back a record that is gone.
StatusForward ==
    [][\A s \in Sessions :
         \/ status'[s] = status[s]
         \/ status[s] = "none" /\ status'[s] = "active" /\ upload[s] # "none"
         \/ status[s] = "active" /\ status'[s] \in {"completed", "aborted"}
         \/ status[s] \in {"active", "completed", "aborted"}
              /\ status'[s] = "expired"
         \/ status[s] = "expired" /\ status'[s] = "none"]_status

\* What a completion puts at a key was never there before: bytes that were
\* replaced do not come back, whatever completions are retried or delayed
\* (promoteObject).  The first write of an expired session may be late, and then
\* replaces the bytes of an upload that began after it.
ReplacedStaysReplaced ==
    [][\A k \in Keys : target'[k] # target[k] => target'[k] \notin stored]_target

\* What the record of a session says of it to the outside: "none" until /create
\* has answered, "gone" once it was refused or its record was deleted.
SessionState(s) ==
    IF status[s] # "none" THEN status[s]
    ELSE IF \/ upload[s] = "none"
            \/ \E h \in Requests : sess[h] = s /\ pc[h] \in {"create", "create.prune"}
    THEN "none"
    ELSE "gone"

\* A session as the upload API promises it (UploadLifecycle).
Lifecycle ==
    INSTANCE UploadLifecycle WITH
        state <- [s \in Sessions |-> SessionState(s)],
        written <- written,
        discarded <- aborted

\* The records of the Durable Object, R2 and the requests together keep the
\* promise: each session is stored, ended, expired and deleted once and in order,
\* its bytes are written at most once (writes are counted, and the contract has no
\* step for a second one), before "completed" and never with "aborted".
LifecycleSpec == Lifecycle!Spec

\* Every record is deleted in the end, whatever its requests did.
RecordsReclaimed ==
    \A s \in Sessions : status[s] # "none" ~> status[s] = "none"

\* Whatever an accepted session holds in R2 is released in the end, also when
\* every one of its requests dies midway (while R2 does as told).
ResourcesReleased ==
    \A s \in Sessions :
        status[s] = "active" ~> \/ upload[s] # "open" /\ s \notin staged
                               \/ faults > 0

\* upload.ts:113-116 of a staged object whose delete failed in
\* rejectStagedUpload: it "is reclaimed when the session expires"; r2.ts:100-102
\* of one whose delete failed after promotion: it is "later removed by session
\* pruning".
StagedReclaimed == \A s \in staged : status[s] # "expired"
=============================================================================
