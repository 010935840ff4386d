----------------------------- MODULE ShareLinks -----------------------------
(***************************************************************************)
(* One share link: its record and index entry in Workers KV, the Durable   *)
(* Object that counts its downloads, and the Worker requests that create,  *)
(* revoke, list and follow it.  Tokens share no state, so one is enough.   *)
(*                                                                         *)
(* A request gives way at every await of KV, of the Durable Object or of   *)
(* R2.  KV is eventually consistent: a read may return a value that a      *)
(* later put has superseded.  A clock is off by at most Skew.              *)
(***************************************************************************)
EXTENDS Naturals, FiniteSets

CONSTANTS
    Requests,       \* slots for concurrent Worker requests
    NoRecord,       \* what KV returns for a token it does not hold
    NoCount,        \* value of a counter that is not stored
    NoTime,         \* value of an alarm slot or an expiry that is not set
    MaxDownloads,   \* the share's cap, 0 = unlimited
    Seed,           \* downloads a record of the KV-only accounting has spent
    Ttl,            \* lifetime of a share, in ticks
    Retention,      \* COUNTER_RETENTION_MS, in ticks
    Skew,           \* how far a clock may be off, in ticks
    Modes,          \* values of R2E_READONLY that deployments serve with
    StaleReads,     \* whether KV may return superseded values
    MaxTime,        \* bound on the clock
    MaxCount,       \* bound on the count of an unlimited share
    MaxCrashes      \* bound on failures inside the Durable Object

ASSUME ConstantsAssumption ==
    /\ IsFiniteSet(Requests)
    /\ NoCount \notin Nat
    /\ NoTime \notin Nat
    /\ NoRecord \notin [revoked : BOOLEAN, count : Nat]
    /\ MaxDownloads \in Nat
    /\ Seed \in Nat
    /\ Ttl \in Nat \ {0}
    /\ Retention \in Nat
    /\ Skew \in Nat
    /\ Modes \subseteq BOOLEAN
    /\ StaleReads \in BOOLEAN
    /\ MaxTime \in Nat
    /\ MaxCount \in Nat
    /\ MaxCrashes \in Nat

\* The KV-only accounting checked the cap before it counted.
ASSUME SeedAssumption == MaxDownloads > 0 => Seed <= MaxDownloads

\* counter.ts: the retention covers clock skew.
ASSUME RetentionAssumption == Retention >= Skew

VARIABLES
    now,        \* true time; every clock is within Skew of it
    kv,         \* KV: the record last put
    stale,      \* KV: superseded records some reader may still be given
    index,      \* KV: whether the index entry that /share/list reads is there
    expiresAt,  \* the expiry in every copy of the record
    counter,    \* Durable Object storage: the count
    alarm,      \* Durable Object storage: the alarm slot
    pc,         \* where a request is
    rec,        \* the copy of the record a request works on
    spent,      \* history: slots spent on this share, the seed included
    served,     \* history: downloads served that were accounted for
    created,    \* history: a create has been answered
    revoked,    \* history: a revoke has been answered
    crashes     \* failures inside the Durable Object so far

records == <<kv, stale, index, expiresAt>>
object == <<counter, alarm>>
history == <<spent, served, created, revoked>>
vars == <<now, records, object, pc, rec, history, crashes>>

Record == [revoked : BOOLEAN, count : Nat]
Fresh == [revoked |-> FALSE, count |-> 0]
Migrated == [revoked |-> FALSE, count |-> Seed]

Labels == {"idle", "create.put", "create.index", "create.reply",
           "revoke.put", "revoke.index", "revoke.reply",
           "consume", "put", "index", "get", "readonly.get"}

\* What a clock may show.
Reads(t) == t <= now + Skew /\ now <= t + Skew
Readings == {t \in 0..(now + Skew) : Reads(t)}

Visible == {kv} \union stale

\* A put supersedes the value before it, for some readers only later.
PutRecord(r) ==
    /\ kv' = r
    /\ stale' = IF StaleReads THEN Visible \ {r, NoRecord} ELSE {}

Goto(h, label) == pc' = [pc EXCEPT ![h] = label]

Return(h) == Goto(h, "idle") /\ rec' = [rec EXCEPT ![h] = NoRecord]

\* A share of this deployment is created; one that the KV-only accounting left
\* behind is there with part of its cap spent and without a counter.
Init ==
    /\ now = 0
    /\ \/ kv = NoRecord /\ index = FALSE /\ expiresAt = NoTime /\ spent = 0
       \/ kv = Migrated /\ index = TRUE /\ expiresAt = Ttl /\ spent = Seed
    /\ stale = {}
    /\ counter = NoCount
    /\ alarm = NoTime
    /\ pc = [h \in Requests |-> "idle"]
    /\ rec = [h \in Requests |-> NoRecord]
    /\ served = 0
    /\ created = (kv # NoRecord)
    /\ revoked = FALSE
    /\ crashes = 0

-----------------------------------------------------------------------------
(* POST /share/create, refused in readonly mode: the record is put, then   *)
(* its index entry, then the token is answered.                            *)

\* Mutant: the record is not kept for the put.
CreateBeginForgets(h) ==
    /\ pc[h] = "idle"
    /\ expiresAt = NoTime
    /\ expiresAt' = now + Ttl
    /\ Goto(h, "create.put")
    /\ UNCHANGED <<now, kv, stale, index, object, rec, history, crashes>>

CreateBegin(h) ==
    /\ pc[h] = "idle"
    /\ FALSE \in Modes
    /\ expiresAt = NoTime
    /\ now + Skew + Ttl + Retention <= MaxTime
    /\ \E t \in Readings : expiresAt' = t + Ttl
    /\ rec' = [rec EXCEPT ![h] = Fresh]
    /\ Goto(h, "create.put")
    /\ UNCHANGED <<now, kv, stale, index, object, history, crashes>>

PutStep(h, from, to) ==
    /\ pc[h] = from
    /\ PutRecord(rec[h])
    /\ Goto(h, to)
    /\ UNCHANGED <<now, index, expiresAt, object, rec, history, crashes>>

IndexStep(h, from, to) ==
    /\ pc[h] = from
    /\ index' = TRUE
    /\ Goto(h, to)
    /\ UNCHANGED <<now, kv, stale, expiresAt, object, rec, history, crashes>>

\* Mutant: the token is answered without an index entry.
CreatePutUnlisted(h) == PutStep(h, "create.put", "create.reply")

CreatePut(h) == PutStep(h, "create.put", "create.index")
CreateIndex(h) == IndexStep(h, "create.index", "create.reply")

CreateReply(h) ==
    /\ pc[h] = "create.reply"
    /\ created' = TRUE
    /\ Return(h)
    /\ UNCHANGED <<now, records, object, spent, served, revoked, crashes>>

-----------------------------------------------------------------------------
(* POST /share/revoke, refused in readonly mode: the record is read, marked *)
(* revoked and put back.                                                   *)

RevokeGet(h) ==
    /\ pc[h] = "idle"
    /\ FALSE \in Modes
    /\ \E r \in Visible \ {NoRecord} :
        rec' = [rec EXCEPT ![h] = [r EXCEPT !.revoked = TRUE]]
    /\ Goto(h, "revoke.put")
    /\ UNCHANGED <<now, records, object, history, crashes>>

RevokePut(h) == PutStep(h, "revoke.put", "revoke.index")
RevokeIndex(h) == IndexStep(h, "revoke.index", "revoke.reply")

RevokeReply(h) ==
    /\ pc[h] = "revoke.reply"
    /\ revoked' = TRUE
    /\ Return(h)
    /\ UNCHANGED <<now, records, object, spent, served, created, crashes>>

-----------------------------------------------------------------------------
(* GET /share/:token.                                                      *)

Exhausted(n) == MaxDownloads > 0 /\ n >= MaxDownloads

\* Mutant: revocation is not looked at.
ShareStillValidRevoked(r, t) == t < expiresAt /\ ~Exhausted(r.count)

\* The record as read is served if it is not revoked, not past its expiry and
\* not exhausted by the count it shows.
ShareStillValid(r, t) ==
    /\ ~r.revoked
    /\ t < expiresAt
    /\ ~Exhausted(r.count)

\* The record is loaded and its validity checked.  Readonly mode accounts for
\* nothing; a capped share takes a slot from its counter; an unlimited one
\* counts in KV alone.
Load(h) ==
    /\ pc[h] = "idle"
    /\ \E r \in Visible \ {NoRecord}, t \in Readings, readonly \in Modes :
        /\ ShareStillValid(r, t)
        /\ \/ /\ readonly
              /\ rec' = [rec EXCEPT ![h] = r]
              /\ Goto(h, "readonly.get")
           \/ /\ ~readonly
              /\ MaxDownloads > 0
              /\ rec' = [rec EXCEPT ![h] = r]
              /\ Goto(h, "consume")
           \/ /\ ~readonly
              /\ MaxDownloads = 0
              /\ r.count < MaxCount /\ served < MaxCount
              /\ rec' = [rec EXCEPT ![h] = [r EXCEPT !.count = @ + 1]]
              /\ Goto(h, "put")
    /\ UNCHANGED <<now, records, object, history, crashes>>

\* Mutant: the request's count wins over the stored one.
CurrentOfRecord(h) == rec[h].count

\* The count the Durable Object goes by: its own, or the request's before it
\* has one.
Current(h) == IF counter = NoCount THEN rec[h].count ELSE counter

\* A clock for which the share has not expired, and a slot left.
Granted(h) ==
    /\ pc[h] = "consume"
    /\ \E t \in Readings : t < expiresAt
    /\ ~Exhausted(Current(h))

TakeSlot(h, wipeAt, shown) ==
    /\ Granted(h)
    /\ counter' = Current(h) + 1
    /\ alarm' = IF alarm = NoTime THEN wipeAt ELSE alarm
    /\ spent' = spent + 1
    /\ rec' = [rec EXCEPT ![h].count = shown]
    /\ Goto(h, "put")
    /\ UNCHANGED <<now, records, served, created, revoked, crashes>>

\* Mutant: the counter is wiped as soon as the share expires.
ConsumeWipeEarly(h) == TakeSlot(h, expiresAt, Current(h) + 1)

\* Mutant: no cleanup alarm.
ConsumeNoAlarm(h) == TakeSlot(h, NoTime, Current(h) + 1)

\* Mutant: the count that comes back is incremented once more.
ConsumeCountsTwice(h) == TakeSlot(h, expiresAt + Retention, Current(h) + 2)

\* /consume takes a slot and sets the cleanup alarm if there is none.
Consume(h) == TakeSlot(h, expiresAt + Retention, Current(h) + 1)

\* Mutant: the 410 of the counter is not passed on.
ConsumeRefusedServes(h) ==
    /\ pc[h] = "consume"
    /\ \/ \E t \in Readings : t >= expiresAt
       \/ Exhausted(Current(h))
    /\ Goto(h, "get")
    /\ UNCHANGED <<now, records, object, rec, history, crashes>>

\* /consume answers 410.
ConsumeRefused(h) ==
    /\ pc[h] = "consume"
    /\ \/ \E t \in Readings : t >= expiresAt
       \/ Exhausted(Current(h))
    /\ Return(h)
    /\ UNCHANGED <<now, records, object, history, crashes>>

\* The object fails between writing the count and setting the alarm; the slot
\* is spent and the download answers 500.
ConsumeCrash(h) ==
    /\ Granted(h)
    /\ crashes < MaxCrashes
    /\ counter' = Current(h) + 1
    /\ spent' = spent + 1
    /\ crashes' = crashes + 1
    /\ Return(h)
    /\ UNCHANGED <<now, records, alarm, served, created, revoked>>

\* The record as loaded is put back with the new count.
DownloadPut(h) == PutStep(h, "put", "index")
DownloadIndex(h) == IndexStep(h, "index", "get")

\* The object is read and sent.  (Without it the answer is 404: RequestDies.)
Serve(h) ==
    /\ pc[h] = "get"
    /\ served' = served + 1
    /\ Return(h)
    /\ UNCHANGED <<now, records, object, spent, created, revoked, crashes>>

ServeReadonly(h) ==
    /\ pc[h] = "readonly.get"
    /\ Return(h)
    /\ UNCHANGED <<now, records, object, history, crashes>>

-----------------------------------------------------------------------------
(* Failures, KV and time.                                                  *)

\* A request ends at any await: an error of KV, of the Durable Object or of
\* R2, a lost answer, an object that is gone, an eviction.
RequestDies(h) ==
    /\ pc[h] # "idle"
    /\ Return(h)
    /\ UNCHANGED <<now, records, object, history, crashes>>

\* The cleanup alarm wipes the counter.
AlarmFires ==
    /\ alarm # NoTime
    /\ alarm <= now
    /\ counter' = NoCount
    /\ alarm' = NoTime
    /\ UNCHANGED <<now, records, pc, rec, history, crashes>>

KvConverges ==
    /\ stale # {}
    /\ stale' = {}
    /\ UNCHANGED <<now, kv, index, expiresAt, object, pc, rec, history, crashes>>

\* KV drops an entry when its time to live is over, which every writer sets to
\* what its clock makes of the rest of the share, or to more.
KvLapses ==
    /\ expiresAt # NoTime
    /\ now + Skew >= expiresAt
    /\ \/ kv # NoRecord /\ PutRecord(NoRecord) /\ UNCHANGED index
       \/ index /\ index' = FALSE /\ UNCHANGED <<kv, stale>>
    /\ UNCHANGED <<now, expiresAt, object, pc, rec, history, crashes>>

Tick ==
    /\ now < MaxTime
    /\ now' = now + 1
    /\ UNCHANGED <<records, object, pc, rec, history, crashes>>

RequestStep(h) ==
    \/ CreatePut(h) \/ CreateIndex(h) \/ CreateReply(h)
    \/ RevokePut(h) \/ RevokeIndex(h) \/ RevokeReply(h)
    \/ Consume(h) \/ ConsumeRefused(h)
    \/ DownloadPut(h) \/ DownloadIndex(h) \/ Serve(h) \/ ServeReadonly(h)

Client(h) == CreateBegin(h) \/ RevokeGet(h) \/ Load(h)

Next ==
    \/ \E h \in Requests :
        Client(h) \/ RequestStep(h) \/ ConsumeCrash(h) \/ RequestDies(h)
    \/ AlarmFires \/ KvConverges \/ KvLapses \/ Tick

Spec == Init /\ [][Next]_vars

\* Time passes and the platform delivers alarms; nothing else is owed.
FairSpec == Spec /\ WF_vars(Tick) /\ WF_vars(AlarmFires)
-----------------------------------------------------------------------------
(* Properties.                                                             *)

\* Type invariant; a request that is not idle holds a copy of the record.
TypeOK ==
    /\ now \in Nat
    /\ kv \in Record \union {NoRecord}
    /\ stale \subseteq Record
    /\ index \in BOOLEAN
    /\ expiresAt \in Nat \union {NoTime}
    /\ counter \in Nat \union {NoCount}
    /\ alarm \in Nat \union {NoTime}
    /\ pc \in [Requests -> Labels]
    /\ rec \in [Requests -> Record \union {NoRecord}]
    /\ \A h \in Requests : pc[h] # "idle" => rec[h] \in Record
    /\ spent \in Nat
    /\ served \in Nat
    /\ created \in BOOLEAN
    /\ revoked \in BOOLEAN
    /\ crashes \in Nat

\* A capped share never spends more slots than its cap, whatever stale records
\* seed the counter and whenever the cleanup alarm wipes it (counter.ts: two
\* downloads "can never both consume the final slot").
CapNeverExceeded == MaxDownloads > 0 => spent <= MaxDownloads

\* The copies of the record that KV may return or a request holds.
Copies == (Visible \union {rec[h] : h \in Requests}) \ {NoRecord}

\* No copy shows more downloads than were spent, so the fast path of
\* shareStillValid rejects as exhausted only what the counter would reject.
FastPathSound == MaxDownloads > 0 => \A r \in Copies : r.count <= spent

\* Before its first download a share's counter is seeded with what has been
\* spent; one that was wiped is past every reading that would consume again.
CounterIsSpent ==
    MaxDownloads > 0 =>
        \/ counter = spent
        \/ counter = NoCount /\ \A r \in Copies : r.count = spent
        \/ /\ counter = NoCount
           /\ expiresAt # NoTime
           /\ now >= expiresAt + Retention

\* The downloads that have taken their slot and are not yet served.
Paid == {h \in Requests : pc[h] \in {"put", "index", "get"}}

\* A stored counter has its wipe ahead of it, at the end of the retention; only
\* before a capped share has let its first download through can a failure
\* between the two writes have left it without one.
WipeArmed ==
    MaxDownloads > 0 /\ counter # NoCount =>
        \/ alarm = expiresAt + Retention
        \/ alarm = NoTime /\ crashes > 0 /\ Paid = {} /\ served = 0

\* A share whose creation was answered can be listed, and so revoked, until the
\* first clock may show that it has expired (createShare, shareKvTtlSeconds): its
\* index entry is written before the answer and lapses no earlier.  From then on
\* KV may have dropped the entry while a clock that is behind, up to twice the
\* skew later, still lets the share be served; of that time nothing is claimed.
CreatedIsListed ==
    created /\ now + Skew < expiresAt => index /\ kv # NoRecord

\* Every copy anyone can read or still holds is revoked.
RevocationSettled == Copies # {} /\ \A r \in Copies : r.revoked

\* Once revocation has settled it stays, and the share spends and serves
\* nothing more (loadServableShare).
RevocationSticks ==
    [][RevocationSettled =>
         /\ \A r \in Copies' : r.revoked
         /\ spent' = spent
         /\ served' = served]_vars

\* The counter's storage is wiped in the end, unless the object failed between
\* writing the count and setting the alarm.
CounterReclaimed == counter # NoCount ~> counter = NoCount \/ crashes > 0

\* service.ts:130-133, loadServableShare: "reject missing, revoked, expired,
\* and exhausted tokens".  After a revoke was answered, with every reader up
\* to date, a read finds no record or a revoked one.
RevokedIsRejected ==
    revoked /\ stale = {} => kv = NoRecord \/ kv.revoked

\* A share as its cap promises it (ShareQuota).
Quota ==
    INSTANCE ShareQuota WITH
        Cap <- MaxDownloads,
        left <- MaxDownloads - spent,
        paid <- Cardinality(Paid)

\* A download of a capped share is served at most once for each slot taken, and
\* only after the slot was taken; a slot once taken never comes back.
QuotaSpec == Quota!Spec
=============================================================================
