----------------------------- MODULE WebUpload -----------------------------
(***************************************************************************)
(* The browser's uploads: the queue with its slots, the engine that cuts a *)
(* file into parts and sends them with a pool of workers, retries, cancels *)
(* and aborts; and of the Worker what it answers these calls (UploadPolicy *)
(* for what it accepts, UploadLifecycle for what it promises of sessions,  *)
(* UploadSessions for how it keeps it).                                    *)
(*                                                                         *)
(* Grain of atomicity.  The page is one thread: what runs between two      *)
(* awaits is one step.  A call that changes the session is sent, served    *)
(* and answered by different steps, and what was sent may be served after  *)
(* the page has stopped waiting for it.  A cancelled signal ends every     *)
(* wait it is passed to.                                                   *)
(***************************************************************************)
EXTENDS UploadPolicy, FiniteSets

CONSTANTS
    Uploads,     \* ids of the uploads of this page
    Workers,     \* part workers of an upload (DEFAULT_CONCURRENCY)
    Drops,       \* what the user may drop: files for some of the ids
    NoFile,      \* an id that no file was dropped for
    MaxActive,   \* MAX_ACTIVE_UPLOADS
    MaxRetries   \* maxRetries of init, of sign-part and of a part

ASSUME WebAssumption ==
    /\ IsFiniteSet(Uploads)
    /\ Cardinality(Workers) \in Nat \ {0} /\ Workers = 1 .. Cardinality(Workers)
    /\ \A drop \in Drops : \A u \in DOMAIN drop : drop[u].size \in Nat
    /\ MaxActive \in Nat \ {0}
    /\ MaxRetries \in Nat

VARIABLES
    file,       \* the file an id stands for, NoFile when there is none
    item,       \* UploadItem.status, "" before it is queued and when cleared
    cancelled,  \* the abort signals that were fired
    active,     \* the gate: slots taken
    waiters,    \* the gate: uploads waiting for one
    pc,         \* where multipartUpload is
    tries,      \* retries of init
    cursor,     \* the next chunk
    worker,     \* the pool workers
    etags,      \* partEtags: the parts that were uploaded
    failure,    \* why the upload failed, "" while it has not
    session,    \* the session at the Worker
    bytes,      \* the file at R2: its parts, assembled, stored at its key, or dropped
    call,       \* the init, complete and abort call of an upload
    lost        \* history: calls whose answer the page did not see

gateVars == <<active, waiters>>
engineVars == <<tries, cursor, worker, etags>>
serverVars == <<session, bytes, call>>
vars == <<file, item, cancelled, gateVars, pc, engineVars, failure, serverVars, lost>>

PageLabels == {"new", "waiting", "granted", "init", "backoff", "parts", "complete", "abort", "over"}

\* A worker between two chunks, not started or done.
Off == [at |-> "off", part |-> 0, tries |-> 0, inner |-> 0]

WorkerLabels == {"off", "sign", "sign.backoff", "put", "put.backoff", "failed"}

Calls == {"init", "complete", "abort"}
NoCalls == [c \in Calls |-> "none"]

-----------------------------------------------------------------------------
(* The gate of the upload slots.                                           *)

At(u, label) == pc[u] = label

\* Uploads that hold a slot, from the grant to the release.
Holders == {u \in Uploads : pc[u] \notin {"new", "waiting", "over"}}

Acquire(u) ==
    IF active < MaxActive
    THEN /\ active' = active + 1
         /\ pc' = [pc EXCEPT ![u] = "granted"]
         /\ UNCHANGED waiters
    ELSE /\ waiters' = Append(waiters, u)
         /\ pc' = [pc EXCEPT ![u] = "waiting"]
         /\ UNCHANGED active

\* Mutant: the slot is both handed over and given back.
ReleaseTwice(u) ==
    /\ active' = IF active > 0 THEN active - 1 ELSE 0
    /\ IF waiters # <<>>
       THEN /\ waiters' = Tail(waiters)
            /\ pc' = [pc EXCEPT ![u] = "over", ![Head(waiters)] = "granted"]
       ELSE /\ pc' = [pc EXCEPT ![u] = "over"]
            /\ UNCHANGED waiters

\* Mutant: a release with somebody waiting hands nothing over.
ReleaseKeeps(u) ==
    /\ pc' = [pc EXCEPT ![u] = "over"]
    /\ IF waiters # <<>>
       THEN UNCHANGED gateVars
       ELSE active' = (IF active > 0 THEN active - 1 ELSE 0) /\ UNCHANGED waiters

\* The slot goes to the first waiter, or back.
Release(u) ==
    IF waiters # <<>>
    THEN /\ waiters' = Tail(waiters)
         /\ pc' = [pc EXCEPT ![u] = "over", ![Head(waiters)] = "granted"]
         /\ UNCHANGED active
    ELSE /\ active' = IF active > 0 THEN active - 1 ELSE 0
         /\ pc' = [pc EXCEPT ![u] = "over"]
         /\ UNCHANGED waiters

\* The end of a queued upload: its item and its slot.
Finish(u, status) ==
    /\ item' = [item EXCEPT ![u] = status]
    /\ Release(u)

Enqueue(u) ==
    /\ At(u, "new")
    /\ file[u] # NoFile
    /\ item' = [item EXCEPT ![u] = "uploading"]
    /\ Acquire(u)
    /\ UNCHANGED <<file, cancelled, engineVars, failure, serverVars, lost>>

\* The controller is there from enqueue to the release of the slot.
Cancel(u) ==
    /\ pc[u] \notin {"new", "over"}
    /\ item[u] = "uploading"
    /\ u \notin cancelled
    /\ cancelled' = cancelled \union {u}
    /\ UNCHANGED <<file, item, gateVars, pc, engineVars, failure, serverVars, lost>>

ClearFinished ==
    /\ \E u \in Uploads : item[u] \notin {"", "uploading"}
    /\ item' = [u \in Uploads |-> IF item[u] = "uploading" THEN "uploading" ELSE ""]
    /\ UNCHANGED <<file, cancelled, gateVars, pc, engineVars, failure, serverVars, lost>>

-----------------------------------------------------------------------------
(* Init.                                                                   *)

Goto(u, label) == pc' = [pc EXCEPT ![u] = label]

Send(u, c) == call' = [call EXCEPT ![u][c] = "sent"]

\* The page stops waiting for a call it has no answer to.
GiveUp(u, c) == lost' = [lost EXCEPT ![u] = @ \union {c}]

Unchanged(u) == UNCHANGED <<file, cancelled, cursor, worker, etags>>

Start(u) ==
    /\ At(u, "granted")
    /\ IF u \in cancelled
       THEN /\ Finish(u, "cancelled")
            /\ UNCHANGED call
       ELSE /\ Goto(u, "init")
            /\ Send(u, "init")
            /\ UNCHANGED <<item, gateVars>>
    /\ Unchanged(u)
    /\ UNCHANGED <<tries, failure, session, bytes, lost>>

\* Steps of the Worker leave the page alone.
Served == UNCHANGED <<file, item, cancelled, gateVars, pc, engineVars, failure, lost>>

Answer(u, c, answer) == call' = [call EXCEPT ![u][c] = answer]

\* "busy" is 429 or 503: no session was created.  Any other failure may come
\* after it was.
ServeInit(u) ==
    /\ call[u]["init"] = "sent"
    /\ \/ /\ InitAccepts(file[u])
          /\ session' = [session EXCEPT ![u] = "active"]
          /\ \E answer \in {"ok", "failed"} : Answer(u, "init", answer)
       \/ ~InitAccepts(file[u]) /\ Answer(u, "init", "refused") /\ UNCHANGED session
       \/ Answer(u, "init", "busy") /\ UNCHANGED session
    /\ UNCHANGED bytes
    /\ Served

\* The first chunks of the file go to the first workers.
PoolStart(u) ==
    LET chunks == SliceIntoChunks(file[u].size)
    IN  /\ cursor' = [cursor EXCEPT ![u] = Cardinality(Workers \intersect DOMAIN chunks)]
        /\ worker' = [worker EXCEPT ![u] =
             [w \in Workers |->
                IF w \in DOMAIN chunks
                THEN [at |-> "sign", part |-> w, tries |-> 0, inner |-> 0]
                ELSE Off]]

InitAnswered(u) ==
    /\ At(u, "init")
    /\ u \notin cancelled
    /\ \/ /\ call[u]["init"] = "ok"
          /\ Goto(u, "parts")
          /\ PoolStart(u)
          /\ UNCHANGED <<item, gateVars, tries, failure>>
       \/ /\ call[u]["init"] = "busy"
          /\ tries[u] < MaxRetries
          /\ Goto(u, "backoff")
          /\ UNCHANGED <<item, gateVars, tries, cursor, worker, failure>>
       \/ /\ \/ call[u]["init"] \in {"refused", "failed"}
             \/ call[u]["init"] = "busy" /\ tries[u] = MaxRetries
          /\ failure' = [failure EXCEPT ![u] = "init"]
          /\ Finish(u, "error")
          /\ UNCHANGED <<tries, cursor, worker>>
    /\ UNCHANGED <<file, cancelled, etags, serverVars, lost>>

\* A network error of init is not retried: the session may exist.
InitLost(u) ==
    /\ At(u, "init")
    /\ u \notin cancelled
    /\ failure' = [failure EXCEPT ![u] = "init"]
    /\ Finish(u, "error")
    /\ GiveUp(u, "init")
    /\ Unchanged(u)
    /\ UNCHANGED <<tries, serverVars>>

InitRetry(u) ==
    /\ At(u, "backoff")
    /\ u \notin cancelled
    /\ Goto(u, "init")
    /\ Send(u, "init")
    /\ tries' = [tries EXCEPT ![u] = @ + 1]
    /\ Unchanged(u)
    /\ UNCHANGED <<item, gateVars, failure, session, bytes, lost>>

InitCancelled(u) ==
    /\ pc[u] \in {"init", "backoff"}
    /\ u \in cancelled
    /\ failure' = [failure EXCEPT ![u] = "cancel"]
    /\ Finish(u, "cancelled")
    /\ IF At(u, "init") THEN GiveUp(u, "init") ELSE UNCHANGED lost
    /\ Unchanged(u)
    /\ UNCHANGED <<tries, serverVars>>

-----------------------------------------------------------------------------
(* Parts.                                                                  *)

Chunks(u) == SliceIntoChunks(file[u].size)

Numbers(u) == DOMAIN Chunks(u)

Busy(u) == {w \in Workers : worker[u][w].at \notin {"off", "failed"}}

Is(u, w, label) == worker[u][w].at = label

Set(u, w, r) == worker' = [worker EXCEPT ![u][w] = r]

\* Every phase that is reported marks the item uploading, if it is still listed.
Progress(u) == item' = [item EXCEPT ![u] = IF item[u] = "" THEN "" ELSE "uploading"]

\* A worker's failure ends Promise.all when it is the first; the others go on.
WorkerFails(u, w, why) ==
    /\ Set(u, w, [worker[u][w] EXCEPT !.at = "failed"])
    /\ IF At(u, "parts")
       THEN /\ Goto(u, "abort")
            /\ Send(u, "abort")
            /\ failure' = [failure EXCEPT ![u] = why]
       ELSE UNCHANGED <<pc, call, failure>>
    /\ UNCHANGED <<item, cursor, etags>>

\* withRetry around an attempt of a part: once more, or the worker fails.
AttemptFails(u, w) ==
    IF worker[u][w].tries < MaxRetries
    THEN /\ Set(u, w, [worker[u][w] EXCEPT !.at = "put.backoff", !.inner = 0])
         /\ UNCHANGED <<item, pc, call, failure, cursor, etags>>
    ELSE WorkerFails(u, w, "part")

SignAnswered(u, w) ==
    /\ Is(u, w, "sign")
    /\ u \notin cancelled
    /\ IF session[u] = "active"
            /\ SignPartAccepts(file[u].size, worker[u][w].part, Chunks(u)[worker[u][w].part])
       THEN /\ Set(u, w, [worker[u][w] EXCEPT !.at = "put"])
            /\ UNCHANGED <<item, pc, call, failure, cursor, etags>>
       ELSE WorkerFails(u, w, IF session[u] = "active" THEN "refused" ELSE "session")
    /\ UNCHANGED <<file, cancelled, gateVars, tries, session, bytes, lost>>

\* A transient answer or a lost one: sign-part has retries of its own, within
\* the attempts of the part.
SignFails(u, w) ==
    /\ Is(u, w, "sign")
    /\ u \notin cancelled
    /\ \/ /\ worker[u][w].inner < MaxRetries
          /\ Set(u, w, [worker[u][w] EXCEPT !.at = "sign.backoff"])
          /\ UNCHANGED <<item, pc, call, failure, cursor, etags>>
       \/ worker[u][w].inner = MaxRetries /\ AttemptFails(u, w)
    /\ UNCHANGED <<file, cancelled, gateVars, tries, session, bytes, lost>>

SignRetry(u, w) ==
    /\ Is(u, w, "sign.backoff")
    /\ u \notin cancelled
    /\ Set(u, w, [worker[u][w] EXCEPT !.at = "sign", !.inner = @ + 1])
    /\ UNCHANGED <<file, item, cancelled, gateVars, pc, tries, cursor, etags, failure, serverVars, lost>>

PartRetry(u, w) ==
    /\ Is(u, w, "put.backoff")
    /\ u \notin cancelled
    /\ Set(u, w, [worker[u][w] EXCEPT !.at = "sign", !.tries = @ + 1])
    /\ Progress(u)
    /\ UNCHANGED <<file, cancelled, gateVars, pc, tries, cursor, etags, failure, serverVars, lost>>

\* Mutant: the cursor is read when a worker starts a chunk and advanced by the
\* number of chunks that are done.
NextChunkStale(u, w) ==
    IF cursor[u] < Cardinality(Numbers(u))
    THEN /\ cursor' = [cursor EXCEPT ![u] = Cardinality(etags[u]) + 1]
         /\ Set(u, w, [at |-> "sign", part |-> cursor[u] + 1, tries |-> 0, inner |-> 0])
    ELSE Set(u, w, Off) /\ UNCHANGED cursor

\* Mutant: one chunk past the last.
NextChunkPast(u, w) ==
    IF cursor[u] <= Cardinality(Numbers(u))
    THEN /\ cursor' = [cursor EXCEPT ![u] = @ + 1]
         /\ Set(u, w, [at |-> "sign", part |-> cursor[u] + 1, tries |-> 0, inner |-> 0])
    ELSE Set(u, w, Off) /\ UNCHANGED cursor

NextChunk(u, w) ==
    IF cursor[u] < Cardinality(Numbers(u))
    THEN /\ cursor' = [cursor EXCEPT ![u] = @ + 1]
         /\ Set(u, w, [at |-> "sign", part |-> cursor[u] + 1, tries |-> 0, inner |-> 0])
    ELSE Set(u, w, Off) /\ UNCHANGED cursor

\* Mutant: complete is sent when the last part has been taken, not uploaded.
PutOkEarly(u, w) ==
    /\ Is(u, w, "put")
    /\ u \notin cancelled
    /\ etags' = [etags EXCEPT ![u] = @ \union {worker[u][w].part}]
    /\ NextChunk(u, w)
    /\ Progress(u)
    /\ IF At(u, "parts") /\ cursor[u] = Cardinality(Numbers(u))
       THEN Goto(u, "complete") /\ Send(u, "complete")
       ELSE UNCHANGED <<pc, call>>
    /\ UNCHANGED <<file, cancelled, gateVars, tries, failure, session, bytes, lost>>

\* Mutant: complete is sent by the worker of the last part, if it is the last.
PutOkLastPart(u, w) ==
    /\ Is(u, w, "put")
    /\ u \notin cancelled
    /\ etags' = [etags EXCEPT ![u] = @ \union {worker[u][w].part}]
    /\ NextChunk(u, w)
    /\ Progress(u)
    /\ IF At(u, "parts") /\ Busy(u) = {w} /\ worker[u][w].part = Cardinality(Numbers(u))
       THEN Goto(u, "complete") /\ Send(u, "complete")
       ELSE UNCHANGED <<pc, call>>
    /\ UNCHANGED <<file, cancelled, gateVars, tries, failure, session, bytes, lost>>

\* The part is stored and its etag noted; the last worker to be done sends
\* complete, unless another one has failed.  The check that no etag is missing
\* is not modelled: EveryPartOnce says it never fails.
PutOk(u, w) ==
    /\ Is(u, w, "put")
    /\ u \notin cancelled
    /\ etags' = [etags EXCEPT ![u] = @ \union {worker[u][w].part}]
    /\ NextChunk(u, w)
    /\ Progress(u)
    /\ IF At(u, "parts") /\ Busy(u) = {w} /\ cursor[u] = Cardinality(Numbers(u))
       THEN Goto(u, "complete") /\ Send(u, "complete")
       ELSE UNCHANGED <<pc, call>>
    /\ UNCHANGED <<file, cancelled, gateVars, tries, failure, session, bytes, lost>>

PutFails(u, w) ==
    /\ Is(u, w, "put")
    /\ u \notin cancelled
    /\ AttemptFails(u, w)
    /\ UNCHANGED <<file, cancelled, gateVars, tries, session, bytes, lost>>

\* An answer that is not retried: an error of the request, or no etag.
PartRefused(u, w) ==
    /\ worker[u][w].at \in {"sign", "put"}
    /\ u \notin cancelled
    /\ WorkerFails(u, w, "part")
    /\ UNCHANGED <<file, cancelled, gateVars, tries, session, bytes, lost>>

\* Fetches and backoffs of a cancelled upload are rejected.  A rejected PUT is
\* wrapped in an ApiError, so on the last attempt it passes for a failure.
PartCancelled(u, w) ==
    /\ w \in Busy(u)
    /\ u \in cancelled
    /\ WorkerFails(u, w, IF Is(u, w, "put") /\ worker[u][w].tries = MaxRetries
                         THEN "part" ELSE "cancel")
    /\ UNCHANGED <<file, cancelled, gateVars, tries, session, bytes, lost>>

-----------------------------------------------------------------------------
(* Complete and abort.                                                     *)

\* The parts a complete names: the chunks in their order.
Named(u) == [i \in Numbers(u) |-> i]

\* The parts are assembled while the session is active, once, and checked; what
\* fails the checks is discarded, and its session marked if that succeeds.
Assemble(u) ==
    /\ call[u]["complete"] = "sent"
    /\ session[u] = "active"
    /\ bytes[u] = "parts"
    /\ CompletePartsAccepted(file[u].size, Named(u))
    /\ IF StagedAccepted(file[u], file[u].size)
       THEN /\ bytes' = [bytes EXCEPT ![u] = "assembled"]
            /\ UNCHANGED <<session, call>>
       ELSE /\ bytes' = [bytes EXCEPT ![u] = "dropped"]
            /\ \E end \in {"active", "aborted"} : session' = [session EXCEPT ![u] = end]
            /\ Answer(u, "complete", "failed")
    /\ Served

\* The file is copied to its key, whatever has become of the session.
Promote(u) ==
    /\ call[u]["complete"] = "sent"
    /\ bytes[u] = "assembled"
    /\ bytes' = [bytes EXCEPT ![u] = "stored"]
    /\ UNCHANGED <<session, call>>
    /\ Served

\* Only an active session is marked; the mark's answer may be lost.
MarkCompleted(u) ==
    /\ call[u]["complete"] = "sent"
    /\ bytes[u] = "stored"
    /\ session[u] = "active"
    /\ session' = [session EXCEPT ![u] = "completed"]
    /\ \E answer \in {"ok", "failed"} : Answer(u, "complete", answer)
    /\ UNCHANGED bytes
    /\ Served

\* Any call of a completion may fail, or its session be active no longer.
CompleteFails(u) ==
    /\ call[u]["complete"] = "sent"
    /\ Answer(u, "complete", "failed")
    /\ UNCHANGED <<session, bytes>>
    /\ Served

ToAbort(u, why) ==
    /\ Goto(u, "abort")
    /\ Send(u, "abort")
    /\ failure' = [failure EXCEPT ![u] = why]
    /\ UNCHANGED <<item, gateVars>>

CompleteAnswered(u) ==
    /\ At(u, "complete")
    /\ u \notin cancelled
    /\ \/ call[u]["complete"] = "ok" /\ Finish(u, "done") /\ UNCHANGED <<call, failure>>
       \/ call[u]["complete"] = "failed" /\ ToAbort(u, "complete")
    /\ Unchanged(u)
    /\ UNCHANGED <<tries, session, bytes, lost>>

\* Mutant: a complete whose answer is lost counts as done.
CompleteLostDone(u) ==
    /\ At(u, "complete")
    /\ IF u \in cancelled THEN ToAbort(u, "cancel")
                          ELSE Finish(u, "done") /\ UNCHANGED <<call, failure>>
    /\ GiveUp(u, "complete")
    /\ Unchanged(u)
    /\ UNCHANGED <<tries, session, bytes>>

\* Mutant: a cancelled complete is left to itself.
CompleteLostQuiet(u) ==
    /\ At(u, "complete")
    /\ IF u \in cancelled THEN Finish(u, "cancelled") /\ UNCHANGED <<call, failure>>
                          ELSE ToAbort(u, "complete")
    /\ GiveUp(u, "complete")
    /\ Unchanged(u)
    /\ UNCHANGED <<tries, session, bytes>>

\* The answer is lost, or the user cancels while it is awaited.
CompleteLost(u) ==
    /\ At(u, "complete")
    /\ ToAbort(u, IF u \in cancelled THEN "cancel" ELSE "complete")
    /\ GiveUp(u, "complete")
    /\ Unchanged(u)
    /\ UNCHANGED <<tries, session, bytes>>

\* Mutant: the answer of R2 to the abort is not looked at.
ServeAbortAnyway(u) ==
    /\ call[u]["abort"] = "sent"
    /\ session[u] \in {"active", "aborted"}
    /\ session' = [session EXCEPT ![u] = "aborted"]
    /\ bytes' = [bytes EXCEPT ![u] = IF @ = "parts" THEN "dropped" ELSE @]
    /\ Answer(u, "abort", "ok")
    /\ Served

\* R2 aborts the upload unless it was assembled, then the session is marked; a
\* session that is aborted already is fine.  Each call may also fail.
ServeAbort(u) ==
    /\ call[u]["abort"] = "sent"
    /\ \/ /\ session[u] = "active" /\ bytes[u] = "parts"
          /\ bytes' = [bytes EXCEPT ![u] = "dropped"]
          /\ \/ /\ session' = [session EXCEPT ![u] = "aborted"]
                /\ Answer(u, "abort", "ok")
             \/ UNCHANGED session /\ Answer(u, "abort", "failed")
       \/ session[u] = "aborted" /\ Answer(u, "abort", "ok") /\ UNCHANGED <<session, bytes>>
       \/ Answer(u, "abort", "failed") /\ UNCHANGED <<session, bytes>>
    /\ Served

\* Sessions expire at any time; what a completion under way has of the file it
\* may still store.
Expire(u) ==
    /\ session[u] \in {"active", "completed", "aborted"}
    /\ session' = [session EXCEPT ![u] = "expired"]
    /\ UNCHANGED <<bytes, call>>
    /\ Served

\* Best effort: with or without an answer the first error is reported.
AbortEnds(u) ==
    /\ At(u, "abort")
    /\ IF call[u]["abort"] = "sent" THEN GiveUp(u, "abort") ELSE UNCHANGED lost
    /\ Finish(u, IF failure[u] = "cancel" THEN "cancelled" ELSE "error")
    /\ Unchanged(u)
    /\ UNCHANGED <<tries, failure, serverVars>>

-----------------------------------------------------------------------------
Init ==
    /\ \E drop \in Drops :
         file = [u \in Uploads |-> IF u \in DOMAIN drop THEN drop[u] ELSE NoFile]
    /\ item = [u \in Uploads |-> ""]
    /\ cancelled = {}
    /\ active = 0
    /\ waiters = <<>>
    /\ pc = [u \in Uploads |-> "new"]
    /\ tries = [u \in Uploads |-> 0]
    /\ cursor = [u \in Uploads |-> 0]
    /\ worker = [u \in Uploads |-> [w \in Workers |-> Off]]
    /\ etags = [u \in Uploads |-> {}]
    /\ failure = [u \in Uploads |-> ""]
    /\ session = [u \in Uploads |-> "none"]
    /\ bytes = [u \in Uploads |-> "parts"]
    /\ call = [u \in Uploads |-> NoCalls]
    /\ lost = [u \in Uploads |-> {}]

User(u) == Enqueue(u) \/ Cancel(u)

\* What the page does of its own accord; every fetch ends, in an answer or not.
Page(u) ==
    \/ Start(u) \/ InitAnswered(u) \/ InitLost(u) \/ InitRetry(u) \/ InitCancelled(u)
    \/ \E w \in Workers :
         \/ SignAnswered(u, w) \/ SignFails(u, w) \/ SignRetry(u, w) \/ PartRetry(u, w)
         \/ PutOk(u, w) \/ PutFails(u, w) \/ PartRefused(u, w) \/ PartCancelled(u, w)
    \/ CompleteAnswered(u) \/ CompleteLost(u) \/ AbortEnds(u)

ServeComplete(u) == Assemble(u) \/ Promote(u) \/ MarkCompleted(u) \/ CompleteFails(u)

Server(u) == ServeInit(u) \/ ServeComplete(u) \/ ServeAbort(u) \/ Expire(u)

Next == (\E u \in Uploads : User(u) \/ Page(u) \/ Server(u)) \/ ClearFinished

Spec == Init /\ [][Next]_vars

FairSpec == Spec /\ \A u \in Uploads : WF_vars(Page(u))


-----------------------------------------------------------------------------
(* Properties.                                                             *)

\* Type invariant; a busy worker is at a part of its file, and what was
\* uploaded are such parts.
TypeOK ==
    /\ item \in [Uploads -> {"", "uploading", "done", "error", "cancelled"}]
    /\ cancelled \subseteq Uploads
    /\ active \in Nat
    /\ waiters \in Seq(Uploads)
    /\ pc \in [Uploads -> PageLabels]
    /\ tries \in [Uploads -> 0 .. MaxRetries]
    /\ cursor \in [Uploads -> Nat]
    /\ worker \in [Uploads -> [Workers -> [at : WorkerLabels, part : Nat,
                                          tries : 0 .. MaxRetries, inner : 0 .. MaxRetries]]]
    /\ etags \in [Uploads -> SUBSET Nat]
    /\ \A u \in Uploads :
         /\ \A w \in Busy(u) : worker[u][w].part \in Numbers(u)
         /\ etags[u] # {} => etags[u] \subseteq Numbers(u)
    /\ failure \in [Uploads -> {"", "init", "part", "refused", "session", "complete", "cancel"}]
    /\ session \in [Uploads -> {"none", "active", "completed", "aborted", "expired"}]
    /\ bytes \in [Uploads -> {"parts", "assembled", "stored", "dropped"}]
    /\ call \in [Uploads -> [Calls -> {"none", "sent", "ok", "busy", "refused", "failed"}]]
    /\ lost \in [Uploads -> SUBSET Calls]

\* No more uploads run at a time than there are slots, every running upload
\* holds exactly one, and nobody waits beside a free one or outside the queue: a
\* release hands its slot over or gives it back, never both and never neither.
SlotsBounded ==
    /\ active = Cardinality(Holders)
    /\ active <= MaxActive
    /\ waiters # <<>> => active = MaxActive
    /\ \A u \in Uploads : At(u, "waiting") => \E i \in DOMAIN waiters : waiters[i] = u

\* Of the workers of an upload no two ever send the same part, complete is
\* only sent when every part was uploaded, and until it is some worker is at one,
\* whatever order they fail, retry and end in: the shared cursor and Promise.all
\* need no lock.
EveryPartOnce ==
    \A u \in Uploads :
        /\ \A v, w \in Busy(u) : v # w => worker[u][v].part # worker[u][w].part
        /\ \A w \in Busy(u) : worker[u][w].part \notin etags[u]
        /\ call[u]["complete"] # "none" => etags[u] = Numbers(u)
        /\ At(u, "parts") => Busy(u) # {}

\* The browser and the Worker cut a file into the same parts: while the session
\* lives no part is refused for its number or its length, and a complete names
\* as many parts as are expected.
PartsAgree ==
    \A u \in Uploads :
        /\ failure[u] # "refused"
        /\ call[u]["complete"] = "sent" => CompletePartsAccepted(file[u].size, Named(u))

\* Bytes that show a type other than the one the file was declared with, save
\* the ZIP container of a declared container format.
Deceptive(f) ==
    /\ f.magic \notin {Unknown, f.type}
    /\ ~(f.magic = ZipType /\ f.type \in ZipContainers)

\* What init and complete let through between them: an object that is stored is
\* not empty, fits the parts R2 takes, and is of no type that is blocked, neither
\* declared nor shown by its bytes.
StoredIsAllowed ==
    \A u \in Uploads :
        bytes[u] = "stored" =>
            /\ file[u].size \in 1 .. R2MaxParts * PartSize
            /\ {file[u].type, file[u].magic} \intersect BlockedMime = {}
            /\ ~Deceptive(file[u])
            /\ file[u].prefix # <<>> => file[u].prefix[1] # Staging

\* The user is told "done" only of stored files; one that is stored and reported
\* as failed or cancelled is one whose complete was lost, or answered with a
\* failure after the promotion; and no abort that was granted is of a stored file.
OutcomeHonest ==
    \A u \in Uploads :
        /\ item[u] = "done" => bytes[u] = "stored"
        /\ item[u] \in {"error", "cancelled"} /\ bytes[u] = "stored" =>
             "complete" \in lost[u] \/ call[u]["complete"] = "failed"
        /\ call[u]["abort"] = "ok" => bytes[u] # "stored"

\* An upload that ends leaves no session active behind it, unless the answer of
\* its init was not seen or its only abort was lost or failed.
NoSessionLeft ==
    \A u \in Uploads :
        At(u, "over") /\ session[u] = "active" =>
            \/ "init" \in lost[u] \/ call[u]["init"] = "failed"
            \/ "abort" \in lost[u] \/ call[u]["abort"] = "failed"

\* A file that is done, or cancelled, stays so until it is cleared: no worker
\* that is still at it reports progress afterwards.
FinishedStays ==
    [][\A u \in Uploads :
         item[u] \in {"done", "cancelled"} => item'[u] \in {item[u], ""}]_item

\* The Worker as the page sees it keeps the order, the finality and the exclusions
\* of the contract that its requests, passes and restarts keep.  That bytes are
\* written once is not claimed here: what the page meets is whether they are there,
\* and the writes are counted where they are made (UploadSessions).
Lifecycle ==
    INSTANCE UploadLifecycle WITH
        Sessions <- Uploads,
        state <- session,
        written <- [u \in Uploads |-> IF bytes[u] = "stored" THEN 1 ELSE 0],
        discarded <- {u \in Uploads : bytes[u] = "dropped"}

LifecycleSpec == Lifecycle!Spec

\* Every dropped file gets its turn and an end.
QueueDrains == \A u \in Uploads : pc[u] # "new" ~> pc[u] = "over"
=============================================================================
