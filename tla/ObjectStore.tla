---------------------------- MODULE ObjectStore ----------------------------
(***************************************************************************)
(* The objects of FILES_BUCKET under the routes that rearrange them: move, *)
(* soft delete into .trash/, and the promotion of a validated upload from  *)
(* its staging key.  R2 has no rename: each is a read, a write and a       *)
(* delete, every one an await of its own, and a Worker may die at any.     *)
(*                                                                         *)
(* A place is a key: in the files, in the trash with the time stamps of the*)
(* deletions that took it there, or in the staging area of a session, whose*)
(* object its own expiry or rejection may delete at any time.  The routes  *)
(* that only read (list, meta, download, preview) change nothing and are   *)
(* left out.                                                               *)
(***************************************************************************)
EXTENDS Naturals, Sequences

CONSTANTS
    Keys,      \* keys of files
    Blobs,     \* contents
    Contents,  \* what the files hold at first: a partial function of Keys
    Sessions,  \* sessions with a validated staged object
    Staged,    \* its content
    Target,    \* its objectKey
    Requests,  \* slots for moves and deletes
    NoBlob,    \* no object at a key
    Mixed,     \* an object put together from several
    Chunks,    \* the ranged reads of a multipart copy
    Times,     \* time stamps: of the clocks of the Workers, which may agree
    MaxNest,   \* bound on how often what is in the trash is deleted again
    MaxBegun   \* bound on the moves and deletes begun

ASSUME StoreAssumption ==
    /\ DOMAIN Contents \subseteq Keys
    /\ \A k \in DOMAIN Contents : Contents[k] \in Blobs
    /\ Staged \in [Sessions -> Blobs]
    /\ Target \in [Sessions -> Keys]
    /\ NoBlob \notin Blobs /\ Mixed \notin Blobs \union {NoBlob}
    /\ Chunks \in Nat \ {0}
    /\ {MaxNest, MaxBegun} \subseteq Nat

VARIABLES
    bucket,       \* the content at each place
    begun,        \* how many requests have begun
    request,      \* moves and deletes under way
    promotion,    \* the promotion of each session
    givenUp,      \* sessions whose staged object is to be deleted: expired or rejected
    overwritten,  \* history: contents a write has replaced with others
    raced         \* history: contents a delete removed that was not meant for them

vars == <<begun, bucket, request, promotion, givenUp, overwritten, raced>>

\* A trash key carries a time stamp before the whole key that was deleted, so what
\* is in the trash can be deleted again.
File(k) == [area |-> "files", of |-> k, stamps |-> <<>>]
Trashed(place, t) == [area |-> "trash", of |-> place.of, stamps |-> Append(place.stamps, t)]
Staging(s) == [area |-> "staging", of |-> s, stamps |-> <<>>]

Stamps == UNION {[1 .. n -> Times] : n \in 1 .. MaxNest}

FilePlaces == {File(k) : k \in Keys}
TrashPlaces == {[area |-> "trash", of |-> k, stamps |-> stamps] : k \in Keys, stamps \in Stamps}
StagingPlaces == {Staging(s) : s \in Sessions}
Places == FilePlaces \union TrashPlaces \union StagingPlaces

Nowhere == [area |-> "none", of |-> NoBlob, stamps |-> <<>>]

Idle == [at |-> "idle", from |-> Nowhere, to |-> Nowhere, blob |-> NoBlob, stale |-> FALSE]

-----------------------------------------------------------------------------
(* R2.                                                                     *)

\* A write replaces what is there.  Other requests that have read the place and
\* mean to delete it are stale from now on.
Put(place, blob) ==
    /\ bucket' = [bucket EXCEPT ![place] = blob]
    /\ overwritten' = overwritten \union ({bucket[place]} \ {NoBlob, blob})

Restamped(place) ==
    [r \in Requests |->
        IF request[r].from = place /\ request[r].at \in {"read", "copied"}
        THEN [request[r] EXCEPT !.stale = TRUE]
        ELSE request[r]]

-----------------------------------------------------------------------------
(* Moves and deletes.                                                      *)

\* Mutant: a key may be moved onto itself.
MoveAcceptedOnto(from, to) == from.area # "staging" /\ to.area # "staging"

\* Mutant: the staging area is not reserved.
MoveAcceptedStaging(from, to) == from # to

MoveAccepted(from, to) ==
    /\ from.area # "staging"
    /\ to.area # "staging"
    /\ from # to

DeleteAccepted(key) == key.area # "staging"

\* An object that is not there is a 404.
Begin(r, from, to) ==
    /\ request[r] = Idle
    /\ begun < MaxBegun
    /\ begun' = begun + 1
    /\ bucket[from] # NoBlob
    /\ request' = [request EXCEPT ![r] =
         [at |-> "read", from |-> from, to |-> to, blob |-> bucket[from], stale |-> FALSE]]
    /\ UNCHANGED <<bucket, promotion, givenUp, overwritten, raced>>

Move(r, from, to) == MoveAccepted(from, to) /\ Begin(r, from, to)

SoftDelete(r, key) == DeleteAccepted(key) /\ Begin(r, key, Nowhere)

\* Where a deleted object goes is settled after the read, by the clock of the Worker.
Destinations(r) ==
    IF request[r].to = Nowhere THEN {Trashed(request[r].from, t) : t \in Times} ELSE {request[r].to}

Copy(r) ==
    /\ request[r].at = "read"
    /\ \E to \in Destinations(r) :
         /\ Put(to, request[r].blob)
         /\ request' = [Restamped(to) EXCEPT ![r] = [request[r] EXCEPT !.at = "copied", !.to = to]]
    /\ UNCHANGED <<begun, promotion, givenUp, raced>>

\* The delete is of the key, whatever is there by now.
DeleteSource(r) ==
    /\ request[r].at = "copied"
    /\ bucket' = [bucket EXCEPT ![request[r].from] = NoBlob]
    /\ raced' = raced \union
         (IF request[r].stale THEN {bucket[request[r].from]} \ {NoBlob} ELSE {})
    /\ request' = [request EXCEPT ![r] = Idle]
    /\ UNCHANGED <<begun, promotion, givenUp, overwritten>>

\* The Worker is gone, or the call has failed; nothing is undone.
RequestDies(r) ==
    /\ request[r].at # "idle"
    /\ request' = [request EXCEPT ![r] = Idle]
    /\ UNCHANGED <<begun, bucket, promotion, givenUp, overwritten, raced>>

-----------------------------------------------------------------------------
(* Promotion.                                                              *)

\* The size decides between one put and a copy in parts; the staged object may be
\* gone by now.
PromoteHead(s) ==
    /\ promotion[s].at = "staged"
    /\ \E at \in IF bucket[Staging(s)] = NoBlob THEN {"failed"} ELSE {"single", "parts"} :
         promotion' = [promotion EXCEPT ![s].at = at]
    /\ UNCHANGED <<begun, bucket, request, givenUp, overwritten, raced>>

\* One ranged read of the copy in parts, or the read of the whole; an object that
\* has gone since ends the promotion.
PromoteRead(s) ==
    /\ promotion[s].at \in {"single", "parts"}
    /\ Len(promotion[s].read) < IF promotion[s].at = "single" THEN 1 ELSE Chunks
    /\ promotion' =
         IF bucket[Staging(s)] = NoBlob
         THEN [promotion EXCEPT ![s] = [at |-> "failed", read |-> <<>>]]
         ELSE [promotion EXCEPT ![s].read = Append(@, bucket[Staging(s)])]
    /\ UNCHANGED <<begun, bucket, request, givenUp, overwritten, raced>>

\* The target is written as a whole or not at all.
PromoteWrite(s) ==
    LET read == promotion[s].read
    IN  /\ \/ promotion[s].at = "single" /\ Len(read) = 1
           \/ promotion[s].at = "parts" /\ Len(read) = Chunks
        /\ Put(File(Target[s]), IF \A i \in DOMAIN read : read[i] = read[1] THEN read[1] ELSE Mixed)
        /\ request' = Restamped(File(Target[s]))
        /\ promotion' = [promotion EXCEPT ![s] = [at |-> "stored", read |-> <<>>]]
        /\ UNCHANGED <<begun, givenUp, raced>>

\* The staged copy goes.  A failure to delete it is only logged, and the Worker may
\* die before it tries.
PromoteClean(s) ==
    /\ promotion[s].at = "stored"
    /\ promotion' = [promotion EXCEPT ![s].at = "done"]
    /\ \E deleted \in BOOLEAN :
         bucket' = IF deleted THEN [bucket EXCEPT ![Staging(s)] = NoBlob] ELSE bucket
    /\ UNCHANGED <<begun, request, givenUp, overwritten, raced>>

\* A call fails, or the Worker is gone, before the target is written: a copy in
\* parts is aborted, and the target is as it was.
PromotionDies(s) ==
    /\ promotion[s].at \in {"staged", "single", "parts"}
    /\ promotion' = [promotion EXCEPT ![s] = [at |-> "failed", read |-> <<>>]]
    /\ UNCHANGED <<begun, bucket, request, givenUp, overwritten, raced>>

-----------------------------------------------------------------------------
(* The end of a session.                                                   *)

\* The session is marked completed: no pass takes it any more.  One that has
\* expired meanwhile is refused.
MarkCompleted(s) ==
    /\ promotion[s].at = "done"
    /\ s \notin givenUp
    /\ promotion' = [promotion EXCEPT ![s].at = "completed"]
    /\ UNCHANGED <<begun, bucket, request, givenUp, overwritten, raced>>

\* A pass of the Durable Object takes an expired session, also one whose promotion
\* is under way.
Expire(s) ==
    /\ promotion[s].at # "completed"
    /\ givenUp' = givenUp \union {s}
    /\ UNCHANGED <<begun, bucket, request, promotion, overwritten, raced>>

\* The staged object does not pass the checks: the session ends here.
Reject(s) ==
    /\ promotion[s].at = "staged"
    /\ promotion' = [promotion EXCEPT ![s].at = "failed"]
    /\ givenUp' = givenUp \union {s}
    /\ UNCHANGED <<begun, bucket, request, overwritten, raced>>

\* The delete of the staged object that either asks for, at any time after; one that
\* fails is only logged, and never comes here.
Release(s) ==
    /\ s \in givenUp
    /\ bucket' = [bucket EXCEPT ![Staging(s)] = NoBlob]
    /\ UNCHANGED <<begun, request, promotion, givenUp, overwritten, raced>>

-----------------------------------------------------------------------------
Init ==
    /\ begun = 0
    /\ bucket = [place \in Places |->
         IF place.area = "staging" THEN Staged[place.of]
         ELSE IF place.area = "files" /\ place.of \in DOMAIN Contents THEN Contents[place.of]
         ELSE NoBlob]
    /\ request = [r \in Requests |-> Idle]
    /\ promotion = [s \in Sessions |-> [at |-> "staged", read |-> <<>>]]
    /\ givenUp = {}
    /\ overwritten = {}
    /\ raced = {}

\* Keys are whatever a client names.
Next ==
    \/ \E r \in Requests :
         \/ \E from \in Places, to \in Places : Move(r, from, to)
         \/ \E key \in Places : Len(key.stamps) < MaxNest /\ SoftDelete(r, key)
         \/ Copy(r) \/ DeleteSource(r) \/ RequestDies(r)
    \/ \E s \in Sessions :
         \/ PromoteHead(s) \/ PromoteRead(s) \/ PromoteWrite(s) \/ PromoteClean(s)
         \/ PromotionDies(s) \/ MarkCompleted(s) \/ Expire(s) \/ Reject(s) \/ Release(s)

Spec == Init /\ [][Next]_vars

-----------------------------------------------------------------------------
(* Properties.                                                             *)

AtFirst == {Contents[k] : k \in DOMAIN Contents} \union {Staged[s] : s \in Sessions}

InBucket(blob) == \E place \in Places : bucket[place] = blob

\* The target of a session has been written.
Written(s) == promotion[s].at \in {"stored", "done", "completed"}

\* Whatever dies between two of its calls, and however requests, promotions and
\* passes interleave, no content leaves the bucket but by a write over it, by a
\* delete that comes after its key was written anew, or with an upload that was
\* given up, expired or rejected, before it was promoted.
NothingLost ==
    \A blob \in AtFirst :
        \/ InBucket(blob) \/ blob \in overwritten \/ blob \in raced
        \/ \E s \in givenUp : Staged[s] = blob /\ ~Written(s)

\* What was validated is what is promoted, whatever keys clients name: only its own
\* promotion, expiry or rejection takes a staged object away, nothing replaces it,
\* and a promotion under which it is deleted has read nothing but its content, so
\* that a copy in parts mixes no contents.
StagedIsPromoted ==
    /\ \A s \in Sessions :
         /\ bucket[Staging(s)] \in {Staged[s], NoBlob}
         /\ s \notin givenUp /\ ~Written(s) => bucket[Staging(s)] = Staged[s]
         /\ \A i \in DOMAIN promotion[s].read : promotion[s].read[i] = Staged[s]
    /\ ~InBucket(Mixed)
=============================================================================
