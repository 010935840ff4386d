-------------------------- MODULE ObjectStoreProofs --------------------------
(***************************************************************************)
(* What ObjectStore guarantees for any files, contents, sessions, requests *)
(* and number of chunks.                                                   *)
(*                                                                         *)
(* The argument: no move or delete has a staging key for its source or its *)
(* destination (Typed: both lie in Outside), so a staged object is only    *)
(* ever taken away, by its own promotion or when its session is given up   *)
(* (Held); every read of a promotion that finds it therefore returns the   *)
(* validated content (Whole), and what is written is whole.                *)
(*                                                                         *)
(* That nothing is lost rests on Safe: every content that was not given up *)
(* has a copy that nobody is about to delete in good faith.                *)
(***************************************************************************)
EXTENDS ObjectStore, SequenceTheorems, TLAPS

\* What a place may hold: never an object put together from several.
Values == Blobs \union {NoBlob}

\* Where a request may read and write.
Outside == FilePlaces \union TrashPlaces \union {Nowhere}

Slots ==
    [at : {"idle", "read", "copied"}, from : Outside, to : Outside, blob : Values,
     stale : BOOLEAN]

\* A request never writes where it has read; one that deletes has room for a stamp.
Slot ==
    {slot \in Slots :
        slot.at # "idle" =>
            /\ slot.from # Nowhere
            /\ slot.at = "read" => slot.from # slot.to
            /\ slot.at = "read" /\ slot.to = Nowhere => Len(slot.from.stamps) < MaxNest}

Promotion ==
    [at : {"staged", "single", "parts", "stored", "done", "completed", "failed"},
     read : Seq(Values)]

Typed ==
    /\ bucket \in [Places -> Values]
    /\ request \in [Requests -> Slot]
    /\ promotion \in [Sessions -> Promotion]
    /\ givenUp \subseteq Sessions

Held ==
    \A s \in Sessions :
        /\ bucket[Staging(s)] \in {Staged[s], NoBlob}
        /\ s \notin givenUp /\ ~Written(s) => bucket[Staging(s)] = Staged[s]

Whole ==
    \A s \in Sessions : \A i \in 1 .. Len(promotion[s].read) : promotion[s].read[i] = Staged[s]

IInv == Typed /\ Held /\ Whole

-----------------------------------------------------------------------------
(* Places.                                                                 *)

LEMMA StagingApart ==
    ASSUME NEW place \in Outside, NEW s \in Sessions
    PROVE  place # Staging(s)
  BY DEF Outside, FilePlaces, TrashPlaces, Nowhere, Staging, File

LEMMA StagingIsPlace ==
    ASSUME NEW s \in Sessions
    PROVE  Staging(s) \in Places
  BY DEF Places, StagingPlaces

LEMMA StagingInjective ==
    ASSUME NEW s \in Sessions, NEW t \in Sessions, s # t
    PROVE  Staging(s) # Staging(t)
  BY DEF Staging

LEMMA NowhereIsNoPlace == Nowhere \notin Places
  <1>1. \A place \in Places : place.area # "none"
    BY DEF Places, FilePlaces, TrashPlaces, StagingPlaces, File, Staging
  <1> QED
    BY <1>1 DEF Nowhere

LEMMA UnreservedIsOutside ==
    ASSUME NEW place \in Places, place.area # "staging"
    PROVE  place \in Outside
  BY DEF Places, StagingPlaces, Staging, Outside

LEMMA StampsAreSequences ==
    ASSUME StoreAssumption, NEW stamps \in Stamps
    PROVE  stamps \in Seq(Times) /\ Len(stamps) \in 1 .. MaxNest
  <1>1. PICK n \in 1 .. MaxNest : stamps \in [1 .. n -> Times]
    BY DEF Stamps
  <1>2. n \in Nat
    BY <1>1 DEF StoreAssumption
  <1>3. stamps \in Seq(Times) /\ Len(stamps) = n
    BY <1>1, <1>2
  <1> QED
    BY <1>1, <1>3

\* A deletion that has room for its stamp leads to the trash, and elsewhere.
LEMMA TrashIsOutside ==
    ASSUME StoreAssumption, NEW place \in Outside \ {Nowhere}, NEW t \in Times,
           Len(place.stamps) < MaxNest
    PROVE  Trashed(place, t) \in TrashPlaces /\ Trashed(place, t) # place
  <1>1. place.of \in Keys /\ place.stamps \in Seq(Times)
    <2>1. CASE place \in FilePlaces
      <3>1. place.of \in Keys /\ place.stamps = <<>>
        BY <2>1 DEF FilePlaces, File
      <3>2. <<>> \in Seq(Times)
        BY EmptySeq
      <3> QED
        BY <3>1, <3>2
    <2>2. CASE place \in TrashPlaces
      <3>1. place.of \in Keys /\ place.stamps \in Stamps
        BY <2>2 DEF TrashPlaces
      <3> QED
        BY <3>1, StampsAreSequences
    <2> QED
      BY <2>1, <2>2 DEF Outside
  <1> DEFINE stamps == Append(place.stamps, t)
  <1>2. stamps \in Seq(Times) /\ Len(stamps) = Len(place.stamps) + 1
    BY <1>1
  <1>3. Len(stamps) \in 1 .. MaxNest /\ stamps # place.stamps
    BY <1>1, <1>2 DEF StoreAssumption
  <1> HIDE DEF stamps
  <1>4. stamps \in [1 .. Len(stamps) -> Times]
    BY <1>2, LenProperties
  <1>5. stamps \in Stamps
    BY <1>3, <1>4 DEF Stamps
  <1>6. Trashed(place, t) = [area |-> "trash", of |-> place.of, stamps |-> stamps]
    BY DEF Trashed, stamps
  <1> QED
    BY <1>1, <1>3, <1>5, <1>6 DEF TrashPlaces

\* A write outside of the staging area changes nothing in it.
LEMMA PutApart ==
    ASSUME Typed, NEW place \in Outside, NEW blob \in Values,
           bucket' = [bucket EXCEPT ![place] = blob]
    PROVE  /\ bucket' \in [Places -> Values]
           /\ \A s \in Sessions : bucket'[Staging(s)] = bucket[Staging(s)]
  <1>1. bucket' \in [Places -> Values]
    BY DEF Typed
  <1>2. ASSUME NEW s \in Sessions
        PROVE  bucket'[Staging(s)] = bucket[Staging(s)]
    BY StagingApart, StagingIsPlace DEF Typed
  <1> QED
    BY <1>1, <1>2

LEMMA RestampedTyped ==
    ASSUME Typed, NEW place
    PROVE  Restamped(place) \in [Requests -> Slot]
  <1>1. ASSUME NEW r \in Requests
        PROVE  [request[r] EXCEPT !.stale = TRUE] \in Slot
    BY DEF Typed, Slot, Slots
  <1>2. \A r \in Requests : request[r] \in Slot
    BY DEF Typed
  <1> QED
    BY <1>1, <1>2 DEF Restamped

-----------------------------------------------------------------------------
(* Steps of moves, deletes and the clock: the staging area and the         *)
(* promotions are untouched.                                               *)

\* A step that leaves promotions and the staging area as they are.
LEMMA StagingKept ==
    ASSUME Held, Whole, UNCHANGED <<promotion, givenUp>>,
           \A s \in Sessions : bucket'[Staging(s)] = bucket[Staging(s)]
    PROVE  Held' /\ Whole'
  BY DEF Held, Whole, Written

LEMMA BeginKeeps ==
    ASSUME IInv, NEW r \in Requests, NEW from \in Places, NEW to \in Outside,
           from.area # "staging", from # to, to = Nowhere => Len(from.stamps) < MaxNest,
           Begin(r, from, to)
    PROVE  IInv'
  <1> USE DEF IInv
  <1>1. from \in Outside /\ from # Nowhere
    BY UnreservedIsOutside DEF Places, FilePlaces, TrashPlaces, StagingPlaces, File,
       Staging, Nowhere
  <1>2. bucket[from] \in Values
    BY DEF Typed
  <1>3. [at |-> "read", from |-> from, to |-> to, blob |-> bucket[from], stale |-> FALSE] \in Slot
    BY <1>1, <1>2 DEF Slot, Slots
  <1>4. request' \in [Requests -> Slot]
    BY <1>3 DEF Begin, Typed
  <1>5. Typed'
    BY <1>4 DEF Begin, Typed
  <1> QED
    BY <1>5, StagingKept DEF Begin

\* Where a request writes is a place, and not the one it has read.
LEMMA DestinationApart ==
    ASSUME StoreAssumption, Typed, NEW r \in Requests, request[r].at = "read",
           NEW to \in Destinations(r)
    PROVE  to \in Outside \ {Nowhere} /\ to # request[r].from
  <1>1. /\ request[r].from \in Outside \ {Nowhere} /\ request[r].to \in Outside
        /\ request[r].to = Nowhere => Len(request[r].from.stamps) < MaxNest
        /\ request[r].from # request[r].to
    BY DEF Typed, Slot, Slots
  <1>2. CASE request[r].to = Nowhere
    <2>1. PICK t \in Times : to = Trashed(request[r].from, t)
      BY <1>2 DEF Destinations
    <2>2. to \in TrashPlaces /\ to # request[r].from
      BY <1>1, <1>2, <2>1, TrashIsOutside
    <2> QED
      BY <2>2 DEF Outside, TrashPlaces, Nowhere
  <1>3. CASE request[r].to # Nowhere
    BY <1>1, <1>3 DEF Destinations
  <1> QED
    BY <1>2, <1>3

LEMMA CopyKeeps ==
    ASSUME StoreAssumption, IInv, NEW r \in Requests, Copy(r)
    PROVE  IInv'
  <1>1. request[r] \in Slot /\ request[r].at = "read"
    BY DEF IInv, Typed, Copy
  <1>2. request[r].from \in Outside \ {Nowhere} /\ request[r].blob \in Values
    BY <1>1 DEF Slot, Slots
  <1>3. PICK to \in Destinations(r) :
          /\ bucket' = [bucket EXCEPT ![to] = request[r].blob]
          /\ request' = [Restamped(to) EXCEPT ![r] = [request[r] EXCEPT !.at = "copied", !.to = to]]
    BY DEF Copy, Put
  <1>4. to \in Outside \ {Nowhere}
    BY <1>1, DestinationApart DEF IInv
  <1>6. promotion' = promotion /\ givenUp' = givenUp
    BY DEF Copy
  <1>7. [request[r] EXCEPT !.at = "copied", !.to = to] \in Slot
    BY <1>1, <1>2, <1>4 DEF Slot, Slots
  <1>8. request' \in [Requests -> Slot]
    BY <1>3, <1>7, RestampedTyped DEF IInv
  <1>9. bucket' \in [Places -> Values]
    BY <1>2, <1>3, <1>4, PutApart DEF IInv
  <1>10. \A s \in Sessions : bucket'[Staging(s)] = bucket[Staging(s)]
    BY <1>2, <1>3, <1>4, PutApart DEF IInv
  <1>11. Typed'
    BY <1>6, <1>8, <1>9 DEF IInv, Typed
  <1> QED
    BY <1>6, <1>10, <1>11, StagingKept DEF IInv

\* What a free slot holds.
LEMMA IdleTyped == Idle \in Slot
  BY DEF Idle, Slot, Slots, Outside, Values

LEMMA DeleteSourceKeeps ==
    ASSUME IInv, NEW r \in Requests, DeleteSource(r)
    PROVE  IInv'
  <1>1. request[r].from \in Outside /\ NoBlob \in Values
    BY DEF IInv, Typed, Slot, Slots, Values
  <1>2. bucket' = [bucket EXCEPT ![request[r].from] = NoBlob]
    BY DEF DeleteSource
  <1>3. bucket' \in [Places -> Values]
    BY <1>1, <1>2, PutApart DEF IInv
  <1>4. \A s \in Sessions : bucket'[Staging(s)] = bucket[Staging(s)]
    BY <1>1, <1>2, PutApart DEF IInv
  <1>5. Typed'
    BY <1>3, IdleTyped DEF IInv, Typed, DeleteSource
  <1> QED
    BY <1>4, <1>5, StagingKept DEF IInv, DeleteSource

LEMMA RequestDiesKeeps ==
    ASSUME IInv, NEW r \in Requests, RequestDies(r)
    PROVE  IInv'
  <1>1. Typed'
    BY IdleTyped DEF IInv, Typed, RequestDies
  <1> QED
    BY <1>1, StagingKept DEF IInv, RequestDies

-----------------------------------------------------------------------------
(* Steps of promotions.                                                    *)

\* A step that changes one promotion, writes it back to nothing that was not
\* written, and leaves the staging area as it is.
LEMMA PromotionMoves ==
    ASSUME IInv, NEW s \in Sessions, NEW slot \in Promotion,
           promotion' = [promotion EXCEPT ![s] = slot],
           Written(s) => slot.at \in {"stored", "done", "completed"},
           \A i \in 1 .. Len(slot.read) : slot.read[i] = Staged[s],
           givenUp \subseteq givenUp',
           \A t \in Sessions : bucket'[Staging(t)] = bucket[Staging(t)]
    PROVE  promotion' \in [Sessions -> Promotion] /\ Held' /\ Whole'
  <1>1. promotion \in [Sessions -> Promotion]
    BY DEF IInv, Typed
  <1>2. promotion' \in [Sessions -> Promotion]
    BY <1>1
  <1>3. promotion'[s] = slot /\ \A t \in Sessions \ {s} : promotion'[t] = promotion[t]
    BY <1>1
  <1>4. \A t \in Sessions : Written(t) => Written(t)'
    BY <1>3 DEF Written
  <1>5. Held'
    BY <1>4 DEF IInv, Held
  <1>6. Whole'
    BY <1>3 DEF IInv, Whole
  <1> QED
    BY <1>2, <1>5, <1>6

LEMMA PromoteHeadKeeps ==
    ASSUME IInv, NEW s \in Sessions, PromoteHead(s)
    PROVE  IInv'
  <1>1. PICK at \in {"failed", "single", "parts"} : promotion' = [promotion EXCEPT ![s].at = at]
    BY DEF PromoteHead
  <1> DEFINE slot == [promotion[s] EXCEPT !.at = at]
  <1>2. slot \in Promotion /\ slot.read = promotion[s].read
    BY DEF IInv, Typed, Promotion
  <1>3. promotion' = [promotion EXCEPT ![s] = slot]
    BY <1>1
  <1>4. ~Written(s) /\ \A i \in 1 .. Len(slot.read) : slot.read[i] = Staged[s]
    BY <1>2 DEF PromoteHead, Written, IInv, Whole
  <1> HIDE DEF slot
  <1>5. promotion' \in [Sessions -> Promotion] /\ Held' /\ Whole'
    BY <1>2, <1>3, <1>4, PromotionMoves DEF PromoteHead
  <1> QED
    BY <1>5 DEF PromoteHead, IInv, Typed

LEMMA PromoteReadKeeps ==
    ASSUME StoreAssumption, IInv, NEW s \in Sessions, PromoteRead(s)
    PROVE  IInv'
  <1>1. promotion[s] \in Promotion /\ promotion[s].read \in Seq(Values)
    BY DEF IInv, Typed, Promotion
  <1>2. ~Written(s) /\ UNCHANGED <<bucket, request, givenUp>>
    BY DEF PromoteRead, Written
  <1>3. CASE bucket[Staging(s)] = NoBlob
    <2> DEFINE slot == [at |-> "failed", read |-> <<>>]
    <2>1. promotion' = [promotion EXCEPT ![s] = slot]
      BY <1>3 DEF PromoteRead
    <2>2. slot \in Promotion /\ \A i \in 1 .. Len(slot.read) : slot.read[i] = Staged[s]
      BY EmptySeq DEF Promotion
    <2> HIDE DEF slot
    <2>3. promotion' \in [Sessions -> Promotion] /\ Held' /\ Whole'
      BY <1>2, <2>1, <2>2, PromotionMoves
    <2> QED
      BY <1>2, <2>3 DEF IInv, Typed
  <1>4. CASE bucket[Staging(s)] # NoBlob
    <2> DEFINE read == Append(promotion[s].read, Staged[s])
               slot == [promotion[s] EXCEPT !.read = read]
    <2>1. bucket[Staging(s)] = Staged[s] /\ Staged[s] \in Values
      BY <1>4 DEF IInv, Held, StoreAssumption, Values
    <2>2. promotion' = [promotion EXCEPT ![s] = slot]
      <3>1. promotion' = [promotion EXCEPT ![s].read = Append(promotion[s].read, bucket[Staging(s)])]
        BY <1>4 DEF PromoteRead
      <3> QED
        BY <2>1, <3>1
    <2>3. read \in Seq(Values)
      BY <1>1, <2>1
    <2>4. \A i \in 1 .. Len(read) : read[i] = Staged[s]
      BY <1>1, <2>1 DEF IInv, Whole
    <2> HIDE DEF read
    <2>5. slot \in Promotion /\ slot.read = read
      BY <1>1, <2>3 DEF Promotion
    <2> HIDE DEF slot
    <2>6. promotion' \in [Sessions -> Promotion] /\ Held' /\ Whole'
      BY <1>2, <2>2, <2>4, <2>5, PromotionMoves
    <2> QED
      BY <1>2, <2>6 DEF IInv, Typed
  <1> QED
    BY <1>3, <1>4

\* A promotion that is over, or has failed, has nothing left to read.
LEMMA PromotionOver ==
    ASSUME IInv, NEW s \in Sessions, NEW at \in {"stored", "failed"},
           at = "failed" => ~Written(s),
           promotion' = [promotion EXCEPT ![s] = [at |-> at, read |-> <<>>]],
           UNCHANGED givenUp,
           \A t \in Sessions : bucket'[Staging(t)] = bucket[Staging(t)]
    PROVE  promotion' \in [Sessions -> Promotion] /\ Held' /\ Whole'
  <1> DEFINE slot == [at |-> at, read |-> <<>>]
  <1>1. /\ slot \in Promotion /\ slot.at = at
        /\ \A i \in 1 .. Len(slot.read) : slot.read[i] = Staged[s]
    BY EmptySeq DEF Promotion
  <1>2. promotion' = [promotion EXCEPT ![s] = slot]
    OBVIOUS
  <1> HIDE DEF slot
  <1>3. Written(s) => slot.at \in {"stored", "done", "completed"}
    BY <1>1
  <1> QED
    BY <1>1, <1>2, <1>3, PromotionMoves

LEMMA PromoteWriteKeeps ==
    ASSUME StoreAssumption, IInv, NEW s \in Sessions, PromoteWrite(s)
    PROVE  IInv'
  <1> DEFINE read == promotion[s].read
             blob == IF \A i \in DOMAIN read : read[i] = read[1] THEN read[1] ELSE Mixed
  <1>1. read \in Seq(Values) /\ Len(read) >= 1
    BY DEF IInv, Typed, Promotion, PromoteWrite, StoreAssumption
  <1>2. \A i \in DOMAIN read : read[i] = Staged[s]
    BY <1>1 DEF IInv, Whole
  <1>3. 1 \in DOMAIN read
    BY <1>1
  <1>4. blob = Staged[s]
    BY <1>2, <1>3
  <1>5. Staged[s] \in Values /\ File(Target[s]) \in Outside
    BY DEF StoreAssumption, Values, Outside, FilePlaces
  <1>6. bucket' = [bucket EXCEPT ![File(Target[s])] = Staged[s]]
    BY <1>4 DEF PromoteWrite, Put
  <1>7. bucket' \in [Places -> Values]
    BY <1>5, <1>6, PutApart DEF IInv
  <1>8. \A t \in Sessions : bucket'[Staging(t)] = bucket[Staging(t)]
    BY <1>5, <1>6, PutApart DEF IInv
  <1>9. promotion' = [promotion EXCEPT ![s] = [at |-> "stored", read |-> <<>>]]
    BY DEF PromoteWrite
  <1>10. request' \in [Requests -> Slot]
    BY RestampedTyped DEF PromoteWrite, IInv
  <1>13. UNCHANGED givenUp
    BY DEF PromoteWrite
  <1>11. promotion' \in [Sessions -> Promotion] /\ Held' /\ Whole'
    BY <1>8, <1>9, <1>13, PromotionOver
  <1>12. Typed'
    BY <1>7, <1>10, <1>11, <1>13 DEF IInv, Typed
  <1> QED
    BY <1>11, <1>12 DEF IInv

\* The staged object of a session is deleted: it was written, or given up.
LEMMA StagedDrop ==
    ASSUME IInv, NEW s \in Sessions, bucket' = [bucket EXCEPT ![Staging(s)] = NoBlob],
           s \in givenUp \/ Written(s),
           UNCHANGED <<givenUp, request>>, promotion' \in [Sessions -> Promotion],
           \A t \in Sessions : /\ Written(t) => Written(t)'
                             /\ promotion'[t].read = promotion[t].read
    PROVE  IInv'
  <1>1. bucket' \in [Places -> Values]
    BY DEF IInv, Typed, Values
  <1>2. \A t \in Sessions \ {s} : bucket'[Staging(t)] = bucket[Staging(t)]
    BY StagingInjective, StagingIsPlace DEF IInv, Typed
  <1>3. bucket'[Staging(s)] = NoBlob
    BY StagingIsPlace DEF IInv, Typed
  <1>4. Held'
    BY <1>2, <1>3 DEF IInv, Held
  <1>5. Whole'
    BY DEF IInv, Whole
  <1> QED
    BY <1>1, <1>4, <1>5 DEF IInv, Typed

LEMMA PromoteCleanKeeps ==
    ASSUME IInv, NEW s \in Sessions, PromoteClean(s)
    PROVE  IInv'
  <1> DEFINE slot == [promotion[s] EXCEPT !.at = "done"]
  <1>1. slot \in Promotion /\ slot.at = "done" /\ slot.read = promotion[s].read
    BY DEF IInv, Typed, Promotion
  <1>2. promotion' = [promotion EXCEPT ![s] = slot] /\ UNCHANGED <<request, givenUp>>
    BY DEF PromoteClean
  <1> HIDE DEF slot
  <1>3. promotion' \in [Sessions -> Promotion] /\ promotion'[s] = slot
    BY <1>1, <1>2 DEF IInv, Typed
  <1>4. \A t \in Sessions \ {s} : promotion'[t] = promotion[t]
    BY <1>2 DEF IInv, Typed
  <1>5. CASE bucket' = bucket
    <2>0. \A i \in 1 .. Len(slot.read) : slot.read[i] = Staged[s]
      BY <1>1 DEF IInv, Whole
    <2>1. Held' /\ Whole'
      BY <1>1, <1>2, <1>5, <2>0, PromotionMoves
    <2> QED
      BY <1>2, <1>3, <1>5, <2>1 DEF IInv, Typed
  <1>6. CASE bucket' = [bucket EXCEPT ![Staging(s)] = NoBlob]
    <2>1. Written(s)
      BY DEF PromoteClean, Written
    <2>2. \A t \in Sessions : Written(t) => Written(t)'
      BY <1>1, <1>3, <1>4 DEF Written
    <2>3. \A t \in Sessions : promotion'[t].read = promotion[t].read
      BY <1>1, <1>3, <1>4
    <2> QED
      BY <1>2, <1>3, <1>6, <2>1, <2>2, <2>3, StagedDrop
  <1> QED
    BY <1>5, <1>6 DEF PromoteClean

LEMMA PromotionDiesKeeps ==
    ASSUME IInv, NEW s \in Sessions, PromotionDies(s)
    PROVE  IInv'
  <1>1. /\ promotion' = [promotion EXCEPT ![s] = [at |-> "failed", read |-> <<>>]]
        /\ ~Written(s) /\ UNCHANGED <<bucket, request, givenUp>>
    BY DEF PromotionDies, Written
  <1>2. promotion' \in [Sessions -> Promotion] /\ Held' /\ Whole'
    BY <1>1, PromotionOver
  <1> QED
    BY <1>1, <1>2 DEF IInv, Typed

\* The record moves on, or the session is given up.
LEMMA EndKeeps ==
    ASSUME IInv, NEW s \in Sessions, MarkCompleted(s) \/ Expire(s) \/ Reject(s)
    PROVE  IInv'
  <1>1. UNCHANGED <<bucket, request>> /\ givenUp \subseteq givenUp' /\ givenUp' \subseteq Sessions
    BY DEF MarkCompleted, Expire, Reject, IInv, Typed
  <1>2. CASE UNCHANGED promotion
    BY <1>1, <1>2 DEF IInv, Typed, Held, Whole, Written
  <1>3. ASSUME NEW at \in {"completed", "failed"}, promotion' = [promotion EXCEPT ![s].at = at],
               Written(s) => at = "completed"
        PROVE  IInv'
    <2> DEFINE slot == [promotion[s] EXCEPT !.at = at]
    <2>1. slot \in Promotion /\ slot.at = at /\ slot.read = promotion[s].read
      BY DEF IInv, Typed, Promotion
    <2>2. promotion' = [promotion EXCEPT ![s] = slot]
      BY <1>3
    <2> HIDE DEF slot
    <2>4. \A i \in 1 .. Len(slot.read) : slot.read[i] = Staged[s]
      BY <2>1 DEF IInv, Whole
    <2>3. promotion' \in [Sessions -> Promotion] /\ Held' /\ Whole'
      BY <1>1, <1>3, <2>1, <2>2, <2>4, PromotionMoves
    <2> QED
      BY <1>1, <2>3 DEF IInv, Typed
  <1> QED
    BY <1>2, <1>3 DEF MarkCompleted, Expire, Reject, Written

LEMMA ReleaseKeeps ==
    ASSUME IInv, NEW s \in Sessions, Release(s)
    PROVE  IInv'
  BY StagedDrop DEF Release, IInv, Typed, Written

-----------------------------------------------------------------------------
(* The invariant and what it gives.                                        *)

LEMMA InitInvariant ==
    ASSUME StoreAssumption, Init
    PROVE  IInv
  <1>1. ASSUME NEW place \in Places
        PROVE  (IF place.area = "staging" THEN Staged[place.of]
                ELSE IF place.area = "files" /\ place.of \in DOMAIN Contents
                     THEN Contents[place.of] ELSE NoBlob) \in Values
    <2>1. CASE place.area = "staging"
      BY <2>1 DEF Places, FilePlaces, TrashPlaces, StagingPlaces, File, Staging,
         StoreAssumption, Values
    <2>2. CASE place.area # "staging"
      BY <2>2 DEF StoreAssumption, Values
    <2> QED
      BY <2>1, <2>2
  <1>2. bucket \in [Places -> Values]
    BY <1>1 DEF Init
  <1>3. <<>> \in Seq(Values)
    BY EmptySeq
  <1>4. [at |-> "staged", read |-> <<>>] \in Promotion
    BY <1>3 DEF Promotion
  <1>5. promotion \in [Sessions -> Promotion]
    BY <1>4 DEF Init
  <1>6. request \in [Requests -> Slot]
    BY IdleTyped DEF Init
  <1>7. givenUp \subseteq Sessions
    BY DEF Init
  <1>8. Held
    BY StagingIsPlace DEF Init, Held, Staging
  <1>9. Whole
    BY DEF Init, Whole
  <1> QED
    BY <1>2, <1>5, <1>6, <1>7, <1>8, <1>9 DEF IInv, Typed

LEMMA NextInvariant ==
    ASSUME StoreAssumption, IInv, [Next]_vars
    PROVE  IInv'
  <1>1. ASSUME NEW r \in Requests, NEW from \in Places, NEW to \in Places, Move(r, from, to)
        PROVE  IInv'
    <2>1. to \in Outside \ {Nowhere}
      BY <1>1, UnreservedIsOutside, NowhereIsNoPlace DEF Move, MoveAccepted
    <2> QED
      BY <1>1, <2>1, BeginKeeps DEF Move, MoveAccepted
  <1>2. ASSUME NEW r \in Requests, NEW key \in Places, Len(key.stamps) < MaxNest,
               SoftDelete(r, key)
        PROVE  IInv'
    BY <1>2, BeginKeeps, NowhereIsNoPlace DEF SoftDelete, DeleteAccepted, Outside
  <1>3. ASSUME NEW r \in Requests, Copy(r) \/ DeleteSource(r) \/ RequestDies(r)
        PROVE  IInv'
    BY <1>3, CopyKeeps, DeleteSourceKeeps, RequestDiesKeeps
  <1>4. ASSUME NEW s \in Sessions,
               \/ PromoteHead(s) \/ PromoteRead(s) \/ PromoteWrite(s) \/ PromoteClean(s)
               \/ PromotionDies(s) \/ MarkCompleted(s) \/ Expire(s) \/ Reject(s) \/ Release(s)
        PROVE  IInv'
    BY <1>4, PromoteHeadKeeps, PromoteReadKeeps, PromoteWriteKeeps, PromoteCleanKeeps,
       PromotionDiesKeeps, EndKeeps, ReleaseKeeps
  <1>5. CASE UNCHANGED vars
    BY <1>5 DEF vars, IInv, Typed, Held, Whole, Written
  <1> QED
    BY <1>1, <1>2, <1>3, <1>4, <1>5 DEF Next

\* The invariant holds in every state: requests stay out of the staging area, a
\* staged object is there until it is promoted or given up and is never replaced,
\* and every read of a promotion has returned the validated content (r2.ts:29-140,
\* routes/objects.ts:90-120, upload-sessions.ts:409-428, routes/upload.ts:106-125).
THEOREM StoreInvariant == Spec => []IInv
  <1>1. Init => IInv
    BY InitInvariant, StoreAssumption
  <1>2. IInv /\ [Next]_vars => IInv'
    BY NextInvariant, StoreAssumption
  <1> QED
    BY <1>1, <1>2, PTL DEF Spec

\* What was validated is what is promoted, whatever keys clients name in moves and
\* deletes and whenever a pass or a rejection deletes what is staged: nothing
\* replaces it, and no copy in parts mixes contents (r2.ts:77-140).
THEOREM StagedHolds == Spec => []StagedIsPromoted
  <1>1. IInv => StagedIsPromoted
    <2> SUFFICES ASSUME IInv PROVE StagedIsPromoted
      OBVIOUS
    <2>1. \A s \in Sessions : DOMAIN promotion[s].read = 1 .. Len(promotion[s].read)
      BY DEF IInv, Typed, Promotion
    <2>2. ~InBucket(Mixed)
      BY StoreAssumption DEF IInv, Typed, InBucket, Values, StoreAssumption
    <2> QED
      BY <2>1, <2>2 DEF IInv, Held, Whole, StagedIsPromoted
  <1> QED
    BY <1>1, StoreInvariant, PTL

-----------------------------------------------------------------------------
(* Nothing is lost.  A copy is doomed when someone may delete it in good   *)
(* faith.  Every content that was not given up keeps a copy that is not    *)
(* doomed: whoever dooms one has just written another, and whoever reads a *)
(* place before that write is stale.                                       *)

Doomed(place) ==
    \/ \E r \in Requests :
         request[r].at = "copied" /\ ~request[r].stale /\ request[r].from = place
    \/ \E s \in Sessions : Written(s) /\ Staging(s) = place

Abandoned(blob) == \E s \in givenUp : Staged[s] = blob /\ ~Written(s)

Safe ==
    \A blob \in AtFirst :
        \/ blob \in overwritten \union raced
        \/ Abandoned(blob)
        \/ \E place \in Places : bucket[place] = blob /\ ~Doomed(place)

\* A request that is not stale would delete what it has read.
Honest ==
    \A r \in Requests :
        request[r].at # "idle" /\ ~request[r].stale =>
            bucket[request[r].from] \in {request[r].blob, NoBlob}

SInv == IInv /\ Safe /\ Honest

LEMMA ContentsAreBlobs ==
    ASSUME StoreAssumption
    PROVE  AtFirst \subseteq Blobs /\ NoBlob \notin AtFirst
  BY DEF StoreAssumption, AtFirst

LEMMA OutsideIsPlace == Outside \ {Nowhere} \subseteq Places
  BY DEF Outside, Places

\* Whoever is not stale after a write was not before, and read elsewhere.
LEMMA RestampedOthers ==
    ASSUME Typed, NEW place, NEW r \in Requests
    PROVE  LET slot == Restamped(place)[r]
           IN  /\ slot.at = request[r].at /\ slot.from = request[r].from
               /\ slot.to = request[r].to /\ slot.blob = request[r].blob
               /\ ~slot.stale => ~request[r].stale /\ (slot.at # "idle" => slot.from # place)
  <1>1. request[r] \in Slots
    BY DEF Typed, Slot
  <1>2. CASE request[r].from = place /\ request[r].at \in {"read", "copied"}
    <2>1. Restamped(place)[r] = [request[r] EXCEPT !.stale = TRUE]
      BY <1>2 DEF Restamped
    <2> QED
      BY <1>1, <2>1 DEF Slots
  <1>3. CASE ~(request[r].from = place /\ request[r].at \in {"read", "copied"})
    <2>1. Restamped(place)[r] = request[r]
      BY <1>3 DEF Restamped
    <2> QED
      BY <1>1, <1>3, <2>1 DEF Slots
  <1> QED
    BY <1>2, <1>3

LEMMA KeepSafe ==
    ASSUME Safe, UNCHANGED <<bucket, overwritten>>, raced \subseteq raced',
           \A p \in Places : Doomed(p)' => Doomed(p),
           \A blob : Abandoned(blob) => Abandoned(blob)'
    PROVE  Safe'
  BY DEF Safe

LEMMA DropSafe ==
    ASSUME StoreAssumption, Typed, Safe, NEW place \in Places,
           bucket' = [bucket EXCEPT ![place] = NoBlob],
           \/ Doomed(place) \/ bucket[place] \in raced' \union {NoBlob}
           \/ Abandoned(bucket[place]),
           UNCHANGED overwritten, raced \subseteq raced',
           \A p \in Places : Doomed(p)' => Doomed(p),
           \A blob : Abandoned(blob) => Abandoned(blob)'
    PROVE  Safe'
  <1> SUFFICES ASSUME NEW blob \in AtFirst, blob \notin overwritten' \union raced',
                      ~Abandoned(blob)'
               PROVE  \E p \in Places : bucket'[p] = blob /\ ~Doomed(p)'
    BY DEF Safe
  <1>1. PICK p \in Places : bucket[p] = blob /\ ~Doomed(p)
    BY DEF Safe
  <1>2. p # place
    BY <1>1, ContentsAreBlobs
  <1> QED
    BY <1>1, <1>2 DEF Typed

\* A write may doom what holds the content written, but not where it is written.
LEMMA PutSafe ==
    ASSUME Typed, Safe, NEW place \in Places, NEW content \in Values, Put(place, content),
           raced \subseteq raced', ~Doomed(place)',
           \A p \in Places : Doomed(p)' => Doomed(p) \/ bucket[p] \in {content, NoBlob},
           \A blob : Abandoned(blob) => Abandoned(blob)' \/ blob = content,
           StoreAssumption
    PROVE  Safe'
  <1> SUFFICES ASSUME NEW blob \in AtFirst, blob \notin overwritten' \union raced',
                      ~Abandoned(blob)'
               PROVE  \E p \in Places : bucket'[p] = blob /\ ~Doomed(p)'
    BY DEF Safe
  <1>0. bucket' = [bucket EXCEPT ![place] = content]
    BY DEF Put
  <1>2. CASE blob = content
    BY <1>0, <1>2 DEF Typed
  <1>3. CASE blob # content
    <2>1. PICK p \in Places : bucket[p] = blob /\ ~Doomed(p)
      BY <1>3 DEF Safe, Put
    <2>2. p # place
      BY <1>3, <2>1, ContentsAreBlobs DEF Put
    <2> QED
      BY <1>0, <1>3, <2>1, <2>2, ContentsAreBlobs DEF Typed
  <1> QED
    BY <1>2, <1>3

LEMMA BeginSafe ==
    ASSUME StoreAssumption, SInv, NEW r \in Requests, NEW from \in Places, NEW to,
           Begin(r, from, to)
    PROVE  Safe' /\ Honest'
  <1> DEFINE slot == [at |-> "read", from |-> from, to |-> to, blob |-> bucket[from],
                      stale |-> FALSE]
  <1>1. request \in [Requests -> Slot]
    BY DEF SInv, IInv, Typed
  <1>2. request' = [request EXCEPT ![r] = slot]
    BY DEF Begin
  <1>3. request'[r] = slot /\ \A q \in Requests \ {r} : request'[q] = request[q]
    BY <1>1, <1>2
  <1>4. UNCHANGED <<bucket, promotion, givenUp, overwritten, raced>>
    BY DEF Begin
  <1>5. /\ \A p : Doomed(p)' => Doomed(p)
        /\ \A blob : Abandoned(blob) => Abandoned(blob)'
    BY <1>3, <1>4 DEF Doomed, Abandoned, Written
  <1>6. Safe'
    BY <1>4, <1>5, KeepSafe DEF SInv
  <1>7. Honest'
    BY <1>3, <1>4 DEF SInv, Honest
  <1> QED
    BY <1>6, <1>7

LEMMA CopySafe ==
    ASSUME StoreAssumption, SInv, NEW r \in Requests, Copy(r)
    PROVE  Safe' /\ Honest'
  <1>1. request[r] \in Slots /\ request[r].from \in Outside \ {Nowhere}
    BY DEF SInv, IInv, Typed, Copy, Slot, Slots
  <1>2. request[r].blob \in Values
    BY <1>1 DEF Slots
  <1>3. PICK to \in Destinations(r) :
          /\ Put(to, request[r].blob)
          /\ request' = [Restamped(to) EXCEPT ![r] = [request[r] EXCEPT !.at = "copied", !.to = to]]
    BY DEF Copy
  <1>0. to \in Outside \ {Nowhere} /\ to \in Places /\ to # request[r].from
    BY DestinationApart, OutsideIsPlace DEF SInv, IInv, Copy
  <1> DEFINE slot == [request[r] EXCEPT !.at = "copied", !.to = to]
  <1>4. Put(to, request[r].blob) /\ UNCHANGED <<promotion, givenUp, raced>>
    BY <1>3 DEF Copy
  <1>5. request' = [Restamped(to) EXCEPT ![r] = slot]
    BY <1>3 DEF Copy
  <1>6. /\ slot.at = "copied" /\ slot.from = request[r].from /\ slot.blob = request[r].blob
        /\ slot.stale = request[r].stale
    BY <1>1 DEF Slots
  <1> HIDE DEF slot
  <1>7. request'[r] = slot /\ \A q \in Requests \ {r} : request'[q] = Restamped(to)[q]
    BY <1>5 DEF Restamped
  <1>8. Typed
    BY DEF SInv, IInv
  <1>9. \A q \in Requests \ {r} :
          /\ request'[q].at = request[q].at /\ request'[q].from = request[q].from
          /\ request'[q].to = request[q].to /\ request'[q].blob = request[q].blob
          /\ ~request'[q].stale =>
               ~request[q].stale /\ (request'[q].at # "idle" => request'[q].from # to)
    BY <1>7, <1>8, RestampedOthers
  <1>10. \A s \in Sessions : Staging(s) # to
    BY <1>0, StagingApart
  <1>11. ~Doomed(to)'
    BY <1>0, <1>4, <1>6, <1>7, <1>9, <1>10 DEF Doomed, Written
  <1>12. ASSUME NEW p \in Places, Doomed(p)'
         PROVE  Doomed(p) \/ bucket[p] \in {request[r].blob, NoBlob}
    <2>1. CASE request[r].from = p /\ ~request[r].stale
      BY <2>1 DEF SInv, Honest, Copy
    <2>2. CASE ~(request[r].from = p /\ ~request[r].stale)
      BY <1>4, <1>6, <1>7, <1>9, <1>12, <2>2 DEF Doomed, Written
    <2> QED
      BY <2>1, <2>2
  <1>17. \A blob : Abandoned(blob) => Abandoned(blob)'
    BY <1>4 DEF Abandoned, Written
  <1>13. Safe'
    BY <1>0, <1>2, <1>4, <1>8, <1>11, <1>12, <1>17, PutSafe DEF SInv
  <1>14. \A p \in Places : p # to => bucket'[p] = bucket[p]
    BY <1>4, <1>8 DEF Put, Typed
  <1>15. ASSUME NEW q \in Requests, request'[q].at # "idle", ~request'[q].stale
         PROVE  bucket'[request'[q].from] \in {request'[q].blob, NoBlob}
    <2>1. request[q].from \in Places
      BY <1>1, <1>6, <1>7, <1>8, <1>9, <1>15, OutsideIsPlace DEF Typed, Slot, Slots
    <2>2. CASE q = r
      BY <1>0, <1>6, <1>7, <1>14, <1>15, <2>1, <2>2 DEF SInv, Honest, Copy
    <2>3. CASE q # r
      BY <1>9, <1>14, <1>15, <2>1, <2>3 DEF SInv, Honest
    <2> QED
      BY <2>2, <2>3
  <1>16. Honest'
    BY <1>15 DEF Honest
  <1> QED
    BY <1>13, <1>16

\* A request that ends dooms nothing any more.
LEMMA EndSafe ==
    ASSUME SInv, NEW r \in Requests, request' = [request EXCEPT ![r] = Idle],
           UNCHANGED <<promotion, givenUp>>
    PROVE  /\ \A p : Doomed(p)' => Doomed(p)
           /\ \A blob : Abandoned(blob) => Abandoned(blob)'
           /\ (\A q \in Requests \ {r} :
                 bucket'[request[q].from] \in {bucket[request[q].from], NoBlob}) => Honest'
  <1>1. request'[r] = Idle /\ \A q \in Requests \ {r} : request'[q] = request[q]
    BY DEF SInv, IInv, Typed
  <1>2. \A p : Doomed(p)' => Doomed(p)
    BY <1>1 DEF Doomed, Written, Idle
  <1>3. \A blob : Abandoned(blob) => Abandoned(blob)'
    BY DEF Abandoned, Written
  <1>4. ASSUME \A q \in Requests \ {r} :
                 bucket'[request[q].from] \in {bucket[request[q].from], NoBlob}
        PROVE  Honest'
    BY <1>1, <1>4 DEF SInv, Honest, Idle
  <1> QED
    BY <1>2, <1>3, <1>4

LEMMA DeleteSourceSafe ==
    ASSUME StoreAssumption, SInv, NEW r \in Requests, DeleteSource(r)
    PROVE  Safe' /\ Honest'
  <1> DEFINE from == request[r].from
  <1>1. from \in Places
    BY OutsideIsPlace DEF SInv, IInv, Typed, DeleteSource, Slot, Slots
  <1>2. bucket' = [bucket EXCEPT ![from] = NoBlob] /\ UNCHANGED <<promotion, givenUp, overwritten>>
    BY DEF DeleteSource
  <1>3. raced \subseteq raced' /\ request' = [request EXCEPT ![r] = Idle]
    BY DEF DeleteSource
  <1>4. Doomed(from) \/ bucket[from] \in raced' \union {NoBlob}
    BY DEF DeleteSource, Doomed
  <1>5. Safe'
    BY <1>1, <1>2, <1>3, <1>4, DropSafe, EndSafe DEF SInv, IInv
  <1>6. \A p : bucket'[p] \in {bucket[p], NoBlob} \/ p \notin Places
    BY <1>2 DEF SInv, IInv, Typed
  <1>7. ASSUME NEW q \in Requests \ {r}
        PROVE  bucket'[request[q].from] \in {bucket[request[q].from], NoBlob}
    BY <1>2 DEF SInv, IInv, Typed
  <1> QED
    BY <1>2, <1>3, <1>5, <1>7, EndSafe

LEMMA RequestDiesSafe ==
    ASSUME SInv, NEW r \in Requests, RequestDies(r)
    PROVE  Safe' /\ Honest'
  <1>1. /\ UNCHANGED <<bucket, promotion, givenUp, overwritten, raced>>
        /\ request' = [request EXCEPT ![r] = Idle]
    BY DEF RequestDies
  <1>2. /\ \A p : Doomed(p)' => Doomed(p)
        /\ \A blob : Abandoned(blob) => Abandoned(blob)'
        /\ Honest'
    BY <1>1, EndSafe
  <1> QED
    BY <1>1, <1>2, KeepSafe DEF SInv

LEMMA PromoteWriteSafe ==
    ASSUME StoreAssumption, SInv, NEW s \in Sessions, PromoteWrite(s)
    PROVE  Safe' /\ Honest'
  <1> DEFINE place == File(Target[s])
  <1>1. Typed /\ Held /\ Whole
    BY DEF SInv, IInv
  <1>2. place \in Outside /\ place \in Places /\ Staged[s] \in Values
    BY DEF StoreAssumption, Outside, Places, FilePlaces, Values
  <1>3. Put(place, Staged[s])
    <2> DEFINE read == promotion[s].read
    <2>1. read \in Seq(Values) /\ Len(read) >= 1
      BY <1>1 DEF Typed, Promotion, PromoteWrite, StoreAssumption
    <2>2. \A i \in DOMAIN read : read[i] = Staged[s]
      BY <1>1, <2>1 DEF Whole
    <2>3. 1 \in DOMAIN read
      BY <2>1
    <2> QED
      BY <2>2, <2>3 DEF PromoteWrite
  <1>4. request' = Restamped(place) /\ UNCHANGED <<givenUp, raced>>
    BY DEF PromoteWrite
  <1>5. promotion' = [promotion EXCEPT ![s] = [at |-> "stored", read |-> <<>>]]
    BY DEF PromoteWrite
  <1>6. bucket[Staging(s)] \in {Staged[s], NoBlob}
    BY <1>1 DEF Held
  <1> HIDE DEF place
  <1>7. \A t \in Sessions \ {s} : promotion'[t] = promotion[t]
    BY <1>1, <1>5 DEF Typed
  <1>8. \A q \in Requests :
          /\ request'[q].at = request[q].at /\ request'[q].from = request[q].from
          /\ request'[q].to = request[q].to /\ request'[q].blob = request[q].blob
          /\ ~request'[q].stale =>
               ~request[q].stale /\ (request'[q].at # "idle" => request'[q].from # place)
    BY <1>1, <1>4, RestampedOthers
  <1>9. ~Doomed(place)'
    BY <1>2, <1>8, StagingApart DEF Doomed
  <1>15. \A blob : Abandoned(blob) => Abandoned(blob)' \/ blob = Staged[s]
    BY <1>4, <1>7 DEF Abandoned, Written, SInv, IInv, Typed
  <1>10. ASSUME NEW p \in Places, Doomed(p)'
         PROVE  Doomed(p) \/ bucket[p] \in {Staged[s], NoBlob}
    <2>1. CASE p = Staging(s)
      BY <1>6, <2>1
    <2>2. CASE p # Staging(s)
      BY <1>7, <1>8, <1>10, <2>2 DEF Doomed, Written
    <2> QED
      BY <2>1, <2>2
  <1>11. Safe'
    BY <1>1, <1>2, <1>3, <1>4, <1>9, <1>10, <1>15, PutSafe DEF SInv
  <1>12. \A p : p # place => bucket'[p] = bucket[p] \/ p \notin Places
    BY <1>1, <1>3 DEF Put, Typed
  <1>13. ASSUME NEW q \in Requests, request'[q].at # "idle", ~request'[q].stale
         PROVE  bucket'[request'[q].from] \in {request'[q].blob, NoBlob}
    <2>1. request[q].from \in Places
      BY <1>1, <1>8, <1>13, OutsideIsPlace DEF Typed, Slot, Slots
    <2> QED
      BY <1>8, <1>12, <1>13, <2>1 DEF SInv, Honest
  <1>14. Honest'
    BY <1>13 DEF Honest
  <1> QED
    BY <1>11, <1>14

\* Steps of a session that write no target.
Quiet(s) ==
    \/ PromoteHead(s) \/ PromoteRead(s) \/ PromoteClean(s) \/ PromotionDies(s)
    \/ MarkCompleted(s) \/ Expire(s) \/ Reject(s) \/ Release(s)

\* They leave the requests alone, doom nothing and take nothing back.
LEMMA QuietSafe ==
    ASSUME SInv, NEW s \in Sessions, Quiet(s)
    PROVE  /\ \A p : Doomed(p)' => Doomed(p)
           /\ \A blob : Abandoned(blob) => Abandoned(blob)'
           /\ UNCHANGED <<request, overwritten, raced>>
  <1>1. promotion \in [Sessions -> Promotion]
    BY DEF SInv, IInv, Typed
  <1>2. UNCHANGED <<request, overwritten, raced>> /\ givenUp \subseteq givenUp'
    BY DEF Quiet, PromoteHead, PromoteRead, PromoteClean, PromotionDies, MarkCompleted, Expire,
       Reject, Release
  <1>3. \A t \in Sessions : Written(t)' => Written(t)
    <2>1. CASE UNCHANGED promotion
      BY <2>1 DEF Written
    <2>2. ASSUME NEW slot \in Promotion, promotion' = [promotion EXCEPT ![s] = slot],
                 slot.at \in {"stored", "done", "completed"} => Written(s)
          PROVE  \A t \in Sessions : Written(t)' => Written(t)
      BY <1>1, <2>2 DEF Written
    <2>3. ASSUME NEW at \in {"single", "parts", "failed", "done", "completed"},
                 promotion' = [promotion EXCEPT ![s].at = at],
                 at \in {"done", "completed"} => Written(s)
          PROVE  \A t \in Sessions : Written(t)' => Written(t)
      <3> DEFINE slot == [promotion[s] EXCEPT !.at = at]
      <3>1. slot \in Promotion /\ slot.at = at
        BY <1>1 DEF Promotion
      <3>2. promotion' = [promotion EXCEPT ![s] = slot]
        BY <2>3
      <3> HIDE DEF slot
      <3> QED
        BY <2>2, <2>3, <3>1, <3>2
    <2>4. ASSUME NEW read, promotion' = [promotion EXCEPT ![s].read = read]
          PROVE  \A t \in Sessions : Written(t)' => Written(t)
      BY <1>1, <2>4 DEF Written, Promotion
    <2>5. ASSUME promotion' = [promotion EXCEPT ![s] = [at |-> "failed", read |-> <<>>]]
          PROVE  \A t \in Sessions : Written(t)' => Written(t)
      BY <1>1, <2>5 DEF Written
    <2>6. CASE PromoteRead(s)
      BY <2>4, <2>5, <2>6 DEF PromoteRead
    <2>7. CASE PromoteHead(s) \/ PromoteClean(s) \/ MarkCompleted(s) \/ Reject(s)
      BY <2>3, <2>7 DEF PromoteHead, PromoteClean, MarkCompleted, Reject, Written
    <2>8. CASE PromotionDies(s)
      BY <2>5, <2>8 DEF PromotionDies
    <2>9. CASE Expire(s) \/ Release(s)
      BY <2>1, <2>9 DEF Expire, Release
    <2> QED
      BY <2>6, <2>7, <2>8, <2>9 DEF Quiet
  <1> QED
    BY <1>2, <1>3 DEF Doomed, Abandoned, SInv, IInv, Typed

LEMMA QuietKeeps ==
    ASSUME StoreAssumption, SInv, NEW s \in Sessions, Quiet(s)
    PROVE  Safe' /\ Honest'
  <1>1. /\ \A p : Doomed(p)' => Doomed(p)
        /\ \A blob : Abandoned(blob) => Abandoned(blob)'
        /\ UNCHANGED <<request, overwritten, raced>>
    BY QuietSafe
  <1>2. CASE UNCHANGED bucket
    <2>1. Safe'
      BY <1>1, <1>2, KeepSafe DEF SInv
    <2> QED
      BY <1>1, <1>2, <2>1 DEF SInv, Honest
  <1>3. CASE bucket' = [bucket EXCEPT ![Staging(s)] = NoBlob] /\ (PromoteClean(s) \/ Release(s))
    <2>1. Written(s) \/ s \in givenUp
      BY <1>3 DEF PromoteClean, Release, Written
    <2>2. \/ Doomed(Staging(s)) \/ bucket[Staging(s)] = NoBlob
          \/ Abandoned(bucket[Staging(s)])
      BY <2>1 DEF SInv, IInv, Held, Doomed, Abandoned
    <2>3. Safe'
      BY <1>1, <1>3, <2>2, StagingIsPlace, DropSafe DEF SInv, IInv
    <2>4. \A p \in Outside : bucket'[p] = bucket[p]
      BY <1>3, StagingApart DEF SInv, IInv, Typed
    <2>5. Honest'
      BY <1>1, <2>4 DEF SInv, IInv, Typed, Slot, Slots, Honest
    <2> QED
      BY <2>3, <2>5
  <1> QED
    BY <1>2, <1>3
    DEF Quiet, PromoteHead, PromoteRead, PromoteClean, PromotionDies, MarkCompleted, Expire,
        Reject, Release

LEMMA InitSafe ==
    ASSUME StoreAssumption, Init
    PROVE  Safe /\ Honest
  <1>1. \A p : ~Doomed(p)
    BY DEF Init, Doomed, Written, Idle
  <1>2. ASSUME NEW k \in DOMAIN Contents
        PROVE  File(k) \in Places /\ bucket[File(k)] = Contents[k]
    <2>1. File(k) \in Places
      BY DEF StoreAssumption, Places, FilePlaces
    <2> QED
      BY <2>1 DEF Init, File
  <1>3. ASSUME NEW s \in Sessions
        PROVE  Staging(s) \in Places /\ bucket[Staging(s)] = Staged[s]
    BY StagingIsPlace DEF Init, Staging
  <1>4. Safe
    BY <1>1, <1>2, <1>3 DEF Safe, AtFirst
  <1> QED
    BY <1>4 DEF Init, Honest, Idle

LEMMA NextSafe ==
    ASSUME StoreAssumption, SInv, [Next]_vars
    PROVE  Safe' /\ Honest'
  <1>1. ASSUME NEW r \in Requests, NEW from \in Places, NEW to, Begin(r, from, to)
        PROVE  Safe' /\ Honest'
    BY <1>1, BeginSafe
  <1>2. ASSUME NEW r \in Requests, Copy(r) \/ DeleteSource(r) \/ RequestDies(r)
        PROVE  Safe' /\ Honest'
    BY <1>2, CopySafe, DeleteSourceSafe, RequestDiesSafe
  <1>3. ASSUME NEW s \in Sessions, PromoteWrite(s) \/ Quiet(s)
        PROVE  Safe' /\ Honest'
    BY <1>3, PromoteWriteSafe, QuietKeeps
  <1>4. CASE UNCHANGED vars
    BY <1>4 DEF vars, SInv, Safe, Doomed, Abandoned, Written, Honest
  <1> QED
    BY <1>1, <1>2, <1>3, <1>4 DEF Next, Move, SoftDelete, Quiet

\* Whatever dies between two calls and however moves, deletes, promotions, passes and
\* rejections interleave, no content leaves the bucket but by a write over it, by a
\* delete of a key that was written anew since it was read, or with an upload given
\* up before it was promoted (r2.ts:29-140, upload-sessions.ts:409-428).
THEOREM NothingLostHolds == Spec => []NothingLost
  <1>1. Init => SInv
    BY InitInvariant, InitSafe, StoreAssumption DEF SInv
  <1>2. SInv /\ [Next]_vars => SInv'
    BY NextInvariant, NextSafe, StoreAssumption DEF SInv
  <1>3. SInv => NothingLost
    BY DEF SInv, Safe, Abandoned, NothingLost, InBucket
  <1> QED
    BY <1>1, <1>2, <1>3, PTL DEF Spec
=============================================================================
