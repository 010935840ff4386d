------------------------ MODULE ObjectBrowserProofs ------------------------
(***************************************************************************)
(* ObjectBrowser for any number of folders, keys, pages, requests and      *)
(* mutations: type correctness, the agreement of the view with the last    *)
(* request, the silence of the requests before it, and the pages gone      *)
(* through.                                                                *)
(*                                                                         *)
(* Only the last request of a kind is under way (Requests); everything     *)
(* else follows from what its continuation looks at.                       *)
(***************************************************************************)
EXTENDS ObjectBrowser, SequenceTheorems, TLAPS

AnyKey == Keys \union {NoKey}

ListRequests ==
    [at : RequestLabels, prefix : Folders, cursor : 0 .. LastPage,
     outcome : {""} \union Outcomes, objects : Seq(Keys), more : BOOLEAN]

ShareRequests == [at : RequestLabels, key : AnyKey, outcome : {""} \union Outcomes]

Slots ==
    [at : {"idle", "sent", "list", "shares"}, kind : {"", "move", "delete", "create", "revoke"},
     key : AnyKey, target : AnyKey, request : Nat]

\* A request that says there is more is not for the last page.
PagedRequests == {r \in ListRequests : r.more => r.cursor < LastPage}

\* Only the last request waits for its answer.
OnlyLastWaits(requests) ==
    \A i \in 1 .. Len(requests) : requests[i].at = "sent" => i = Len(requests)

-----------------------------------------------------------------------------
(* Sequences of requests.                                                  *)

LEMMA SupersedingIs ==
    ASSUME NEW S, NEW requests \in Seq(S), NEW over \in S, NEW new \in S
    PROVE  /\ Superseding(requests, over, new) \in Seq(S)
           /\ Len(Superseding(requests, over, new)) = Len(requests) + 1
           /\ Last(Superseding(requests, over, new)) = new
           /\ over.at = "ended" => OnlyLastWaits(Superseding(requests, over, new))
  <1> DEFINE m == [i \in DOMAIN requests |-> IF requests[i].at = "arrived" THEN requests[i] ELSE over]
             s == Superseding(requests, over, new)
  <1>1. Len(requests) \in Nat /\ DOMAIN requests = 1 .. Len(requests)
        /\ \A i \in 1 .. Len(requests) : requests[i] \in S
    OBVIOUS
  <1>2. m \in [1 .. Len(requests) -> S]
    BY <1>1
  <1>3. m \in Seq(S) /\ Len(m) = Len(requests)
    BY <1>1, <1>2, SeqDef
  <1>4. s = Append(m, new)
    BY DEF Superseding
  <1>5. \A i \in 1 .. Len(requests) :
          m[i] = IF requests[i].at = "arrived" THEN requests[i] ELSE over
    BY <1>1
  <1> HIDE DEF m, s
  <1>6. s \in Seq(S) /\ Len(s) = Len(requests) + 1 /\ s[Len(requests) + 1] = new
        /\ \A i \in 1 .. Len(requests) : s[i] = m[i]
    BY <1>1, <1>3, <1>4
  <1>7. Last(s) = new
    BY <1>6 DEF Last
  <1>8. ASSUME over.at = "ended"
        PROVE  OnlyLastWaits(s)
    <2>1. \A i \in 1 .. Len(requests) : s[i].at # "sent"
      BY <1>5, <1>6, <1>8
    <2> QED
      BY <1>1, <1>6, <2>1 DEF OnlyLastWaits
  <1> QED
    BY <1>5, <1>6, <1>7, <1>8 DEF s

\* An answer that has arrived is not dropped.
LEMMA ArrivedStays ==
    ASSUME NEW S, NEW requests \in Seq(S), NEW over \in S, NEW new \in S,
           NEW i \in 1 .. Len(requests), requests[i].at = "arrived"
    PROVE  Superseding(requests, over, new)[i] = requests[i]
  <1> DEFINE m == [k \in DOMAIN requests |-> IF requests[k].at = "arrived" THEN requests[k] ELSE over]
  <1>1. Len(requests) \in Nat /\ DOMAIN requests = 1 .. Len(requests)
        /\ \A k \in 1 .. Len(requests) : requests[k] \in S
    OBVIOUS
  <1>2. m \in [1 .. Len(requests) -> S] /\ m[i] = requests[i]
    BY <1>1
  <1>3. m \in Seq(S) /\ Len(m) = Len(requests)
    BY <1>1, <1>2, SeqDef
  <1>4. Superseding(requests, over, new) = Append(m, new)
    BY DEF Superseding
  <1> HIDE DEF m
  <1>5. Append(m, new)[i] = m[i]
    BY <1>1, <1>3
  <1> QED
    BY <1>2, <1>4, <1>5

\* A request that moves on does not wait again.
LEMMA MovedOn ==
    ASSUME NEW S, NEW requests \in Seq(S), NEW i \in 1 .. Len(requests), NEW r \in S
    PROVE  /\ [requests EXCEPT ![i] = r] \in Seq(S)
           /\ Len([requests EXCEPT ![i] = r]) = Len(requests)
           /\ r.at # "sent" /\ OnlyLastWaits(requests) => OnlyLastWaits([requests EXCEPT ![i] = r])
  <1> DEFINE s == [requests EXCEPT ![i] = r]
  <1>1. Len(requests) \in Nat
    OBVIOUS
  <1>2. /\ s \in Seq(S) /\ Len(s) = Len(requests)
        /\ \A j \in 1 .. Len(requests) : s[j] = IF j = i THEN r ELSE requests[j]
    BY ExceptSeq
  <1> HIDE DEF s
  <1>3. r.at # "sent" /\ OnlyLastWaits(requests) => OnlyLastWaits(s)
    BY <1>1, <1>2 DEF OnlyLastWaits
  <1> QED
    BY <1>2, <1>3 DEF s

-----------------------------------------------------------------------------
(* The invariant.                                                          *)

\* What the variables are: types, and the last request alone under way.
Requests ==
    /\ listed \in Seq(PagedRequests) /\ OnlyLastWaits(listed)
    /\ shareListed \in Seq(ShareRequests) /\ OnlyLastWaits(shareListed)
    /\ Len(listed) + Len(shareListed) <= MaxRequests

Places ==
    /\ prefix \in Folders
    /\ rows \in [by : Nat, objects : Seq(Keys)] /\ rows.by <= Len(listed)
    /\ nextCursor \in 0 .. LastPage /\ pageCursor \in 0 .. LastPage
    /\ pageStack \in Seq(0 .. LastPage)

Flags ==
    /\ loadingList \in BOOLEAN /\ listError \in BOOLEAN /\ loadingShares \in BOOLEAN
    /\ sharesError \in BOOLEAN /\ authRequired \in BOOLEAN /\ mutating \in BOOLEAN
    /\ detached \in BOOLEAN

Chosen ==
    /\ selected \in AnyKey /\ effectOf \in AnyKey /\ shares \in AnyKey
    /\ shareCreateResult \in AnyKey
    /\ mutation \in [Mutations -> Slots]
    /\ \A m \in Mutations : mutation[m].kind = "move" => mutation[m].target \in Keys

LEMMA ListIs ==
    ASSUME BrowserAssumption, Requests, NEW p \in Folders, NEW cursor \in 0 .. LastPage,
           List(p, cursor)
    PROVE  /\ listed' \in Seq(PagedRequests) /\ OnlyLastWaits(listed)'
           /\ Len(listed') = Len(listed) + 1
           /\ Last(listed').at = "sent" /\ Last(listed').cursor = cursor
           /\ listed' # <<>>
           /\ \A i \in 1 .. Len(listed) : listed[i].at = "arrived" => listed'[i] = listed[i]
  <1> DEFINE new == [OverList EXCEPT !.at = "sent", !.prefix = p, !.cursor = cursor]
  <1>0. 0 \in 0 .. LastPage /\ <<>> \in Seq(Keys) /\ Root \in Folders
    BY DEF BrowserAssumption
  <1>1. OverList \in PagedRequests /\ OverList.at = "ended"
    <2>1. OverList \in ListRequests /\ ~OverList.more /\ OverList.at = "ended"
      BY <1>0 DEF OverList, ListRequests, RequestLabels, Outcomes
    <2> QED
      BY <2>1 DEF PagedRequests
  <1>2. new \in PagedRequests /\ new.at = "sent" /\ new.cursor = cursor
    <2>1. new \in ListRequests /\ ~new.more /\ new.at = "sent" /\ new.cursor = cursor
      BY <1>0 DEF OverList, ListRequests, RequestLabels, Outcomes
    <2> QED
      BY <2>1 DEF PagedRequests
  <1>3. listed' = Superseding(listed, OverList, new)
    BY DEF List
  <1>a. listed \in Seq(PagedRequests)
    BY DEF Requests
  <1> HIDE DEF new
  <1> DEFINE next == Superseding(listed, OverList, new)
  <1>4. next \in Seq(PagedRequests) /\ Len(next) = Len(listed) + 1
    BY <1>1, <1>2, <1>a, SupersedingIs
  <1>8. Last(next) = new
    BY <1>1, <1>2, <1>a, SupersedingIs
  <1>9. OnlyLastWaits(next)
    BY <1>1, <1>2, <1>a, SupersedingIs
  <1>7. \A i \in 1 .. Len(listed) : listed[i].at = "arrived" => next[i] = listed[i]
    BY <1>1, <1>2, <1>a, ArrivedStays
  <1>5. Len(listed) \in Nat
    BY <1>a
  <1>6. next # <<>>
    BY <1>4, <1>5
  <1> HIDE DEF next
  <1> QED
    BY <1>2, <1>3, <1>4, <1>6, <1>7, <1>8, <1>9 DEF OnlyLastWaits, next

LEMMA LoadSharesIs ==
    ASSUME Requests, NEW k \in AnyKey, LoadShares(k)
    PROVE  /\ shareListed' \in Seq(ShareRequests) /\ OnlyLastWaits(shareListed)'
           /\ Len(shareListed') = Len(shareListed) + 1
           /\ Last(shareListed').at = "sent"
           /\ shareListed' # <<>>
           /\ \A i \in 1 .. Len(shareListed) :
                shareListed[i].at = "arrived" => shareListed'[i] = shareListed[i]
  <1> DEFINE new == [OverShares EXCEPT !.at = "sent", !.key = k]
  <1>1. OverShares \in ShareRequests /\ OverShares.at = "ended"
    BY DEF OverShares, ShareRequests, RequestLabels, Outcomes, AnyKey
  <1>2. new \in ShareRequests /\ new.at = "sent"
    BY DEF OverShares, ShareRequests, RequestLabels, Outcomes
  <1>3. shareListed' = Superseding(shareListed, OverShares, new)
    BY DEF LoadShares
  <1>4. shareListed \in Seq(ShareRequests)
    BY DEF Requests
  <1> HIDE DEF new
  <1> DEFINE next == Superseding(shareListed, OverShares, new)
  <1>5. next \in Seq(ShareRequests) /\ Len(next) = Len(shareListed) + 1
    BY <1>1, <1>2, <1>4, SupersedingIs
  <1>6. Last(next) = new
    BY <1>1, <1>2, <1>4, SupersedingIs
  <1>7. OnlyLastWaits(next)
    BY <1>1, <1>2, <1>4, SupersedingIs
  <1>8. \A i \in 1 .. Len(shareListed) :
          shareListed[i].at = "arrived" => next[i] = shareListed[i]
    BY <1>1, <1>2, <1>4, ArrivedStays
  <1>9. Len(shareListed) \in Nat
    BY <1>4
  <1>10. next # <<>>
    BY <1>5, <1>9
  <1> HIDE DEF next
  <1> QED
    BY <1>2, <1>3, <1>5, <1>6, <1>7, <1>8, <1>10 DEF OnlyLastWaits, next

-----------------------------------------------------------------------------
(* What a step does to the requests.                                       *)

\* The effect of a step on the two kinds of requests, of which it is about at
\* most one.
RequestStep ==
    \/ \E p \in Folders, cursor \in 0 .. LastPage :
         List(p, cursor) /\ UNCHANGED <<shareListed, loadingShares>>
    \/ \E i \in DOMAIN listed : ListArrives(i) \/ ListEnds(i)
    \/ \E k \in AnyKey : LoadShares(k) /\ UNCHANGED listVars
    \/ \E i \in DOMAIN shareListed : SharesArrive(i) \/ SharesEnd(i)
    \/ UNCHANGED <<listVars, shareListed, loadingShares>>

LEMMA RequestCases ==
    ASSUME BrowserAssumption, Requests, Places, Chosen, [Next]_vars
    PROVE  RequestStep
  <1>1. prefix \in Folders /\ Parent[prefix] \in Folders /\ 0 \in 0 .. LastPage
        /\ nextCursor \in 0 .. LastPage /\ pageCursor \in 0 .. LastPage
    BY DEF Places, BrowserAssumption
  <1>2. pageStack # <<>> => Last(pageStack) \in 0 .. LastPage
    BY DEF Places, Last
  <1>3. selected \in AnyKey /\ \A m \in Mutations : mutation[m].key \in AnyKey
    BY DEF Chosen, Slots
  <1> USE DEF listVars, shareVars
  <1>4. CASE \E p \in Folders : SetPrefix(p) \/ NavigateTo(p)
    BY <1>1, <1>4 DEF SetPrefix, NavigateTo, Others, RequestStep
  <1>5. CASE Refresh \/ GoUp \/ GoNext \/ GoBack
    BY <1>1, <1>2, <1>5 DEF Refresh, GoUp, NavigateTo, GoNext, GoBack, Others, RequestStep
  <1>6. CASE \E k \in Keys : Select(k)
    BY <1>6 DEF Select, RequestStep
  <1>7. CASE \E m \in Mutations, target \in Keys :
               \/ PerformMove(m, target) \/ PerformDelete(m)
               \/ PerformShareCreate(m) \/ PerformShareRevoke(m)
    BY <1>7 DEF PerformMove, PerformDelete, PerformShareCreate, PerformShareRevoke, Begin, RequestStep
  <1>8. CASE SelectionEffect
    BY <1>3, <1>8 DEF SelectionEffect, RequestStep
  <1>9. CASE \E m \in Mutations : Moved(m) \/ ShareCreated(m) \/ ShareRevoked(m)
    BY <1>1, <1>3, <1>9 DEF Moved, ShareCreated, ShareRevoked, RequestStep
  <1>10. CASE \E m \in Mutations : MutationFailed(m) \/ MutationEnds(m)
    BY <1>10 DEF MutationFailed, MutationEnds, RequestStep
  <1>11. CASE UNCHANGED vars
    BY <1>11 DEF vars, RequestStep
  <1>12. CASE \E m \in Mutations : PerformDelete(m) \/ PerformShareCreate(m) \/ PerformShareRevoke(m)
    BY <1>12 DEF PerformDelete, PerformShareCreate, PerformShareRevoke, Begin, RequestStep
  <1>13. CASE \E i \in DOMAIN listed : ListArrives(i) \/ ListEnds(i)
    BY <1>13 DEF RequestStep
  <1>14. CASE \E i \in DOMAIN shareListed : SharesArrive(i) \/ SharesEnd(i)
    BY <1>14 DEF RequestStep
  <1> QED
    BY <1>4, <1>5, <1>6, <1>7, <1>8, <1>9, <1>10, <1>11, <1>12, <1>13, <1>14
    DEF Next, User, Page

\* A listing that is answered or ends.
LEMMA ListMoves ==
    ASSUME BrowserAssumption, Requests, NEW i \in DOMAIN listed, ListArrives(i) \/ ListEnds(i)
    PROVE  /\ listed' \in Seq(PagedRequests) /\ OnlyLastWaits(listed)'
           /\ Len(listed') = Len(listed) /\ listed # <<>> /\ listed' # <<>>
           /\ i \in 1 .. Len(listed)
           /\ i # Len(listed) => Last(listed') = Last(listed)
           /\ i = Len(listed) =>
                /\ Last(listed').cursor = Last(listed).cursor
                /\ Last(listed').at = IF ListArrives(i) THEN "arrived" ELSE "ended"
                /\ ~ListArrives(i) => Last(listed').outcome = Last(listed).outcome
  <1>1. listed \in Seq(PagedRequests) /\ Len(listed) \in Nat /\ i \in 1 .. Len(listed)
        /\ OnlyLastWaits(listed)
    BY DEF Requests
  <1>2. listed[i] \in PagedRequests
    BY <1>1
  <1>3. \E r \in PagedRequests :
          /\ listed' = [listed EXCEPT ![i] = r]
          /\ r.cursor = listed[i].cursor
          /\ r.at = IF ListArrives(i) THEN "arrived" ELSE "ended"
          /\ ~ListArrives(i) => r.outcome = listed[i].outcome
    <2>1. CASE ListArrives(i)
      <3>1. PICK outcome \in Outcomes, objects \in Listings, more \in BOOLEAN :
              /\ more => listed[i].cursor < LastPage
              /\ listed' = [listed EXCEPT ![i] =
                   [@ EXCEPT !.at = "arrived", !.outcome = outcome, !.objects = objects, !.more = more]]
        BY <2>1 DEF ListArrives
      <3> DEFINE r == [listed[i] EXCEPT !.at = "arrived", !.outcome = outcome,
                                       !.objects = objects, !.more = more]
      <3>2. objects \in Seq(Keys) /\ listed[i] \in ListRequests
        BY <1>2 DEF BrowserAssumption, PagedRequests
      <3>3. r \in ListRequests
        BY <3>2 DEF ListRequests, RequestLabels
      <3>4. r.cursor = listed[i].cursor /\ r.at = "arrived" /\ r.more = more
        BY <3>2 DEF ListRequests
      <3>5. r \in PagedRequests
        BY <3>1, <3>3, <3>4 DEF PagedRequests
      <3>6. listed' = [listed EXCEPT ![i] = r]
        BY <3>1
      <3> QED
        BY <2>1, <3>4, <3>5, <3>6
    <2>2. CASE ~ListArrives(i)
      <3> DEFINE r == [listed[i] EXCEPT !.at = "ended"]
      <3>1. listed[i] \in ListRequests /\ (listed[i].more => listed[i].cursor < LastPage)
        BY <1>2 DEF PagedRequests
      <3>2. r \in ListRequests
        BY <3>1 DEF ListRequests, RequestLabels
      <3>3. /\ r.cursor = listed[i].cursor /\ r.at = "ended" /\ r.more = listed[i].more
            /\ r.outcome = listed[i].outcome
        BY <3>1 DEF ListRequests
      <3>4. r \in PagedRequests
        BY <3>1, <3>2, <3>3 DEF PagedRequests
      <3>5. listed' = [listed EXCEPT ![i] = r]
        BY <2>2 DEF ListEnds
      <3> QED
        BY <2>2, <3>3, <3>4, <3>5
    <2> QED
      BY <2>1, <2>2
  <1>4. PICK r \in PagedRequests :
          /\ listed' = [listed EXCEPT ![i] = r]
          /\ r.cursor = listed[i].cursor
          /\ r.at = IF ListArrives(i) THEN "arrived" ELSE "ended"
          /\ ~ListArrives(i) => r.outcome = listed[i].outcome
    BY <1>3
  <1>5. [listed EXCEPT ![i] = r] \in Seq(PagedRequests)
        /\ Len([listed EXCEPT ![i] = r]) = Len(listed)
    BY <1>1, MovedOn
  <1>6. OnlyLastWaits([listed EXCEPT ![i] = r])
    BY <1>1, <1>4, MovedOn
  <1>7. i = Len(listed) => Last([listed EXCEPT ![i] = r]) = r
    BY <1>1, <1>5 DEF Last
  <1>8. i # Len(listed) => Last([listed EXCEPT ![i] = r]) = Last(listed)
    BY <1>1, <1>5 DEF Last
  <1>9. listed # <<>> /\ [listed EXCEPT ![i] = r] # <<>>
    BY <1>1, <1>5
  <1>10. OnlyLastWaits(listed)'
    BY <1>4, <1>6 DEF OnlyLastWaits
  <1>11. i = Len(listed) => Last(listed) = listed[i]
    BY DEF Last
  <1> QED
    BY <1>1, <1>4, <1>5, <1>7, <1>8, <1>9, <1>10, <1>11

\* A share listing that is answered or ends.
LEMMA SharesMove ==
    ASSUME Requests, NEW i \in DOMAIN shareListed, SharesArrive(i) \/ SharesEnd(i)
    PROVE  /\ shareListed' \in Seq(ShareRequests) /\ OnlyLastWaits(shareListed)'
           /\ Len(shareListed') = Len(shareListed) /\ shareListed # <<>> /\ shareListed' # <<>>
           /\ i \in 1 .. Len(shareListed)
           /\ i # Len(shareListed) => Last(shareListed') = Last(shareListed)
           /\ i = Len(shareListed) =>
                Last(shareListed').at = IF SharesArrive(i) THEN "arrived" ELSE "ended"
           /\ shareListed[i].key \in AnyKey
  <1>1. shareListed \in Seq(ShareRequests) /\ Len(shareListed) \in Nat
        /\ i \in 1 .. Len(shareListed) /\ OnlyLastWaits(shareListed)
    BY DEF Requests
  <1>2. shareListed[i] \in ShareRequests
    BY <1>1
  <1>3. \E r \in ShareRequests :
          /\ shareListed' = [shareListed EXCEPT ![i] = r]
          /\ r.at = IF SharesArrive(i) THEN "arrived" ELSE "ended"
    <2>1. CASE SharesArrive(i)
      <3>1. PICK outcome \in Outcomes :
              shareListed' = [shareListed EXCEPT ![i] = [@ EXCEPT !.at = "arrived", !.outcome = outcome]]
        BY <2>1 DEF SharesArrive
      <3> DEFINE r == [shareListed[i] EXCEPT !.at = "arrived", !.outcome = outcome]
      <3>2. r \in ShareRequests /\ r.at = "arrived"
        BY <1>2 DEF ShareRequests, RequestLabels
      <3>3. shareListed' = [shareListed EXCEPT ![i] = r]
        BY <3>1
      <3> QED
        BY <2>1, <3>2, <3>3
    <2>2. CASE ~SharesArrive(i)
      <3> DEFINE r == [shareListed[i] EXCEPT !.at = "ended"]
      <3>1. r \in ShareRequests /\ r.at = "ended"
        BY <1>2 DEF ShareRequests, RequestLabels
      <3>2. shareListed' = [shareListed EXCEPT ![i] = r]
        BY <2>2 DEF SharesEnd
      <3> QED
        BY <2>2, <3>1, <3>2
    <2> QED
      BY <2>1, <2>2
  <1>4. PICK r \in ShareRequests :
          /\ shareListed' = [shareListed EXCEPT ![i] = r]
          /\ r.at = IF SharesArrive(i) THEN "arrived" ELSE "ended"
    BY <1>3
  <1>5. [shareListed EXCEPT ![i] = r] \in Seq(ShareRequests)
        /\ Len([shareListed EXCEPT ![i] = r]) = Len(shareListed)
    BY <1>1, MovedOn
  <1>6. OnlyLastWaits([shareListed EXCEPT ![i] = r])
    BY <1>1, <1>4, MovedOn
  <1>7. i = Len(shareListed) => Last([shareListed EXCEPT ![i] = r]) = r
    BY <1>1, <1>5 DEF Last
  <1>8. i # Len(shareListed) => Last([shareListed EXCEPT ![i] = r]) = Last(shareListed)
    BY <1>1, <1>5 DEF Last
  <1>9. shareListed # <<>> /\ [shareListed EXCEPT ![i] = r] # <<>>
    BY <1>1, <1>5
  <1>10. OnlyLastWaits(shareListed)'
    BY <1>4, <1>6 DEF OnlyLastWaits
  <1>11. shareListed[i].key \in AnyKey
    BY <1>2 DEF ShareRequests
  <1> QED
    BY <1>1, <1>4, <1>5, <1>7, <1>8, <1>9, <1>10, <1>11

LEMMA NextRequests ==
    ASSUME BrowserAssumption, Requests, RequestStep
    PROVE  Requests'
  <1>1. Len(listed) \in Nat /\ Len(shareListed) \in Nat /\ MaxRequests \in Nat
    BY DEF Requests, BrowserAssumption
  <1>2. ASSUME NEW p \in Folders, NEW cursor \in 0 .. LastPage, List(p, cursor),
               UNCHANGED <<shareListed, loadingShares>>
        PROVE  Requests'
    <2>1. Len(listed) + Len(shareListed) < MaxRequests
      BY <1>2 DEF List
    <2>2. listed' \in Seq(PagedRequests) /\ OnlyLastWaits(listed)' /\ Len(listed') = Len(listed) + 1
      BY <1>2, ListIs
    <2>3. Len(listed') + Len(shareListed') <= MaxRequests
      BY <1>1, <1>2, <2>1, <2>2
    <2> QED
      BY <1>2, <2>2, <2>3 DEF Requests, OnlyLastWaits
  <1>3. ASSUME NEW k \in AnyKey, LoadShares(k), UNCHANGED listVars
        PROVE  Requests'
    <2>1. Len(listed) + Len(shareListed) < MaxRequests
      BY <1>3 DEF LoadShares
    <2>2. shareListed' \in Seq(ShareRequests) /\ OnlyLastWaits(shareListed)'
          /\ Len(shareListed') = Len(shareListed) + 1
      BY <1>3, LoadSharesIs
    <2>3. listed' = listed
      BY <1>3 DEF listVars
    <2>4. Len(listed') + Len(shareListed') <= MaxRequests
      BY <1>1, <2>1, <2>2, <2>3
    <2> QED
      BY <2>2, <2>3, <2>4 DEF Requests, OnlyLastWaits
  <1>4. ASSUME NEW i \in DOMAIN listed, ListArrives(i) \/ ListEnds(i)
        PROVE  Requests'
    <2>1. shareListed' = shareListed
      BY <1>4 DEF ListArrives, ListEnds, shareVars
    <2>2. listed' \in Seq(PagedRequests) /\ OnlyLastWaits(listed)' /\ Len(listed') = Len(listed)
      BY <1>4, ListMoves
    <2> QED
      BY <2>1, <2>2 DEF Requests, OnlyLastWaits
  <1>5. ASSUME NEW i \in DOMAIN shareListed, SharesArrive(i) \/ SharesEnd(i)
        PROVE  Requests'
    <2>1. listed' = listed
      BY <1>5 DEF SharesArrive, SharesEnd, listVars
    <2>2. shareListed' \in Seq(ShareRequests) /\ OnlyLastWaits(shareListed)'
          /\ Len(shareListed') = Len(shareListed)
      BY <1>5, SharesMove
    <2> QED
      BY <2>1, <2>2 DEF Requests, OnlyLastWaits
  <1>6. CASE UNCHANGED <<listVars, shareListed, loadingShares>>
    BY <1>6 DEF listVars, Requests, OnlyLastWaits
  <1> QED
    BY <1>2, <1>3, <1>4, <1>5, <1>6 DEF RequestStep

-----------------------------------------------------------------------------
(* The view and the last request.                                          *)

View ==
    /\ ViewIsLatest
    /\ Settled => nextCursor = 0 \/ nextCursor = pageCursor + 1

LEMMA NextView ==
    ASSUME BrowserAssumption, Requests, Places, Flags, View, RequestStep
    PROVE  View'
  <1>1. ASSUME NEW p \in Folders, NEW cursor \in 0 .. LastPage, List(p, cursor),
               UNCHANGED <<shareListed, loadingShares>>
        PROVE  View'
    <2>1. Last(listed').at = "sent" /\ Last(listed').cursor = cursor /\ listed' # <<>>
      BY <1>1, ListIs
    <2>2. loadingList' = TRUE /\ pageCursor' = cursor
      BY <1>1 DEF List
    <2>3. Pending(listed)' /\ ~Settled'
      BY <2>1 DEF Pending, Settled
    <2>4. Pending(shareListed)' = Pending(shareListed)
      BY <1>1 DEF Pending
    <2> QED
      BY <1>1, <2>1, <2>2, <2>3, <2>4 DEF View, ViewIsLatest, Pending
  <1>2. ASSUME NEW k \in AnyKey, LoadShares(k), UNCHANGED listVars
        PROVE  View'
    <2>1. Last(shareListed').at = "sent" /\ shareListed' # <<>>
      BY <1>2, LoadSharesIs
    <2>2. loadingShares' = TRUE
      BY <1>2 DEF LoadShares
    <2>3. Pending(shareListed)'
      BY <2>1 DEF Pending
    <2> QED
      BY <1>2, <2>2, <2>3 DEF View, ViewIsLatest, Settled, Pending, listVars
  <1>3. ASSUME NEW i \in DOMAIN listed, ListArrives(i)
        PROVE  View'
    <2>1. UNCHANGED <<rows, nextCursor, pageCursor, loadingList, loadingShares, shareListed>>
      BY <1>3 DEF ListArrives, shareVars
    <2>2. listed[i].at = "sent" /\ i \in 1 .. Len(listed) /\ OnlyLastWaits(listed)
      BY <1>3, ListMoves DEF ListArrives, Requests
    <2>3. i = Len(listed)
      BY <2>2 DEF OnlyLastWaits
    <2>4. /\ listed # <<>> /\ listed' # <<>>
          /\ Last(listed').cursor = Last(listed).cursor /\ Last(listed').at = "arrived"
      BY <1>3, <2>3, ListMoves
    <2>5. Pending(listed) /\ Pending(listed)' /\ ~Settled'
      BY <2>2, <2>3, <2>4 DEF Pending, Settled, Last
    <2> QED
      BY <2>1, <2>4, <2>5 DEF View, ViewIsLatest, Pending
  <1>4. ASSUME NEW i \in DOMAIN listed, ListEnds(i), ~ListArrives(i)
        PROVE  View'
    <2>1. UNCHANGED <<pageCursor, loadingShares, shareListed>>
          /\ loadingList' = (loadingList /\ ~Latest(listed, i))
      BY <1>4 DEF ListEnds, shareVars
    <2>2. listed # <<>> /\ listed' # <<>> /\ Len(listed') = Len(listed)
      BY <1>4, ListMoves
    <2>3. CASE i # Len(listed)
      <3>1. Last(listed') = Last(listed) /\ UNCHANGED <<rows, nextCursor>> /\ loadingList' = loadingList
        BY <1>4, <2>1, <2>3, ListMoves DEF ListEnds, Latest, Flags
      <3> QED
        BY <2>1, <2>2, <3>1 DEF View, ViewIsLatest, Pending, Settled
    <2>4. CASE i = Len(listed)
      <3>1. /\ Last(listed').at = "ended" /\ Last(listed').cursor = Last(listed).cursor
            /\ Last(listed').outcome = Last(listed).outcome /\ Last(listed) = listed[i]
        BY <1>4, <2>4, ListMoves DEF Last
      <3>2. loadingList' = FALSE /\ ~Pending(listed)'
        BY <2>1, <2>4, <3>1 DEF Latest, Pending
      <3>3. CASE listed[i].outcome = "ok"
        <4>1. Show(i)
          BY <1>4, <2>4, <3>3 DEF ListEnds, Latest
        <4>2. rows'.by = i /\ (nextCursor' = 0 \/ nextCursor' = Last(listed).cursor + 1)
          BY <3>1, <4>1 DEF Show
        <4> QED
          BY <2>1, <2>2, <2>4, <3>1, <3>2, <4>2 DEF View, ViewIsLatest, Pending
      <3>4. CASE listed[i].outcome # "ok"
        <4>1. ~Settled'
          BY <3>1, <3>4 DEF Settled
        <4> QED
          BY <2>1, <2>2, <3>1, <3>2, <4>1 DEF View, ViewIsLatest, Pending
      <3> QED
        BY <3>3, <3>4
    <2> QED
      BY <2>3, <2>4
  <1>5. ASSUME NEW i \in DOMAIN shareListed, SharesArrive(i) \/ SharesEnd(i)
        PROVE  View'
    <2>1. UNCHANGED listVars
      BY <1>5 DEF SharesArrive, SharesEnd
    <2>2. loadingShares' = Pending(shareListed)'
      <3>1. CASE SharesArrive(i)
        <4>1. shareListed[i].at = "sent" /\ i \in 1 .. Len(shareListed) /\ OnlyLastWaits(shareListed)
              /\ loadingShares' = loadingShares
          BY <3>1, SharesMove DEF SharesArrive, Requests
        <4>2. i = Len(shareListed)
          BY <4>1 DEF OnlyLastWaits
        <4>3. Pending(shareListed) /\ Pending(shareListed)'
          BY <3>1, <4>1, <4>2, SharesMove DEF Pending, Last
        <4> QED
          BY <4>1, <4>3 DEF View, ViewIsLatest
      <3>2. CASE ~SharesArrive(i)
        <4>1. loadingShares' = (loadingShares /\ ~Latest(shareListed, i))
          BY <1>5, <3>2 DEF SharesEnd
        <4>2. CASE i = Len(shareListed)
          <5>1. ~Pending(shareListed)'
            BY <1>5, <3>2, <4>2, SharesMove DEF Pending
          <5> QED
            BY <4>1, <4>2, <5>1 DEF Latest, Pending
        <4>3. CASE i # Len(shareListed)
          <5>1. Pending(shareListed)' = Pending(shareListed)
            BY <1>5, <4>3, SharesMove DEF Pending
          <5> QED
            BY <4>1, <4>3, <5>1 DEF Latest, View, ViewIsLatest, Flags
        <4> QED
          BY <4>2, <4>3
      <3> QED
        BY <3>1, <3>2
    <2> QED
      BY <2>1, <2>2 DEF View, ViewIsLatest, Settled, Pending, listVars
  <1>6. CASE UNCHANGED <<listVars, shareListed, loadingShares>>
    BY <1>6 DEF View, ViewIsLatest, Settled, Pending, listVars
  <1> QED
    BY <1>1, <1>2, <1>3, <1>4, <1>5, <1>6 DEF RequestStep

-----------------------------------------------------------------------------
(* Where the page is.                                                      *)

\* The rows and the cursors.
LEMMA NextRows ==
    ASSUME BrowserAssumption, Requests, Places, RequestStep
    PROVE  /\ rows' \in [by : Nat, objects : Seq(Keys)] /\ rows'.by <= Len(listed')
           /\ nextCursor' \in 0 .. LastPage /\ pageCursor' \in 0 .. LastPage
  <1>1. Len(listed) \in Nat /\ LastPage \in Nat /\ rows.by \in Nat
    BY DEF Requests, BrowserAssumption, Places
  <1>2. ASSUME NEW p \in Folders, NEW cursor \in 0 .. LastPage, List(p, cursor)
        PROVE  /\ UNCHANGED <<rows, nextCursor>> /\ pageCursor' \in 0 .. LastPage
               /\ Len(listed') = Len(listed) + 1
    BY <1>2, ListIs DEF List
  <1>3. ASSUME NEW i \in DOMAIN listed, ListArrives(i) \/ ListEnds(i)
        PROVE  /\ rows' \in [by : Nat, objects : Seq(Keys)] /\ rows'.by <= Len(listed')
               /\ nextCursor' \in 0 .. LastPage /\ pageCursor' \in 0 .. LastPage
    <2>1. Len(listed') = Len(listed) /\ i \in 1 .. Len(listed) /\ pageCursor' = pageCursor
      BY <1>3, ListMoves DEF ListArrives, ListEnds
    <2>2. CASE UNCHANGED <<rows, nextCursor>>
      BY <2>1, <2>2 DEF Places
    <2>3. CASE Show(i)
      <3>1. listed[i] \in PagedRequests
        BY <2>1 DEF Requests
      <3>2. /\ listed[i].objects \in Seq(Keys) /\ listed[i].cursor \in 0 .. LastPage
            /\ listed[i].more => listed[i].cursor < LastPage
        BY <3>1 DEF PagedRequests, ListRequests
      <3>3. rows' = [by |-> i, objects |-> listed[i].objects]
            /\ nextCursor' = IF listed[i].more THEN listed[i].cursor + 1 ELSE 0
        BY <2>3 DEF Show
      <3>4. nextCursor' \in 0 .. LastPage
        BY <1>1, <3>2, <3>3
      <3>5. rows' \in [by : Nat, objects : Seq(Keys)] /\ rows'.by = i
        BY <2>1, <3>2, <3>3
      <3> QED
        BY <2>1, <3>4, <3>5 DEF Places
    <2> QED
      BY <1>3, <2>2, <2>3 DEF ListArrives, ListEnds, ListFailed
  <1>4. CASE UNCHANGED listVars
    BY <1>4 DEF listVars, Places
  <1>5. ASSUME NEW p \in Folders, NEW cursor \in 0 .. LastPage, List(p, cursor)
        PROVE  /\ rows' \in [by : Nat, objects : Seq(Keys)] /\ rows'.by <= Len(listed')
               /\ nextCursor' \in 0 .. LastPage /\ pageCursor' \in 0 .. LastPage
    BY <1>1, <1>2, <1>5 DEF Places
  <1>6. ASSUME NEW i \in DOMAIN shareListed, SharesArrive(i) \/ SharesEnd(i)
        PROVE  UNCHANGED listVars
    BY <1>6 DEF SharesArrive, SharesEnd
  <1> QED
    BY <1>3, <1>4, <1>5, <1>6 DEF RequestStep, listVars

\* What a step does to the pages that are remembered.
PageStep ==
    \/ UNCHANGED <<pageStack, detached, pageCursor>>
    \/ pageStack' = <<>> /\ detached' = FALSE /\ pageCursor' = 0
    \/ /\ nextCursor # 0 /\ pageStack' = Append(pageStack, pageCursor)
       /\ pageCursor' = nextCursor /\ (detached \/ ~Settled => detached') /\ detached' \in BOOLEAN
    \/ /\ pageStack # <<>> /\ pageStack' = Front(pageStack)
       /\ pageCursor' = Last(pageStack) /\ (detached => detached') /\ detached' \in BOOLEAN

LEMMA PageCases ==
    ASSUME Flags, [Next]_vars
    PROVE  PageStep
  <1> USE DEF pageVars, listVars, PageStep
  <1>1. CASE \E p \in Folders : SetPrefix(p) \/ NavigateTo(p)
    BY <1>1 DEF SetPrefix, NavigateTo, List
  <1>2. CASE Refresh \/ GoUp
    BY <1>2 DEF Refresh, GoUp, NavigateTo, List
  <1>3. CASE GoNext
    BY <1>3 DEF GoNext, List, Flags
  <1>4. CASE GoBack
    BY <1>4 DEF GoBack, List, Flags
  <1>5. CASE \E k \in Keys : Select(k)
    BY <1>5 DEF Select
  <1>6. CASE \E m \in Mutations :
               \/ \E target \in Keys : PerformMove(m, target)
               \/ PerformDelete(m) \/ PerformShareCreate(m) \/ PerformShareRevoke(m)
    BY <1>6 DEF PerformMove, PerformDelete, PerformShareCreate, PerformShareRevoke, Begin
  <1>7. CASE \E i \in DOMAIN listed : ListArrives(i) \/ ListEnds(i)
    BY <1>7 DEF ListArrives, ListEnds
  <1>8. CASE SelectionEffect \/ \E i \in DOMAIN shareListed : SharesArrive(i) \/ SharesEnd(i)
    BY <1>8 DEF SelectionEffect, SharesArrive, SharesEnd
  <1>9. CASE \E m \in Mutations : Moved(m)
    BY <1>9 DEF Moved, List
  <1>10. CASE \E m \in Mutations :
                ShareCreated(m) \/ ShareRevoked(m) \/ MutationFailed(m) \/ MutationEnds(m)
    BY <1>10 DEF ShareCreated, ShareRevoked, MutationFailed, MutationEnds
  <1>11. CASE UNCHANGED vars
    BY <1>11 DEF vars
  <1> QED
    BY <1>1, <1>2, <1>3, <1>4, <1>5, <1>6, <1>7, <1>8, <1>9, <1>10, <1>11 DEF Next, User, Page

LEMMA NextStack ==
    ASSUME Places, PageStep
    PROVE  pageStack' \in Seq(0 .. LastPage)
  <1>1. pageStack \in Seq(0 .. LastPage) /\ pageCursor \in 0 .. LastPage
    BY DEF Places
  <1>2. CASE pageStack # <<>> /\ pageStack' = Front(pageStack)
    <2>1. Len(pageStack) \in Nat
      BY <1>1
    <2>2. \A i \in 1 .. Len(pageStack) : pageStack[i] \in 0 .. LastPage
      BY <1>1, ElementOfSeq
    <2>3. \A i \in 1 .. Len(pageStack) - 1 : pageStack[i] \in 0 .. LastPage
      BY <2>1, <2>2
    <2>4. 1 \in Int /\ Len(pageStack) - 1 \in Int
      BY <2>1
    <2>5. SubSeq(pageStack, 1, Len(pageStack) - 1) \in Seq(0 .. LastPage)
      BY <2>3, <2>4, SubSeqProperties
    <2> QED
      BY <1>2, <2>5 DEF Front
  <1>3. CASE pageStack' = Append(pageStack, pageCursor)
    BY <1>1, <1>3
  <1>4. CASE pageStack' = pageStack \/ pageStack' = <<>>
    <2>1. <<>> \in Seq(0 .. LastPage)
      BY EmptySeq
    <2>2. CASE pageStack' = pageStack
      BY <1>1, <2>2
    <2>3. CASE pageStack' = <<>>
      BY <2>1, <2>3, Zenon
    <2> QED
      BY <1>4, <2>2, <2>3
  <1>5. \/ pageStack' = pageStack \/ pageStack' = <<>> \/ pageStack' = Append(pageStack, pageCursor)
        \/ pageStack # <<>> /\ pageStack' = Front(pageStack)
    BY DEF PageStep
  <1> QED
    BY <1>2, <1>3, <1>4, <1>5

\* BackIsPrevious is inductive as it stands, with what View says of the next page.
LEMMA NextPages ==
    ASSUME BrowserAssumption, Places, Flags, View, BackIsPrevious, PageStep
    PROVE  BackIsPrevious'
  <1> SUFFICES ASSUME ~detached'
               PROVE  pageStack' = [i \in 1 .. pageCursor' |-> i - 1]
    BY DEF BackIsPrevious
  <1>1. pageCursor \in Nat /\ nextCursor \in Nat /\ pageStack \in Seq(0 .. LastPage)
    BY DEF Places, BrowserAssumption
  <1>2. CASE UNCHANGED <<pageStack, detached, pageCursor>>
    BY <1>2 DEF BackIsPrevious
  <1>3. CASE pageStack' = <<>> /\ pageCursor' = 0
    <2>1. [i \in 1 .. 0 |-> i - 1] = <<>>
      OBVIOUS
    <2> QED
      BY <1>3, <2>1
  <1>4. CASE nextCursor # 0 /\ pageStack' = Append(pageStack, pageCursor)
             /\ pageCursor' = nextCursor /\ (detached \/ ~Settled => detached')
    <2>1. ~detached /\ nextCursor = pageCursor + 1 /\ pageStack = [i \in 1 .. pageCursor |-> i - 1]
      BY <1>4 DEF BackIsPrevious, View
    <2>2. Len(pageStack) = pageCursor
      BY <1>1, <2>1
    <2>3. /\ pageStack' \in Seq(Nat) /\ Len(pageStack') = pageCursor + 1
          /\ \A i \in 1 .. pageCursor + 1 : pageStack'[i] = i - 1
      BY <1>1, <1>4, <2>1, <2>2 DEF BrowserAssumption
    <2> QED
      BY <1>1, <1>4, <2>1, <2>3
  <1>5. CASE pageStack # <<>> /\ pageStack' = Front(pageStack)
             /\ pageCursor' = Last(pageStack) /\ (detached => detached')
    <2>1. ~detached /\ pageStack = [i \in 1 .. pageCursor |-> i - 1]
      BY <1>5 DEF BackIsPrevious
    <2>2. Len(pageStack) = pageCursor /\ pageCursor # 0
      BY <1>1, <1>5, <2>1
    <2>3. Last(pageStack) = pageCursor - 1
      BY <1>1, <2>1, <2>2 DEF Last
    <2>4. /\ Front(pageStack) \in Seq(Nat) /\ Len(Front(pageStack)) = pageCursor - 1
          /\ \A i \in 1 .. pageCursor - 1 : Front(pageStack)[i] = i - 1
      BY <1>1, <2>1, <2>2 DEF Front, BrowserAssumption
    <2> QED
      BY <1>1, <1>5, <2>3, <2>4
  <1> QED
    BY <1>2, <1>3, <1>4, <1>5 DEF PageStep

-----------------------------------------------------------------------------
(* The rest of the types.                                                  *)

LEMMA NextPrefix ==
    ASSUME BrowserAssumption, Places, [Next]_vars
    PROVE  prefix' \in Folders
  <1>1. prefix \in Folders /\ Parent[prefix] \in Folders
    BY DEF Places, BrowserAssumption
  <1> USE DEF vars
  <1>2. CASE User
    BY <1>1, <1>2 DEF User, SetPrefix, NavigateTo, Refresh, GoUp, GoNext, GoBack, Select, Begin,
           PerformMove, PerformDelete, PerformShareCreate, PerformShareRevoke
  <1>3. CASE Page
    BY <1>1, <1>3 DEF Page, ListArrives, ListEnds, SelectionEffect, SharesArrive, SharesEnd,
           Moved, ShareCreated, ShareRevoked, MutationFailed, MutationEnds
  <1> QED
    BY <1>1, <1>2, <1>3 DEF Next

LEMMA NextFlags ==
    ASSUME Flags, [Next]_vars
    PROVE  Flags'
  <1> USE DEF Flags, vars, listVars, pageVars, shareVars, mutationVars
  <1>1. CASE \E p \in Folders : SetPrefix(p) \/ NavigateTo(p)
    BY <1>1 DEF SetPrefix, NavigateTo, List, Others
  <1>2. CASE Refresh \/ GoUp \/ GoNext \/ GoBack
    BY <1>2 DEF Refresh, GoUp, NavigateTo, GoNext, GoBack, List, Others
  <1>3. CASE \E k \in Keys : Select(k)
    BY <1>3 DEF Select
  <1>4. CASE \E m \in Mutations :
               \/ \E target \in Keys : PerformMove(m, target)
               \/ PerformDelete(m) \/ PerformShareCreate(m) \/ PerformShareRevoke(m)
    BY <1>4 DEF PerformMove, PerformDelete, PerformShareCreate, PerformShareRevoke, Begin
  <1>5. CASE \E i \in DOMAIN listed : ListArrives(i)
    BY <1>5 DEF ListArrives
  <1>6. CASE \E i \in DOMAIN listed : ListEnds(i)
    BY <1>6 DEF ListEnds, Show, ListFailed
  <1>7. CASE SelectionEffect
    BY <1>7 DEF SelectionEffect, LoadShares
  <1>8. CASE \E i \in DOMAIN shareListed : SharesArrive(i) \/ SharesEnd(i)
    BY <1>8 DEF SharesArrive, SharesEnd
  <1>9. CASE \E m \in Mutations : Moved(m) \/ ShareCreated(m) \/ ShareRevoked(m)
    BY <1>9 DEF Moved, ShareCreated, ShareRevoked, List, LoadShares, Finally
  <1>10. CASE \E m \in Mutations : MutationFailed(m) \/ MutationEnds(m)
    BY <1>10 DEF MutationFailed, MutationEnds, Finally
  <1>11. CASE UNCHANGED vars
    BY <1>11
  <1> QED
    BY <1>1, <1>2, <1>3, <1>4, <1>5, <1>6, <1>7, <1>8, <1>9, <1>10, <1>11 DEF Next, User, Page

LEMMA NextKeys ==
    ASSUME BrowserAssumption, Requests, Places, Chosen, [Next]_vars
    PROVE  /\ selected' \in AnyKey /\ effectOf' \in AnyKey /\ shares' \in AnyKey
           /\ shareCreateResult' \in AnyKey
  <1>1. /\ selected \in AnyKey /\ effectOf \in AnyKey /\ shares \in AnyKey
        /\ shareCreateResult \in AnyKey /\ NoKey \in AnyKey
        /\ \A m \in Mutations : mutation[m].key \in AnyKey
        /\ \A m \in Mutations : mutation[m].kind = "move" => mutation[m].target \in AnyKey
    BY DEF Chosen, AnyKey, Slots
  <1> USE DEF vars, shareVars, Others
  <1>2. CASE \E k \in Keys : Select(k)
    BY <1>1, <1>2 DEF Select, AnyKey
  <1>3. CASE \/ \E p \in Folders : SetPrefix(p) \/ NavigateTo(p)
             \/ Refresh \/ GoUp \/ GoNext \/ GoBack
    BY <1>1, <1>3 DEF SetPrefix, Refresh, GoUp, NavigateTo, GoNext, GoBack
  <1>4. CASE \E m \in Mutations :
               \/ \E target \in Keys : PerformMove(m, target)
               \/ PerformDelete(m) \/ PerformShareCreate(m) \/ PerformShareRevoke(m)
    BY <1>1, <1>4 DEF PerformMove, PerformDelete, PerformShareCreate, PerformShareRevoke, Begin
  <1>5. CASE \E i \in DOMAIN listed : ListArrives(i)
    BY <1>1, <1>5 DEF ListArrives
  <1>6. CASE \E i \in DOMAIN listed : ListEnds(i)
    <2>1. PICK i \in DOMAIN listed : ListEnds(i)
      BY <1>6
    <2>2. listed[i] \in PagedRequests
      BY <2>1 DEF Requests
    <2>3. listed[i].objects \in Seq(Keys)
      BY <2>2 DEF PagedRequests, ListRequests
    <2>4. Show(i) => selected' \in AnyKey
      <3>1. listed[i].objects # <<>> => Head(listed[i].objects) \in Keys
        BY <2>3
      <3> QED
        BY <1>1, <3>1 DEF Show, AnyKey
    <2> QED
      BY <1>1, <2>1, <2>4 DEF ListEnds, ListFailed
  <1>7. CASE SelectionEffect
    BY <1>1, <1>7 DEF SelectionEffect, LoadShares
  <1>8. CASE \E i \in DOMAIN shareListed : SharesArrive(i) \/ SharesEnd(i)
    BY <1>1, <1>8, SharesMove DEF SharesArrive, SharesEnd
  <1>9. CASE \E m \in Mutations : Moved(m) \/ ShareCreated(m) \/ ShareRevoked(m)
    BY <1>1, <1>9 DEF Moved, ShareCreated, ShareRevoked, LoadShares
  <1>10. CASE \E m \in Mutations : MutationFailed(m) \/ MutationEnds(m)
    BY <1>1, <1>10 DEF MutationFailed, MutationEnds
  <1>11. CASE UNCHANGED vars
    BY <1>1, <1>11
  <1> QED
    BY <1>2, <1>3, <1>4, <1>5, <1>6, <1>7, <1>8, <1>9, <1>10, <1>11 DEF Next, User, Page

LEMMA NextMutation ==
    ASSUME BrowserAssumption, Requests, Places, Chosen, [Next]_vars
    PROVE  /\ mutation' \in [Mutations -> Slots]
           /\ \A m \in Mutations : mutation'[m].kind = "move" => mutation'[m].target \in Keys
  <1>1. /\ mutation \in [Mutations -> Slots] /\ selected \in AnyKey
        /\ \A m \in Mutations : mutation[m].kind = "move" => mutation[m].target \in Keys
        /\ Len(listed) + 1 \in Nat /\ Len(shareListed) + 1 \in Nat
    BY DEF Chosen, Requests
  <1>2. ASSUME NEW m \in Mutations, NEW r \in Slots, r.kind = "move" => r.target \in Keys,
               mutation' = [mutation EXCEPT ![m] = r]
        PROVE  /\ mutation' \in [Mutations -> Slots]
               /\ \A k \in Mutations : mutation'[k].kind = "move" => mutation'[k].target \in Keys
    BY <1>1, <1>2
  <1> USE DEF vars, mutationVars, Others
  <1>3. ASSUME NEW m \in Mutations, NEW kind \in {"move", "delete", "create", "revoke"},
               NEW target \in AnyKey, kind = "move" => target \in Keys, Begin(m, kind, target)
        PROVE  /\ mutation' \in [Mutations -> Slots]
               /\ \A k \in Mutations : mutation'[k].kind = "move" => mutation'[k].target \in Keys
    <2> DEFINE r == [at |-> "sent", kind |-> kind, key |-> selected, target |-> target, request |-> 0]
    <2>1. r \in Slots /\ r.kind = kind /\ r.target = target
      BY <1>1 DEF Slots
    <2>2. mutation' = [mutation EXCEPT ![m] = r]
      BY <1>3 DEF Begin
    <2> QED
      BY <1>2, <1>3, <2>1, <2>2
  <1>4. ASSUME NEW m \in Mutations, Finally(m)
        PROVE  /\ mutation' \in [Mutations -> Slots]
               /\ \A k \in Mutations : mutation'[k].kind = "move" => mutation'[k].target \in Keys
    <2>1. Idle \in Slots /\ Idle.kind = ""
      BY DEF Idle, Slots, AnyKey
    <2> QED
      BY <1>2, <1>4, <2>1 DEF Finally
  <1>5. ASSUME NEW m \in Mutations, NEW what \in {"list", "shares"}, NEW requests,
               Len(requests) + 1 \in Nat, Awaiting(m, what, requests)
        PROVE  /\ mutation' \in [Mutations -> Slots]
               /\ \A k \in Mutations : mutation'[k].kind = "move" => mutation'[k].target \in Keys
    <2> DEFINE r == [[mutation[m] EXCEPT !.at = what] EXCEPT !.request = Len(requests) + 1]
    <2>1. mutation[m] \in Slots
      BY <1>1
    <2>2. r \in Slots /\ r.kind = mutation[m].kind /\ r.target = mutation[m].target
      BY <1>5, <2>1 DEF Slots
    <2>3. mutation' = [mutation EXCEPT ![m] = r]
      BY <1>1, <1>5 DEF Awaiting
    <2> HIDE DEF r
    <2> QED
      BY <1>1, <1>2, <2>2, <2>3
  <1>6. CASE \E m \in Mutations :
               \/ \E target \in Keys : PerformMove(m, target)
               \/ PerformDelete(m) \/ PerformShareCreate(m) \/ PerformShareRevoke(m)
    BY <1>3, <1>6 DEF PerformMove, PerformDelete, PerformShareCreate, PerformShareRevoke, AnyKey
  <1>7. CASE \E m \in Mutations : Moved(m) \/ ShareCreated(m) \/ ShareRevoked(m)
    BY <1>1, <1>4, <1>5, <1>7 DEF Moved, ShareCreated, ShareRevoked
  <1>8. CASE \E m \in Mutations : MutationFailed(m) \/ MutationEnds(m)
    BY <1>4, <1>8 DEF MutationFailed, MutationEnds
  <1>9. CASE UNCHANGED mutation
    BY <1>1, <1>9
  <1>10. CASE \/ \E p \in Folders : SetPrefix(p) \/ NavigateTo(p)
              \/ Refresh \/ GoUp \/ GoNext \/ GoBack \/ \E k \in Keys : Select(k)
    BY <1>9, <1>10 DEF SetPrefix, Refresh, GoUp, NavigateTo, GoNext, GoBack, Select
  <1>11. CASE \/ \E i \in DOMAIN listed : ListArrives(i) \/ ListEnds(i)
              \/ SelectionEffect
              \/ \E i \in DOMAIN shareListed : SharesArrive(i) \/ SharesEnd(i)
              \/ UNCHANGED vars
    BY <1>9, <1>11 DEF ListArrives, ListEnds, SelectionEffect, SharesArrive, SharesEnd
  <1> QED
    BY <1>6, <1>7, <1>8, <1>10, <1>11 DEF Next, User, Page

-----------------------------------------------------------------------------
(* The theorems.                                                           *)

Typed == Requests /\ Places /\ Flags /\ Chosen

LEMMA InitTyped ==
    ASSUME BrowserAssumption, Init
    PROVE  Typed /\ View /\ BackIsPrevious
  <1>1. listed = <<>> /\ shareListed = <<>> /\ 0 \in 0 .. LastPage /\ <<>> \in Seq(Keys)
        /\ MaxRequests \in Nat /\ Root \in Folders
    BY DEF Init, BrowserAssumption
  <1>2. Requests
    <2>1. Len(listed) = 0 /\ Len(shareListed) = 0
          /\ listed \in Seq(PagedRequests) /\ shareListed \in Seq(ShareRequests)
      BY <1>1
    <2>2. 0 <= MaxRequests
      BY <1>1
    <2> QED
      BY <2>1, <2>2 DEF Requests, OnlyLastWaits
  <1>3. Places
    <2>1. rows = [by |-> 0, objects |-> <<>>] /\ Len(listed) = 0
      BY <1>1 DEF Init
    <2>2. rows \in [by : Nat, objects : Seq(Keys)] /\ rows.by <= Len(listed)
      BY <1>1, <2>1
    <2>3. pageStack \in Seq(0 .. LastPage)
      BY DEF Init
    <2> QED
      BY <1>1, <2>2, <2>3 DEF Init, Places
  <1>4. Flags
    BY DEF Init, Flags
  <1>5. Chosen
    <2>1. Idle \in Slots /\ Idle.kind = ""
      BY DEF Idle, Slots, AnyKey
    <2> QED
      BY <2>1 DEF Init, Chosen, AnyKey
  <1>6. View
    BY <1>1 DEF Init, View, ViewIsLatest, Pending, Settled
  <1>7. BackIsPrevious
    <2>1. [i \in 1 .. 0 |-> i - 1] = <<>>
      OBVIOUS
    <2> QED
      BY <2>1 DEF Init, BackIsPrevious
  <1> QED
    BY <1>2, <1>3, <1>4, <1>5, <1>6, <1>7 DEF Typed

LEMMA NextTyped ==
    ASSUME BrowserAssumption, Typed, View, BackIsPrevious, [Next]_vars
    PROVE  (Typed /\ View /\ BackIsPrevious)'
  <1>1. RequestStep /\ PageStep
    BY RequestCases, PageCases DEF Typed
  <1>2. Requests'
    BY <1>1, NextRequests DEF Typed
  <1>3. Places'
    BY <1>1, NextRows, NextStack, NextPrefix DEF Typed, Places
  <1>4. Flags'
    BY NextFlags DEF Typed
  <1>5. Chosen'
    BY NextKeys, NextMutation DEF Typed, Chosen
  <1>6. View'
    BY <1>1, NextView DEF Typed
  <1>7. BackIsPrevious'
    BY <1>1, NextPages DEF Typed
  <1> QED
    BY <1>2, <1>3, <1>4, <1>5, <1>6, <1>7 DEF Typed

\* The types, the one request of a kind that is under way, what it means for
\* the flags and the rows, and the pages behind the one that is shown.
THEOREM BrowserInvariant == Spec => [](Typed /\ View /\ BackIsPrevious)
  <1>1. Init => Typed /\ View /\ BackIsPrevious
    BY InitTyped, BrowserAssumption
  <1>2. Typed /\ View /\ BackIsPrevious /\ [Next]_vars => (Typed /\ View /\ BackIsPrevious)'
    BY NextTyped, BrowserAssumption
  <1> QED
    BY <1>1, <1>2, PTL DEF Spec

\* The variables keep their types.
THEOREM TypeCorrect == Spec => []TypeOK
  <1>1. Typed => TypeOK
    <2> SUFFICES ASSUME Typed
                 PROVE  TypeOK
      OBVIOUS
    <2>1. Len(listed) \in Nat /\ DOMAIN listed = 1 .. Len(listed)
          /\ DOMAIN shareListed = 1 .. Len(shareListed)
      BY DEF Typed, Requests
    <2>2. \A i \in DOMAIN listed : listed[i] \in ListRequests
      BY DEF Typed, Requests, PagedRequests
    <2>3. \A i \in DOMAIN shareListed : shareListed[i] \in ShareRequests
      BY DEF Typed, Requests
    <2>4. rows \in [by : 0 .. Len(listed), objects : Seq(Keys)]
      <3>1. rows \in [by : Nat, objects : Seq(Keys)] /\ rows.by <= Len(listed)
        BY DEF Typed, Places
      <3> QED
        BY <2>1, <3>1
    <2>5. \A m \in Mutations : mutation[m].at \in {"idle", "sent", "list", "shares"}
      BY DEF Typed, Chosen, Slots
    <2>6. {selected, effectOf, shares, shareCreateResult} \subseteq Keys \union {NoKey}
      BY DEF Typed, Chosen, AnyKey
    <2>7. {loadingList, listError, loadingShares, sharesError, authRequired, mutating, detached}
            \subseteq BOOLEAN
      BY DEF Typed, Flags
    <2> QED
      BY <2>2, <2>3, <2>4, <2>5, <2>6, <2>7
      DEF TypeOK, Typed, Places, Requests, ListRequests, ShareRequests, AnyKey
  <1> QED
    BY <1>1, BrowserInvariant, PTL

\* Whatever order the answers come in, the flags say whether the last request
\* is under way and the rows are its answer (useObjectBrowser.ts:130-182).
THEOREM ViewHolds == Spec => []ViewIsLatest
  <1>1. View => ViewIsLatest
    BY DEF View
  <1> QED
    BY <1>1, BrowserInvariant, PTL

\* As long as the user goes on only from the page shown, within one prefix, Back
\* leads to the page before, in any number of pages and from pages that fail or are
\* still loading too (useObjectBrowser.ts:202-218).
THEOREM BackHolds == Spec => []BackIsPrevious
  BY BrowserInvariant, PTL

\* The continuation of a superseded request changes nothing that is shown
\* (useObjectBrowser.ts:141-182, :248-276).
THEOREM StaleHolds == Spec => StaleIsSilent
  <1>1. Typed /\ [Next]_vars =>
          [/\ \A i \in DOMAIN listed :
                i < Len(listed) /\ listed[i].at # "ended" /\ listed'[i].at = "ended" =>
                    UNCHANGED <<rows, nextCursor, selected, loadingList, listError, authRequired>>
           /\ \A i \in DOMAIN shareListed :
                i < Len(shareListed) /\ shareListed[i].at # "ended" /\ shareListed'[i].at = "ended" =>
                    UNCHANGED <<shares, loadingShares, sharesError, authRequired>>]_vars
    <2> SUFFICES ASSUME Typed, [Next]_vars
                 PROVE  /\ \A i \in DOMAIN listed :
                             i < Len(listed) /\ listed[i].at # "ended" /\ listed'[i].at = "ended" =>
                                 UNCHANGED <<rows, nextCursor, selected, loadingList, listError, authRequired>>
                        /\ \A i \in DOMAIN shareListed :
                             i < Len(shareListed) /\ shareListed[i].at # "ended" /\ shareListed'[i].at = "ended" =>
                                 UNCHANGED <<shares, loadingShares, sharesError, authRequired>>
      OBVIOUS
    <2>1. ASSUME NEW i \in DOMAIN listed, i < Len(listed), listed[i].at # "ended",
                 listed'[i].at = "ended"
          PROVE  UNCHANGED <<rows, nextCursor, selected, loadingList, listError, authRequired>>
      <3>1. listed[i].at = "arrived" /\ i \in 1 .. Len(listed)
        <4>1. listed[i] \in PagedRequests /\ i \in 1 .. Len(listed) /\ OnlyLastWaits(listed)
          BY DEF Typed, Requests
        <4>2. listed[i].at # "sent"
          BY <2>1, <4>1 DEF OnlyLastWaits
        <4> QED
          BY <2>1, <4>1, <4>2 DEF PagedRequests, ListRequests, RequestLabels
      <3>2. CASE ListEnds(i)
        BY <2>1, <3>2 DEF ListEnds, Latest, Typed, Flags
      <3>3. CASE ~ListEnds(i)
        <4>1. listed'[i] = listed[i]
          <5>1. CASE \E p \in Folders, cursor \in 0 .. LastPage : List(p, cursor)
            BY <3>1, <5>1, ListIs, BrowserAssumption DEF Typed
          <5>2. CASE \E j \in DOMAIN listed : ListArrives(j) \/ ListEnds(j)
            <6>1. PICK j \in DOMAIN listed : ListArrives(j) \/ ListEnds(j)
              BY <5>2
            <6>2. j # i
              BY <3>1, <3>3, <6>1 DEF ListArrives
            <6> QED
              BY <6>1, <6>2 DEF ListArrives, ListEnds
          <5>3. CASE UNCHANGED listed
            BY <5>3
          <5> QED
            BY <5>1, <5>2, <5>3, RequestCases, BrowserAssumption
            DEF Typed, RequestStep, SharesArrive, SharesEnd, listVars
        <4> QED
          BY <2>1, <4>1
      <3> QED
        BY <3>2, <3>3
    <2>2. ASSUME NEW i \in DOMAIN shareListed, i < Len(shareListed), shareListed[i].at # "ended",
                 shareListed'[i].at = "ended"
          PROVE  UNCHANGED <<shares, loadingShares, sharesError, authRequired>>
      <3>1. shareListed[i].at = "arrived" /\ i \in 1 .. Len(shareListed)
        <4>1. shareListed[i] \in ShareRequests /\ i \in 1 .. Len(shareListed)
              /\ OnlyLastWaits(shareListed)
          BY DEF Typed, Requests
        <4>2. shareListed[i].at # "sent"
          BY <2>2, <4>1 DEF OnlyLastWaits
        <4> QED
          BY <2>2, <4>1, <4>2 DEF ShareRequests, RequestLabels
      <3>2. CASE SharesEnd(i)
        BY <2>2, <3>2 DEF SharesEnd, Latest, Typed, Flags
      <3>3. CASE ~SharesEnd(i)
        <4>1. shareListed'[i] = shareListed[i]
          <5>1. CASE \E k \in AnyKey : LoadShares(k)
            BY <3>1, <5>1, LoadSharesIs DEF Typed
          <5>2. CASE \E j \in DOMAIN shareListed : SharesArrive(j) \/ SharesEnd(j)
            <6>1. PICK j \in DOMAIN shareListed : SharesArrive(j) \/ SharesEnd(j)
              BY <5>2
            <6>2. j # i
              BY <3>1, <3>3, <6>1 DEF SharesArrive
            <6> QED
              BY <6>1, <6>2 DEF SharesArrive, SharesEnd
          <5>3. CASE UNCHANGED shareListed
            BY <5>3
          <5> QED
            BY <5>1, <5>2, <5>3, RequestCases, BrowserAssumption
            DEF Typed, RequestStep, ListArrives, ListEnds, shareVars
        <4> QED
          BY <2>2, <4>1
      <3> QED
        BY <3>2, <3>3
    <2> QED
      BY <2>1, <2>2
  <1> QED
    BY <1>1, BrowserInvariant, PTL DEF Spec, StaleIsSilent
=============================================================================
