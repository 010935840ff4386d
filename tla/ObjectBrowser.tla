--------------------------- MODULE ObjectBrowser ---------------------------
(***************************************************************************)
(* The object browser of the web console: listing with pages, selection,   *)
(* the share panel of the selected object, and the mutations that go on    *)
(* after the view has changed.                                             *)
(*                                                                         *)
(* Grain of atomicity.  The page is one thread: what runs between two      *)
(* awaits is one step.  A superseded request is aborted, and what follows  *)
(* an abort runs before any other event.  Its answer may have arrived      *)
(* before, though: its continuation then runs later.  What the Worker      *)
(* answers is arbitrary: the bucket changes as others use it.  The effect  *)
(* on a changed selection runs after the render, as a step of its own.     *)
(*                                                                         *)
(* A cursor is the number of a page; 0 stands for none.                    *)
(***************************************************************************)
EXTENDS Naturals, Sequences, SequencesExt

CONSTANTS
    Folders,       \* prefixes a user may open
    Root,           \* the empty prefix
    Parent,         \* parentPrefix
    Keys,           \* object keys
    NoKey,          \* null, no selection
    Listings,       \* the keys a listing may answer with, in their order
    LastPage,       \* bound on the pages of a prefix
    Mutations,      \* slots for mutations under way
    MaxRequests     \* bound on requests of lists and of shares together

ASSUME BrowserAssumption ==
    /\ Root \in Folders
    /\ Parent \in [Folders -> Folders]
    /\ NoKey \notin Keys
    /\ Listings \subseteq Seq(Keys)
    /\ LastPage \in Nat /\ MaxRequests \in Nat

VARIABLES
    prefix,             \* prefix, prefixRef
    rows,               \* what is shown: which request's answer, and its objects
    nextCursor,         \* nextCursor, 0 when listComplete
    pageStack,
    pageCursor,         \* pageCursorRef
    loadingList,
    listError,
    listed,             \* the list requests made, the last one's number is listSeqRef
    selected,           \* selectedKey, selectedKeyRef
    effectOf,           \* the selection the effect has last run for
    shares,             \* the key whose shares are shown, NoKey for none
    shareCreateResult,  \* the key a created share is shown for
    loadingShares,
    sharesError,
    shareListed,        \* the share list requests made
    authRequired,
    mutating,
    mutation,           \* the mutations under way
    detached            \* history: the user paged on from what is not the page shown

listVars == <<rows, nextCursor, pageCursor, loadingList, listError, listed>>
pageVars == <<pageStack, detached>>
shareVars == <<shares, shareCreateResult, loadingShares, sharesError, shareListed>>
mutationVars == <<mutating, mutation>>
vars == <<prefix, listVars, pageVars, selected, effectOf, shareVars, authRequired, mutationVars>>

Idle == [at |-> "idle", kind |-> "", key |-> NoKey, target |-> NoKey, request |-> 0]

-----------------------------------------------------------------------------
(* Requests.  All but the last are superseded.                             *)

\* A request that has ended is of no further interest when another is made.
OverList == [at |-> "ended", prefix |-> Root, cursor |-> 0,
             outcome |-> "", objects |-> <<>>, more |-> FALSE]
OverShares == [at |-> "ended", key |-> NoKey, outcome |-> ""]

\* A new request aborts the one before it, which ends silently, unless its
\* answer has arrived.
Superseding(requests, over, new) ==
    Append([i \in DOMAIN requests |-> IF requests[i].at = "arrived" THEN requests[i] ELSE over], new)

Latest(requests, i) == i = Len(requests)

\* What arrives: an answer, 401, or a failure after the retries.
Outcomes == {"ok", "auth", "failed"}

Sent(requests) == requests # <<>> /\ Last(requests).at = "sent"

\* Mutant: an aborted listing clears the flag of the one that aborts it.
ListUnguarded(p, cursor) ==
    /\ Len(listed) + Len(shareListed) < MaxRequests
    /\ listed' = Superseding(listed, OverList,
         [OverList EXCEPT !.at = "sent", !.prefix = p, !.cursor = cursor])
    /\ pageCursor' = cursor
    /\ loadingList' = ~Sent(listed)
    /\ listError' = FALSE
    /\ UNCHANGED <<rows, nextCursor>>

List(p, cursor) ==
    /\ Len(listed) + Len(shareListed) < MaxRequests
    /\ listed' = Superseding(listed, OverList,
         [OverList EXCEPT !.at = "sent", !.prefix = p, !.cursor = cursor])
    /\ pageCursor' = cursor
    /\ loadingList' = TRUE
    /\ listError' = FALSE
    /\ UNCHANGED <<rows, nextCursor>>

ListArrives(i) ==
    /\ listed[i].at = "sent"
    /\ \E outcome \in Outcomes, objects \in Listings, more \in BOOLEAN :
         /\ outcome # "ok" => objects = <<>> /\ ~more
         /\ more => listed[i].cursor < LastPage
         /\ listed' = [listed EXCEPT ![i] =
              [@ EXCEPT !.at = "arrived", !.outcome = outcome, !.objects = objects, !.more = more]]
    /\ UNCHANGED <<prefix, rows, nextCursor, pageCursor, loadingList, listError, pageVars,
                   selected, effectOf, shareVars, authRequired, mutationVars>>

\* Mutant: listComplete is not looked at.
ShowMoreAlways(i) ==
    LET r == listed[i]
    IN  /\ rows' = [by |-> i, objects |-> r.objects]
        /\ nextCursor' = r.cursor + 1
        /\ selected' = IF selected \in ToSet(r.objects) THEN selected
                       ELSE IF r.objects = <<>> THEN NoKey ELSE Head(r.objects)
        /\ authRequired' = FALSE
        /\ UNCHANGED listError

\* Of the answer of the last request: the rows, the next page, the selection.
Show(i) ==
    LET r == listed[i]
    IN  /\ rows' = [by |-> i, objects |-> r.objects]
        /\ nextCursor' = IF r.more THEN r.cursor + 1 ELSE 0
        /\ selected' = IF selected \in ToSet(r.objects) THEN selected
                       ELSE IF r.objects = <<>> THEN NoKey ELSE Head(r.objects)
        /\ authRequired' = FALSE
        /\ UNCHANGED listError

\* What a failed listing does.
ListFailed(outcome) ==
    /\ authRequired' = (authRequired \/ outcome = "auth")
    /\ listError' = (listError \/ outcome = "failed")
    /\ UNCHANGED <<rows, nextCursor, selected>>

\* Mutant: a 401 is looked at before the sequence number.
ListEndsAuthFirst(i) ==
    /\ listed[i].at = "arrived"
    /\ listed' = [listed EXCEPT ![i].at = "ended"]
    /\ loadingList' = (loadingList /\ ~Latest(listed, i))
    /\ \/ Latest(listed, i) /\ listed[i].outcome = "ok" /\ Show(i)
       \/ listed[i].outcome = "auth" /\ ListFailed("auth")
       \/ Latest(listed, i) /\ listed[i].outcome = "failed" /\ ListFailed("failed")
       \/ /\ ~Latest(listed, i)
          /\ listed[i].outcome # "auth"
          /\ UNCHANGED <<rows, nextCursor, selected, authRequired, listError>>
    /\ UNCHANGED <<prefix, pageCursor, pageVars, effectOf, shareVars, mutationVars>>

\* The continuation of a request whose answer has arrived.
ListEnds(i) ==
    /\ listed[i].at = "arrived"
    /\ listed' = [listed EXCEPT ![i].at = "ended"]
    /\ loadingList' = (loadingList /\ ~Latest(listed, i))
    /\ \/ Latest(listed, i) /\ listed[i].outcome = "ok" /\ Show(i)
       \/ Latest(listed, i) /\ listed[i].outcome # "ok" /\ ListFailed(listed[i].outcome)
       \/ ~Latest(listed, i) /\ UNCHANGED <<rows, nextCursor, selected, authRequired, listError>>
    /\ UNCHANGED <<prefix, pageCursor, pageVars, effectOf, shareVars, mutationVars>>

-----------------------------------------------------------------------------
(* Paging.                                                                 *)

Others == <<selected, effectOf, shareVars, authRequired, mutationVars>>

\* The page shown is the one asked for last: it is neither under way nor failed.
Settled == listed # <<>> /\ Last(listed).at = "ended" /\ Last(listed).outcome = "ok"

\* Every keystroke in the prefix field.
SetPrefix(p) ==
    /\ p # prefix
    /\ prefix' = p
    /\ UNCHANGED <<rows, nextCursor, pageCursor, loadingList, listError, listed, pageVars, Others>>

\* Also the first listing of a session, and what an upload does to the view of
\* the prefix it went to.
Refresh ==
    /\ pageStack' = <<>>
    /\ detached' = FALSE
    /\ List(prefix, 0)
    /\ UNCHANGED <<prefix, Others>>

NavigateTo(p) ==
    /\ prefix' = p
    /\ pageStack' = <<>>
    /\ detached' = FALSE
    /\ List(p, 0)
    /\ UNCHANGED Others

GoUp == NavigateTo(Parent[prefix])

\* Mutant: the page that is gone to is remembered.
GoNextPushesNext ==
    /\ nextCursor # 0
    /\ pageStack' = Append(pageStack, nextCursor)
    /\ detached' = (detached \/ ~Settled \/ Last(listed).prefix # prefix)
    /\ List(prefix, nextCursor)
    /\ UNCHANGED <<prefix, Others>>

\* What is pushed is the cursor asked for last, what is asked for is the one after
\* the page shown: they are one apart only while that page is shown.
GoNext ==
    /\ nextCursor # 0
    /\ pageStack' = Append(pageStack, pageCursor)
    /\ detached' = (detached \/ ~Settled \/ Last(listed).prefix # prefix)
    /\ List(prefix, nextCursor)
    /\ UNCHANGED <<prefix, Others>>

GoBack ==
    /\ pageStack # <<>>
    /\ pageStack' = Front(pageStack)
    /\ detached' = (detached \/ Last(listed).prefix # prefix)
    /\ List(prefix, Last(pageStack))
    /\ UNCHANGED <<prefix, Others>>

-----------------------------------------------------------------------------
(* Selection and the share panel.                                          *)

Objects == ToSet(rows.objects)

\* A click on a row, or the keys that move the selection.
Select(k) ==
    /\ k \in Objects
    /\ k # selected
    /\ selected' = k
    /\ UNCHANGED <<prefix, listVars, pageVars, effectOf, shareVars, authRequired, mutationVars>>

LoadShares(k) ==
    /\ Len(listed) + Len(shareListed) < MaxRequests
    /\ shareListed' = Superseding(shareListed, OverShares,
         [OverShares EXCEPT !.at = "sent", !.key = k])
    /\ loadingShares' = TRUE
    /\ sharesError' = FALSE
    /\ UNCHANGED shares

\* The effect on a change of the selection; it aborts nothing when there is none.
SelectionEffect ==
    /\ selected # effectOf
    /\ effectOf' = selected
    /\ shareCreateResult' = NoKey
    /\ IF selected = NoKey
       THEN /\ shares' = NoKey
            /\ sharesError' = FALSE
            /\ UNCHANGED <<loadingShares, shareListed>>
       ELSE LoadShares(selected)
    /\ UNCHANGED <<prefix, listVars, pageVars, selected, authRequired, mutationVars>>

SharesArrive(i) ==
    /\ shareListed[i].at = "sent"
    /\ \E outcome \in Outcomes :
         shareListed' = [shareListed EXCEPT ![i] = [@ EXCEPT !.at = "arrived", !.outcome = outcome]]
    /\ UNCHANGED <<prefix, listVars, pageVars, selected, effectOf, authRequired, mutationVars,
                   shares, shareCreateResult, loadingShares, sharesError>>

SharesEnd(i) ==
    /\ shareListed[i].at = "arrived"
    /\ shareListed' = [shareListed EXCEPT ![i].at = "ended"]
    /\ loadingShares' = (loadingShares /\ ~Latest(shareListed, i))
    /\ \/ /\ Latest(shareListed, i)
          /\ shareListed[i].outcome = "ok"
          /\ shares' = shareListed[i].key
          /\ UNCHANGED <<sharesError, authRequired>>
       \/ /\ Latest(shareListed, i)
          /\ shareListed[i].outcome = "auth"
          /\ authRequired' = TRUE
          /\ UNCHANGED <<shares, sharesError>>
       \/ /\ Latest(shareListed, i)
          /\ shareListed[i].outcome = "failed"
          /\ shares' = NoKey
          /\ sharesError' = TRUE
          /\ UNCHANGED authRequired
       \/ /\ ~Latest(shareListed, i)
          /\ UNCHANGED <<shares, sharesError, authRequired>>
    /\ UNCHANGED <<prefix, listVars, pageVars, selected, effectOf, shareCreateResult, mutationVars>>

-----------------------------------------------------------------------------
(* Mutations.                                                              *)

\* A mutation is sent for the selected row.
Begin(m, kind, target) ==
    /\ mutation[m] = Idle
    /\ selected \in Objects
    /\ mutating' = TRUE
    /\ mutation' = [mutation EXCEPT ![m] =
         [at |-> "sent", kind |-> kind, key |-> selected, target |-> target, request |-> 0]]
    /\ UNCHANGED <<prefix, listVars, pageVars, selected, effectOf, shareVars, authRequired>>

PerformMove(m, target) == ~mutating /\ target # selected /\ Begin(m, "move", target)

PerformDelete(m) == ~mutating /\ Begin(m, "delete", NoKey)

\* The button is disabled during a mutation, the shortcut is not.
PerformShareCreate(m) == Begin(m, "create", NoKey)

\* The share is one of those shown, whomever they belong to.
PerformShareRevoke(m) == ~mutating /\ shares # NoKey /\ Begin(m, "revoke", NoKey)

Awaiting(m, what, requests) ==
    mutation' = [mutation EXCEPT ![m].at = what, ![m].request = Len(requests) + 1]

Finally(m) ==
    /\ mutation' = [mutation EXCEPT ![m] = Idle]
    /\ mutating' = FALSE

\* The view is listed again, as it is by now.
Moved(m) ==
    /\ mutation[m].at = "sent"
    /\ mutation[m].kind \in {"move", "delete"}
    /\ selected' = IF mutation[m].kind = "move" THEN mutation[m].target ELSE NoKey
    /\ List(prefix, pageCursor)
    /\ Awaiting(m, "list", listed)
    /\ UNCHANGED <<prefix, pageVars, effectOf, shareVars, authRequired, mutating>>

\* The shares of the key the share was created for are loaded.
ShareCreated(m) ==
    /\ mutation[m].at = "sent"
    /\ mutation[m].kind = "create"
    /\ shareCreateResult' = mutation[m].key
    /\ LoadShares(mutation[m].key)
    /\ Awaiting(m, "shares", shareListed)
    /\ UNCHANGED <<prefix, listVars, pageVars, selected, effectOf, authRequired, mutating>>

\* Those of the key that is selected by now.
ShareRevoked(m) ==
    /\ mutation[m].at = "sent"
    /\ mutation[m].kind = "revoke"
    /\ \/ /\ selected # NoKey
          /\ LoadShares(selected)
          /\ Awaiting(m, "shares", shareListed)
          /\ UNCHANGED <<shareCreateResult, mutating>>
       \/ /\ selected = NoKey
          /\ Finally(m)
          /\ UNCHANGED shareVars
    /\ UNCHANGED <<prefix, listVars, pageVars, selected, effectOf, authRequired>>

MutationFailed(m) ==
    /\ mutation[m].at = "sent"
    /\ \E auth \in BOOLEAN : authRequired' = (authRequired \/ auth)
    /\ Finally(m)
    /\ UNCHANGED <<prefix, listVars, pageVars, selected, effectOf, shareVars>>

\* The listing it awaited has ended, one way or another.
MutationEnds(m) ==
    /\ \/ mutation[m].at = "list" /\ listed[mutation[m].request].at = "ended"
       \/ mutation[m].at = "shares" /\ shareListed[mutation[m].request].at = "ended"
    /\ Finally(m)
    /\ UNCHANGED <<prefix, listVars, pageVars, selected, effectOf, shareVars, authRequired>>

-----------------------------------------------------------------------------
Init ==
    /\ prefix = Root
    /\ rows = [by |-> 0, objects |-> <<>>]
    /\ nextCursor = 0
    /\ pageStack = <<>>
    /\ pageCursor = 0
    /\ loadingList = FALSE
    /\ listError = FALSE
    /\ listed = <<>>
    /\ selected = NoKey
    /\ effectOf = NoKey
    /\ shares = NoKey
    /\ shareCreateResult = NoKey
    /\ loadingShares = FALSE
    /\ sharesError = FALSE
    /\ shareListed = <<>>
    /\ authRequired = FALSE
    /\ mutating = FALSE
    /\ mutation = [m \in Mutations |-> Idle]
    /\ detached = FALSE

User ==
    \/ \E p \in Folders : SetPrefix(p) \/ NavigateTo(p)
    \/ Refresh \/ GoUp \/ GoNext \/ GoBack
    \/ \E k \in Keys : Select(k)
    \/ \E m \in Mutations :
         \/ \E target \in Keys : PerformMove(m, target)
         \/ PerformDelete(m) \/ PerformShareCreate(m) \/ PerformShareRevoke(m)

Page ==
    \/ \E i \in DOMAIN listed : ListArrives(i) \/ ListEnds(i)
    \/ SelectionEffect
    \/ \E i \in DOMAIN shareListed : SharesArrive(i) \/ SharesEnd(i)
    \/ \E m \in Mutations :
         Moved(m) \/ ShareCreated(m) \/ ShareRevoked(m) \/ MutationFailed(m) \/ MutationEnds(m)

Next == User \/ Page

Spec == Init /\ [][Next]_vars

-----------------------------------------------------------------------------
(* Properties.                                                             *)

RequestLabels == {"sent", "arrived", "ended"}

\* Type invariant; the rows shown are of a request that was made.
TypeOK ==
    /\ prefix \in Folders
    /\ rows \in [by : 0 .. Len(listed), objects : Seq(Keys)]
    /\ {nextCursor, pageCursor} \subseteq 0 .. LastPage
    /\ pageStack \in Seq(0 .. LastPage)
    /\ {loadingList, listError, loadingShares, sharesError, authRequired, mutating, detached}
         \subseteq BOOLEAN
    /\ Len(listed) + Len(shareListed) <= MaxRequests
    /\ \A i \in DOMAIN listed :
         listed[i] \in [at : RequestLabels, prefix : Folders, cursor : 0 .. LastPage,
                        outcome : {""} \union Outcomes, objects : Seq(Keys), more : BOOLEAN]
    /\ {selected, effectOf, shares, shareCreateResult} \subseteq Keys \union {NoKey}
    /\ \A i \in DOMAIN shareListed :
         shareListed[i] \in [at : RequestLabels, key : Keys \union {NoKey}, outcome : {""} \union Outcomes]
    /\ \A m \in Mutations : mutation[m].at \in {"idle", "sent", "list", "shares"}

Pending(requests) == requests # <<>> /\ Last(requests).at \in {"sent", "arrived"}

\* The view and its flags agree with the last request whatever came before it:
\* the flags say that it is under way, and its answer is what is shown when it
\* ended well.
ViewIsLatest ==
    /\ loadingList = Pending(listed)
    /\ loadingShares = Pending(shareListed)
    /\ Settled => rows.by = Len(listed)
    /\ listed # <<>> => pageCursor = Last(listed).cursor

\* A superseded request, of either kind, makes no transition of the view when
\* it ends.
StaleIsSilent ==
    [][/\ \A i \in DOMAIN listed :
            i < Len(listed) /\ listed[i].at # "ended" /\ listed'[i].at = "ended" =>
                UNCHANGED <<rows, nextCursor, selected, loadingList, listError, authRequired>>
       /\ \A i \in DOMAIN shareListed :
            i < Len(shareListed) /\ shareListed[i].at # "ended" /\ shareListed'[i].at = "ended" =>
                UNCHANGED <<shares, loadingShares, sharesError, authRequired>>]_vars

\* While the user has gone on only from the page shown and within one prefix, the
\* pages before the one asked for last are remembered in order: Back leads to the
\* page before, also from a page that fails or is still loading, and through
\* mutations that list a page again.  Next after a page that failed, before it is
\* shown, or after the prefix was retyped is excluded (detached): there the code
\* pushes the cursor of the page that never came and Back leads to it once more,
\* although the hook says of its stack that Back is lossless.
BackIsPrevious == ~detached => pageStack = [i \in 1 .. pageCursor |-> i - 1]

\* The shares shown are those of the selected object, once its effect has run
\* and the last share listing has been answered.
SharesBelongToSelection ==
    /\ selected # NoKey
    /\ effectOf = selected
    /\ shareListed # <<>>
    /\ Last(shareListed).at = "ended"
    /\ Last(shareListed).outcome = "ok"
    => shares = selected
=============================================================================
