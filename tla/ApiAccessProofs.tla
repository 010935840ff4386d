-------------------------- MODULE ApiAccessProofs --------------------------
(***************************************************************************)
(* ApiAccess for every value of its constants: type correctness, how long  *)
(* a withdrawn key is good for, that a served key is never refused, and    *)
(* that no handler starts unguarded or out of the token's time.            *)
(*                                                                         *)
(* The keys a request checks with come from an entry of the cache or from  *)
(* an answer it waited for.  Each is dated: what it holds was served at or *)
(* after its date, and the date bounds the request's own (Dated, Timely).  *)
(***************************************************************************)
EXTENDS ApiAccess, WellFoundedInduction, TLAPS

-----------------------------------------------------------------------------
(* The first and the last of some positions.                               *)

LEMMA LeastOfNats ==
    ASSUME NEW S, S \subseteq Nat, S # {}
    PROVE  \E x \in S : \A y \in S : x <= y
  <1> DEFINE R == {p \in Nat \X Nat : p[1] < p[2]}
  <1>1. IsWellFoundedOn(R, Nat)
    BY NatLessThanWellFounded DEF OpToRel
  <1>2. PICK x \in S : \A y \in S : ~(<<y, x>> \in R)
    BY <1>1, WFMin, Zenon
  <1>3. ASSUME NEW y \in S
        PROVE  x <= y
    <2>1. x \in Nat /\ y \in Nat
      OBVIOUS
    <2>2. <<y, x>> \notin R
      BY <1>2
    <2>3. y < x => <<y, x>> \in R
      BY <2>1
    <2> QED
      BY <2>1, <2>2, <2>3
  <1> QED
    BY <1>3

LEMMA GreatestOfBounded ==
    ASSUME NEW n \in Nat, NEW S, S \subseteq 1 .. n, S # {}
    PROVE  \E x \in S : \A y \in S : y <= x
  <1> DEFINE T == {n - i : i \in S}
  <1>1. T \subseteq Nat /\ T # {}
    <2>1. PICK i \in S : TRUE
      OBVIOUS
    <2>2. n - i \in T
      BY <2>1
    <2>3. \A j \in S : n - j \in Nat
      OBVIOUS
    <2> QED
      BY <2>2, <2>3
  <1>2. PICK t \in T : \A u \in T : t <= u
    BY <1>1, LeastOfNats
  <1>3. PICK x \in S : t = n - x
    OBVIOUS
  <1>4. \A y \in S : n - y \in T
    OBVIOUS
  <1>5. \A y \in S : n - x <= n - y
    BY <1>2, <1>3, <1>4
  <1>6. \A y \in S : y <= x
    BY <1>5
  <1> QED
    BY <1>6

\* The key of a token is one of the document's, or none is found.
LEMMA KeyIsInDocument ==
    ASSUME NEW keys \in Seq(Keys), NEW t
    PROVE  \/ KeyForJwt(keys, t) = NoKey
           \/ \E i \in DOMAIN keys : KeyForJwt(keys, t) = keys[i]
  <1>1. DOMAIN keys = 1 .. Len(keys) /\ Len(keys) \in Nat
    OBVIOUS
  <1>2. /\ ImportedAt(keys, t) \subseteq 1 .. Len(keys)
        /\ ByKid(keys, t) \subseteq 1 .. Len(keys)
    BY <1>1 DEF ImportedAt, ByKid
  <1>3. CASE t.kid # NoKid /\ ByKid(keys, t) # {}
    <2>1. \E i \in ByKid(keys, t) : \A j \in ByKid(keys, t) : j <= i
      BY <1>1, <1>2, <1>3, GreatestOfBounded
    <2> QED
      BY <1>1, <1>2, <1>3, <2>1 DEF KeyForJwt
  <1>4. CASE t.kid = NoKid /\ ImportedAt(keys, t) # {}
    <2>1. \E i \in ImportedAt(keys, t) : \A j \in ImportedAt(keys, t) : i <= j
      BY <1>2, <1>4, LeastOfNats
    <2> QED
      BY <1>1, <1>2, <1>4, <2>1 DEF KeyForJwt
  <1> QED
    BY <1>3, <1>4 DEF KeyForJwt

LEMMA KeyTyped ==
    ASSUME NEW keys \in Seq(Keys), NEW t
    PROVE  KeyForJwt(keys, t) \in Keys \union {NoKey}
  BY KeyIsInDocument

-----------------------------------------------------------------------------
(* Type correctness.                                                       *)

\* A request that is there has asked something.
Typed == TypeOK /\ \A h \in Requests : ~At(h, "idle") => call[h] \in Calls

LEMMA InitTyped == ConstantsAssumption /\ Init => Typed
  <1> SUFFICES ASSUME ConstantsAssumption, Init
               PROVE  Typed
    OBVIOUS
  <1>1. served \in KeySets
    BY DEF ConstantsAssumption, Init, Env
  <1>2. steady \in [Requests -> BOOLEAN]
    BY DEF Init
  <1>3. \A h \in Requests : At(h, "idle")
    BY DEF Init, At
  <1> QED
    BY <1>1, <1>2, <1>3 DEF Init, Typed, TypeOK, Labels, Reasons

\* What a set of keys makes of a request.
LEMMA CheckTyped ==
    ASSUME Typed, NEW h \in Requests, NEW keys \in Seq(Keys),
           NEW label \in {"verify", "reverify"},
           CheckWith(h, keys, label) \/ RefetchMissing(h, keys)
    PROVE  /\ pc' \in [Requests -> Labels]
           /\ found' \in [Requests -> Keys \union {NoKey}]
           /\ begun' \in [Requests -> Nat]
           /\ why' \in [Requests -> Reasons]
           /\ \A g \in Requests : g # h => pc'[g] = pc[g]
  <1>1. KeyForJwt(keys, Jwt(h)) \in Keys \union {NoKey}
    BY KeyTyped
  <1>2. CASE CheckWith(h, keys, label)
    BY <1>1, <1>2 DEF Typed, TypeOK, CheckWith, Goto, Labels
  <1>3. CASE RefetchMissing(h, keys)
    BY <1>3 DEF Typed, TypeOK, RefetchMissing, Fetch, Goto, Labels, Fetching
  <1> QED
    BY <1>2, <1>3

LEMMA RefuseTyped ==
    ASSUME Typed, NEW h \in Requests, NEW reason \in Reasons, Refuse(h, reason)
    PROVE  /\ pc' \in [Requests -> Labels]
           /\ why' \in [Requests -> Reasons]
           /\ \A g \in Requests : g # h => pc'[g] = pc[g]
  BY DEF Typed, TypeOK, Refuse, Goto, Labels

LEMMA ConcludeTyped ==
    ASSUME Typed, NEW h \in Requests, Conclude(h)
    PROVE  /\ pc' \in [Requests -> Labels]
           /\ why' \in [Requests -> Reasons]
           /\ \A g \in Requests : g # h => pc'[g] = pc[g]
  BY DEF Typed, TypeOK, Conclude, Refuse, Goto, Labels, Reasons

LEMMA StepTyped ==
    ASSUME ConstantsAssumption, Typed, NEW h \in Requests, Step(h)
    PROVE  Typed'
  <1> USE DEF keyVars
  <1>1. CASE Arrive(h)
    <2>1. PICK c \in Env.clients :
            /\ call' = [call EXCEPT ![h] = c]
            /\ steady' = [steady EXCEPT ![h] =
                            /\ Credential(c) \notin {Absent, Blank, Malformed}
                            /\ KeyForJwt(served, Credential(c)) = Credential(c).signer]
            /\ IF Env.readonly /\ c.method \notin SafeMethods
               THEN Refuse(h, "readonly")
               ELSE Goto(h, "admit") /\ UNCHANGED why
      BY <1>1 DEF Arrive
    <2>2. c \in Calls
      BY DEF Env, ConstantsAssumption, Typed, TypeOK
    <2>3. steady' \in [Requests -> BOOLEAN]
      BY <2>1, Zenon DEF Typed, TypeOK
    <2>4. /\ pc' \in [Requests -> Labels]
          /\ why' \in [Requests -> Reasons]
          /\ \A g \in Requests : g # h => pc'[g] = pc[g]
      BY <2>1 DEF Refuse, Goto, Labels, Reasons, Typed, TypeOK
    <2> QED
      BY <1>1, <2>1, <2>2, <2>3, <2>4 DEF Arrive, At, Typed, TypeOK
  <1>2. CASE Admit(h)
    <2>1. /\ pc' \in [Requests -> Labels]
          /\ found' \in [Requests -> Keys \union {NoKey}]
          /\ begun' \in [Requests -> Nat]
          /\ why' \in [Requests -> Reasons]
          /\ \A g \in Requests : g # h => pc'[g] = pc[g]
      <3>1. CASE \E reason \in Reasons : Refuse(h, reason) /\ UNCHANGED <<found, begun>>
        BY <3>1, RefuseTyped DEF Typed, TypeOK
      <3>2. CASE CacheFresh /\ (CheckWith(h, cache.keys, "verify") \/ RefetchMissing(h, cache.keys))
        <4>1. cache.keys \in Seq(Keys)
          BY <3>2 DEF CacheFresh, Typed, TypeOK, ConstantsAssumption
        <4> QED
          BY <3>2, <4>1, CheckTyped
      <3>3. CASE Fetch(h, "fetch.first") /\ UNCHANGED <<found, why>>
        BY <3>3 DEF Fetch, Goto, Labels, Fetching, Typed, TypeOK
      <3> QED
        BY <1>2, <3>1, <3>2, <3>3 DEF Admit, Reasons
    <2> QED
      BY <1>2, <2>1 DEF Admit, At, Typed, TypeOK
  <1>3. CASE Answered(h)
    BY <1>3 DEF Answered, At, Typed, TypeOK
  <1>4. CASE FetchFailed(h)
    BY <1>4, RefuseTyped DEF FetchFailed, At, Fetching, Reasons, Typed, TypeOK
  <1>5. CASE Apply(h)
    <2>1. /\ answer[h] \in [keys : KeySets, at : Nat]
          /\ answer[h].keys \in KeySets
          /\ answer[h].keys \in Seq(Keys)
      BY <1>5 DEF Apply, Typed, TypeOK, ConstantsAssumption
    <2>2. answer' \in [Requests -> {Nothing} \union [keys : KeySets, at : Nat]]
      BY <1>5 DEF Apply, Typed, TypeOK
    <2>3. cache' \in {Nothing} \union [keys : KeySets, fetchedAt : Nat]
      BY <1>5, <2>1 DEF Apply, Store, Typed, TypeOK
    <2>4. /\ pc' \in [Requests -> Labels]
          /\ found' \in [Requests -> Keys \union {NoKey}]
          /\ begun' \in [Requests -> Nat]
          /\ why' \in [Requests -> Reasons]
          /\ \A g \in Requests : g # h => pc'[g] = pc[g]
      <3>1. CASE \E reason \in Reasons :
                   Refuse(h, reason) /\ begun' = [begun EXCEPT ![h] = 0] /\ UNCHANGED found
        BY <3>1, RefuseTyped DEF Typed, TypeOK
      <3>2. CASE \E label \in {"verify", "reverify"} :
                   CheckWith(h, answer[h].keys, label) \/ RefetchMissing(h, answer[h].keys)
        BY <3>2, <2>1, CheckTyped
      <3> QED
        BY <1>5, <3>1, <3>2 DEF Apply, Reasons
    <2> QED
      BY <1>5, <2>2, <2>3, <2>4 DEF Apply, At, Fetching, Typed, TypeOK
  <1>6. CASE Verify(h)
    <2>1. /\ pc' \in [Requests -> Labels]
          /\ begun' \in [Requests -> Nat]
          /\ why' \in [Requests -> Reasons]
          /\ \A g \in Requests : g # h => pc'[g] = pc[g]
      <3>1. CASE Conclude(h) /\ UNCHANGED begun
        BY <3>1, ConcludeTyped DEF Typed, TypeOK
      <3>2. CASE Fetch(h, "fetch.retry") /\ UNCHANGED why
        BY <3>2 DEF Fetch, Goto, Labels, Fetching, Typed, TypeOK
      <3> QED
        BY <1>6, <3>1, <3>2 DEF Verify
    <2> QED
      BY <1>6, <2>1 DEF Verify, At, Typed, TypeOK
  <1>7. CASE Reverify(h)
    <2>1. /\ pc' \in [Requests -> Labels]
          /\ why' \in [Requests -> Reasons]
          /\ \A g \in Requests : g # h => pc'[g] = pc[g]
      BY <1>7, ConcludeTyped, RefuseTyped DEF Reverify, Reasons
    <2> QED
      BY <1>7, <2>1 DEF Reverify, At, Typed, TypeOK
  <1>8. CASE Done(h)
    BY <1>8 DEF Done, Goto, At, Labels, Reasons, Typed, TypeOK
  <1> QED
    BY <1>1, <1>2, <1>3, <1>4, <1>5, <1>6, <1>7, <1>8 DEF Step

LEMMA EnvironmentTyped ==
    ASSUME ConstantsAssumption, Typed, Rotate \/ Recycle \/ Tick \/ UNCHANGED vars
    PROVE  Typed'
  <1> USE DEF keyVars
  <1>1. CASE Rotate
    <2>1. served' \in KeySets
      BY <1>1 DEF Rotate, Env, ConstantsAssumption, Typed, TypeOK
    <2>2. steady' \in [Requests -> BOOLEAN]
      BY <1>1, Zenon DEF Rotate, Typed, TypeOK
    <2>3. lastServed' \in [Keys -> Nat \union {Never}]
      BY <1>1 DEF Rotate, Typed, TypeOK
    <2> QED
      BY <1>1, <2>1, <2>2, <2>3 DEF Rotate, At, Typed, TypeOK
  <1>2. CASE Recycle
    BY <1>2 DEF Recycle, At, Labels, Reasons, Typed, TypeOK
  <1>3. CASE Tick
    BY <1>3 DEF Tick, At, Typed, TypeOK
  <1>4. CASE UNCHANGED vars
    BY <1>4 DEF vars, At, Typed, TypeOK
  <1> QED
    BY <1>1, <1>2, <1>3, <1>4

LEMMA NextTyped ==
    ASSUME ConstantsAssumption, Typed, [Next]_vars
    PROVE  Typed'
  BY StepTyped, EnvironmentTyped DEF Next

\* Every variable is well typed, and a request under way has asked something
\* (middleware.ts, auth.ts).
THEOREM TypedInvariant == Spec => []Typed
  <1>1. Init => Typed
    BY InitTyped, ConstantsAssumption
  <1>2. Typed /\ [Next]_vars => Typed'
    BY NextTyped, ConstantsAssumption
  <1> QED
    BY <1>1, <1>2, PTL DEF Spec

\* Every variable holds values of its kind.
THEOREM TypeCorrect == Spec => []TypeOK
  <1>1. Typed => TypeOK
    BY DEF Typed
  <1> QED
    BY <1>1, TypedInvariant, PTL

-----------------------------------------------------------------------------
(* A step of one request.                                                  *)

\* A request's step leaves the others and the endpoint alone.
LEMMA StepAlone ==
    ASSUME Typed, NEW h \in Requests, Step(h)
    PROVE  /\ UNCHANGED <<env, now, served, lastServed>>
           /\ \A g \in Requests : g # h =>
                /\ pc'[g] = pc[g] /\ call'[g] = call[g] /\ found'[g] = found[g]
                /\ answer'[g] = answer[g] /\ begun'[g] = begun[g]
                /\ since'[g] = since[g] /\ steady'[g] = steady[g] /\ why'[g] = why[g]
  <1> USE DEF keyVars, Refuse, Goto, Fetch, CheckWith, RefetchMissing, Typed, TypeOK
  <1>1. ASSUME Conclude(h)
        PROVE  \A g \in Requests : g # h => pc'[g] = pc[g] /\ why'[g] = why[g]
    BY <1>1, ConcludeTyped DEF Conclude
  <1>2. CASE Arrive(h)
    BY <1>2 DEF Arrive
  <1>3. CASE Admit(h)
    BY <1>3 DEF Admit
  <1>4. CASE Answered(h) \/ FetchFailed(h) \/ Done(h)
    BY <1>4 DEF Answered, FetchFailed, Done
  <1>5. CASE Apply(h)
    BY <1>5 DEF Apply
  <1>6. CASE Verify(h) \/ Reverify(h)
    BY <1>1, <1>6 DEF Verify, Reverify
  <1> QED
    BY <1>2, <1>3, <1>4, <1>5, <1>6 DEF Step

\* Where the conclusion of a request leads it.
LEMMA ConcludeOutcome ==
    ASSUME Typed, NEW h \in Requests, Conclude(h)
    PROVE  \/ /\ pc'[h] = "refused"
              /\ why'[h] \in {"claims", "scope", "principal", "csrf", "notfound"}
           \/ /\ pc'[h] = "handled"
              /\ ClaimsHold(Jwt(h))
              /\ ScopesFor(call[h].path) \subseteq Jwt(h).scopes
              /\ CookieGuardPasses(call[h])
              /\ Registered(call[h])
  BY DEF Conclude, Refuse, Goto, Typed, TypeOK

-----------------------------------------------------------------------------
(* Times.                                                                  *)

\* A fetch began after its request and is not longer than MaxDelay, and its
\* answer was read while it ran.
Timely ==
    /\ cache # Nothing => cache.fetchedAt <= now
    /\ \A h \in Requests :
         /\ since[h] <= now
         /\ pc[h] \in Fetching =>
              since[h] <= begun[h] /\ begun[h] <= now /\ now <= begun[h] + MaxDelay
         /\ answer[h] # Nothing =>
              pc[h] \in Fetching /\ begun[h] <= answer[h].at /\ answer[h].at <= now

\* A step that leaves a request fetching has just begun the fetch, unless it
\* only brings the answer.
LEMMA FetchBegins ==
    ASSUME Typed, Timely, NEW h \in Requests, Step(h), ~Answered(h)
    PROVE  /\ answer'[h] = Nothing
           /\ pc'[h] \in Fetching => begun'[h] = now /\ since'[h] = since[h]
  <1> DEFINE Begins == pc'[h] \in Fetching => begun'[h] = now
  <1>1. /\ pc \in [Requests -> Labels] /\ begun \in [Requests -> Nat]
        /\ DOMAIN answer = Requests /\ DOMAIN since = Requests
        /\ answer[h] # Nothing => pc[h] \in Fetching
    BY DEF Typed, TypeOK, Timely
  <1>2. CASE Arrive(h)
    BY <1>1, <1>2 DEF Arrive, At, Fetching, Refuse, Goto
  <1>3. CASE Admit(h)
    <2>1. answer'[h] = Nothing /\ since'[h] = since[h]
      BY <1>1, <1>3 DEF Admit, At, Fetching
    <2>2. CASE pc'[h] = "refused" \/ pc'[h] = "verify"
      BY <2>1, <2>2 DEF Fetching
    <2>3. CASE begun'[h] = now
      BY <2>1, <2>3
    <2> QED
      BY <1>1, <1>3, <2>2, <2>3
      DEF Admit, Refuse, Goto, Fetch, CheckWith, RefetchMissing
  <1>4. CASE FetchFailed(h)
    BY <1>1, <1>4 DEF FetchFailed, Fetching, Refuse, Goto
  <1>5. CASE Apply(h)
    <2>1. answer'[h] = Nothing /\ since'[h] = since[h]
      BY <1>1, <1>5 DEF Apply
    <2>2. CASE pc'[h] \in {"refused", "verify", "reverify"}
      BY <2>1, <2>2 DEF Fetching
    <2>3. CASE begun'[h] = now
      BY <2>1, <2>3
    <2> QED
      BY <1>1, <1>5, <2>2, <2>3
      DEF Apply, Refuse, Goto, Fetch, CheckWith, RefetchMissing
  <1>6. CASE Verify(h)
    <2>1. answer'[h] = Nothing /\ since'[h] = since[h]
      BY <1>1, <1>6 DEF Verify, At, Fetching
    <2> QED
      BY <1>1, <1>6, <2>1, ConcludeOutcome DEF Verify, Fetch, Goto, Fetching
  <1>7. CASE Reverify(h)
    <2>1. answer'[h] = Nothing /\ since'[h] = since[h]
      BY <1>1, <1>7 DEF Reverify, At, Fetching
    <2> QED
      BY <1>1, <1>7, <2>1, ConcludeOutcome DEF Reverify, Refuse, Goto, Fetching
  <1>8. CASE Done(h)
    BY <1>1, <1>8 DEF Done, Fetching, Goto
  <1> QED
    BY <1>2, <1>3, <1>4, <1>5, <1>6, <1>7, <1>8 DEF Step

LEMMA StepTimely ==
    ASSUME ConstantsAssumption, Typed, Timely, NEW h \in Requests, Step(h)
    PROVE  Timely'
  <1>1. UNCHANGED now /\ now \in Nat
    BY StepAlone DEF Typed, TypeOK
  <1>2. cache' # Nothing => cache'.fetchedAt <= now
    <2>1. UNCHANGED cache \/ Store(h)
      BY DEF Step, Arrive, Admit, Answered, FetchFailed, Apply, Verify, Reverify, Done
    <2> QED
      BY <1>1, <2>1 DEF Store, Timely
  <1>3. since'[h] <= now
    <2>1. since[h] <= now /\ DOMAIN since = Requests
      BY DEF Timely, Typed, TypeOK
    <2>2. since' = since \/ since' = [since EXCEPT ![h] = now] \/ since' = [since EXCEPT ![h] = 0]
      BY DEF Step, Arrive, Admit, Answered, FetchFailed, Apply, Verify, Reverify, Done
    <2> QED
      BY <1>1, <2>1, <2>2
  <1>4. /\ pc'[h] \in Fetching =>
             since'[h] <= begun'[h] /\ begun'[h] <= now /\ now <= begun'[h] + MaxDelay
        /\ answer'[h] # Nothing =>
             pc'[h] \in Fetching /\ begun'[h] <= answer'[h].at /\ answer'[h].at <= now
    <2>1. CASE Answered(h)
      BY <1>1, <2>1 DEF Answered, Timely, Typed, TypeOK
    <2>2. CASE ~Answered(h)
      <3>1. since[h] <= now /\ MaxDelay \in Nat
        BY DEF Timely, ConstantsAssumption
      <3> QED
        BY <1>1, <2>2, <3>1, FetchBegins
    <2> QED
      BY <2>1, <2>2
  <1>5. \A g \in Requests : g # h =>
          /\ since'[g] = since[g] /\ begun'[g] = begun[g]
          /\ pc'[g] = pc[g] /\ answer'[g] = answer[g]
    BY StepAlone
  <1> QED
    BY <1>1, <1>2, <1>3, <1>4, <1>5 DEF Timely

LEMMA EnvironmentTimely ==
    ASSUME ConstantsAssumption, Typed, Timely, Rotate \/ Recycle \/ Tick \/ UNCHANGED vars
    PROVE  Timely'
  <1>1. CASE Rotate \/ UNCHANGED vars
    BY <1>1 DEF Rotate, vars, Timely
  <1>2. CASE Recycle
    <2>1. cache' = Nothing /\ now' \in Nat
      BY <1>2 DEF Recycle, Typed, TypeOK
    <2>2. \A h \in Requests : since'[h] = 0 /\ pc'[h] = "idle" /\ answer'[h] = Nothing
      BY <1>2 DEF Recycle
    <2> QED
      BY <2>1, <2>2 DEF Timely, Fetching
  <1>3. CASE Tick
    <2>1. /\ now \in Nat /\ MaxDelay \in Nat
          /\ cache # Nothing => cache.fetchedAt \in Nat
          /\ \A h \in Requests : since[h] \in Nat /\ begun[h] \in Nat
          /\ \A h \in Requests : answer[h] # Nothing => answer[h].at \in Nat
      BY DEF Typed, TypeOK, ConstantsAssumption
    <2>2. /\ now' = now + 1
          /\ \A h \in Requests : pc[h] \in Fetching => now < begun[h] + MaxDelay
          /\ UNCHANGED <<cache, pc, answer, begun, since>>
      BY <1>3 DEF Tick
    <2> QED
      BY <2>1, <2>2 DEF Timely
  <1> QED
    BY <1>1, <1>2, <1>3

LEMMA InitTimely == Init => Timely
  <1> SUFFICES ASSUME Init
               PROVE  Timely
    OBVIOUS
  <1>1. cache = Nothing /\ now = 0
    BY DEF Init
  <1>2. \A h \in Requests : since[h] = 0 /\ pc[h] = "idle" /\ answer[h] = Nothing
    BY DEF Init
  <1> QED
    BY <1>1, <1>2 DEF Timely, Fetching

\* A fetch of the keys ends within MaxDelay and its answer was read while it ran
\* (auth.ts:474-479).
THEOREM TimelyInvariant == Spec => [](Typed /\ Timely)
  <1>1. Init => Typed /\ Timely
    BY InitTyped, InitTimely, ConstantsAssumption
  <1>2. Typed /\ Timely /\ [Next]_vars => (Typed /\ Timely)'
    BY NextTyped, StepTimely, EnvironmentTimely, ConstantsAssumption DEF Next
  <1> QED
    BY <1>1, <1>2, PTL DEF Spec

-----------------------------------------------------------------------------
(* A withdrawn key expires.                                                *)

\* k was served at t or later.
ServedSince(k, t) == Serves(k) \/ (lastServed[k] # Never /\ t <= lastServed[k])

\* k was served not longer than a cache entry and a fetch before h began.
Recent(h, k) ==
    \/ Serves(k)
    \/ lastServed[k] # Never /\ since[h] < lastServed[k] + Ttl + MaxDelay

\* What is held was served: an entry's keys up to a fetch before it was stored,
\* an answer's when it was read.
Dated ==
    /\ cache # Nothing =>
         \A i \in DOMAIN cache.keys :
            \/ Serves(cache.keys[i])
            \/ /\ lastServed[cache.keys[i]] # Never
               /\ cache.fetchedAt <= lastServed[cache.keys[i]] + MaxDelay
    /\ \A h \in Requests : answer[h] # Nothing =>
         \A i \in DOMAIN answer[h].keys : ServedSince(answer[h].keys[i], answer[h].at)
    /\ \A h \in Requests :
         /\ pc[h] \in {"verify", "reverify"} => found[h] \in Keys /\ Recent(h, found[h])
         /\ At(h, "handled") => Jwt(h).signer \in Keys /\ Recent(h, Jwt(h).signer)

\* What the cache holds while it is fresh is recent for every request.
LEMMA CachedIsRecent ==
    ASSUME ConstantsAssumption, Typed, Timely, Dated, NEW h \in Requests, CacheFresh,
           NEW i \in DOMAIN cache.keys
    PROVE  cache.keys[i] \in Keys /\ Recent(h, cache.keys[i])
  <1>1. cache # Nothing /\ cache \in [keys : KeySets, fetchedAt : Nat]
    BY DEF CacheFresh, Typed, TypeOK
  <1>2. cache.keys \in Seq(Keys) /\ cache.fetchedAt \in Nat
    BY <1>1 DEF ConstantsAssumption
  <1>3. cache.keys[i] \in Keys
    BY <1>2
  <1>4. CASE Serves(cache.keys[i])
    BY <1>3, <1>4 DEF Recent
  <1>5. CASE ~Serves(cache.keys[i])
    <2>1. /\ lastServed[cache.keys[i]] # Never
          /\ cache.fetchedAt <= lastServed[cache.keys[i]] + MaxDelay
      BY <1>1, <1>5 DEF Dated
    <2>2. lastServed[cache.keys[i]] \in Nat
      BY <1>3, <2>1 DEF Typed, TypeOK
    <2>3. since[h] <= now /\ now < cache.fetchedAt + Ttl /\ since[h] \in Nat /\ now \in Nat
      BY DEF Timely, CacheFresh, Typed, TypeOK
    <2>4. since[h] < lastServed[cache.keys[i]] + Ttl + MaxDelay
      BY <1>2, <2>1, <2>2, <2>3 DEF ConstantsAssumption
    <2> QED
      BY <1>3, <2>1, <2>4 DEF Recent
  <1> QED
    BY <1>4, <1>5

\* What an answer holds is recent for its request, and for the cache.
LEMMA AnsweredIsRecent ==
    ASSUME ConstantsAssumption, Typed, Timely, Dated, NEW h \in Requests,
           answer[h] # Nothing, NEW i \in DOMAIN answer[h].keys
    PROVE  LET k == answer[h].keys[i]
           IN  /\ k \in Keys /\ Recent(h, k)
               /\ Serves(k) \/ (lastServed[k] # Never /\ now <= lastServed[k] + MaxDelay)
  <1> DEFINE k == answer[h].keys[i]
  <1>1. answer[h].keys \in Seq(Keys) /\ answer[h].at \in Nat
    BY DEF ConstantsAssumption, Typed, TypeOK
  <1>2. k \in Keys
    BY <1>1
  <1>3. CASE Serves(k)
    BY <1>2, <1>3 DEF Recent
  <1>4. CASE ~Serves(k)
    <2>1. lastServed[k] # Never /\ answer[h].at <= lastServed[k]
      BY <1>4 DEF Dated, ServedSince
    <2>2. lastServed[k] \in Nat
      BY <1>2, <2>1 DEF Typed, TypeOK
    <2>3. /\ since[h] <= begun[h] /\ now <= begun[h] + MaxDelay /\ begun[h] <= answer[h].at
          /\ since[h] \in Nat /\ begun[h] \in Nat /\ now \in Nat
      BY DEF Timely, Typed, TypeOK
    <2>4. Ttl \in Nat \ {0} /\ MaxDelay \in Nat
      BY DEF ConstantsAssumption
    <2>5. PICK last \in Nat : last = lastServed[k]
      BY <2>2
    <2>6. PICK read \in Nat : read = answer[h].at
      BY <1>1
    <2>7. read <= last /\ begun[h] <= read
      BY <2>1, <2>3, <2>5, <2>6
    <2>8. since[h] < last + Ttl + MaxDelay /\ now <= last + MaxDelay
      BY <2>3, <2>4, <2>7
    <2> QED
      BY <1>2, <2>1, <2>5, <2>8 DEF Recent
  <1> QED
    BY <1>3, <1>4

\* The key a request is given to check with is one of the set it was given.
LEMMA CheckedIsRecent ==
    ASSUME Typed, NEW h \in Requests, NEW keys \in Seq(Keys), NEW label,
           CheckWith(h, keys, label),
           \A i \in DOMAIN keys : keys[i] \in Keys /\ Recent(h, keys[i])
    PROVE  found'[h] \in Keys /\ Recent(h, found'[h])
  <1>1. found'[h] = KeyForJwt(keys, Jwt(h)) /\ KeyForJwt(keys, Jwt(h)) # NoKey
    BY DEF CheckWith, Typed, TypeOK
  <1>2. PICK i \in DOMAIN keys : KeyForJwt(keys, Jwt(h)) = keys[i]
    BY <1>1, KeyIsInDocument
  <1> QED
    BY <1>1, <1>2

LEMMA StepDated ==
    ASSUME ConstantsAssumption, Typed, Timely, Dated, NEW h \in Requests, Step(h)
    PROVE  Dated'
  <1>1. UNCHANGED <<now, served, lastServed>>
    BY StepAlone
  <1>2. \A k : Serves(k)' = Serves(k)
    BY <1>1 DEF Serves
  <1>3. cache' # Nothing =>
          \A i \in DOMAIN cache'.keys :
             \/ Serves(cache'.keys[i])
             \/ /\ lastServed[cache'.keys[i]] # Never
                /\ cache'.fetchedAt <= lastServed[cache'.keys[i]] + MaxDelay
    <2>1. UNCHANGED cache \/ (answer[h] # Nothing /\ Store(h))
      BY DEF Step, Arrive, Admit, Answered, FetchFailed, Apply, Verify, Reverify, Done
    <2>2. CASE UNCHANGED cache
      BY <2>2 DEF Dated
    <2>3. CASE answer[h] # Nothing /\ Store(h)
      <3>1. cache'.keys = answer[h].keys /\ cache'.fetchedAt = now
        BY <2>3 DEF Store
      <3> QED
        BY <2>3, <3>1, AnsweredIsRecent
    <2> QED
      BY <2>1, <2>2, <2>3
  <1>4. answer'[h] # Nothing =>
          \A i \in DOMAIN answer'[h].keys : ServedSince(answer'[h].keys[i], answer'[h].at)
    <2>1. CASE Answered(h)
      <3>1. answer'[h] = [keys |-> served, at |-> now]
        BY <2>1 DEF Answered, Typed, TypeOK
      <3> QED
        BY <3>1 DEF ServedSince, Serves
    <2>2. CASE ~Answered(h)
      BY <2>2, FetchBegins
    <2> QED
      BY <2>1, <2>2
  <1>5. pc'[h] \in {"verify", "reverify"} => found'[h] \in Keys /\ Recent(h, found'[h])
    <2>1. pc \in [Requests -> Labels]
      BY DEF Typed, TypeOK
    <2>2. CASE Admit(h)
      <3>1. CASE \E reason \in Reasons : Refuse(h, reason)
        BY <2>1, <3>1 DEF Refuse, Goto
      <3>2. CASE RefetchMissing(h, cache.keys) \/ Fetch(h, "fetch.first")
        BY <2>1, <3>2 DEF RefetchMissing, Fetch, Goto
      <3>3. CASE CacheFresh /\ CheckWith(h, cache.keys, "verify")
        <4>1. cache.keys \in Seq(Keys)
          BY <3>3 DEF CacheFresh, Typed, TypeOK, ConstantsAssumption
        <4> QED
          BY <3>3, <4>1, CachedIsRecent, CheckedIsRecent
      <3> QED
        BY <2>2, <3>1, <3>2, <3>3 DEF Admit, Reasons
    <2>3. CASE Apply(h)
      <3>1. answer[h] # Nothing /\ answer[h].keys \in Seq(Keys)
        BY <2>3 DEF Apply, Typed, TypeOK, ConstantsAssumption
      <3>2. CASE \E reason \in Reasons : Refuse(h, reason)
        BY <2>1, <3>2 DEF Refuse, Goto
      <3>3. CASE RefetchMissing(h, answer[h].keys)
        BY <2>1, <3>3 DEF RefetchMissing, Fetch, Goto
      <3>4. CASE \E label \in {"verify", "reverify"} : CheckWith(h, answer[h].keys, label)
        BY <3>1, <3>4, AnsweredIsRecent, CheckedIsRecent
      <3> QED
        BY <2>3, <3>2, <3>3, <3>4 DEF Apply, Reasons
    <2>4. CASE Arrive(h) \/ FetchFailed(h) \/ Answered(h) \/ Done(h)
      BY <2>1, <2>4 DEF Arrive, FetchFailed, Answered, Done, Refuse, Goto, Fetching
    <2>5. CASE Verify(h) \/ Reverify(h)
      BY <2>1, <2>5, ConcludeOutcome DEF Verify, Reverify, Refuse, Goto, Fetch
    <2> QED
      BY <2>2, <2>3, <2>4, <2>5 DEF Step
  <1>6. pc'[h] = "handled" => Jwt(h)'.signer \in Keys /\ Recent(h, Jwt(h).signer) /\ UNCHANGED call
    <2>1. pc \in [Requests -> Labels]
      BY DEF Typed, TypeOK
    <2>2. CASE Verify(h) \/ Reverify(h)
      <3>1. UNCHANGED call /\ pc[h] \in {"verify", "reverify"}
        BY <2>2 DEF Verify, Reverify, At
      <3>2. pc'[h] = "handled" => found[h] = Jwt(h).signer
        BY <2>1, <2>2 DEF Verify, Reverify, Refuse, Fetch, Goto
      <3>3. Jwt(h)' = Jwt(h)
        BY <3>1 DEF Jwt
      <3> QED
        BY <3>1, <3>2, <3>3 DEF Dated
    <2>3. CASE ~(Verify(h) \/ Reverify(h))
      BY <2>1, <2>3
      DEF Step, Arrive, Admit, Answered, FetchFailed, Apply, Done, Refuse, Goto, Fetch,
          CheckWith, RefetchMissing, Fetching
    <2> QED
      BY <2>2, <2>3
  <1>7. pc'[h] \in {"verify", "reverify", "handled"} => since'[h] = since[h]
    <2>1. Arrive(h) \/ Done(h) => pc'[h] \in {"idle", "admit", "refused"}
      BY DEF Arrive, Done, Refuse, Goto, Typed, TypeOK
    <2> QED
      BY <2>1 DEF Step, Admit, Answered, FetchFailed, Apply, Verify, Reverify
  <1>8. \A g \in Requests : g # h =>
          /\ pc'[g] = pc[g] /\ call'[g] = call[g] /\ found'[g] = found[g]
          /\ answer'[g] = answer[g] /\ since'[g] = since[g]
    BY StepAlone
  <1>9. \A g \in Requests : \A k : since'[g] = since[g] => (Recent(g, k)' <=> Recent(g, k))
    BY <1>1, <1>2 DEF Recent
  <1>10. \A k, t : ServedSince(k, t)' <=> ServedSince(k, t)
    BY <1>1, <1>2 DEF ServedSince
  <1> QED
    BY <1>1, <1>2, <1>3, <1>4, <1>5, <1>6, <1>7, <1>8, <1>9, <1>10 DEF Dated, At, Jwt

LEMMA EnvironmentDated ==
    ASSUME ConstantsAssumption, Typed, Timely, Dated, Rotate \/ Recycle \/ Tick \/ UNCHANGED vars
    PROVE  Dated'
  <1>1. CASE Rotate
    <2>1. \A k \in Keys : IF Serves(k) THEN lastServed'[k] = now ELSE lastServed'[k] = lastServed[k]
      BY <1>1 DEF Rotate, Serves
    <2>2. now \in Nat /\ now # Never /\ Ttl \in Nat \ {0} /\ MaxDelay \in Nat
      BY DEF Typed, TypeOK, ConstantsAssumption
    <2>3. UNCHANGED <<cache, pc, call, found, answer, since>>
      BY <1>1 DEF Rotate
    <2>4. ASSUME NEW h \in Requests, NEW k \in Keys, Recent(h, k)
          PROVE  Recent(h, k)'
      <3>1. since[h] <= now /\ since[h] \in Nat
        BY DEF Timely, Typed, TypeOK
      <3>2. CASE Serves(k)
        <4>1. since[h] < now + Ttl + MaxDelay
          BY <2>2, <3>1
        <4> QED
          BY <2>1, <2>2, <2>3, <3>2, <4>1 DEF Recent
      <3>3. CASE ~Serves(k)
        BY <2>1, <2>3, <2>4, <3>3 DEF Recent
      <3> QED
        BY <3>2, <3>3
    <2>5. ASSUME cache # Nothing, NEW i \in DOMAIN cache.keys
          PROVE  /\ lastServed'[cache.keys[i]] # Never
                 /\ cache.fetchedAt <= lastServed'[cache.keys[i]] + MaxDelay
      <3>1. cache.keys \in Seq(Keys) /\ cache.fetchedAt \in Nat /\ cache.fetchedAt <= now
        BY <2>5 DEF Timely, Typed, TypeOK, ConstantsAssumption
      <3>2. cache.keys[i] \in Keys
        BY <2>5, <3>1
      <3>3. cache.fetchedAt <= now + MaxDelay
        BY <2>2, <3>1
      <3> QED
        BY <2>1, <2>2, <2>5, <3>2, <3>3 DEF Dated
    <2>6. ASSUME NEW h \in Requests, answer[h] # Nothing, NEW i \in DOMAIN answer[h].keys
          PROVE  lastServed'[answer[h].keys[i]] # Never /\ answer[h].at <= lastServed'[answer[h].keys[i]]
      <3>1. answer[h].keys \in Seq(Keys) /\ answer[h].at \in Nat /\ answer[h].at <= now
        BY <2>6 DEF Timely, Typed, TypeOK, ConstantsAssumption
      <3>2. answer[h].keys[i] \in Keys
        BY <2>6, <3>1
      <3> QED
        BY <2>1, <2>2, <2>6, <3>1, <3>2 DEF Dated, ServedSince
    <2> QED
      BY <2>3, <2>4, <2>5, <2>6 DEF Dated, ServedSince, At, Jwt
  <1>2. CASE Recycle
    <2>1. cache' = Nothing /\ \A h \in Requests : answer'[h] = Nothing /\ pc'[h] = "idle"
      BY <1>2 DEF Recycle
    <2> QED
      BY <2>1 DEF Dated, At
  <1>3. CASE Tick \/ UNCHANGED vars
    <2>1. UNCHANGED <<served, lastServed, cache, pc, call, found, answer, since>>
      BY <1>3 DEF Tick, vars, keyVars
    <2> QED
      BY <2>1 DEF Dated, ServedSince, Serves, Recent, At, Jwt
  <1> QED
    BY <1>1, <1>2, <1>3

\* The keys an isolate holds were served: those of its cache up to one fetch
\* before they were stored, those a request checks with while it was there
\* (auth.ts:474-479, :528-566).
THEOREM DatedInvariant == Spec => []Dated
  <1>1. Init => Dated
    <2> SUFFICES ASSUME Init
                 PROVE  Dated
      OBVIOUS
    <2>1. cache = Nothing /\ \A h \in Requests : answer[h] = Nothing /\ pc[h] = "idle"
      BY DEF Init
    <2> QED
      BY <2>1 DEF Dated, At
  <1>2. Typed /\ Timely /\ Dated /\ [Next]_vars => Dated'
    BY StepDated, EnvironmentDated, ConstantsAssumption DEF Next
  <1> QED
    BY <1>1, <1>2, TimelyInvariant, PTL DEF Spec

\* A withdrawn key is good for the life of a cache entry and one fetch at most,
\* however the refreshes of an isolate overlap (auth.ts:474-479).
THEOREM WithdrawnKeyHolds == Spec => []WithdrawnKeyExpires
  <1>1. Dated => WithdrawnKeyExpires
    BY DEF Dated, Recent, WithdrawnKeyExpires
  <1> QED
    BY <1>1, DatedInvariant, PTL

-----------------------------------------------------------------------------
(* A served key is not refused.                                            *)

\* Every answer and every second check of a request whose key was served all
\* along has that key.
Steady ==
    \A h \in Requests : steady[h] =>
        /\ Jwt(h).signer \in Keys
        /\ KeyForJwt(served, Jwt(h)) = Jwt(h).signer
        /\ answer[h] # Nothing => KeyForJwt(answer[h].keys, Jwt(h)) = Jwt(h).signer
        /\ At(h, "reverify") => found[h] = Jwt(h).signer
        /\ At(h, "refused") => why[h] # "signature"

LEMMA StepSteady ==
    ASSUME ConstantsAssumption, TokensAssumption, Typed, Timely, Steady, NEW h \in Requests, Step(h)
    PROVE  Steady'
  <1>1. UNCHANGED served
    BY StepAlone
  <1>2. \A g \in Requests : g # h =>
          /\ pc'[g] = pc[g] /\ call'[g] = call[g] /\ found'[g] = found[g]
          /\ answer'[g] = answer[g] /\ steady'[g] = steady[g] /\ why'[g] = why[g]
    BY StepAlone
  <1>3. /\ DOMAIN steady = Requests /\ DOMAIN pc = Requests /\ DOMAIN why = Requests
        /\ DOMAIN found = Requests /\ DOMAIN answer = Requests /\ DOMAIN call = Requests
    BY DEF Typed, TypeOK
  <1>4. ASSUME steady'[h]
        PROVE  /\ Jwt(h)'.signer \in Keys
               /\ KeyForJwt(served, Jwt(h)') = Jwt(h)'.signer
               /\ answer'[h] # Nothing => KeyForJwt(answer'[h].keys, Jwt(h)') = Jwt(h)'.signer
               /\ pc'[h] = "reverify" => found'[h] = Jwt(h)'.signer
               /\ pc'[h] = "refused" => why'[h] # "signature"
    <2>1. CASE Arrive(h)
      <3>1. PICK c \in Env.clients :
              /\ call' = [call EXCEPT ![h] = c]
              /\ steady' = [steady EXCEPT ![h] =
                              /\ Credential(c) \notin {Absent, Blank, Malformed}
                              /\ KeyForJwt(served, Credential(c)) = Credential(c).signer]
              /\ IF Env.readonly /\ c.method \notin SafeMethods
                 THEN Refuse(h, "readonly")
                 ELSE Goto(h, "admit") /\ UNCHANGED why
        BY <2>1 DEF Arrive
      <3>2. c \in Calls
        BY DEF Env, ConstantsAssumption, Typed, TypeOK
      <3>3. Jwt(h)' = Credential(c)
        BY <1>3, <3>1 DEF Jwt
      <3>4. /\ Credential(c) \notin {Absent, Blank, Malformed}
            /\ KeyForJwt(served, Credential(c)) = Credential(c).signer
        BY <1>3, <1>4, <3>1, Zenon
      <3>5. answer'[h] = Nothing
        BY <2>1, FetchBegins DEF Arrive, Answered, At, Fetching
      <3>6. pc'[h] = "admit" \/ (pc'[h] = "refused" /\ why'[h] = "readonly")
        BY <1>3, <3>1 DEF Refuse, Goto
      <3> QED
        BY <3>2, <3>3, <3>4, <3>5, <3>6 DEF TokensAssumption
    <2>2. CASE Done(h)
      BY <1>3, <1>4, <2>2 DEF Done
    <2>3. ASSUME ~Arrive(h), ~Done(h)
          PROVE  /\ UNCHANGED steady /\ Jwt(h)' = Jwt(h)
                 /\ Jwt(h).signer \in Keys /\ Jwt(h).signer # NoKey
                 /\ KeyForJwt(served, Jwt(h)) = Jwt(h).signer
                 /\ answer[h] # Nothing => KeyForJwt(answer[h].keys, Jwt(h)) = Jwt(h).signer
                 /\ pc[h] = "reverify" => found[h] = Jwt(h).signer
      <3>1. UNCHANGED <<steady, call>>
        BY <2>3 DEF Step, Admit, Answered, FetchFailed, Apply, Verify, Reverify
      <3>2. Jwt(h)' = Jwt(h)
        BY <3>1 DEF Jwt
      <3> QED
        BY <1>4, <3>1, <3>2 DEF Steady, ConstantsAssumption, At
    <2>4. CASE Admit(h)
      <3>1. answer'[h] = Nothing
        BY <2>4, FetchBegins DEF Admit, Answered, At, Fetching
      <3>2. pc'[h] # "reverify" /\ (pc'[h] = "refused" => why'[h] # "signature")
        BY <1>3, <2>4 DEF Admit, Refuse, Goto, Fetch, CheckWith, RefetchMissing
      <3> QED
        BY <2>3, <2>4, <3>1, <3>2 DEF Admit, Arrive, Done, At
    <2>5. CASE Answered(h)
      <3>1. answer'[h].keys = served /\ pc'[h] = pc[h] /\ pc[h] \in Fetching
        BY <1>3, <2>5 DEF Answered
      <3> QED
        BY <2>3, <2>5, <3>1 DEF Arrive, Done, At, Fetching
    <2>6. CASE FetchFailed(h)
      <3>1. answer'[h] = Nothing /\ pc'[h] = "refused" /\ why'[h] = "fetch"
        BY <1>3, <2>6 DEF FetchFailed, Refuse, Goto
      <3> QED
        BY <2>3, <2>6, <3>1 DEF FetchFailed, Arrive, Done, At, Fetching
    <2>7. CASE Apply(h)
      <3>1. ~Arrive(h) /\ ~Done(h) /\ answer[h] # Nothing /\ answer'[h] = Nothing
        BY <1>3, <2>7 DEF Apply, Arrive, Done, At, Fetching
      <3>2. KeyForJwt(answer[h].keys, Jwt(h)) = Jwt(h).signer /\ Jwt(h).signer # NoKey
        BY <2>3, <3>1
      <3>3. /\ pc'[h] = "refused" => why'[h] = "fetch"
            /\ pc'[h] = "reverify" => found'[h] = Jwt(h).signer
        BY <1>3, <2>7, <3>2 DEF Apply, Refuse, Goto, Fetch, CheckWith, RefetchMissing
      <3> QED
        BY <2>3, <3>1, <3>3
    <2>8. CASE Verify(h)
      <3>1. answer'[h] = Nothing /\ ~Arrive(h) /\ ~Done(h)
        BY <2>8, FetchBegins DEF Verify, Answered, Arrive, Done, At, Fetching
      <3>2. pc'[h] # "reverify" /\ (pc'[h] = "refused" => why'[h] # "signature")
        BY <1>3, <2>8, ConcludeOutcome DEF Verify, Fetch, Goto
      <3> QED
        BY <2>3, <3>1, <3>2
    <2>9. CASE Reverify(h)
      <3>1. answer'[h] = Nothing /\ ~Arrive(h) /\ ~Done(h) /\ pc[h] = "reverify"
        BY <2>9, FetchBegins DEF Reverify, Answered, Arrive, Done, At, Fetching
      <3>2. found[h] = Jwt(h).signer
        BY <2>3, <3>1
      <3>3. Conclude(h)
        BY <2>9, <3>2 DEF Reverify
      <3> QED
        BY <2>3, <3>1, <3>3, ConcludeOutcome
    <2> QED
      BY <2>1, <2>2, <2>4, <2>5, <2>6, <2>7, <2>8, <2>9 DEF Step
  <1>5. \A g \in Requests : g # h => Jwt(g)' = Jwt(g)
    BY <1>2 DEF Jwt
  <1> QED
    BY <1>1, <1>2, <1>4, <1>5 DEF Steady, At

LEMMA EnvironmentSteady ==
    ASSUME Typed, Steady, Rotate \/ Recycle \/ Tick \/ UNCHANGED vars
    PROVE  Steady'
  <1>1. CASE Rotate
    <2>1. UNCHANGED <<pc, call, found, answer, why>>
      BY <1>1 DEF Rotate
    <2>2. \A h \in Requests :
            steady'[h] => steady[h] /\ KeyForJwt(served', Jwt(h)) = Jwt(h).signer
      BY <1>1, Zenon DEF Rotate
    <2>3. \A h \in Requests : Jwt(h)' = Jwt(h)
      BY <2>1 DEF Jwt
    <2> QED
      BY <2>1, <2>2, <2>3 DEF Steady, At
  <1>2. CASE Recycle
    BY <1>2 DEF Recycle, Steady
  <1>3. CASE Tick \/ UNCHANGED vars
    <2>1. UNCHANGED <<served, pc, call, found, answer, steady, why>>
      BY <1>3 DEF Tick, vars, keyVars
    <2>2. \A h \in Requests : Jwt(h)' = Jwt(h)
      BY <2>1 DEF Jwt
    <2> QED
      BY <2>1, <2>2 DEF Steady, At
  <1> QED
    BY <1>1, <1>2, <1>3

\* A token whose key the endpoint serves all along is not refused for its key or
\* its signature (auth.ts:528-566).
THEOREM ServedKeyHolds == Spec => []ServedKeyNotRefused
  <1>1. Init => Steady
    BY DEF Init, Steady
  <1>2. Typed /\ Timely /\ Steady /\ [Next]_vars => Steady'
    BY StepSteady, EnvironmentSteady, ConstantsAssumption, TokensAssumption DEF Next
  <1>3. Steady => ServedKeyNotRefused
    BY DEF Steady, ServedKeyNotRefused
  <1> QED
    BY <1>1, <1>2, <1>3, TimelyInvariant, PTL DEF Spec

-----------------------------------------------------------------------------
(* What a handler may count on.                                            *)

\* A request gets past the guards in the order the code has them.
Guarded ==
    \A h \in Requests :
        /\ ~At(h, "idle") /\ ~At(h, "refused") =>
             ~Env.readonly \/ call[h].method \in SafeMethods
        /\ At(h, "handled") =>
             /\ ScopesFor(call[h].path) \subseteq Jwt(h).scopes
             /\ CookieGuardPasses(call[h])
             /\ Registered(call[h])

\* A handler is only reached from a check of the signature.
LEMMA HandledFrom ==
    ASSUME Typed, NEW h \in Requests, Step(h), pc'[h] = "handled", pc[h] # "handled"
    PROVE  Conclude(h) /\ UNCHANGED <<now, call>>
  <1>1. pc \in [Requests -> Labels]
    BY DEF Typed, TypeOK
  <1>2. CASE Verify(h)
    BY <1>1, <1>2 DEF Verify, Fetch, Goto
  <1>3. CASE Reverify(h)
    BY <1>1, <1>3 DEF Reverify, Refuse, Goto
  <1>4. CASE Arrive(h) \/ Admit(h) \/ FetchFailed(h) \/ Answered(h) \/ Apply(h) \/ Done(h)
    BY <1>1, <1>4
    DEF Arrive, Admit, FetchFailed, Answered, Apply, Done, Refuse, Goto, Fetch,
        CheckWith, RefetchMissing
  <1> QED
    BY <1>2, <1>3, <1>4 DEF Step

LEMMA StepGuarded ==
    ASSUME Typed, Guarded, NEW h \in Requests, Step(h)
    PROVE  Guarded'
  <1>1. /\ UNCHANGED env
        /\ \A g \in Requests : g # h => pc'[g] = pc[g] /\ call'[g] = call[g]
    BY StepAlone
  <1>2. DOMAIN pc = Requests /\ DOMAIN call = Requests
    BY DEF Typed, TypeOK
  <1>3. pc'[h] # "idle" /\ pc'[h] # "refused" =>
          ~Env.readonly \/ call'[h].method \in SafeMethods
    <2>1. CASE Arrive(h)
      BY <1>2, <2>1 DEF Arrive, Refuse, Goto
    <2>2. CASE Done(h)
      BY <1>2, <2>2 DEF Done, Goto
    <2>3. CASE ~Arrive(h) /\ ~Done(h)
      <3>1. UNCHANGED call
        BY <2>3 DEF Step, Admit, Answered, FetchFailed, Apply, Verify, Reverify
      <3>2. pc[h] # "idle" /\ (pc[h] = "refused" => pc'[h] = "refused")
        BY <2>3 DEF Step, Admit, Answered, FetchFailed, Apply, Verify, Reverify, At, Fetching
      <3> QED
        BY <3>1, <3>2 DEF Guarded, At
    <2> QED
      BY <2>1, <2>2, <2>3
  <1>4. pc'[h] = "handled" =>
          /\ UNCHANGED call
          /\ ScopesFor(call[h].path) \subseteq Jwt(h).scopes
          /\ CookieGuardPasses(call[h])
          /\ Registered(call[h])
    <2>1. CASE pc[h] = "handled"
      BY <1>2, <2>1
      DEF Step, Arrive, Admit, Answered, FetchFailed, Apply, Verify, Reverify, Done, Goto, At, Fetching
    <2>2. CASE pc[h] # "handled"
      BY <2>2, HandledFrom, ConcludeOutcome
    <2> QED
      BY <2>1, <2>2
  <1>5. Env' = Env
    BY <1>1 DEF Env
  <1>6. \A p : ScopesFor(p)' = ScopesFor(p)
    BY <1>5 DEF ScopesFor, RequiredScopes
  <1>7. \A c : CookieGuardPasses(c)' <=> CookieGuardPasses(c)
    BY <1>5 DEF CookieGuardPasses, MutationGuardsPass, OriginAllowed
  <1>8. \A g \in Requests : g # h => Jwt(g)' = Jwt(g)
    BY <1>1 DEF Jwt
  <1>9. UNCHANGED call => Jwt(h)' = Jwt(h)
    BY DEF Jwt
  <1> QED
    BY <1>1, <1>3, <1>4, <1>5, <1>6, <1>7, <1>8, <1>9 DEF Guarded, At

LEMMA EnvironmentGuarded ==
    ASSUME Guarded, Rotate \/ Recycle \/ Tick \/ UNCHANGED vars
    PROVE  Guarded'
  <1>1. CASE Recycle
    BY <1>1 DEF Recycle, Guarded, At
  <1>2. CASE Rotate \/ Tick \/ UNCHANGED vars
    <2>1. UNCHANGED <<env, pc, call>>
      BY <1>2 DEF Rotate, Tick, vars
    <2> QED
      BY <2>1 DEF Guarded, At, Env, Jwt, ScopesFor, RequiredScopes, CookieGuardPasses,
                  MutationGuardsPass, OriginAllowed
  <1> QED
    BY <1>1, <1>2

LEMMA GuardedSuffices ==
    ASSUME Guarded
    PROVE  MutationsGuarded
  <1> SUFFICES ASSUME NEW h \in Requests, At(h, "handled"), call[h].method = "POST"
               PROVE  /\ ~Env.readonly
                      /\ IF call[h].path \in ApiSharePaths
                         THEN RequiredScopes(Env.share) \subseteq Jwt(h).scopes
                         ELSE RequiredScopes(Env.write) \subseteq Jwt(h).scopes
                      /\ call[h].header = Absent => OriginAllowed(call[h]) /\ call[h].csrf
    BY DEF MutationsGuarded
  <1>1. call[h].path \in ApiWritePaths \union {"share/create", "share/revoke"}
    BY DEF Guarded, Registered, SafeMethods
  <1>2. ~Env.readonly
    BY DEF Guarded, SafeMethods, At
  <1>3. /\ call[h].path \notin ApiReadPaths
        /\ call[h].path \in ApiSharePaths <=> call[h].path \notin ApiWritePaths
        /\ call[h].path \in ApiMutationPaths
    BY <1>1 DEF ApiReadPaths, ApiSharePaths, ApiWritePaths, ApiMutationPaths
  <1>4. IF call[h].path \in ApiSharePaths
        THEN RequiredScopes(Env.share) \subseteq Jwt(h).scopes
        ELSE RequiredScopes(Env.write) \subseteq Jwt(h).scopes
    BY <1>3 DEF Guarded, ScopesFor
  <1>5. call[h].header = Absent => OriginAllowed(call[h]) /\ call[h].csrf
    BY <1>3 DEF Guarded, CookieGuardPasses, Source, MutationGuardsPass
  <1> QED
    BY <1>2, <1>4, <1>5

\* A handler that writes runs in a read-write deployment, with the scopes of its
\* route, and on a cookie's word only from an allowed origin with the csrf
\* header, for any deployment and any requests (middleware.ts:97-126).
THEOREM MutationsHold == Spec => []MutationsGuarded
  <1>1. Init => Guarded
    BY DEF Init, Guarded, At
  <1>2. Typed /\ Guarded /\ [Next]_vars => Guarded'
    BY StepGuarded, EnvironmentGuarded DEF Next
  <1> QED
    BY <1>1, <1>2, GuardedSuffices, TypedInvariant, PTL DEF Spec

\* No handler starts for a token that is out of its validity by then, however
\* long the fetches before it took (auth.ts:367-378).
THEOREM HandledInTimeHolds == Spec => HandledInTime
  <1>1. ASSUME Typed, [Next]_vars
        PROVE  [\A h \in Requests :
                 ~At(h, "handled") /\ pc'[h] = "handled" =>
                    /\ Jwt(h).exp + ClockSkew > now
                    /\ Jwt(h).nbf <= now + ClockSkew]_vars
    <2> SUFFICES ASSUME NEW h \in Requests, pc[h] # "handled", pc'[h] = "handled"
                 PROVE  Jwt(h).exp + ClockSkew > now /\ Jwt(h).nbf <= now + ClockSkew
      BY DEF At
    <2>1. Step(h)
      <3>1. CASE \E g \in Requests : Step(g)
        BY <1>1, <3>1, StepAlone
      <3>2. CASE Rotate \/ Recycle \/ Tick \/ UNCHANGED vars
        BY <3>2 DEF Rotate, Recycle, Tick, vars
      <3> QED
        BY <1>1, <3>1, <3>2 DEF Next
    <2> QED
      BY <1>1, <2>1, HandledFrom, ConcludeOutcome DEF ClaimsHold
  <1>2. Typed /\ [Next]_vars => [\A h \in Requests :
                 ~At(h, "handled") /\ pc'[h] = "handled" =>
                    /\ Jwt(h).exp + ClockSkew > now
                    /\ Jwt(h).nbf <= now + ClockSkew]_vars
    BY <1>1
  <1> QED
    BY <1>2, TypedInvariant, PTL DEF Spec, HandledInTime
=============================================================================
