----------------------------- MODULE ApiAccess -----------------------------
(***************************************************************************)
(* A request's way to a handler of /api/v2: the readonly guard, Cloudflare *)
(* Access authentication with the signing keys one isolate caches, claims, *)
(* scopes, and the Origin/CSRF guard of cookie-carried credentials.        *)
(*                                                                         *)
(* Grain of atomicity.  A request gives way where it awaits its body, a    *)
(* fetch of the signing keys or a signature check; what it runs up to the  *)
(* next await is one step.  A fetch takes two: the endpoint answers with   *)
(* what it serves then, and the answer is applied when it arrives, which   *)
(* is when the code takes the age of the entry from.                       *)
(***************************************************************************)
EXTENDS Naturals, Sequences, FiniteSets

CONSTANTS
    Requests,     \* slots for concurrent requests of the isolate
    Keys,         \* key material
    Kids,         \* key ids
    Kid,          \* the "kid" a key is published under
    Alg,          \* the algorithm a key is for
    Usable,       \* the keys crypto.subtle can import
    KeySets,      \* the JWKS documents the endpoint may serve
    Algorithms,   \* RS256 and EdDSA
    Calls,        \* the requests a client may send
    Deployments,  \* the deployments
    Variables,    \* the Worker variables, JWKS documents and clients of each
    NoKid,        \* a token without a kid
    NoKey,        \* no key was found
    Absent,       \* a header or cookie that is not there
    Blank,        \* one that is there and empty
    Malformed,    \* one that holds no JWT
    NoOrigin,     \* no Origin header, or one that is not a web origin
    NoIssuer,     \* a team domain or JWKS URL that is missing or invalid
    Nothing,      \* no cache entry, no answer, no call
    Never,        \* when a key that was never served was last served
    Ttl,          \* R2E_ACCESS_JWKS_CACHE_TTL_SEC, in ticks
    ClockSkew,    \* R2E_ACCESS_CLOCK_SKEW_SEC, in ticks
    MaxDelay,     \* ticks within which a fetch of the keys ends
    MaxTime       \* bound on the clock

ASSUME ConstantsAssumption ==
    /\ Kid \in [Keys -> Kids \union {NoKid}]
    /\ Usable \subseteq Keys
    /\ KeySets \subseteq Seq(Keys)
    /\ \A d \in Deployments :
         /\ Variables[d].documents \subseteq KeySets
         /\ Variables[d].clients \subseteq Calls
    /\ NoKey \notin Keys
    /\ Nothing \notin Calls
    /\ Never \notin Nat
    /\ Ttl \in Nat \ {0}
    /\ ClockSkew \in Nat
    /\ MaxDelay \in Nat
    /\ MaxTime \in Nat

VARIABLES
    env,         \* the deployment (constant for an isolate)
    now,         \* the clock
    served,      \* the document the JWKS endpoint serves
    lastServed,  \* history: when a key was last in it
    cache,       \* authSigningKeyCache: keys and when they were stored
    pc,          \* where a request is
    call,        \* what it asked
    found,       \* the key it checks the signature with
    answer,      \* the document on its way to it, and when it was read
    begun,       \* when its fetch began, 0 when it has none
    since,       \* history: when the request began
    steady,      \* history: the endpoint served its token's key all along
    why          \* why it was refused

keyVars == <<served, lastServed>>
vars == <<env, now, served, lastServed, cache, pc, call, found, answer, begun, since, steady, why>>

Fetching == {"fetch.first", "fetch.missing", "fetch.retry"}
Labels == {"idle", "admit", "verify", "reverify", "handled", "refused"} \union Fetching
Reasons == {"", "readonly", "access", "config", "token", "fetch", "signature",
            "claims", "scope", "principal", "csrf", "notfound"}

-----------------------------------------------------------------------------
(* Routes and what the deployment asks of them.                            *)

Env == Variables[env]

ApiReadPaths == {"list", "meta", "download", "preview", "auth/bootstrap",
                 "server/info", "session/info"}

ApiWritePaths == {"upload/init", "upload/sign-part", "upload/complete",
                  "upload/abort", "object/delete", "object/move"}

ApiSharePaths == {"share/create", "share/revoke", "share/list"}

\* Mutant: a mutating route is missing from the list the cookie guard goes by.
ApiMutationPathsShort == ApiWritePaths \union {"share/create"}

ApiMutationPaths == ApiWritePaths \union {"share/create", "share/revoke"}

SafeMethods == {"GET", "HEAD"}

\* A method and a path some handler is registered for.
Registered(c) ==
    \/ c.method \in SafeMethods /\ c.path \in ApiReadPaths \union {"share/list"}
    \/ c.method = "POST" /\ c.path \in ApiWritePaths \union {"share/create", "share/revoke"}

\* A specific list of scopes replaces the generic one.
RequiredScopes(specific) == IF specific # {} THEN specific ELSE Env.generic

ScopesFor(path) ==
    CASE path \in ApiReadPaths  -> RequiredScopes(Env.read)
      [] path \in ApiWritePaths -> RequiredScopes(Env.write)
      [] OTHER                  -> RequiredScopes(Env.share)

\* The header wins over the cookie, even when it is empty.
Source(c) == IF c.header # Absent THEN "access_header" ELSE "access_cookie"

Credential(c) == IF c.header # Absent THEN c.header ELSE c.cookie

Jwt(h) == Credential(call[h])

\* A token in JWT form was signed with some key, the endpoint's or another.
ASSUME TokensAssumption ==
    \A c \in Calls :
        Credential(c) \notin {Absent, Blank, Malformed} => Credential(c).signer \in Keys

\* The numbers are the skew and the lifetime of the cache.
AccessConfigured == Env.issuer # NoIssuer /\ Env.audiences # {} /\ Env.numbersValid

\* Mutant: a token is good at the very second it expires.
ClaimsHoldAtExpiry(t) ==
    /\ t.issuer = Env.issuer
    /\ t.audiences \cap Env.audiences # {}
    /\ t.exp + ClockSkew >= now
    /\ t.nbf <= now + ClockSkew

ClaimsHold(t) ==
    /\ t.issuer = Env.issuer
    /\ t.audiences \cap Env.audiences # {}
    /\ t.exp + ClockSkew > now
    /\ t.nbf <= now + ClockSkew

\* An entry of the allowlist that is no origin fails every request it guards.
OriginAllowed(c) ==
    /\ c.origin # NoOrigin
    /\ NoOrigin \notin Env.origins
    /\ c.origin \in (IF Env.origins = {} THEN {c.host} ELSE Env.origins)

MutationGuardsPass(c) == OriginAllowed(c) /\ c.csrf

CookieGuardPasses(c) ==
    \/ c.method # "POST"
    \/ c.path \notin ApiMutationPaths
    \/ Source(c) # "access_cookie"
    \/ MutationGuardsPass(c)

-----------------------------------------------------------------------------
(* The signing keys.                                                       *)

ImportedAt(keys, t) ==
    {i \in DOMAIN keys : keys[i] \in Usable /\ Alg[keys[i]] = t.alg}

\* Of the keys under one kid the last one imported stays in the map.
ByKid(keys, t) == {i \in ImportedAt(keys, t) : Kid[keys[i]] = t.kid}

KeyForJwt(keys, t) ==
    IF t.kid # NoKid
    THEN IF ByKid(keys, t) = {} THEN NoKey
         ELSE keys[CHOOSE i \in ByKid(keys, t) : \A j \in ByKid(keys, t) : j <= i]
    ELSE IF ImportedAt(keys, t) = {} THEN NoKey
         ELSE keys[CHOOSE i \in ImportedAt(keys, t) : \A j \in ImportedAt(keys, t) : i <= j]

\* No key of a supported algorithm can be imported.
Unusable(keys) == \A i \in DOMAIN keys : keys[i] \notin Usable \/ Alg[keys[i]] \notin Algorithms

\* Mutant: an entry is served from a tick after it has lapsed, too.
CacheFreshTooLong == cache # Nothing /\ now <= cache.fetchedAt + Ttl + 1

CacheFresh == cache # Nothing /\ now < cache.fetchedAt + Ttl

-----------------------------------------------------------------------------
(* Steps.                                                                  *)

At(h, label) == pc[h] = label

Goto(h, label) == pc' = [pc EXCEPT ![h] = label]

Refuse(h, reason) ==
    /\ Goto(h, "refused")
    /\ why' = [why EXCEPT ![h] = reason]

\* A fetch of the keys begins.
Fetch(h, label) ==
    /\ Goto(h, label)
    /\ begun' = [begun EXCEPT ![h] = now]

Arrive(h) ==
    /\ At(h, "idle")
    /\ Cardinality({g \in Requests : ~At(g, "idle")}) < Env.atOnce
    /\ \E c \in Env.clients :
         /\ call' = [call EXCEPT ![h] = c]
         /\ steady' = [steady EXCEPT ![h] =
                         /\ Credential(c) \notin {Absent, Blank, Malformed}
                         /\ KeyForJwt(served, Credential(c)) = Credential(c).signer]
         /\ IF Env.readonly /\ c.method \notin SafeMethods
            THEN Refuse(h, "readonly")
            ELSE Goto(h, "admit") /\ UNCHANGED why
    /\ since' = [since EXCEPT ![h] = now]
    /\ UNCHANGED <<env, now, keyVars, cache, found, answer, begun>>

\* What validateAccessJwt does with a set of keys it got: check the signature
\* with the key it finds in it, or go on to the label for a missing key.
CheckWith(h, keys, label) ==
    /\ KeyForJwt(keys, Jwt(h)) # NoKey
    /\ found' = [found EXCEPT ![h] = KeyForJwt(keys, Jwt(h))]
    /\ Goto(h, label)
    /\ begun' = [begun EXCEPT ![h] = 0]
    /\ UNCHANGED why

RefetchMissing(h, keys) ==
    /\ KeyForJwt(keys, Jwt(h)) = NoKey
    /\ Fetch(h, "fetch.missing")
    /\ UNCHANGED <<found, why>>

\* The body has been read: find the credential, then the signing keys.
Admit(h) ==
    /\ At(h, "admit")
    /\ \/ Jwt(h) = Absent /\ Refuse(h, "access") /\ UNCHANGED <<found, begun>>
       \/ Jwt(h) = Blank /\ Refuse(h, "token") /\ UNCHANGED <<found, begun>>
       \/ /\ Jwt(h) \notin {Absent, Blank}
          /\ ~AccessConfigured
          /\ Refuse(h, "config")
          /\ UNCHANGED <<found, begun>>
       \/ /\ AccessConfigured
          /\ Jwt(h) = Malformed
          /\ Refuse(h, "token")
          /\ UNCHANGED <<found, begun>>
       \/ /\ AccessConfigured
          /\ Jwt(h) \notin {Absent, Blank, Malformed}
          /\ Jwt(h).alg \notin Algorithms
          /\ Refuse(h, "token")
          /\ UNCHANGED <<found, begun>>
       \/ /\ AccessConfigured
          /\ Jwt(h) \notin {Absent, Blank, Malformed}
          /\ Jwt(h).alg \in Algorithms
          /\ IF CacheFresh
             THEN \/ CheckWith(h, cache.keys, "verify")
                  \/ RefetchMissing(h, cache.keys)
             ELSE Fetch(h, "fetch.first") /\ UNCHANGED <<found, why>>
    /\ UNCHANGED <<env, now, keyVars, cache, call, answer, since, steady>>

Answered(h) ==
    /\ pc[h] \in Fetching
    /\ answer[h] = Nothing
    /\ answer' = [answer EXCEPT ![h] = [keys |-> served, at |-> now]]
    /\ UNCHANGED <<env, now, keyVars, cache, pc, call, found, begun, since, steady, why>>

\* The endpoint cannot be reached, or answers with an error or no key list.
FetchFailed(h) ==
    /\ pc[h] \in Fetching
    /\ Refuse(h, "fetch")
    /\ answer' = [answer EXCEPT ![h] = Nothing]
    /\ begun' = [begun EXCEPT ![h] = 0]
    /\ UNCHANGED <<env, now, keyVars, cache, call, found, since, steady>>

\* Mutant: the entry is stored without the time it was fetched at.
StoreUndated(h) == cache' = [keys |-> answer[h].keys, fetchedAt |-> Never]

Store(h) == cache' = [keys |-> answer[h].keys, fetchedAt |-> now]

\* The answer is applied whatever has been cached since its fetch began.
Apply(h) ==
    /\ pc[h] \in Fetching
    /\ answer[h] # Nothing
    /\ answer' = [answer EXCEPT ![h] = Nothing]
    /\ \/ /\ Unusable(answer[h].keys)
          /\ Refuse(h, "fetch")
          /\ begun' = [begun EXCEPT ![h] = 0]
          /\ UNCHANGED <<cache, found>>
       \/ /\ ~Unusable(answer[h].keys)
          /\ Store(h)
          /\ LET keys == answer[h].keys IN
             \/ At(h, "fetch.first") /\ RefetchMissing(h, keys)
             \/ pc[h] \in {"fetch.first", "fetch.missing"} /\ CheckWith(h, keys, "verify")
             \/ At(h, "fetch.retry") /\ CheckWith(h, keys, "reverify")
             \/ /\ pc[h] \in {"fetch.missing", "fetch.retry"}
                /\ KeyForJwt(keys, Jwt(h)) = NoKey
                /\ Refuse(h, "signature")
                /\ begun' = [begun EXCEPT ![h] = 0]
                /\ UNCHANGED found
    /\ UNCHANGED <<env, now, keyVars, call, since, steady>>

\* With a good signature: claims, scopes, a principal, the cookie guard and
\* the handler, without an await in between.
Conclude(h) ==
    LET t == Jwt(h)
        c == call[h]
    IN  \/ ~ClaimsHold(t) /\ Refuse(h, "claims")
        \/ ClaimsHold(t) /\ ~(ScopesFor(c.path) \subseteq t.scopes) /\ Refuse(h, "scope")
        \/ /\ ClaimsHold(t)
           /\ ScopesFor(c.path) \subseteq t.scopes
           /\ \/ ~t.principal /\ Refuse(h, "principal")
              \/ t.principal /\ ~CookieGuardPasses(c) /\ Refuse(h, "csrf")
              \/ /\ t.principal
                 /\ CookieGuardPasses(c)
                 /\ IF Registered(c) THEN Goto(h, "handled") /\ UNCHANGED why
                                     ELSE Refuse(h, "notfound")

\* Mutant: a bad signature is final, whatever the age of the keys.
VerifyOnce(h) ==
    /\ At(h, "verify")
    /\ IF found[h] = Jwt(h).signer THEN Conclude(h) ELSE Refuse(h, "signature")
    /\ UNCHANGED <<env, now, keyVars, cache, call, found, answer, begun, since, steady>>

Verify(h) ==
    /\ At(h, "verify")
    /\ IF found[h] = Jwt(h).signer
       THEN Conclude(h) /\ UNCHANGED begun
       ELSE Fetch(h, "fetch.retry") /\ UNCHANGED why
    /\ UNCHANGED <<env, now, keyVars, cache, call, found, answer, since, steady>>

Reverify(h) ==
    /\ At(h, "reverify")
    /\ IF found[h] = Jwt(h).signer THEN Conclude(h) ELSE Refuse(h, "signature")
    /\ UNCHANGED <<env, now, keyVars, cache, call, found, answer, begun, since, steady>>

\* The response is sent; the slot is free for another request.
Done(h) ==
    /\ pc[h] \in {"handled", "refused"}
    /\ Goto(h, "idle")
    /\ call' = [call EXCEPT ![h] = Nothing]
    /\ found' = [found EXCEPT ![h] = NoKey]
    /\ begun' = [begun EXCEPT ![h] = 0]
    /\ since' = [since EXCEPT ![h] = 0]
    /\ steady' = [steady EXCEPT ![h] = FALSE]
    /\ why' = [why EXCEPT ![h] = ""]
    /\ UNCHANGED <<env, now, keyVars, cache, answer>>

\* The endpoint's owner rotates its keys.
Rotate ==
    /\ \E keys \in Env.documents \ {served} :
         /\ served' = keys
         /\ steady' = [h \in Requests |->
                         steady[h] /\ KeyForJwt(keys, Jwt(h)) = Jwt(h).signer]
    /\ lastServed' = [k \in Keys |-> IF \E i \in DOMAIN served : served[i] = k
                                     THEN now ELSE lastServed[k]]
    /\ UNCHANGED <<env, now, cache, pc, call, found, answer, begun, since, why>>

\* The isolate is recycled: cache and running requests are gone.
Recycle ==
    /\ cache' = Nothing
    /\ pc' = [h \in Requests |-> "idle"]
    /\ call' = [h \in Requests |-> Nothing]
    /\ found' = [h \in Requests |-> NoKey]
    /\ answer' = [h \in Requests |-> Nothing]
    /\ begun' = [h \in Requests |-> 0]
    /\ since' = [h \in Requests |-> 0]
    /\ steady' = [h \in Requests |-> FALSE]
    /\ why' = [h \in Requests |-> ""]
    /\ UNCHANGED <<env, now, keyVars>>

Tick ==
    /\ now < MaxTime
    /\ \A h \in Requests : pc[h] \in Fetching => now < begun[h] + MaxDelay
    /\ now' = now + 1
    /\ UNCHANGED <<env, keyVars, cache, pc, call, found, answer, begun, since, steady, why>>

Init ==
    /\ env \in Deployments
    /\ now = 0
    /\ served \in Env.documents
    /\ lastServed = [k \in Keys |-> Never]
    /\ cache = Nothing
    /\ pc = [h \in Requests |-> "idle"]
    /\ call = [h \in Requests |-> Nothing]
    /\ found = [h \in Requests |-> NoKey]
    /\ answer = [h \in Requests |-> Nothing]
    /\ begun = [h \in Requests |-> 0]
    /\ since = [h \in Requests |-> 0]
    /\ steady = [h \in Requests |-> FALSE]
    /\ why = [h \in Requests |-> ""]

Step(h) ==
    \/ Arrive(h) \/ Admit(h) \/ Answered(h) \/ FetchFailed(h) \/ Apply(h)
    \/ Verify(h) \/ Reverify(h) \/ Done(h)

Next == (\E h \in Requests : Step(h)) \/ Rotate \/ Recycle \/ Tick

Spec == Init /\ [][Next]_vars

-----------------------------------------------------------------------------
(* Properties.                                                             *)

\* Every variable holds values of its kind.
TypeOK ==
    /\ env \in Deployments
    /\ now \in Nat
    /\ served \in KeySets
    /\ lastServed \in [Keys -> Nat \union {Never}]
    /\ cache \in {Nothing} \union [keys : KeySets, fetchedAt : Nat]
    /\ pc \in [Requests -> Labels]
    /\ call \in [Requests -> Calls \union {Nothing}]
    /\ found \in [Requests -> Keys \union {NoKey}]
    /\ answer \in [Requests -> {Nothing} \union [keys : KeySets, at : Nat]]
    /\ begun \in [Requests -> Nat]
    /\ since \in [Requests -> Nat]
    /\ steady \in [Requests -> BOOLEAN]
    /\ why \in [Requests -> Reasons]

Serves(k) == \E i \in DOMAIN served : served[i] = k

\* A withdrawn key is good for the life of a cache entry and one fetch at
\* most: a request that began later never passes with it, although refreshes
\* overlap and an older answer may be stored over a newer one (auth.ts:474-479).
WithdrawnKeyExpires ==
    \A h \in Requests :
        At(h, "handled") =>
            \/ Serves(Jwt(h).signer)
            \/ /\ lastServed[Jwt(h).signer] # Never
               /\ since[h] < lastServed[Jwt(h).signer] + Ttl + MaxDelay

\* A token whose key the endpoint has served ever since the request began is
\* never refused for its key or its signature, whatever the isolate had cached
\* before and whatever other requests store meanwhile (auth.ts:528-566).
ServedKeyNotRefused ==
    \A h \in Requests : At(h, "refused") /\ why[h] = "signature" => ~steady[h]

\* A handler that writes runs in a read-write deployment only, for a token
\* with the scopes that are asked of that route, and on a cookie's word only
\* with an allowed origin and the csrf header (middleware.ts:97-126).
MutationsGuarded ==
    \A h \in Requests :
        At(h, "handled") /\ call[h].method = "POST" =>
            /\ ~Env.readonly
            /\ IF call[h].path \in ApiSharePaths
               THEN RequiredScopes(Env.share) \subseteq Jwt(h).scopes
               ELSE RequiredScopes(Env.write) \subseteq Jwt(h).scopes
            /\ call[h].header = Absent => OriginAllowed(call[h]) /\ call[h].csrf

\* No handler starts for a token that is out of its validity by then, however
\* long the fetches before it took (auth.ts:367-378).
HandledInTime ==
    [][\A h \in Requests :
         ~At(h, "handled") /\ pc'[h] = "handled" =>
            /\ Jwt(h).exp + ClockSkew > now
            /\ Jwt(h).nbf <= now + ClockSkew]_vars
=============================================================================
