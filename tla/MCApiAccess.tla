---------------------------- MODULE MCApiAccess ----------------------------
(* Instances of ApiAccess for TLC: keys and tokens of a rotation, and the  *)
(* requests that meet each guard.                                          *)
EXTENDS ApiAccess, TLC

CONSTANTS k1, k2, k3, k4, team, files, web, other

KidOf == [k \in Keys |-> IF k = k2 THEN "b" ELSE "a"]
AlgOf == [k \in Keys |-> "RS256"]

\* k1 is replaced by k2, and its key id is used again for k3.
Rotation == {<<k1>>, <<k2, k3>>}

Token(key, kid, exp, nbf) ==
    [alg |-> "RS256", kid |-> kid, signer |-> key, issuer |-> team,
     audiences |-> {files}, exp |-> exp, nbf |-> nbf, scopes |-> {"w"}, principal |-> TRUE]

Read(t) == [method |-> "GET", path |-> "list", header |-> t, cookie |-> Absent,
            origin |-> NoOrigin, host |-> web, csrf |-> FALSE]

KeyCalls == {Read(Token(k1, "a", 99, 0)), Read(Token(k2, "b", 99, 0))}

\* A document with a key that cannot be imported before one that can, and one
\* without a key that can.
OneUsable == {<<k4, k1>>, <<k4>>}

Good == Token(k1, "a", 2, 0)

Jwts == {Good, [Good EXCEPT !.scopes = {"x"}, !.kid = NoKid],
         [Good EXCEPT !.signer = k2, !.kid = "b"], [Good EXCEPT !.signer = k2],
         [Good EXCEPT !.nbf = 3],
         [Good EXCEPT !.alg = "none"], [Good EXCEPT !.issuer = other],
         [Good EXCEPT !.principal = FALSE]}

Post(path, header, cookie, origin, csrf) ==
    [method |-> "POST", path |-> path, header |-> header, cookie |-> cookie,
     origin |-> origin, host |-> web, csrf |-> csrf]

\* Every credential in both places, every origin with a cookie, every token on
\* routes of each kind, and a method nothing is registered for.
GuardCalls ==
    {Post("object/move", t, k, NoOrigin, FALSE) :
        t \in {Absent, Blank, Malformed, Good}, k \in {Absent, Good}}
    \union
    {Post(p, Absent, Good, o, x) :
        p \in {"object/move", "share/revoke"}, o \in {NoOrigin, web, other}, x \in BOOLEAN}
    \union
    {Post(p, t, Absent, NoOrigin, FALSE) : p \in {"upload/init", "share/create", "list"}, t \in Jwts}
    \union
    {[Read(t) EXCEPT !.path = p] : p \in {"list", "share/list"}, t \in {Absent, Good}}

Documents == Rotation \union OneUsable

AllCalls == KeyCalls \union GuardCalls

Plain ==
    [readonly |-> FALSE, read |-> {}, write |-> {}, share |-> {}, generic |-> {},
     issuer |-> team, audiences |-> {files}, numbersValid |-> TRUE, origins |-> {},
     documents |-> OneUsable,
     clients |-> GuardCalls, atOnce |-> 1]

\* Two reads at once across a rotation of the keys.
Rotating == [Plain EXCEPT !.documents = Rotation, !.clients = KeyCalls, !.atOnce = 2]

\* A deployment of each other kind, one request at a time: readonly,
\* unconfigured, with a generic scope and a specific one, with an allowlist.
VariablesOf ==
    [d \in Deployments |->
       CASE d = "plain"      -> Plain
         [] d = "rotating"   -> Rotating
         [] d = "readonly"   -> [Plain EXCEPT !.readonly = TRUE]
         [] d = "no issuer"  -> [Plain EXCEPT !.issuer = NoIssuer]
         [] d = "no number"  -> [Plain EXCEPT !.numbersValid = FALSE]
         [] d = "bad origin" -> [Plain EXCEPT !.origins = {other, NoOrigin}]
         [] d = "generic"    -> [Plain EXCEPT !.generic = {"w"}]
         [] d = "specific"   -> [Plain EXCEPT !.generic = {"w"}, !.write = {"x"}, !.origins = {other}]
         [] d = "share"      -> [Plain EXCEPT !.share = {"w"}, !.origins = {other}]]

RequestSymmetry == Permutations(Requests)
=============================================================================
