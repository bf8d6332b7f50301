---------------------------- MODULE RequestChain ----------------------------
(***************************************************************************)
(* One request through the handlers that app.Build composes for a route:   *)
(* the gateway-wide edge layers, chain.Skeleton with the gates in their    *)
(* slots, the plugins, IssueAssertion and the terminal handler; and back   *)
(* out, by returning or by a panic.                                        *)
(*                                                                         *)
(* What the request carries is chosen where it is first read.  A principal *)
(* is its subject, which a header can carry, and whether its groups and    *)
(* claims satisfy the route's require rule.                                *)
(***************************************************************************)
EXTENDS Naturals, Sequences

CONSTANTS Subject, None,
          Route      \* the configurations to look at

Principal == [sub : Subject, member : BOOLEAN]
Status == {"200", "302", "401", "403", "500", "502", "504", "plugin"}
Outcome == {"allow", "deny", "error"}

\* The names an assertion header can be given: the default one and another.
DefaultAssertionHeader == "X-Hog-Identity"
Name == {DefaultAssertionHeader, "own"}

\* The configuration: what Build reads of the gateway and of the route.  forwardIdentity: the
\* proxy, or a backend of the api handler, has it; override: the route's projection names a
\* header outside X-User-* for a claim or for the groups.
Config == [sess : BOOLEAN, idp : BOOLEAN, accept : {"off", "enrich", "alone"},
           type : {"app", "service"}, required : BOOLEAN,
           policies : {<<>>, <<"require">>, <<"rego">>, <<"require", "rego">>,
                       <<"rego", "require">>},
           redirect : BOOLEAN, forwardIdentity : BOOLEAN, override : BOOLEAN,
           issueHeader : Name, acceptHeader : Name]

ASSUME RequestChainAssumption ==
    /\ Route \subseteq Config
    /\ None \notin Subject \cup Principal \cup Status \cup Outcome \cup {"client"}

VARIABLES
    cfg,
    at, dir,       \* the handler that runs, and whether the request goes in or comes out
    principal,     \* the principal in the request's context
    cookie, token, \* the subjects the session cookie and the bearer token were valid for
    rego,          \* outcome of the rego policy, once it was evaluated
    user,          \* whose X-User-* headers the request has: "client" or a subject
    target,        \* whose value the header has that the projection names
    assertion,     \* per name, whose assertion the request has
    forwarded,     \* whose X-Forwarded-* headers: the client's or a trusted proxy's
    backend,       \* what the backend received
    panicked,
    status,        \* status sent to the client
    seen,          \* principal in the request the access log holds
    lines          \* access lines: the user of each

ctxVars == <<principal, cookie, token>>
hdrVars == <<user, target, assertion, forwarded>>
logVars == <<seen, lines>>
vars == <<cfg, at, dir, ctxVars, rego, hdrVars, backend, panicked, status, logVars>>

-----------------------------------------------------------------------------
(* Build                                                                   *)

When(b, s) == IF b THEN s ELSE <<>>

authActive(c) == c.sess \/ c.idp \/ c.accept # "off"

Accepts(c) == c.type = "service" /\ c.accept # "off"

\* What fills the session slot: the cookie, on a service route then the bearer token
\* and the peer's assertion.
SessionSlot(c) ==
    <<"session">> \o When(c.type = "service" /\ c.idp, <<"bearer">>)
                  \o When(Accepts(c), <<"assertion">>)

ChainWith(c, recover, gates, plugins) ==
    <<"forwarded", "security">> \o recover \o <<"access-log">> \o gates \o plugins
        \o When(c.forwardIdentity, <<"issue">>) \o <<"terminal">>

Gates(c) ==
    When(authActive(c), SessionSlot(c) \o <<"auth-gate">>)
        \o When(c.policies # <<>>, <<"authz">>)
        \o When(authActive(c), <<"projection">>)

Plugins == <<"request-plugin", "response-plugin">>

ChainNoRecover(c) == ChainWith(c, <<>>, Gates(c), Plugins)
ChainPluginsFirst(c) == ChainWith(c, <<"recover">>, Plugins, Gates(c))

\* The handlers in the order the request meets them: Skeleton, the plugins, the
\* issuer and the terminal, inside the edge layers.
Chain(c) == ChainWith(c, <<"recover">>, Gates(c), Plugins)

Handler == IF at \in 1 .. Len(Chain(cfg)) THEN Chain(cfg)[at] ELSE "client"

\* Who may have written a header.
Writer == Subject \cup {None, "client"}

BackendRequest ==
    [user : Writer, target : Writer, assertion : [Name -> Writer],
     forwarded : {None, "client", "proxy"}]

TypeOK ==
    /\ cfg \in Config
    /\ at \in 0 .. Len(Chain(cfg)) /\ dir \in {"in", "out", "panic"}
    /\ principal \in Principal \cup {None}
    /\ cookie \in Subject \cup {None} /\ token \in Subject \cup {None}
    /\ rego \in Outcome \cup {None}
    /\ user \in Writer /\ target \in Writer /\ assertion \in [Name -> Writer]
    /\ forwarded \in {None, "client", "proxy"}
    /\ backend \in BackendRequest \cup {None}
    /\ panicked \in BOOLEAN
    /\ status \in Status \cup {None}
    /\ seen \in Principal \cup {None}
    /\ lines \in Seq(Principal \cup {None}) /\ Len(lines) <= 1

\* A client sends all headers about who it is, or none, perhaps by way of a trusted proxy: no
\* handler reads one and acts on another.
Init ==
    /\ cfg \in Route
    /\ at = 1 /\ dir = "in"
    /\ principal = None /\ cookie = None /\ token = None
    /\ rego = None
    /\ \E sent \in {None, "client"} :
          /\ user = sent /\ target = sent /\ assertion = [n \in Name |-> sent]
          /\ forwarded \in {sent, "proxy"}
    /\ backend = None
    /\ panicked = FALSE
    /\ status = None
    /\ seen = None /\ lines = <<>>

-----------------------------------------------------------------------------
(* How a handler goes on                                                   *)

In(name) == dir = "in" /\ Handler = name

\* next.ServeHTTP
Pass == at' = at + 1 /\ UNCHANGED <<dir, status, panicked>>

\* Write a response and return.
Answer(code) ==
    /\ at' = at - 1 /\ dir' = "out"
    /\ status' = code
    /\ UNCHANGED panicked

Panic(sent) ==
    /\ at' = at - 1 /\ dir' = "panic"
    /\ status' = sent
    /\ panicked' = TRUE

-----------------------------------------------------------------------------
(* The edge layers                                                         *)

\* Forwarded: drop the forwarding headers of a peer that is not trusted.
Forwarded ==
    /\ In("forwarded")
    /\ forwarded' = IF forwarded = "proxy" THEN forwarded ELSE None
    /\ Pass
    /\ UNCHANGED <<cfg, ctxVars, rego, user, target, assertion, backend, logVars>>

\* The security layer: CrossOriginProtection may refuse the request.
Security ==
    /\ In("security")
    /\ Pass \/ Answer("403")
    /\ UNCHANGED <<cfg, ctxVars, rego, hdrVars, backend, logVars>>

Recover == In("recover") /\ Pass /\ UNCHANGED <<cfg, ctxVars, rego, hdrVars, backend, logVars>>

\* The access log, on the way in, keeps the request as it is here.
AccessLog ==
    /\ In("access-log")
    /\ seen' = principal
    /\ Pass
    /\ UNCHANGED <<cfg, ctxVars, rego, hdrVars, backend, lines>>

-----------------------------------------------------------------------------
(* The gates                                                               *)

\* SessionGate: the principal of a cookie the session manager accepts.
SessionGate ==
    /\ In("session")
    /\ \/ UNCHANGED ctxVars
       \/ /\ cfg.sess
          /\ \E p \in Principal : principal' = p /\ cookie' = p.sub
          /\ UNCHANGED token
    /\ Pass
    /\ UNCHANGED <<cfg, rego, hdrVars, backend, logVars>>

\* BearerGate: unless the cookie has resolved one, the principal of a valid token
\* that has a subject.
BearerGate ==
    /\ In("bearer")
    /\ \/ UNCHANGED ctxVars
       \/ /\ principal = None
          /\ \E p \in Principal : principal' = p /\ token' = p.sub
          /\ UNCHANGED cookie
    /\ Pass
    /\ UNCHANGED <<cfg, rego, hdrVars, backend, logVars>>

AssertionGateWhen(alone) ==
    /\ In("assertion")
    /\ assertion' = [assertion EXCEPT ![cfg.acceptHeader] = None]
    /\ \/ UNCHANGED principal
       \/ /\ assertion[cfg.acceptHeader] # None
          /\ \E a \in Principal :
                /\ IF principal # None THEN a.sub = principal.sub ELSE alone
                /\ principal' = a
    /\ Pass
    /\ UNCHANGED <<cfg, cookie, token, rego, user, target, forwarded, backend, logVars>>

AssertionGateAlone == AssertionGateWhen(TRUE)

\* AssertionGate: the header is removed; a valid assertion enriches the principal of
\* the same subject, or authenticates by itself where requireBearer is false.
AssertionGate == AssertionGateWhen(cfg.accept = "alone")

\* AuthGate: a navigation to an app route goes to the login path.
AuthGate ==
    /\ In("auth-gate")
    /\ IF cfg.required /\ principal = None
         THEN Answer("401") \/ (cfg.type = "app" /\ Answer("302"))
         ELSE Pass
    /\ UNCHANGED <<cfg, ctxVars, rego, hdrVars, backend, logVars>>

\* Satisfied(require, p): no principal satisfies no rule.
Satisfied(p) == p # None /\ p.member

\* Policy.Decision, outcome being that of the rego engine.
Denies(policy, outcome) ==
    IF policy = "require" THEN ~Satisfied(principal) ELSE outcome # "allow"

\* authz.Gate: the first policy that denies decides; on an app route a denial that is
\* no evaluation error may redirect.
AuthzGate ==
    /\ In("authz")
    /\ \E outcome \in Outcome :
        LET denying == {i \in DOMAIN cfg.policies : Denies(cfg.policies[i], outcome)}
            reached == {i \in DOMAIN cfg.policies : \A j \in denying : i <= j}
        IN  /\ rego' = IF \E i \in reached : cfg.policies[i] = "rego" THEN outcome ELSE None
            /\ \/ denying = {} /\ Pass
               \/ \E i \in denying :
                    /\ \A j \in denying : i <= j
                    /\ LET error == outcome = "error" /\ cfg.policies[i] = "rego"
                       IN  Answer(IF cfg.redirect /\ cfg.type = "app" /\ ~error
                                    THEN "302" ELSE "403")
    /\ UNCHANGED <<cfg, ctxVars, hdrVars, backend, logVars>>

SubjectOf(p) == IF p = None THEN None ELSE p.sub

ProjectionGateLeaving(left) ==
    /\ In("projection")
    /\ user' = IF principal = None THEN left ELSE principal.sub
    /\ IF cfg.override /\ principal # None
         THEN target' \in {None, principal.sub}
         ELSE UNCHANGED target
    /\ Pass
    /\ UNCHANGED <<cfg, ctxVars, rego, assertion, forwarded, backend, logVars>>

ProjectionGateSetOnly == ProjectionGateLeaving(user)

\* ProjectionGate: the client's X-User-* headers go, the principal's come.  A header the
\* projection names is cleared for a principal only, and set when that has the claim.
ProjectionGate == ProjectionGateLeaving(None)

-----------------------------------------------------------------------------
(* Plugins and the terminal handler                                        *)

Plugin ==
    /\ dir = "in" /\ Handler \in {"request-plugin", "response-plugin"}
    /\ Pass \/ Answer("plugin") \/ Panic(None)
    /\ UNCHANGED <<cfg, ctxVars, rego, hdrVars, backend, logVars>>

\* IssueAssertion; minting may fail.
IssueAssertion ==
    /\ In("issue")
    /\ \E minted \in {None, SubjectOf(principal)} :
          assertion' = [assertion EXCEPT ![cfg.issueHeader] = minted]
    /\ Pass
    /\ UNCHANGED <<cfg, ctxVars, rego, user, target, forwarded, backend, logVars>>

\* What reaches the backend of the identity the request carries.  copied: out starts as a
\* copy of the request, as ReverseProxy makes it, and not empty, as the api handler does.
\* The assertion has the name in the context, which is IssueAssertion's if that has run.
prepareBackendRequest(copied, forwardIdentity) ==
    LET assertionHeader == IF cfg.forwardIdentity THEN cfg.issueHeader
                                                  ELSE DefaultAssertionHeader
        left == [n \in Name |-> IF copied /\ n \notin {DefaultAssertionHeader, assertionHeader}
                                  THEN assertion[n] ELSE None]
    IN  [user |-> user, forwarded |-> forwarded,
         target |-> IF copied THEN target ELSE None,
         assertion |-> [n \in Name |-> IF forwardIdentity /\ n = assertionHeader
                                         THEN assertion[n] ELSE left[n]]]

\* The terminal handler: by itself, or by way of a backend that gets the headers of
\* prepareBackendRequest; of the api handler's, each with its own forwardIdentity, one is
\* looked at.  When the backend breaks off in its body ReverseProxy panics
\* with ErrAbortHandler, after the status was sent.
Terminal ==
    /\ In("terminal")
    /\ \/ /\ UNCHANGED backend
          /\ Answer("200") \/ Panic(None)
       \/ /\ \E copied, forwardIdentity \in BOOLEAN :
                /\ IF copied THEN forwardIdentity = cfg.forwardIdentity
                             ELSE forwardIdentity => cfg.forwardIdentity
                /\ backend' = prepareBackendRequest(copied, forwardIdentity)
          /\ (\E code \in {"200", "502", "504"} : Answer(code)) \/ Panic("200")
    /\ UNCHANGED <<cfg, ctxVars, rego, hdrVars, logVars>>

-----------------------------------------------------------------------------
(* The way out                                                             *)

\* AccessLog after next.ServeHTTP has returned: one line, from the request it holds.
AccessLogLine ==
    /\ dir = "out" /\ Handler = "access-log"
    /\ lines' = Append(lines, seen)
    /\ at' = at - 1
    /\ UNCHANGED <<cfg, dir, ctxVars, rego, hdrVars, backend, panicked, status, seen>>

\* recoverMW: WriteHeader(500), which does nothing when a status has been sent.
Recovered ==
    /\ dir = "panic" /\ Handler = "recover"
    /\ status' = IF status = None THEN "500" ELSE status
    /\ dir' = "out" /\ at' = at - 1
    /\ UNCHANGED <<cfg, ctxVars, rego, hdrVars, backend, panicked, logVars>>

\* A plugin may panic after the response was written, or while it holds it back.
PluginPanics ==
    /\ dir = "out" /\ Handler \in {"request-plugin", "response-plugin"}
    /\ Panic(status) \/ Panic(None)
    /\ UNCHANGED <<cfg, ctxVars, rego, hdrVars, backend, logVars>>

\* Every other handler is left without effect.
Unwind ==
    /\ at > 0
    /\ (dir = "out" /\ Handler # "access-log") \/ (dir = "panic" /\ Handler # "recover")
    /\ at' = at - 1
    /\ UNCHANGED <<cfg, dir, ctxVars, rego, hdrVars, backend, panicked, status, logVars>>

Done == at = 0 /\ UNCHANGED vars

Next ==
    \/ Forwarded \/ Security \/ Recover \/ AccessLog
    \/ SessionGate \/ BearerGate \/ AssertionGate \/ AuthGate \/ AuthzGate \/ ProjectionGate
    \/ Plugin \/ IssueAssertion \/ Terminal
    \/ AccessLogLine \/ Recovered \/ PluginPanics \/ Unwind \/ Done

Spec == Init /\ [][Next]_vars

-----------------------------------------------------------------------------
(* Properties                                                              *)

Behind == {"request-plugin", "response-plugin", "issue", "terminal"}
Has(policy) == \E i \in DOMAIN cfg.policies : cfg.policies[i] = policy

\* "Developer plugins ... can never run ahead of these gates" (builtin.go:44): a plugin,
\* the issuer or the terminal handler runs only for a request with the principal the
\* route requires that every policy of the route has let through, judged by the
\* principal the backend will see.
GatesFirst ==
    (dir = "in" /\ Handler \in Behind) =>
        /\ (authActive(cfg) /\ cfg.required) => principal # None
        /\ Has("require") => Satisfied(principal)
        /\ Has("rego") => rego = "allow"

\* The cookie wins over the bearer token, the token over the assertion
\* (build.go:274-278), whatever the others claim: the principal has the subject of the
\* first credential that is valid, and without one of the first two only a gateway
\* with requireBearer: false has a principal.
FirstCredentialWins ==
    /\ cookie # None => principal # None /\ principal.sub = cookie
    /\ (cookie = None /\ token # None) => principal # None /\ principal.sub = token
    /\ (cookie = None /\ token = None /\ principal # None) => cfg.accept = "alone"

\* The names of the assertion that a handler of the route's chain knows.
Known(c) ==
    {DefaultAssertionHeader} \cup (IF c.forwardIdentity THEN {c.issueHeader} ELSE {})
                             \cup (IF Accepts(c) THEN {c.acceptHeader} ELSE {})

\* What a backend receives about who the caller is comes from the principal: X-User-* where
\* the gates are active; the header a projection names when there is a principal; an
\* assertion, under any name a handler of the chain knows, only where the backend is to
\* have it and under the issuer's name; and X-Forwarded-* only from a trusted proxy.
\* (Outside those conditions the client's headers pass: README, Disagreements.)
BackendSeesPrincipal ==
    backend # None =>
        /\ authActive(cfg) => backend.user = SubjectOf(principal)
        /\ (authActive(cfg) /\ cfg.override /\ principal # None) =>
             backend.target \in {None, principal.sub}
        /\ \A n \in Known(cfg) : backend.assertion[n] # None =>
             /\ cfg.forwardIdentity /\ n = cfg.issueHeader
             /\ principal # None /\ backend.assertion[n] = principal.sub
        /\ backend.forwarded # "client"

\* A request is always answered, also when a plugin or the terminal handler panics; and
\* a policy that cannot be evaluated answers 403 (gate.go:17), also where the route
\* redirects what it denies.
AlwaysAnswered ==
    at = 0 => status # None /\ (rego = "error" => status = "403")

\* "The header (`X-Hog-Identity` by default) is stripped from every inbound request on both
\* instances" (authentication.md:300), whatever name the gateway has configured.
\* (The code does not keep this: README, Disagreements.)
AssertionStripped ==
    backend # None => backend.assertion[cfg.issueHeader] # "client"

\* "HOG strips every inbound `X-User-*` header - unconditionally, even unauthenticated"
\* (auth-model.md:141).
\* (The code does not keep this: README, Disagreements.)
UserHeadersStripped == backend # None => backend.user # "client"

\* "clear every configured target header first" (projection.go:57), so that none is the
\* client's own.
\* (The code does not keep this: README, Disagreements.)
TargetsCleared ==
    (backend # None /\ authActive(cfg) /\ cfg.override) => backend.target # "client"

\* "emits one structured, trace-correlated log line per request on the way out"
\* (concepts.md): of every request that came as far as the access log.
\* (The code does not keep this: README, Disagreements.)
OneLinePerRequest ==
    (at = 0 /\ (backend # None \/ panicked)) => Len(lines) = 1

\* "each line also carries a session_id" (observability.md): the access line of an
\* authenticated request names its principal.
\* (The code does not keep this: README, Disagreements.)
LineNamesPrincipal ==
    (at = 0 /\ principal # None /\ lines # <<>>) => lines[1] = principal

\* "recover catches a panic anywhere further in - including the terminal - ... and
\* returns 500" (request-lifecycle.md).
\* (The code does not keep this: README, Disagreements.)
PanicIs500 == (at = 0 /\ panicked) => status = "500"
=============================================================================
