---------------------------- MODULE GatewayBuild ----------------------------
(***************************************************************************)
(* From the documents to a serving gateway: Parse and Build, stage by      *)
(* stage, with every refusal in the order the code meets it.  Build has    *)
(* no partial result: it returns a gateway, returns an error, or panics.   *)
(*                                                                         *)
(* A document is a record with its kind; ok is FALSE when its own parser   *)
(* refuses it.  module says what the registry makes of its type: "good",   *)
(* or "unregistered", "failing", "foreign" (a module of another kind).     *)
(* A route's rt is the part RouteAccess resolves; groups holds the         *)
(* RouteGroup documents.                                                   *)
(***************************************************************************)
EXTENDS RouteAccess, Connector

CONSTANTS
    Documents,   \* the configurations: sequences of the other documents
    Method, Path \* of requests

VARIABLES
    documents,
    stage,
    active,      \* the connector, or Nothing
    sess,        \* "none", "cookie" or "state"
    policies,    \* the names compiled
    plugins,     \* of the route at hand: the documents resolvePlugins has chosen
    mux,         \* the routes mounted so far
    endpoints,   \* the patterns of the auth endpoints
    warned       \* what the log warns of

ASSUME DocumentsAssumption ==
    \A docs \in Documents :
        /\ docs \in Seq(Range(docs))
        /\ \A i \in DOMAIN docs : docs[i].kind = "Route" => docs[i].rt \in Route

built == <<active, sess, policies, plugins, mux, endpoints, warned>>
buildVars == <<editVars, documents, stage, built>>

Nothing == [verifyOnly |-> TRUE, present |-> FALSE]

\* for _, x := range s { if test(x) { out = append(out, x) } }
Where(s, test(_)) ==
    ForRange(LAMBDA out, x : IF test(x) THEN Append(out, x) ELSE out, <<>>, s)

OfKind(docs, k) == Where(docs, LAMBDA d : d.kind = k)
Kind(k) == OfKind(documents, k)
gateway == Kind("Gateway")[1]
idps == Kind("IdP")
routes == Kind("Route")
Kinds == {"Gateway", "Telemetry", "IdP", "Policy", "Route", "RequestPlugin", "ResponsePlugin"}

BuildInit ==
    /\ documents \in Documents
    /\ rt \in Route /\ groups = <<>>
    /\ stage = "stopped"
    /\ active = Nothing /\ sess = "none" /\ policies = {} /\ plugins = <<>>
    /\ mux = <<>> /\ endpoints = {} /\ warned = {}

Go(next) == stage' = next /\ UNCHANGED <<editVars, documents>>
Refuse == Go("refused") /\ UNCHANGED built

-----------------------------------------------------------------------------
(* Before the routes                                                       *)

\* Parse: one Gateway, at most one Telemetry, no kind it does not know; an IdP or a Policy
\* is not looked into yet.
Parse ==
    /\ stage = "stopped"
    /\ IF \/ \E i \in DOMAIN documents :
               \/ documents[i].kind \notin Kinds
               \/ documents[i].kind \notin {"IdP", "Policy"} /\ ~documents[i].ok
          \/ Len(Kind("Gateway")) # 1 \/ Len(Kind("Telemetry")) > 1
         THEN Refuse
         ELSE Go("idp") /\ UNCHANGED built

Registered(d) == d.module = "good"

\* buildIdP
buildIdP ==
    /\ stage = "idp"
    /\ IF idps = <<>> THEN Go("session") /\ UNCHANGED built
       ELSE IF \/ Len(idps) > 1 \/ ~idps[1].ok \/ ~Registered(idps[1])
               \/ newOIDCFails(idps[1].oidc)
         THEN Refuse
         ELSE /\ Go("session")
              /\ active' = [verifyOnly |-> idps[1].oidc.verificationOnly, present |-> TRUE]
              /\ UNCHANGED <<sess, policies, plugins, mux, endpoints, warned>>

buildSessionUnless(deadEnd) ==
    /\ stage = "session"
    /\ IF \/ ~gateway.identity.ok
          \/ gateway.session = "absent" /\ gateway.stateProvider # "absent"
          \/ gateway.session = "bad"
          \/ gateway.session # "absent" /\ gateway.stateProvider \notin {"absent", "good"}
          \/ deadEnd
         THEN Refuse
         ELSE /\ Go("auth")
              /\ sess' = IF gateway.session = "absent" THEN "none"
                         ELSE IF gateway.stateProvider = "absent" THEN "cookie" ELSE "state"
              /\ UNCHANGED <<active, policies, plugins, mux, endpoints, warned>>

buildSessionOnly == buildSessionUnless(FALSE)

\* ParseIdentity and buildSession; a session next to a connector that only verifies
\* describes a login that can never happen.
buildSession ==
    buildSessionUnless(gateway.session # "absent" /\ active.present /\ active.verifyOnly)

Login == [method |-> "", path |-> IF sess = "none" THEN "/auth/login" ELSE gateway.auth.login]

\* The auth block, read only with a session, and the warning when nobody can log in.
authFromYAML ==
    /\ stage = "auth"
    /\ IF sess # "none" /\ ~gateway.auth.ok
         THEN Refuse
         ELSE /\ Go("compile")
              /\ warned' = IF sess # "none" /\ ~active.present THEN {<<"no IdP", 0>>} ELSE {}
              /\ UNCHANGED <<active, sess, policies, plugins, mux, endpoints>>

\* authz.Compile: each policy compiles, and no name comes twice.
Compiles(pols) ==
    /\ \A i \in DOMAIN pols : pols[i].ok
    /\ IsInjective([i \in DOMAIN pols |-> pols[i].name])

\* The policies, the trusted proxies and the security block.
Compile ==
    /\ stage = "compile"
    /\ LET pols == Kind("Policy")
       IN  IF ~(Compiles(pols) /\ gateway.trustedProxies.ok /\ gateway.security.ok)
             THEN Refuse
             ELSE /\ Go("route")
                  /\ policies' = {pols[i].name : i \in DOMAIN pols}
                  /\ UNCHANGED <<active, sess, plugins, mux, endpoints, warned>>

-----------------------------------------------------------------------------
(* The routes                                                              *)

next == routes[Len(mux) + 1]

\* The plugin documents of a kind that select the route, in document order.
Selecting(kind) ==
    Where([i \in DOMAIN documents |-> i],
          LAMBDA i : documents[i].kind = kind
                     /\ Matches(documents[i].selector, next.rt.labels))

\* The next route: no match twice, buildTerminal, resolvePlugins for either kind.
resolvePlugins ==
    /\ stage = "route" /\ Len(mux) < Len(routes)
    /\ LET chosen == Selecting("RequestPlugin") \o Selecting("ResponsePlugin")
       IN  IF \/ \E i \in DOMAIN mux : mux[i].match = next.match
              \/ ~Registered(next)
              \/ \E i \in DOMAIN chosen : ~Registered(documents[chosen[i]])
             THEN Refuse
             ELSE /\ stage' = "mount"
                  /\ rt' = next.rt
                  /\ plugins' = chosen
                  /\ UNCHANGED <<groups, documents, active, sess, policies, mux, endpoints,
                                 warned>>

\* An identity can be established at all.
authActive == sess # "none" \/ active.present \/ "accept" \in gateway.identity.assertion

\* The chain Build composes for the route at hand.
Composed(authorize) ==
    [match |-> next.match, gates |-> authActive, type |-> EffectiveType,
     required |-> EffectiveAuth = "required", login |-> Login,
     authorize |-> authorize, plugins |-> plugins, issues |-> next.forwardIdentity]

\* net/http: the requests a pattern matches, and patterns ServeMux panics on.
Matched(p) ==
    (IF p.method = "" THEN Method ELSE {p.method}) \X (IF p.path = "/" THEN Path ELSE {p.path})
Conflict(p, q) ==
    /\ Matched(p) \cap Matched(q) # {}
    /\ Matched(p) = Matched(q) \/ ~(Matched(p) \subseteq Matched(q) \/ Matched(q) \subseteq Matched(p))

Panic == Go("panicked") /\ UNCHANGED built

MountAuthorizing(authorize, refused) ==
    /\ stage = "mount"
    /\ IF \/ ~Valid \/ refused
          \/ next.forwardIdentity /\ "issue" \notin gateway.identity.assertion
         THEN Refuse
       ELSE IF \E i \in DOMAIN mux : Conflict(mux[i].match, next.match)
         THEN Panic
       ELSE /\ Go("route")
            /\ mux' = Append(mux, Composed(authorize))
            /\ warned' = IF EffectiveAuth = "required" /\ ~authActive
                          THEN warned \cup {<<"unenforced", Len(mux) + 1>>} ELSE warned
            /\ UNCHANGED <<active, sess, policies, plugins, endpoints>>

KnownPolicies == Where(Authorize, LAMBDA p : p \in policies)

MountKnownPolicies == MountAuthorizing(KnownPolicies, FALSE)

\* Resolve, the gates and the policies by name, forwardIdentity only with an issuer, and
\* mux.Handle.
Mount == MountAuthorizing(Authorize, ~(Range(Authorize) \subseteq policies))

-----------------------------------------------------------------------------
(* After the routes                                                        *)

\* The path of the IdP's redirectURL.
callbackPath ==
    IF Len(idps) # 1 \/ idps[1].redirectPath = "" THEN "/auth/callback" ELSE idps[1].redirectPath

AuthEndpoints ==
    <<Login, [method |-> "POST", path |-> gateway.auth.logout],
      [method |-> "", path |-> callbackPath], [method |-> "", path |-> gateway.infoPath]>>

\* The auth endpoints, on a gateway that can log people in; none may conflict with a
\* route's pattern or with another endpoint's.
MountEndpoints ==
    /\ stage = "route" /\ Len(mux) = Len(routes)
    /\ IF ~(active.present /\ sess # "none") THEN Go("serving") /\ UNCHANGED built
       ELSE IF \E j \in DOMAIN AuthEndpoints :
                 \/ \E i \in DOMAIN mux : Conflict(mux[i].match, AuthEndpoints[j])
                 \/ \E k \in 1 .. j - 1 : Conflict(AuthEndpoints[k], AuthEndpoints[j])
         THEN Panic
       ELSE /\ Go("serving")
            /\ endpoints' = Range(AuthEndpoints)
            /\ UNCHANGED <<active, sess, policies, plugins, mux, warned>>

\* The operator stops the gateway, or fixes its documents.
StopGateway ==
    /\ stage \in {"serving", "refused", "panicked"}
    /\ stage' = "stopped"
    /\ active' = Nothing /\ sess' = "none" /\ policies' = {} /\ plugins' = <<>>
    /\ mux' = <<>> /\ endpoints' = {} /\ warned' = {}
    /\ UNCHANGED <<editVars, documents>>

Edit == stage = "stopped" /\ EditNext /\ UNCHANGED <<documents, stage, built>>

BuildNext ==
    \/ Parse \/ buildIdP \/ buildSession \/ authFromYAML \/ Compile
    \/ resolvePlugins \/ Mount \/ MountEndpoints
    \/ StopGateway \/ Edit

BuildSpec == BuildInit /\ [][BuildNext]_buildVars

-----------------------------------------------------------------------------
(* Properties                                                              *)

Selects(d, r) == Matches(d.selector, r.rt.labels)

\* The access blocks that speak of a route: its own and those of the matching groups.
Speaking(r) == {r.rt.spec} \cup {g.spec : g \in {h \in Range(groups) : Selects(h, r)}}

\* "Bad configuration is a boot-time error" (why-v2.md:56): nothing a document asks for is
\* dropped on the way.  A gateway that serves enforces, on every route, every policy
\* named for it, runs every plugin that selects it, request plugins first and each kind
\* in document order, mints what it forwards, and lets nobody in unauthenticated whom it
\* was not told to, unless it has said so in its log.
NothingDropped ==
    stage = "serving" =>
        \A i \in DOMAIN routes :
            LET r == routes[i]
                c == mux[i]
            IN  /\ (UNION {Range(a.authorize) : a \in Speaking(r)}) \ {""} = Range(c.authorize)
                /\ Range(c.authorize) \subseteq policies
                /\ Range(c.plugins) =
                     {k \in DOMAIN documents :
                        /\ documents[k].kind \in {"RequestPlugin", "ResponsePlugin"}
                        /\ Selects(documents[k], r)}
                /\ \A k, l \in DOMAIN c.plugins : k < l =>
                     LET p == documents[c.plugins[k]].kind
                         q == documents[c.plugins[l]].kind
                     IN  IF p = q THEN c.plugins[k] < c.plugins[l] ELSE p = "RequestPlugin"
                /\ r.forwardIdentity => "issue" \in gateway.identity.assertion
                /\ (c.type = "service" /\ ~(c.required /\ c.gates)) =>
                     \/ \E a \in Speaking(r) : a.auth = "public"
                     \/ <<"unenforced", i>> \in warned

\* "no login endpoint is ever mounted against" an IdP that is verificationOnly (oidc.go:70),
\* and a session that nobody can get is refused or warned of: what decides it is known at
\* four stages of Build.
LoginNotDeadEnd ==
    stage = "serving" =>
        /\ endpoints # {} => active.present /\ ~active.verifyOnly
        /\ sess # "none" => Login \in endpoints \/ <<"no IdP", 0>> \in warned

\* build.go:170: Build refuses what leaves "every protected app route ... [to] redirect to
\* a path that 404s", or warns of it.
\* (The code does not keep this: README, Disagreements.)
LoginReachable ==
    stage = "serving" =>
        \A i \in DOMAIN mux :
            (mux[i].gates /\ mux[i].required /\ mux[i].type = "app") =>
                Login \in endpoints \/ <<"no IdP", 0>> \in warned
=============================================================================
