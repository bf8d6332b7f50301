---------------------------- MODULE MCGatewayBuild ----------------------------
(* Either an operator edits the groups of one route, over every access block; or a *)
(* gateway is built from documents, of which up to two are out of the ordinary.    *)
EXTENDS GatewayBuild

NoLabels == [k \in {} |-> ""]
Tier(v) == [k \in {"tier"} |-> v]
SomeLabels == {NoLabels, Tier("api"), Tier("db")}

All == [matchLabels |-> {}, matchExpressions |-> {}]
TierApi == [matchLabels |-> {<<"tier", "api">>}, matchExpressions |-> {}]
NotFront ==
    [matchLabels |-> {},
     matchExpressions |-> {[key |-> "tier", operator |-> "NotIn", values |-> {"api", "web"}]}]
SomeSelectors == {All, TierApi, NotFront}

Sets(type, auth, authorize, onDeny) ==
    [type |-> type, auth |-> auth, authorize |-> authorize, onDeny |-> onDeny]

SomeSpecs ==
    {Sets(t, a, <<>>, "nil") : t \in {"", "app", "Service", "odd"},
                               a \in {"", "Required", "public", "odd"}}
    \cup {Sets("", "", p, "nil") : p \in {<<"p">>, <<"", "q">>, <<"p", "q">>, <<"q", "p">>}}
    \cup {Sets("", "", <<>>, d) : d \in {"", "/no-access", "cross-origin"}}

SomeMethods == {"GET", "POST"}
SomePaths == {"/", "/api", "/auth/login", "/auth/logout", "/auth/callback", "/auth/session"}

-----------------------------------------------------------------------------
(* Documents                                                               *)

Gateway0 ==
    [kind |-> "Gateway", ok |-> TRUE, identity |-> [ok |-> TRUE, assertion |-> {}],
     session |-> "set", stateProvider |-> "absent", infoPath |-> "/auth/session",
     auth |-> [ok |-> TRUE, login |-> "/auth/login", logout |-> "/auth/logout"],
     trustedProxies |-> [ok |-> TRUE], security |-> [ok |-> TRUE]]
Gateways ==
    {[Gateway0 EXCEPT !.session = s, !.stateProvider = p] :
        s \in {"absent", "set", "bad"}, p \in {"absent", "good", "unregistered"}}
    \cup {[Gateway0 EXCEPT !.identity.assertion = a, !.session = s] :
        a \in SUBSET {"issue", "accept"}, s \in {"absent", "set"}}
    \cup {[Gateway0 EXCEPT !.ok = FALSE], [Gateway0 EXCEPT !.identity.ok = FALSE],
          [Gateway0 EXCEPT !.auth.ok = FALSE], [Gateway0 EXCEPT !.security.ok = FALSE],
          [Gateway0 EXCEPT !.trustedProxies.ok = FALSE],
          [Gateway0 EXCEPT !.auth.login = "/auth/session"]}

Oidc(verificationOnly, credentials) ==
    [identified |-> TRUE, credentials |-> credentials, verificationOnly |-> verificationOnly,
     requireAudience |-> TRUE, audienceClaim |-> "", jwksURL |-> "", signingAlgs |-> {}]
IdP0 == [kind |-> "IdP", ok |-> TRUE, module |-> "good", redirectPath |-> "",
         oidc |-> Oidc(FALSE, {"clientSecret", "redirectURL"})]
Verifying == [IdP0 EXCEPT !.oidc = Oidc(TRUE, {})]
IdPs ==
    {<<>>, <<IdP0>>, <<Verifying>>, <<IdP0, Verifying>>, <<[IdP0 EXCEPT !.ok = FALSE]>>,
     <<[IdP0 EXCEPT !.module = "foreign"]>>, <<[IdP0 EXCEPT !.oidc.credentials = {}]>>,
     <<[IdP0 EXCEPT !.redirectPath = "/api"]>>}

At(method, path) == [method |-> method, path |-> path]
RouteOf(match, spec, forwards) ==
    [kind |-> "Route", ok |-> TRUE, module |-> "good", match |-> match,
     forwardIdentity |-> forwards,
     rt |-> [labels |-> Tier("api"), handler |-> "api", spec |-> spec]]
Api == RouteOf(At("", "/api"), Sets("", "", <<"p">>, "nil"), FALSE)
App == [RouteOf(At("", "/"), Sets("app", "Required", <<>>, "nil"), FALSE)
           EXCEPT !.rt.labels = NoLabels]
RouteLists ==
    {<<>>, <<Api>>, <<Api, App>>, <<Api, Api>>,
     <<RouteOf(At("", "/api"), Sets("", "", <<"p", "q">>, "nil"), FALSE)>>,
     <<RouteOf(At("", "/api"), Sets("", "", <<>>, "nil"), TRUE), App>>,
     <<RouteOf(At("GET", "/"), Sets("", "public", <<>>, "nil"), FALSE)>>,
     <<RouteOf(At("GET", "/"), Sets("", "public", <<>>, "nil"), FALSE), Api>>,
     <<RouteOf(At("", "/auth/login"), Sets("", "odd", <<>>, "nil"), FALSE)>>,
     <<[Api EXCEPT !.module = "failing"]>>, <<[Api EXCEPT !.ok = FALSE]>>}

Policy(name) == [kind |-> "Policy", ok |-> TRUE, name |-> name]
PolicyLists ==
    {<<Policy("p")>>, <<Policy("q"), Policy("p")>>, <<Policy("p"), Policy("p")>>, <<>>,
     <<[Policy("p") EXCEPT !.ok = FALSE]>>}

Plugin(kind, selector, module) ==
    [kind |-> kind, ok |-> TRUE, module |-> module, selector |-> selector]
Rewrite == Plugin("ResponsePlugin", All, "good")
Check == Plugin("RequestPlugin", TierApi, "good")
PluginLists ==
    {<<>>, <<Rewrite, Check>>, <<Check, Rewrite, Check>>,
     <<Plugin("RequestPlugin", NotFront, "unregistered")>>,
     <<Plugin("RequestPlugin", TierApi, "unregistered"), Rewrite>>}
Others ==
    {<<>>, <<[kind |-> "Telemetry", ok |-> TRUE]>>, <<[kind |-> "Gatway", ok |-> TRUE]>>,
     <<[kind |-> "Telemetry", ok |-> TRUE], [kind |-> "Telemetry", ok |-> TRUE]>>}

SomeDocuments ==
    {<<>>}
    \cup {<<g>> \o i \o r \o <<Policy("p")>> : g \in Gateways, i \in IdPs, r \in RouteLists}
    \cup {x \o <<Gateway0, IdP0>> \o r \o p \o o : x \in PluginLists, r \in RouteLists,
                                                 p \in PolicyLists, o \in Others}
    \cup {<<Gateway0, Gateway0>>, <<IdP0, Api>>}

GroupOf(selector, spec) == [selector |-> selector, spec |-> spec]
SomeGroups ==
    {<<>>,
     <<GroupOf(TierApi, Sets("", "public", <<>>, "nil")),
       GroupOf(TierApi, Sets("", "", <<"q", "p">>, "nil"))>>,
     <<GroupOf(NotFront, Sets("", "", <<"p", "q">>, "nil"))>>}

-----------------------------------------------------------------------------

MCInit ==
    /\ documents \in Documents
    /\ IF documents = <<>>
         THEN rt \in Route /\ groups = <<>>
         ELSE rt = Api.rt /\ groups \in SomeGroups
    /\ stage = "stopped"
    /\ active = Nothing /\ sess = "none" /\ policies = {} /\ plugins = <<>>
    /\ mux = <<>> /\ endpoints = {} /\ warned = {}

MCNext == IF documents = <<>> THEN Edit ELSE BuildNext /\ UNCHANGED groups

MCSpec == MCInit /\ [][MCNext]_buildVars
=============================================================================
