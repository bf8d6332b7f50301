------------------------- MODULE RequestChainProofs -------------------------
(***************************************************************************)
(* For every configuration and every set of subjects: the gates come       *)
(* before the plugins and the terminal handler, the first credential       *)
(* decides, the backend sees the principal, and every request is answered. *)
(***************************************************************************)
EXTENDS RequestChain, TLAPS

\* Most leaves are first-order logic; those that need arithmetic or records name SMT.
USE Zenon

Handlers == {"forwarded", "security", "recover", "access-log", "session", "bearer",
             "assertion", "auth-gate", "authz", "projection", "request-plugin",
             "response-plugin", "issue", "terminal"}

\* The order the handlers have in every chain.
Rank(h) ==
    CASE h = "forwarded" -> 1       [] h = "security" -> 2
      [] h = "recover" -> 3         [] h = "access-log" -> 4
      [] h = "session" -> 5         [] h = "bearer" -> 6
      [] h = "assertion" -> 7       [] h = "auth-gate" -> 8
      [] h = "authz" -> 9           [] h = "projection" -> 10
      [] h = "request-plugin" -> 11 [] h = "response-plugin" -> 12
      [] h = "issue" -> 13          [] h = "terminal" -> 14

If(b, S) == IF b THEN S ELSE {}

\* The handlers Build puts in the chain of a route.
Members(c) ==
    {"forwarded", "security", "recover", "access-log", "request-plugin", "response-plugin",
     "terminal"}
    \cup If(authActive(c), {"session", "auth-gate", "projection"})
    \cup If(authActive(c) /\ c.type = "service" /\ c.idp, {"bearer"})
    \cup If(authActive(c) /\ Accepts(c), {"assertion"})
    \cup If(c.policies # <<>>, {"authz"})
    \cup If(c.forwardIdentity, {"issue"})

\* s has the handlers of M, each once, in their order.
Lists(s, M) ==
    /\ s \in Seq(M)
    /\ \A h \in M : \E i \in 1 .. Len(s) : s[i] = h
    /\ \A i, j \in 1 .. Len(s) : i < j => Rank(s[i]) < Rank(s[j])

-----------------------------------------------------------------------------
(* The chain                                                               *)

LEMMA RankType ==
  /\ \A h \in Handlers : Rank(h) \in 1 .. 14
  /\ \A g, h \in Handlers : Rank(g) = Rank(h) => g = h
  <1>1. \A h \in Handlers : Rank(h) \in 1 .. 14
    BY SMT DEF Handlers, Rank
  <1>2. \A g, h \in Handlers : Rank(g) = Rank(h) => g = h
    BY SMT DEF Handlers, Rank
  <1> QED BY <1>1, <1>2

\* A list of handlers and one of handlers that come after them make one list.
LEMMA ListsConcat ==
  ASSUME NEW M, NEW N, NEW s, NEW t, Lists(s, M), Lists(t, N),
         \A m \in M, n \in N : Rank(m) < Rank(n)
  PROVE  Lists(s \o t, M \cup N)
  <1>1. s \in Seq(M \cup N) /\ t \in Seq(M \cup N)
    BY SMT DEF Lists
  <1>2. /\ s \o t \in Seq(M \cup N) /\ Len(s \o t) = Len(s) + Len(t)
        /\ Len(s) \in Nat /\ Len(t) \in Nat
        /\ \A i \in 1 .. Len(s) : (s \o t)[i] = s[i] /\ s[i] \in M
        /\ \A i \in 1 .. Len(t) : (s \o t)[Len(s) + i] = t[i] /\ t[i] \in N
    BY SMT, <1>1 DEF Lists
  <1>3. ASSUME NEW i \in 1 .. Len(s \o t), i \notin 1 .. Len(s)
        PROVE  i - Len(s) \in 1 .. Len(t) /\ (s \o t)[i] = t[i - Len(s)]
    BY SMT, <1>2, <1>3
  <1>4. \A h \in M \cup N : \E i \in 1 .. Len(s \o t) : (s \o t)[i] = h
    <2>1. ASSUME NEW h \in M PROVE \E i \in 1 .. Len(s \o t) : (s \o t)[i] = h
      <3>1. PICK i \in 1 .. Len(s) : s[i] = h
        BY DEF Lists
      <3> QED BY SMT, <1>2, <3>1
    <2>2. ASSUME NEW h \in N PROVE \E i \in 1 .. Len(s \o t) : (s \o t)[i] = h
      <3>1. PICK i \in 1 .. Len(t) : t[i] = h
        BY DEF Lists
      <3>2. Len(s) + i \in 1 .. Len(s \o t)
        BY SMT, <1>2
      <3> QED BY <1>2, <3>1, <3>2
    <2> QED BY <2>1, <2>2
  <1>5. ASSUME NEW i \in 1 .. Len(s \o t), NEW j \in 1 .. Len(s \o t), i < j
        PROVE  Rank((s \o t)[i]) < Rank((s \o t)[j])
    <2>1. CASE j \in 1 .. Len(s)
      BY SMT, <1>2, <1>5, <2>1 DEF Lists
    <2>2. CASE i \notin 1 .. Len(s)
      <3>1. j \notin 1 .. Len(s) /\ i - Len(s) < j - Len(s)
        BY SMT, <1>2, <1>5, <2>2
      <3> QED BY <1>3, <2>2, <3>1 DEF Lists
    <2>3. CASE i \in 1 .. Len(s) /\ j \notin 1 .. Len(s)
      BY <1>2, <1>3, <2>3
    <2> QED BY <1>2, <1>5, <2>1, <2>2, <2>3
  <1> QED BY <1>2, <1>4, <1>5 DEF Lists

LEMMA ListsWhen ==
  ASSUME NEW b \in BOOLEAN, NEW s, NEW M, b => Lists(s, M)
  PROVE  Lists(When(b, s), If(b, M))
  <1>1. CASE b
    BY <1>1 DEF When, If
  <1>2. CASE ~b
    <2>1. When(b, s) = <<>> /\ If(b, M) = {}
      BY <1>2 DEF When, If
    <2>2. Lists(<<>>, {})
      BY SMT DEF Lists
    <2> QED BY <2>1, <2>2
  <1> QED BY <1>1, <1>2

LEMMA ListsOne ==
  ASSUME NEW h
  PROVE  Lists(<<h>>, {h})
  BY SMT DEF Lists

\* Build's chain has the handlers of Members, each once, in the order of Rank.
LEMMA ChainLists ==
  ASSUME NEW c \in Config
  PROVE  Lists(Chain(c), Members(c)) /\ Members(c) \subseteq Handlers
  <1> DEFINE active == authActive(c)
             service == c.type = "service"
             m1 == If(service /\ c.idp, {"bearer"})
             m2 == If(Accepts(c), {"assertion"})
             m3 == If(active, {"session"} \cup m1 \cup m2 \cup {"auth-gate"})
             m4 == If(c.policies # <<>>, {"authz"})
             m5 == If(active, {"projection"})
             m6 == If(c.forwardIdentity, {"issue"})
  <1>1. active \in BOOLEAN /\ (service /\ c.idp) \in BOOLEAN /\ c.forwardIdentity \in BOOLEAN
        /\ Accepts(c) \in BOOLEAN /\ (c.policies # <<>>) \in BOOLEAN
    BY DEF Config, authActive, Accepts
  <1>2. Lists(SessionSlot(c) \o <<"auth-gate">>, {"session"} \cup m1 \cup m2 \cup {"auth-gate"})
    <2>1. Lists(When(service /\ c.idp, <<"bearer">>), m1)
      BY <1>1, ListsOne, ListsWhen
    <2>2. Lists(When(Accepts(c), <<"assertion">>), m2)
      BY <1>1, ListsOne, ListsWhen
    <2>3. Lists(<<"session">> \o When(service /\ c.idp, <<"bearer">>), {"session"} \cup m1)
      <3>1. \A m \in {"session"}, n \in m1 : Rank(m) < Rank(n)
        BY SMT DEF Rank, If
      <3> QED BY <2>1, <3>1, ListsOne, ListsConcat
    <2>4. Lists(SessionSlot(c), {"session"} \cup m1 \cup m2)
      <3>1. \A m \in {"session"} \cup m1, n \in m2 : Rank(m) < Rank(n)
        BY SMT DEF Rank, If
      <3> QED BY <2>2, <2>3, <3>1, ListsConcat DEF SessionSlot
    <2>5. \A m \in {"session"} \cup m1 \cup m2, n \in {"auth-gate"} : Rank(m) < Rank(n)
      BY SMT DEF Rank, If
    <2> QED BY <2>4, <2>5, ListsOne, ListsConcat
  <1>3. Lists(Gates(c), m3 \cup m4 \cup m5)
    <2>1. Lists(When(active, SessionSlot(c) \o <<"auth-gate">>), m3)
      BY <1>1, <1>2, ListsWhen
    <2>2. Lists(When(c.policies # <<>>, <<"authz">>), m4) /\ Lists(When(active, <<"projection">>), m5)
      BY <1>1, ListsOne, ListsWhen
    <2>3. \A m \in m3, n \in m4 : Rank(m) < Rank(n)
      BY SMT DEF Rank, If
    <2>4. \A m \in m3 \cup m4, n \in m5 : Rank(m) < Rank(n)
      BY SMT DEF Rank, If
    <2>5. Lists(When(active, SessionSlot(c) \o <<"auth-gate">>)
                  \o When(c.policies # <<>>, <<"authz">>), m3 \cup m4)
      BY <2>1, <2>2, <2>3, ListsConcat
    <2> QED BY <2>2, <2>4, <2>5, ListsConcat DEF Gates
  <1> DEFINE head == {"forwarded", "security"} \cup {"recover"} \cup {"access-log"}
             gates == m3 \cup m4 \cup m5
             plugins == {"request-plugin"} \cup {"response-plugin"}
  <1>4. Lists(<<"forwarded", "security">> \o <<"recover">> \o <<"access-log">>, head)
    <2>1. Lists(<<"forwarded", "security">>, {"forwarded", "security"})
      BY SMT DEF Lists, Rank
    <2>2. Lists(<<"forwarded", "security">> \o <<"recover">>, {"forwarded", "security"} \cup {"recover"})
      <3>1. \A m \in {"forwarded", "security"}, n \in {"recover"} : Rank(m) < Rank(n)
        BY SMT DEF Rank
      <3> QED BY <2>1, <3>1, ListsOne, ListsConcat
    <2>3. \A m \in {"forwarded", "security"} \cup {"recover"}, n \in {"access-log"} : Rank(m) < Rank(n)
      BY SMT DEF Rank
    <2> QED BY <2>2, <2>3, ListsOne, ListsConcat
  <1>5. Lists(<<"forwarded", "security">> \o <<"recover">> \o <<"access-log">> \o Gates(c), head \cup gates)
    <2>1. \A m \in head, n \in gates : Rank(m) < Rank(n)
      BY SMT DEF Rank, If
    <2> QED BY <1>3, <1>4, <2>1, ListsConcat
  <1>6. Lists(Plugins, plugins)
    BY SMT DEF Lists, Plugins, Rank
  <1>7. Lists(<<"forwarded", "security">> \o <<"recover">> \o <<"access-log">> \o Gates(c)
                \o Plugins, head \cup gates \cup plugins)
    <2>1. \A m \in head \cup gates, n \in plugins : Rank(m) < Rank(n)
      BY SMT DEF Rank, If
    <2> QED BY <1>5, <1>6, <2>1, ListsConcat
  <1>8. Lists(<<"forwarded", "security">> \o <<"recover">> \o <<"access-log">> \o Gates(c)
                \o Plugins \o When(c.forwardIdentity, <<"issue">>), head \cup gates \cup plugins \cup m6)
    <2>1. \A m \in head \cup gates \cup plugins, n \in m6 : Rank(m) < Rank(n)
      BY SMT DEF Rank, If
    <2>2. Lists(When(c.forwardIdentity, <<"issue">>), m6)
      BY <1>1, ListsOne, ListsWhen
    <2> QED BY <1>7, <2>1, <2>2, ListsConcat
  <1>9. Lists(Chain(c), head \cup gates \cup plugins \cup m6 \cup {"terminal"})
    <2>1. \A m \in head \cup gates \cup plugins \cup m6, n \in {"terminal"} : Rank(m) < Rank(n)
      BY SMT DEF Rank, If
    <2> QED BY <1>8, <2>1, ListsOne, ListsConcat DEF Chain, ChainWith
  <1>10. head \cup gates \cup plugins \cup m6 \cup {"terminal"} = Members(c)
    BY SMT DEF Members, If
  <1>11. Members(c) \subseteq Handlers
    BY DEF Members, If, Handlers
  <1> QED BY <1>9, <1>10, <1>11

-----------------------------------------------------------------------------
(* The invariant                                                           *)

\* The request has passed the place where h is, or would be, in the chain.
Past(h) == dir = "in" /\ Rank(Handler) > Rank(h)

\* What the handlers the request has passed have made sure of.
Gated ==
    /\ (Past("auth-gate") /\ authActive(cfg) /\ cfg.required) => principal # None
    /\ (Past("authz") /\ Has("require")) => Satisfied(principal)
    /\ (Past("authz") /\ Has("rego")) => rego = "allow"

\* The headers that name the caller are the principal's.
Projected ==
    /\ user = SubjectOf(principal)
    /\ (cfg.override /\ principal # None) => target \in {None, principal.sub}

\* So is the assertion the issuer has to write, if there is one.
Minted ==
    assertion[cfg.issueHeader] # None =>
        principal # None /\ assertion[cfg.issueHeader] = principal.sub

\* The accepted assertion is gone, unless the issuer uses its name.
Dropped ==
    \/ assertion[cfg.acceptHeader] = None
    \/ cfg.forwardIdentity /\ cfg.acceptHeader = cfg.issueHeader

Rewritten ==
    /\ Past("forwarded") => forwarded # "client"
    /\ (Past("assertion") /\ Accepts(cfg)) => Dropped
    /\ (Past("projection") /\ authActive(cfg)) => Projected
    /\ (Past("issue") /\ cfg.forwardIdentity) => Minted

\* The request goes in until it is answered or a handler panics; the backend is called
\* last; and a panic has recover still before it.
OnTheWay ==
    /\ dir = "in" => at >= 1 /\ backend = None
    /\ dir = "out" => status # None
    /\ dir = "panic" => \E k \in 1 .. at : Chain(cfg)[k] = "recover"

\* A policy that could not be evaluated was answered at once, before any plugin.
ErrorAnswered ==
    rego = "error" =>
        /\ dir = "out" /\ status = "403"
        /\ \A i \in 1 .. at : Rank(Chain(cfg)[i]) < Rank("authz")

\* The access log writes on the way out, once.
LoggedOnce ==
    lines = <<>> \/ (dir = "out" /\ \A i \in 1 .. at : Chain(cfg)[i] # "access-log")

IInv ==
    /\ TypeOK
    /\ Gated /\ Rewritten /\ OnTheWay /\ ErrorAnswered /\ LoggedOnce
    /\ FirstCredentialWins /\ BackendSeesPrincipal

\* Two ranks are in one order only.
LEMMA RanksApart ==
  ASSUME NEW m \in 1 .. 14, NEW n \in 1 .. 14, m < n
  PROVE  m # n /\ ~(n < m)
  BY SMT

\* The handler that runs is one of the chain's, and next.ServeHTTP of one that is not the
\* terminal passes the request to the next one, over no handler of the chain.
LEMMA Onward ==
  ASSUME TypeOK, at >= 1
  PROVE  /\ Handler = Chain(cfg)[at] /\ Handler \in Members(cfg)
         /\ \A h \in Members(cfg) : Rank(h) \in 1 .. 14
         /\ Handler # "terminal" =>
              /\ at + 1 \in 1 .. Len(Chain(cfg)) /\ Chain(cfg)[at + 1] \in Members(cfg)
              /\ \A h \in Members(cfg) :
                   Rank(Chain(cfg)[at + 1]) > Rank(h) => Rank(Handler) > Rank(h) \/ Handler = h
  <1> DEFINE C == Chain(cfg)
  <1>1. Lists(C, Members(cfg)) /\ Members(cfg) \subseteq Handlers
    BY ChainLists DEF TypeOK
  <1>2. C \in Seq(Members(cfg)) /\ Len(C) \in Nat /\ at \in 1 .. Len(C)
    BY SMT, <1>1 DEF Lists, TypeOK
  <1>3. Handler = C[at] /\ Handler \in Members(cfg)
    BY SMT, <1>2 DEF Handler
  <1>4. \A h \in Members(cfg) : Rank(h) \in 1 .. 14
    BY <1>1, RankType
  <1>5. ASSUME Handler # "terminal"
        PROVE  /\ at + 1 \in 1 .. Len(C) /\ C[at + 1] \in Members(cfg)
               /\ \A h \in Members(cfg) :
                    Rank(C[at + 1]) > Rank(h) => Rank(Handler) > Rank(h) \/ Handler = h
    <2>1. at + 1 \in 1 .. Len(C)
      <3>1. "terminal" \in Members(cfg) /\ Rank("terminal") = 14
        BY DEF Members, Rank
      <3>2. PICK k \in 1 .. Len(C) : C[k] = "terminal"
        BY <1>1, <3>1 DEF Lists
      <3>3. ~(k < at)
        <4>1. k < at => Rank("terminal") < Rank(Handler)
          BY <1>1, <1>2, <1>3, <3>2 DEF Lists
        <4>2. \A n \in 1 .. 14 : ~(14 < n)
          BY SMT
        <4> QED BY <1>3, <1>4, <3>1, <4>1, <4>2
      <3> QED BY SMT, <1>2, <1>3, <1>5, <3>2, <3>3
    <2>2. C[at + 1] \in Members(cfg)
      BY SMT, <1>2, <2>1
    <2>3. ASSUME NEW h \in Members(cfg), Rank(C[at + 1]) > Rank(h)
          PROVE  Rank(Handler) > Rank(h) \/ Handler = h
      <3>1. PICK k \in 1 .. Len(C) : C[k] = h
        BY <1>1 DEF Lists
      <3>2. ~(at + 1 < k) /\ at + 1 # k
        <4>1. at + 1 < k => Rank(C[at + 1]) < Rank(h)
          BY <1>1, <2>1, <3>1 DEF Lists
        <4> QED BY <1>4, <2>2, <2>3, <3>1, <4>1, RanksApart
      <3>3. k < at => Rank(h) < Rank(Handler)
        BY <1>1, <1>2, <1>3, <3>1 DEF Lists
      <3>4. k = at \/ k < at
        BY SMT, <1>2, <3>2
      <3>5. Rank(h) < Rank(Handler) => Rank(Handler) > Rank(h)
        BY <1>3, <1>4
      <3> QED BY <1>3, <3>1, <3>3, <3>4, <3>5
    <2> QED BY <2>1, <2>2, <2>3
  <1> QED BY <1>3, <1>4, <1>5

\* A handler that comes later in the order has those that come before it further out.
LEMMA Outward ==
  ASSUME TypeOK, at >= 1, NEW h \in Members(cfg), Rank(h) < Rank(Handler)
  PROVE  \E k \in 1 .. at - 1 : Chain(cfg)[k] = h
  <1> DEFINE C == Chain(cfg)
  <1>1. Lists(C, Members(cfg))
    BY ChainLists DEF TypeOK
  <1>2. C \in Seq(Members(cfg)) /\ Len(C) \in Nat /\ at \in 1 .. Len(C) /\ Handler = C[at]
    BY SMT, <1>1 DEF Lists, TypeOK, Handler
  <1>3. PICK k \in 1 .. Len(C) : C[k] = h
    BY <1>1 DEF Lists
  <1>4. at < k => Rank(Handler) < Rank(h)
    BY <1>1, <1>2, <1>3 DEF Lists
  <1>5. Rank(h) \in 1 .. 14 /\ Rank(Handler) \in 1 .. 14
    BY <1>2, Onward
  <1>6. Rank(h) # Rank(Handler) /\ ~(Rank(Handler) < Rank(h))
    BY <1>5, RanksApart
  <1>7. k < at
    <2>1. k # at
      BY <1>2, <1>3, <1>6
    <2> QED BY SMT, <1>2, <1>3, <1>4, <1>6, <2>1
  <1> QED BY SMT, <1>2, <1>3, <1>7

LEMMA PassOn ==
  ASSUME IInv, dir = "in", Handler # "terminal", Pass, UNCHANGED <<cfg, backend, lines>>,
         rego' # "error"
  PROVE  /\ at' \in 0 .. Len(Chain(cfg')) /\ dir' = "in" /\ UNCHANGED <<status, panicked>>
         /\ OnTheWay' /\ ErrorAnswered' /\ LoggedOnce' /\ BackendSeesPrincipal'
         /\ \A h \in Members(cfg) : Past(h)' => Past(h) \/ Handler = h
  <1>1. at >= 1 /\ backend = None /\ lines = <<>>
    BY DEF IInv, OnTheWay, LoggedOnce
  <1>2. at' = at + 1 /\ dir' = "in" /\ at \in Nat /\ UNCHANGED <<status, panicked>>
    BY SMT DEF Pass, IInv, TypeOK
  <1>3. OnTheWay' /\ ErrorAnswered' /\ LoggedOnce' /\ BackendSeesPrincipal'
    BY SMT, <1>1, <1>2 DEF OnTheWay, ErrorAnswered, LoggedOnce, BackendSeesPrincipal
  <1>4. at + 1 \in 1 .. Len(Chain(cfg))
    BY <1>1, Onward DEF IInv
  <1>5. Handler' = Chain(cfg)[at + 1]
    BY <1>2, <1>4 DEF Handler
  <1>6. ASSUME NEW h \in Members(cfg), Past(h)' PROVE Past(h) \/ Handler = h
    <2>1. Rank(Chain(cfg)[at + 1]) > Rank(h)
      BY <1>5, <1>6 DEF Past
    <2> QED BY <1>1, <2>1, Onward DEF Past, IInv
  <1>7. at' \in 0 .. Len(Chain(cfg'))
    BY SMT, <1>2, <1>4
  <1> QED BY <1>2, <1>3, <1>6, <1>7

LEMMA GoingOn == IInv /\ dir = "in" => Handler \in Members(cfg)
  BY Onward DEF IInv, OnTheWay

\* What passing on keeps of Gated and Rewritten, and what the handler that runs has to
\* make sure of.
LEMMA PassKeeps ==
  ASSUME IInv, TypeOK', dir = "in", Handler # "terminal", Pass,
         UNCHANGED <<cfg, backend, lines>>, rego' # "error", FirstCredentialWins',
         Past("forwarded") => UNCHANGED forwarded,
         Past("auth-gate") => UNCHANGED principal,
         Past("authz") => UNCHANGED rego,
         Past("projection") => UNCHANGED <<user, target>>,
         Past("issue") => UNCHANGED assertion,
         Past("assertion") => UNCHANGED assertion \/ Handler = "issue",
         Handler = "assertion" => assertion'[cfg.acceptHeader] = None,
         Handler = "forwarded" => forwarded' # "client",
         (Handler = "auth-gate" /\ cfg.required) => principal' # None,
         (Handler = "authz" /\ Has("require")) => Satisfied(principal'),
         (Handler = "authz" /\ Has("rego")) => rego' = "allow",
         Handler = "projection" => Projected',
         Handler = "issue" =>
             Minted' /\ \A n \in Name \ {cfg.issueHeader} : assertion'[n] = assertion[n]
  PROVE  IInv'
  <1>1. /\ OnTheWay' /\ ErrorAnswered' /\ LoggedOnce' /\ BackendSeesPrincipal'
        /\ \A h \in Members(cfg) : Past(h)' => Past(h) \/ Handler = h
    BY PassOn
  <1>2. /\ authActive(cfg) => "auth-gate" \in Members(cfg) /\ "projection" \in Members(cfg)
        /\ cfg.policies # <<>> => "authz" \in Members(cfg)
        /\ cfg.forwardIdentity => "issue" \in Members(cfg)
        /\ Accepts(cfg) => "assertion" \in Members(cfg)
        /\ "forwarded" \in Members(cfg)
        /\ "issue" \in Members(cfg) => cfg.forwardIdentity
    <2>1. Accepts(cfg) => authActive(cfg)
      BY DEF Accepts, authActive
    <2> QED BY <2>1 DEF Members, If
  <1>3. \A policy : Has(policy) => cfg.policies # <<>>
    BY SMT DEF Has
  <1>4. Past("authz") \/ Past("projection") \/ Past("issue") => Past("auth-gate")
    <2>1. Rank(Handler) \in 1 .. 14
      BY Onward DEF IInv, OnTheWay
    <2>2. Rank("authz") = 9 /\ Rank("projection") = 10 /\ Rank("issue") = 13 /\ Rank("auth-gate") = 8
      BY DEF Rank
    <2> QED BY SMT, <2>1, <2>2 DEF Past
  <1>6. Gated'
    <2>1. ASSUME Past("auth-gate")', authActive(cfg), cfg.required PROVE principal' # None
      BY <1>1, <1>2, <2>1 DEF IInv, Gated
    <2>2. ASSUME Past("authz")', Has("require") PROVE Satisfied(principal')
      BY <1>1, <1>2, <1>3, <1>4, <2>2 DEF IInv, Gated
    <2>3. ASSUME Past("authz")', Has("rego") PROVE rego' = "allow"
      BY <1>1, <1>2, <1>3, <2>3 DEF IInv, Gated
    <2> QED BY <2>1, <2>2, <2>3 DEF Gated, Has, Satisfied
  <1>7. Rewritten'
    <2>1. ASSUME Past("forwarded")' PROVE forwarded' # "client"
      BY <1>1, <1>2, <2>1 DEF IInv, Rewritten
    <2>2. ASSUME Past("projection")', authActive(cfg) PROVE Projected'
      BY <1>1, <1>2, <1>4, <2>2 DEF IInv, Rewritten, Projected, SubjectOf
    <2>3. ASSUME Past("issue")', cfg.forwardIdentity PROVE Minted'
      BY <1>1, <1>2, <1>4, <2>3 DEF IInv, Rewritten, Minted
    <2>4. ASSUME Past("assertion")', Accepts(cfg) PROVE Dropped'
      <3>1. CASE Handler = "assertion"
        BY <3>1 DEF Dropped
      <3>2. CASE Past("assertion") /\ UNCHANGED assertion
        BY <2>4, <3>2 DEF IInv, Rewritten, Dropped
      <3>3. CASE Past("assertion") /\ Handler = "issue"
        <4>1. cfg.forwardIdentity
          BY <1>2, <3>3, GoingOn
        <4>2. cfg.acceptHeader \in Name
          BY DEF IInv, TypeOK, Config
        <4>3. Dropped
          BY <2>4, <3>3 DEF IInv, Rewritten
        <4> QED BY <3>3, <4>1, <4>2, <4>3 DEF Dropped
      <3> QED BY <1>1, <1>2, <2>4, <3>1, <3>2, <3>3
    <2> QED BY <2>1, <2>2, <2>3, <2>4 DEF Rewritten, Accepts, authActive
  <1> QED BY <1>1, <1>6, <1>7 DEF IInv

\* The request turns round, or is on its way out.
LEMMA Returning ==
  ASSUME IInv, TypeOK', UNCHANGED <<cfg, ctxVars>>, dir' # "in",
         dir' = "out" => status' # None,
         dir' = "panic" => \E k \in 1 .. at' : Chain(cfg)[k] = "recover",
         ErrorAnswered', LoggedOnce', BackendSeesPrincipal'
  PROVE  IInv'
  BY DEF IInv, Gated, Rewritten, Past, OnTheWay, FirstCredentialWins, ctxVars

LEMMA InitEstablishes == Init => IInv
  <1> SUFFICES ASSUME Init PROVE IInv
    OBVIOUS
  <1>1. Lists(Chain(cfg), Members(cfg)) /\ Members(cfg) \subseteq Handlers
    BY ChainLists, RequestChainAssumption DEF Init
  <1>2. Len(Chain(cfg)) \in Nat /\ 1 \in 1 .. Len(Chain(cfg))
    <2>1. PICK k \in 1 .. Len(Chain(cfg)) : Chain(cfg)[k] = "forwarded"
      BY <1>1 DEF Lists, Members
    <2> QED BY SMT, <1>1, <2>1 DEF Lists
  <1>3. TypeOK
    <2>1. at \in 0 .. Len(Chain(cfg))
      BY SMT, <1>2 DEF Init
    <2>2. lines \in Seq(Principal \cup {None}) /\ Len(lines) <= 1
      BY SMT DEF Init
    <2>3. /\ user \in Writer /\ target \in Writer /\ assertion \in [Name -> Writer]
          /\ forwarded \in {None, "client", "proxy"} /\ cfg \in Config
      BY RequestChainAssumption DEF Init, Writer
    <2> QED BY <2>1, <2>2, <2>3 DEF Init, TypeOK
  <1>4. Handler = "forwarded"
    <2>1. PICK k \in 1 .. Len(Chain(cfg)) : Chain(cfg)[k] = "forwarded"
      BY <1>1 DEF Lists, Members
    <2>2. Handler = Chain(cfg)[1] /\ Handler \in Members(cfg) /\ at = 1
      BY SMT, <1>3, Onward DEF Init
    <2>3. k # 1 => Rank(Handler) < Rank("forwarded")
      <3>1. k # 1 => 1 < k
        BY SMT, <1>2
      <3> QED BY <1>1, <1>2, <2>1, <2>2, <3>1 DEF Lists
    <2>4. Rank("forwarded") = 1 /\ Rank(Handler) \in 1 .. 14
      <3>1. Rank("forwarded") = 1
        BY DEF Rank
      <3>2. Rank(Handler) \in 1 .. 14
        BY SMT, <1>3, <2>2, Onward
      <3> QED BY <3>1, <3>2
    <2> QED BY SMT, <2>1, <2>2, <2>3, <2>4
  <1>5. \A h \in Handlers : ~Past(h)
    <2>1. Rank(Handler) = 1
      BY <1>4 DEF Rank
    <2> QED BY SMT, <2>1, RankType DEF Past
  <1>6. Gated /\ Rewritten
    BY <1>5 DEF Gated, Rewritten, Handlers
  <1>7. OnTheWay /\ ErrorAnswered /\ LoggedOnce
    BY SMT, RequestChainAssumption DEF Init, OnTheWay, ErrorAnswered, LoggedOnce, Outcome
  <1>8. FirstCredentialWins /\ BackendSeesPrincipal
    BY DEF Init, FirstCredentialWins, BackendSeesPrincipal
  <1> QED BY <1>3, <1>6, <1>7, <1>8 DEF IInv

-----------------------------------------------------------------------------
(* The actions                                                             *)

\* On the way in nothing has been logged and no evaluation has failed.
LEMMA GoingIn ==
  ASSUME IInv, dir = "in"
  PROVE  at >= 1 /\ backend = None /\ lines = <<>> /\ rego # "error"
  BY DEF IInv, OnTheWay, LoggedOnce, ErrorAnswered

LEMMA AnswerKeeps ==
  ASSUME IInv, dir = "in", NEW code \in Status, Answer(code),
         UNCHANGED <<cfg, ctxVars, hdrVars, logVars>>,
         backend' \in BackendRequest \cup {None}, BackendSeesPrincipal', rego' \in Outcome \cup {None}, ErrorAnswered'
  PROVE  IInv'
  <1>1. at' = at - 1 /\ dir' = "out" /\ status' = code /\ UNCHANGED panicked
    BY DEF Answer
  <1>2. TypeOK'
    BY SMT, <1>1, GoingIn DEF IInv, TypeOK, ctxVars, hdrVars, logVars
  <1>3. LoggedOnce' /\ status' # None
    BY <1>1, GoingIn, RequestChainAssumption DEF LoggedOnce, logVars
  <1> QED BY <1>1, <1>2, <1>3, Returning

LEMMA PanicKeeps ==
  ASSUME IInv, dir \in {"in", "out"}, Rank(Handler) > Rank("access-log"), at >= 1,
         NEW sent \in Status \cup {None}, Panic(sent),
         UNCHANGED <<cfg, ctxVars, hdrVars, rego, logVars>>,
         backend' \in BackendRequest \cup {None}, BackendSeesPrincipal', rego # "error"
  PROVE  IInv'
  <1>1. at' = at - 1 /\ dir' = "panic" /\ status' = sent /\ panicked' = TRUE
    BY DEF Panic
  <1>2. TypeOK'
    BY SMT, <1>1 DEF IInv, TypeOK, ctxVars, hdrVars, logVars
  <1>3. "recover" \in Members(cfg) /\ "access-log" \in Members(cfg)
        /\ Rank("recover") = 3 /\ Rank("access-log") = 4
    BY DEF Members, Rank
  <1>4. Rank(Handler) \in 1 .. 14
    BY Onward DEF IInv
  <1>5. \E k \in 1 .. at' : Chain(cfg)[k] = "recover"
    <2>1. Rank("recover") < Rank(Handler)
      BY SMT, <1>3, <1>4
    <2> QED BY <1>1, <1>3, <2>1, Outward DEF IInv
  <1>6. lines = <<>>
    <2>1. PICK k \in 1 .. at - 1 : Chain(cfg)[k] = "access-log"
      <3>1. Rank("access-log") < Rank(Handler)
        BY <1>3, <1>4
      <3> QED BY <1>3, <3>1, Outward DEF IInv
    <2>2. k \in 1 .. at
      BY SMT, <2>1 DEF IInv, TypeOK
    <2> QED BY <2>1, <2>2 DEF IInv, LoggedOnce
  <1>7. LoggedOnce' /\ ErrorAnswered'
    BY <1>6 DEF LoggedOnce, ErrorAnswered, logVars
  <1> QED BY <1>1, <1>2, <1>5, <1>7, Returning

\* A handler that passes the request on and leaves it as it is.
LEMMA PassThrough ==
  ASSUME IInv, dir = "in", Pass,
         Handler \notin {"forwarded", "assertion", "auth-gate", "authz", "projection", "issue",
                      "terminal"},
         UNCHANGED <<cfg, ctxVars, rego, hdrVars, backend, lines>>, seen' \in {seen, principal}
  PROVE  IInv'
  <1>1. TypeOK'
    BY SMT, PassOn, GoingIn DEF IInv, TypeOK, ctxVars, hdrVars
  <1>2. FirstCredentialWins'
    BY DEF IInv, FirstCredentialWins, ctxVars
  <1> QED BY <1>1, <1>2, PassKeeps, GoingIn DEF ctxVars, hdrVars

\* A handler that answers the request itself.
LEMMA Refusal ==
  ASSUME IInv, dir = "in", NEW code \in Status, Answer(code),
         UNCHANGED <<cfg, ctxVars, rego, hdrVars, backend, logVars>>
  PROVE  IInv'
  <1>1. ErrorAnswered' /\ BackendSeesPrincipal'
    BY GoingIn DEF ErrorAnswered, BackendSeesPrincipal
  <1>2. backend' \in BackendRequest \cup {None} /\ rego' \in Outcome \cup {None}
    BY DEF IInv, TypeOK
  <1> QED BY <1>1, <1>2, AnswerKeeps

LEMMA EdgeKeeps ==
  ASSUME IInv, Forwarded \/ Security \/ Recover \/ AccessLog
  PROVE  IInv'
  <1>1. CASE Forwarded
    <2>1. TypeOK'
      BY SMT, <1>1, PassOn, GoingIn DEF Forwarded, In, IInv, TypeOK, ctxVars, logVars
    <2>2. FirstCredentialWins'
      BY <1>1 DEF Forwarded, IInv, FirstCredentialWins, ctxVars
    <2>3. ~Past("forwarded")
      BY SMT, <1>1 DEF Forwarded, In, Past, Rank
    <2>4. forwarded' # "client"
      BY <1>1, RequestChainAssumption DEF Forwarded
    <2> QED BY <1>1, <2>1, <2>2, <2>3, <2>4, PassKeeps, GoingIn DEF Forwarded, In, ctxVars, logVars
  <1>2. CASE Security
    BY <1>2, PassThrough, Refusal DEF Security, In, logVars, Status
  <1>3. CASE Recover
    BY <1>3, PassThrough DEF Recover, In, logVars
  <1>4. CASE AccessLog
    BY <1>4, PassThrough DEF AccessLog, In
  <1> QED BY <1>1, <1>2, <1>3, <1>4

\* The gates of the session slot, which resolve the principal.
LEMMA SlotKeeps ==
  ASSUME IInv, SessionGate \/ BearerGate \/ AssertionGate
  PROVE  IInv'
  <1>0. /\ dir = "in" /\ Handler \in {"session", "bearer", "assertion"} /\ Pass
        /\ UNCHANGED <<cfg, rego, user, target, forwarded, backend, logVars>>
    BY DEF SessionGate, BearerGate, AssertionGate, AssertionGateWhen, In, hdrVars
  <1>1. /\ ~Past("auth-gate") /\ ~Past("authz") /\ ~Past("projection") /\ ~Past("issue")
        /\ ~Past("assertion")
        /\ Handler \notin {"forwarded", "auth-gate", "authz", "projection", "issue", "terminal"}
    <2>1. Rank(Handler) \in 5 .. 7 /\ Rank("assertion") = 7
      BY SMT, <1>0 DEF Rank
    <2>2. /\ Rank("auth-gate") = 8 /\ Rank("authz") = 9 /\ Rank("projection") = 10
          /\ Rank("issue") = 13
      BY DEF Rank
    <2> QED BY SMT, <1>0, <2>1, <2>2 DEF Past
  <1>2. \A p \in Principal : p # None /\ p.sub # None /\ p.sub \in Subject
    BY RequestChainAssumption DEF Principal
  <1>3. /\ principal' \in Principal \cup {None}
        /\ cookie' \in Subject \cup {None} /\ token' \in Subject \cup {None}
    BY <1>2 DEF SessionGate, BearerGate, AssertionGate, AssertionGateWhen, IInv, TypeOK, ctxVars, hdrVars
  <1>6. /\ assertion' \in [Name -> Writer]
        /\ Handler = "assertion" => assertion'[cfg.acceptHeader] = None
    <2>1. cfg.acceptHeader \in Name /\ assertion \in [Name -> Writer] /\ None \in Writer
      BY DEF IInv, TypeOK, Config, Writer
    <2>2. CASE AssertionGate
      BY <2>1, <2>2 DEF AssertionGate, AssertionGateWhen
    <2>3. CASE SessionGate \/ BearerGate
      BY <2>1, <2>3 DEF SessionGate, BearerGate, In, hdrVars
    <2> QED BY <2>2, <2>3
  <1>4. TypeOK'
    <2>1. /\ at' \in 0 .. Len(Chain(cfg')) /\ dir' = "in" /\ UNCHANGED <<status, panicked>>
      BY <1>0, <1>1, PassOn, GoingIn DEF logVars
    <2> QED BY SMT, <1>0, <1>3, <1>6, <2>1 DEF IInv, TypeOK, logVars
  <1>5. FirstCredentialWins'
    <2>1. CASE SessionGate
      BY <1>2, <2>1 DEF SessionGate, IInv, FirstCredentialWins, ctxVars
    <2>2. CASE BearerGate
      BY <1>2, <2>2 DEF BearerGate, IInv, FirstCredentialWins, ctxVars
    <2>3. CASE AssertionGate
      BY <1>2, <2>3 DEF AssertionGate, AssertionGateWhen, IInv, FirstCredentialWins
    <2> QED BY <2>1, <2>2, <2>3
  <1> QED BY <1>0, <1>1, <1>4, <1>5, <1>6, PassKeeps, GoingIn DEF logVars

LEMMA AuthGateKeeps ==
  ASSUME IInv, AuthGate
  PROVE  IInv'
  <1>1. CASE cfg.required /\ principal = None
    BY <1>1, Refusal DEF AuthGate, In, Status
  <1>2. CASE ~(cfg.required /\ principal = None)
    <2>1. Pass /\ In("auth-gate")
      BY <1>2 DEF AuthGate
    <2>2. TypeOK'
      BY SMT, <2>1, PassOn, GoingIn DEF AuthGate, In, IInv, TypeOK, ctxVars, hdrVars, logVars
    <2>3. FirstCredentialWins'
      BY DEF AuthGate, IInv, FirstCredentialWins, ctxVars
    <2> QED BY <1>2, <2>1, <2>2, <2>3, PassKeeps, GoingIn DEF AuthGate, In, ctxVars, hdrVars, logVars
  <1> QED BY <1>1, <1>2

LEMMA ProjectionKeeps ==
  ASSUME IInv, ProjectionGate
  PROVE  IInv'
  <1>0. In("projection") /\ Pass /\ UNCHANGED <<cfg, ctxVars, rego, assertion, forwarded, backend, logVars>>
    BY DEF ProjectionGate, ProjectionGateLeaving
  <1>1. Projected'
    BY DEF ProjectionGate, ProjectionGateLeaving, Projected, SubjectOf, ctxVars
  <1>2. user' \in Writer /\ target' \in Writer
    <2>1. principal # None => principal.sub \in Subject
      BY DEF IInv, TypeOK, Principal
    <2> QED BY <2>1 DEF ProjectionGate, ProjectionGateLeaving, Writer, IInv, TypeOK
  <1>3. TypeOK'
    BY SMT, <1>0, <1>2, PassOn, GoingIn DEF In, IInv, TypeOK, ctxVars, logVars
  <1>4. FirstCredentialWins'
    BY <1>0 DEF IInv, FirstCredentialWins, ctxVars
  <1>5. ~Past("projection")
    BY SMT, <1>0 DEF In, Past, Rank
  <1> QED BY <1>0, <1>1, <1>3, <1>4, <1>5, PassKeeps, GoingIn DEF In, ctxVars, logVars

LEMMA IssueKeeps ==
  ASSUME IInv, IssueAssertion
  PROVE  IInv'
  <1>0. In("issue") /\ Pass /\ UNCHANGED <<cfg, ctxVars, rego, user, target, forwarded, backend, logVars>>
    BY DEF IssueAssertion
  <1>6. PICK minted \in {None, SubjectOf(principal)} :
          assertion' = [assertion EXCEPT ![cfg.issueHeader] = minted]
    BY DEF IssueAssertion
  <1>7. cfg.issueHeader \in Name /\ assertion \in [Name -> Writer]
    BY DEF IInv, TypeOK, Config
  <1>8. minted \in Writer
    BY DEF SubjectOf, IInv, TypeOK, Principal, Writer
  <1>1. Minted' /\ \A n \in Name \ {cfg.issueHeader} : assertion'[n] = assertion[n]
    <2>1. assertion'[cfg.issueHeader] = minted
      BY <1>6, <1>7
    <2> QED BY <1>0, <1>6, <1>7, <2>1 DEF Minted, SubjectOf, ctxVars
  <1>2. assertion' \in [Name -> Writer]
    BY <1>6, <1>7, <1>8
  <1>3. TypeOK'
    BY SMT, <1>0, <1>2, PassOn, GoingIn DEF In, IInv, TypeOK, ctxVars, logVars
  <1>4. FirstCredentialWins'
    BY <1>0 DEF IInv, FirstCredentialWins, ctxVars
  <1>5. ~Past("issue")
    BY SMT, <1>0 DEF In, Past, Rank
  <1> QED BY <1>0, <1>1, <1>3, <1>4, <1>5, PassKeeps, GoingIn DEF In, ctxVars, logVars

\* authz.Gate passes on only what every policy of the route lets through.
LEMMA AuthzKeeps ==
  ASSUME IInv, AuthzGate
  PROVE  IInv'
  <1>0. /\ In("authz") /\ UNCHANGED <<cfg, ctxVars, hdrVars, backend, logVars>>
    BY DEF AuthzGate
  <1> DEFINE denying(outcome) == {i \in DOMAIN cfg.policies : Denies(cfg.policies[i], outcome)}
             reached(outcome) == {i \in DOMAIN cfg.policies : \A j \in denying(outcome) : i <= j}
             error(i, outcome) == outcome = "error" /\ cfg.policies[i] = "rego"
  <1>1. PICK outcome \in Outcome :
          /\ rego' = IF \E i \in reached(outcome) : cfg.policies[i] = "rego" THEN outcome ELSE None
          /\ \/ denying(outcome) = {} /\ Pass
             \/ \E i \in denying(outcome) :
                  /\ \A j \in denying(outcome) : i <= j
                  /\ Answer(IF cfg.redirect /\ cfg.type = "app" /\ ~error(i, outcome)
                              THEN "302" ELSE "403")
    BY DEF AuthzGate
  <1>2. rego' \in Outcome \cup {None} /\ None # "error"
    BY <1>1, RequestChainAssumption DEF Outcome
  <1>3. CASE denying(outcome) = {} /\ Pass
    <2>1. \A i \in DOMAIN cfg.policies : i \in reached(outcome) /\ ~Denies(cfg.policies[i], outcome)
      BY <1>3
    <2>2. Has("require") => Satisfied(principal)
      BY <2>1 DEF Has, Denies
    <2>3. Has("rego") => outcome = "allow"
      BY <2>1 DEF Has, Denies
    <2>4. Has("rego") => rego' = "allow"
      BY <1>1, <2>1, <2>3 DEF Has
    <2>5. rego' # "error"
      BY <1>1, <1>2, <2>1, <2>3 DEF Has
    <2>6. TypeOK'
      BY SMT, <1>0, <1>2, <1>3, <2>5, PassOn DEF In, IInv, TypeOK, ctxVars, hdrVars, logVars
    <2>7. FirstCredentialWins'
      BY <1>0 DEF IInv, FirstCredentialWins, ctxVars
    <2>8. ~Past("authz")
      BY SMT, <1>0 DEF In, Past, Rank
    <2> QED BY <1>0, <1>3, <2>2, <2>4, <2>5, <2>6, <2>7, <2>8, PassKeeps
            DEF In, ctxVars, hdrVars, logVars
  <1>4. ASSUME NEW i \in denying(outcome), \A j \in denying(outcome) : i <= j,
               Answer(IF cfg.redirect /\ cfg.type = "app" /\ ~error(i, outcome)
                        THEN "302" ELSE "403")
        PROVE  IInv'
    <2>1. rego' = "error" => error(i, outcome)
      <3> SUFFICES ASSUME rego' = "error" PROVE error(i, outcome)
        OBVIOUS
      <3>1. PICK k \in reached(outcome) : cfg.policies[k] = "rego" /\ outcome = "error"
        BY <1>1, <1>2
      <3>2. k \in denying(outcome) /\ k <= i /\ i <= k
        BY <1>4, <3>1 DEF Denies
      <3>3. i \in Nat /\ k \in Nat
        BY SMT, <3>1 DEF IInv, TypeOK, Config
      <3> QED BY SMT, <3>1, <3>2, <3>3
    <2>2. at >= 1 /\ at' = at - 1 /\ dir' = "out" /\ (error(i, outcome) => status' = "403")
      BY <1>0, <1>4, GoingIn DEF Answer, In
    <2>3. \A j \in 1 .. at' : Rank(Chain(cfg)[j]) < Rank("authz")
      <3>1. Lists(Chain(cfg), Members(cfg)) /\ Handler = Chain(cfg)[at]
        BY <2>2, ChainLists, Onward DEF IInv, TypeOK
      <3>2. at \in 1 .. Len(Chain(cfg)) /\ Len(Chain(cfg)) \in Nat
        BY SMT, <2>2, <3>1 DEF IInv, TypeOK, Lists
      <3>3. ASSUME NEW j \in 1 .. at' PROVE Rank(Chain(cfg)[j]) < Rank(Handler)
        <4>1. j \in 1 .. Len(Chain(cfg)) /\ j < at
          BY SMT, <2>2, <3>2
        <4> QED BY <3>1, <3>2, <4>1 DEF Lists
      <3> QED BY <1>0, <3>3 DEF In
    <2>4. ErrorAnswered'
      BY <1>0, <2>1, <2>2, <2>3 DEF ErrorAnswered
    <2>5. BackendSeesPrincipal' /\ backend' \in BackendRequest \cup {None}
      BY <1>0, GoingIn DEF BackendSeesPrincipal, In, IInv, TypeOK
    <2> QED BY <1>0, <1>2, <1>4, <2>4, <2>5, AnswerKeeps DEF In, Status
  <1> QED BY <1>1, <1>3, <1>4

LEMMA PluginKeeps ==
  ASSUME IInv, Plugin \/ PluginPanics
  PROVE  IInv'
  <1>0. /\ dir \in {"in", "out"} /\ Handler \in {"request-plugin", "response-plugin"}
        /\ UNCHANGED <<cfg, ctxVars, rego, hdrVars, backend, logVars>>
    BY DEF Plugin, PluginPanics
  <1>1. CASE dir = "in" /\ Pass
    BY <1>0, <1>1, PassThrough DEF logVars
  <1>2. CASE dir = "in" /\ Answer("plugin")
    BY <1>0, <1>2, Refusal DEF Status
  <1>3. ASSUME NEW sent \in {status, None}, Panic(sent) PROVE IInv'
    <2>1. at >= 1 /\ at \in 1 .. Len(Chain(cfg)) /\ Handler = Chain(cfg)[at]
      BY SMT, <1>0 DEF Handler, IInv, TypeOK
    <2>2. /\ Rank(Handler) \in 11 .. 12 /\ Rank("access-log") = 4 /\ Rank("authz") = 9
      BY SMT, <1>0 DEF Rank
    <2>3. rego # "error"
      BY SMT, <2>1, <2>2 DEF IInv, ErrorAnswered
    <2>4. BackendSeesPrincipal' /\ backend' \in BackendRequest \cup {None} /\ sent \in Status \cup {None}
      BY <1>0 DEF IInv, BackendSeesPrincipal, TypeOK, ctxVars
    <2> QED BY SMT, <1>0, <1>3, <2>1, <2>2, <2>3, <2>4, PanicKeeps
  <1> QED BY <1>0, <1>1, <1>2, <1>3 DEF Plugin, PluginPanics

\* The backend gets what the gates have made of the request.
LEMMA TerminalKeeps ==
  ASSUME IInv, Terminal
  PROVE  IInv'
  <1>0. /\ dir = "in" /\ Handler = "terminal" /\ UNCHANGED <<cfg, ctxVars, rego, hdrVars, logVars>>
    BY DEF Terminal, In
  <1>1. Past("forwarded") /\ Past("assertion") /\ Past("projection") /\ Past("issue")
    BY SMT, <1>0 DEF Past, Rank
  <1>2. ASSUME NEW copied \in BOOLEAN, NEW forwardIdentity \in BOOLEAN,
               forwardIdentity => cfg.forwardIdentity,
               backend' = prepareBackendRequest(copied, forwardIdentity)
        PROVE  BackendSeesPrincipal' /\ backend' \in BackendRequest
    <2> DEFINE header == IF cfg.forwardIdentity THEN cfg.issueHeader ELSE DefaultAssertionHeader
    <2>0. /\ cfg \in Config /\ user \in Writer /\ target \in Writer /\ None \in Writer
          /\ assertion \in [Name -> Writer] /\ forwarded \in {None, "client", "proxy"}
      BY DEF IInv, TypeOK, Writer
    <2>1. /\ backend'.user = user /\ backend'.forwarded = forwarded
          /\ backend'.target \in {None, target}
          /\ \A n \in Name : backend'.assertion[n] =
               IF forwardIdentity /\ n = header THEN assertion[n]
               ELSE IF copied /\ n \notin {DefaultAssertionHeader, header} THEN assertion[n]
               ELSE None
      BY <1>2 DEF prepareBackendRequest
    <2>2. backend' \in BackendRequest
      BY <1>2, <2>0 DEF prepareBackendRequest, BackendRequest
    <2>3. forwarded # "client" /\ (authActive(cfg) => Projected)
      BY <1>1 DEF IInv, Rewritten
    <2>4. ASSUME NEW n \in Known(cfg), backend'.assertion[n] # None
          PROVE  /\ cfg.forwardIdentity /\ n = cfg.issueHeader
                 /\ principal # None /\ backend'.assertion[n] = principal.sub
      <3>1. n \in Name
        BY <2>0 DEF Known, Config, Name
      <3>2. CASE n = header
        <4>1. forwardIdentity /\ cfg.forwardIdentity /\ n = cfg.issueHeader
          BY <1>2, <2>1, <2>4, <3>1, <3>2
        <4>2. Minted
          BY <1>1, <4>1 DEF IInv, Rewritten
        <4> QED BY <2>1, <2>4, <3>1, <3>2, <4>1, <4>2 DEF Minted
      <3>3. CASE n # header
        <4>1. n # DefaultAssertionHeader /\ backend'.assertion[n] = assertion[n]
          BY <2>1, <2>4, <3>1, <3>3
        <4>2. Accepts(cfg) /\ n = cfg.acceptHeader
          BY <2>4, <3>3, <4>1 DEF Known
        <4>3. Dropped
          BY <1>1, <4>2 DEF IInv, Rewritten
        <4> QED BY <2>4, <3>3, <4>1, <4>2, <4>3 DEF Dropped
      <3> QED BY <3>2, <3>3
    <2>5. UNCHANGED <<cfg, principal>>
      BY <1>0 DEF ctxVars
    <2>6. authActive(cfg) => backend'.user = SubjectOf(principal)
      BY <2>1, <2>3 DEF Projected
    <2>7. (authActive(cfg) /\ cfg.override /\ principal # None) =>
            backend'.target \in {None, principal.sub}
      BY <2>1, <2>3 DEF Projected
    <2> QED BY <2>1, <2>2, <2>3, <2>4, <2>5, <2>6, <2>7 DEF BackendSeesPrincipal
  <1>4. BackendSeesPrincipal' /\ backend' \in BackendRequest \cup {None}
    <2>1. CASE UNCHANGED backend
      BY <1>0, <2>1, GoingIn DEF BackendSeesPrincipal
    <2>2. CASE ~UNCHANGED backend
      BY <1>2, <2>2 DEF Terminal
    <2> QED BY <2>1, <2>2
  <1>5. ASSUME NEW code \in {"200", "502", "504"}, Answer(code) PROVE IInv'
    <2>1. ErrorAnswered' /\ rego' \in Outcome \cup {None}
      BY <1>0, GoingIn DEF ErrorAnswered, IInv, TypeOK
    <2> QED BY <1>0, <1>4, <1>5, <2>1, AnswerKeeps DEF Status
  <1>6. ASSUME NEW sent \in {"200", None}, Panic(sent) PROVE IInv'
    <2>1. Rank(Handler) > Rank("access-log")
      BY SMT, <1>0 DEF Rank
    <2>2. sent \in Status \cup {None}
      BY DEF Status
    <2> QED BY <1>0, <1>4, <1>6, <2>1, <2>2, PanicKeeps, GoingIn
  <1> QED BY <1>5, <1>6 DEF Terminal

\* The way out.
LEMMA OutKeeps ==
  ASSUME IInv, AccessLogLine \/ Recovered \/ Unwind
  PROVE  IInv'
  <1>0. /\ UNCHANGED <<cfg, ctxVars, rego, hdrVars, backend, panicked, seen>> /\ at' = at - 1
        /\ dir \in {"out", "panic"} /\ dir' \in {"out", dir}
    BY DEF AccessLogLine, Recovered, Unwind, logVars
  <1>1. at >= 1 /\ at \in 1 .. Len(Chain(cfg)) /\ Handler = Chain(cfg)[at]
    BY SMT DEF AccessLogLine, Recovered, Unwind, Handler, IInv, TypeOK
  <1>2. BackendSeesPrincipal'
    BY <1>0 DEF IInv, BackendSeesPrincipal, ctxVars
  <1>3. dir' = "panic" => \E k \in 1 .. at' : Chain(cfg)[k] = "recover"
    <2> SUFFICES ASSUME dir' = "panic" PROVE \E k \in 1 .. at' : Chain(cfg)[k] = "recover"
      OBVIOUS
    <2>1. dir = "panic" /\ Handler # "recover"
      BY DEF AccessLogLine, Recovered, Unwind
    <2>2. PICK k \in 1 .. at : Chain(cfg)[k] = "recover"
      BY <2>1 DEF IInv, OnTheWay
    <2>3. k # at
      BY <1>1, <2>1, <2>2
    <2>4. k \in 1 .. at'
      BY SMT, <1>0, <1>1, <2>3
    <2> QED BY <2>2, <2>4
  <1>4. status' \in Status \cup {None} /\ (dir' = "out" => status' # None)
    <2>1. CASE AccessLogLine \/ Unwind
      BY <2>1 DEF AccessLogLine, Unwind, IInv, OnTheWay, TypeOK
    <2>2. CASE Recovered
      BY <2>2, RequestChainAssumption DEF Recovered, IInv, TypeOK, Status
    <2> QED BY <2>1, <2>2
  <1>5. ErrorAnswered'
    <2> SUFFICES ASSUME rego = "error" PROVE ErrorAnswered'
      BY <1>0 DEF ErrorAnswered
    <2>1. dir = "out" /\ status = "403" /\ \A i \in 1 .. at : Rank(Chain(cfg)[i]) < Rank("authz")
      BY DEF IInv, ErrorAnswered
    <2>2. dir' = "out" /\ status' = "403"
      BY <2>1 DEF AccessLogLine, Recovered, Unwind
    <2>3. \A i \in 1 .. at' : i \in 1 .. at
      BY SMT, <1>0, <1>1
    <2> QED BY <1>0, <2>1, <2>2, <2>3 DEF ErrorAnswered
  <1>6. LoggedOnce' /\ lines' \in Seq(Principal \cup {None}) /\ Len(lines') <= 1
    <2>1. CASE AccessLogLine
      <3>1. Handler = "access-log" /\ dir = "out" /\ dir' = "out" /\ lines' = Append(lines, seen)
        BY <2>1 DEF AccessLogLine
      <3>2. lines = <<>>
        <4>1. at \in 1 .. at
          BY SMT, <1>1 DEF IInv, TypeOK
        <4> QED BY <1>1, <3>1, <4>1 DEF IInv, LoggedOnce
      <3>3. lines' = <<seen>> /\ seen \in Principal \cup {None}
        <4>1. seen \in Principal \cup {None}
          BY DEF IInv, TypeOK
        <4>2. Append(<<>>, seen) = <<seen>>
          BY SMT
        <4> QED BY <3>1, <3>2, <4>1, <4>2
      <3>4. \A i \in 1 .. at' : Chain(cfg)[i] # "access-log"
        <4>1. Lists(Chain(cfg), Members(cfg)) /\ Len(Chain(cfg)) \in Nat
          BY SMT, ChainLists DEF IInv, TypeOK, Lists
        <4>2. ASSUME NEW i \in 1 .. at' PROVE Rank(Chain(cfg)[i]) < Rank(Handler)
          <5>1. i \in 1 .. Len(Chain(cfg)) /\ i < at
            BY SMT, <1>0, <1>1, <4>1
          <5> QED BY <1>1, <4>1, <5>1 DEF Lists
        <4>3. ~(Rank("access-log") < Rank("access-log"))
          BY SMT DEF Rank
        <4> QED BY <3>1, <4>2, <4>3
      <3> QED BY SMT, <1>0, <3>1, <3>3, <3>4 DEF LoggedOnce
    <2>2. CASE Recovered \/ Unwind
      <3>1. lines' = lines
        BY <2>2 DEF Recovered, Unwind, logVars
      <3>2. \A i \in 1 .. at' : i \in 1 .. at
        BY SMT, <1>0, <1>1
      <3>3. dir = "out" => dir' = "out"
        BY <1>0
      <3> QED BY <1>0, <3>1, <3>2, <3>3 DEF LoggedOnce, IInv, TypeOK
    <2> QED BY <2>1, <2>2
  <1>7. TypeOK'
    BY SMT, <1>0, <1>1, <1>4, <1>6 DEF IInv, TypeOK, ctxVars, hdrVars
  <1> QED BY <1>0, <1>2, <1>3, <1>4, <1>5, <1>6, <1>7, Returning

LEMMA NextKeeps == IInv /\ [Next]_vars => IInv'
  <1> SUFFICES ASSUME IInv, [Next]_vars PROVE IInv'
    OBVIOUS
  <1>1. CASE UNCHANGED vars
    <2> USE <1>1 DEF vars, ctxVars, hdrVars, logVars, IInv
    <2>1. TypeOK'
      BY SMT DEF TypeOK
    <2>2. Gated'
      BY DEF Gated, Past, Handler, Has, Satisfied
    <2>3. Rewritten'
      BY DEF Rewritten, Past, Handler, Dropped, Projected, Minted
    <2>4. OnTheWay' /\ ErrorAnswered' /\ LoggedOnce'
      BY DEF OnTheWay, ErrorAnswered, LoggedOnce, Handler
    <2>5. FirstCredentialWins' /\ BackendSeesPrincipal'
      BY DEF FirstCredentialWins, BackendSeesPrincipal
    <2> QED BY <2>1, <2>2, <2>3, <2>4, <2>5
  <1> QED
    BY <1>1, EdgeKeeps, SlotKeeps, AuthGateKeeps, AuthzKeeps, ProjectionKeeps, IssueKeeps,
       PluginKeeps, TerminalKeeps, OutKeeps DEF Next, Done

LEMMA Invariance == Spec => []IInv
  BY InitEstablishes, NextKeeps, PTL DEF Spec

-----------------------------------------------------------------------------

\* In every chain Build composes, a plugin, the issuer and the terminal handler run only
\* for a request that the gates of the route have let through.
THEOREM PluginsBehindGates == Spec => []GatesFirst
  <1>1. IInv => GatesFirst
    <2> SUFFICES ASSUME IInv, dir = "in", Handler \in Behind
                 PROVE  /\ (authActive(cfg) /\ cfg.required) => principal # None
                        /\ Has("require") => Satisfied(principal)
                        /\ Has("rego") => rego = "allow"
      BY DEF GatesFirst
    <2>1. Rank(Handler) \in 11 .. 14 /\ Rank("auth-gate") = 8 /\ Rank("authz") = 9
      BY SMT DEF Behind, Rank
    <2>2. Past("auth-gate") /\ Past("authz")
      BY SMT, <2>1 DEF Past
    <2> QED BY <2>2 DEF IInv, Gated
  <1> QED BY <1>1, Invariance, PTL

\* The principal is that of the cookie, else of the bearer token, else, only where
\* requireBearer is false, of the assertion.
THEOREM CredentialOrder == Spec => []FirstCredentialWins
  <1>1. IInv => FirstCredentialWins
    BY DEF IInv
  <1> QED BY <1>1, Invariance, PTL

\* Whatever the client sends, and however the headers are named: what a backend gets in
\* X-User-* on a route with gates, in the header a projection names for a principal, and in
\* an assertion header that a handler of the chain knows, is the principal's.
THEOREM BackendIdentity == Spec => []BackendSeesPrincipal
  <1>1. IInv => BackendSeesPrincipal
    BY DEF IInv
  <1> QED BY <1>1, Invariance, PTL

\* Every request that comes out has been given a status, and a policy that could not be
\* evaluated has been answered 403.
THEOREM Answered == Spec => []AlwaysAnswered
  <1>1. IInv => AlwaysAnswered
    <2> SUFFICES ASSUME IInv, at = 0 PROVE status # None /\ (rego = "error" => status = "403")
      BY DEF AlwaysAnswered
    <2>1. dir = "out"
      BY SMT DEF IInv, OnTheWay, TypeOK
    <2> QED BY <2>1 DEF IInv, OnTheWay, ErrorAnswered
  <1> QED BY <1>1, Invariance, PTL
=============================================================================
