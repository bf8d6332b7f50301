------------------------------ MODULE LoginFlow ------------------------------
(***************************************************************************)
(* The browser sign-in (auth/endpoints.go, auth/loginstate.go, the gates   *)
(* of auth/gates.go and idp's Exchange): several sign-ins of one browser,  *)
(* each in a tab of its own, from the protected page through Login, the    *)
(* identity provider and Callback back to the page.                        *)
(*                                                                         *)
(* A sign-in is a member of Flow and stands for its state, nonce, PKCE     *)
(* verifier and return_to.  Requests carry the cookies of the moment they  *)
(* are sent; what responses set and expire applies when they arrive, in    *)
(* any order.  A login cookie is named after its sign-in; the plain        *)
(* hog_login cookie, from before sign-ins had their own, holds Legacy's.   *)
(* The session is whatever the session manager put in the jar last.        *)
(***************************************************************************)
EXTENDS Naturals, FiniteSets

CONSTANTS
    Flow,            \* sign-ins of the browser
    Legacy,          \* one of them, under way since before the upgrade
    Plain,           \* the cookie name hog_login
    None,
    Limit,           \* values maxLoginFlows may have
    Concurrency,     \* bound: Login requests in flight at once
    FaultKinds,      \* which of AllFaults may happen
    MaxFaults,       \* bound: how many of them do
    MaxReloads       \* bound: reloads of a callback URL

AllFaults == {"ttl", "key", "deny", "exchange", "lose", "userinfo", "issue", "logout"}

ASSUME LoginFlowAssumption ==
    /\ IsFiniteSet(Flow) /\ Legacy \in Flow
    /\ None \notin Flow \cup {Plain} /\ Plain \notin Flow
    /\ Limit \subseteq Nat \ {0} /\ Concurrency \in Nat \ {0}
    /\ FaultKinds \subseteq AllFaults /\ MaxFaults \in Nat /\ MaxReloads \in Nat

VARIABLES
    maxLoginFlows,
    jar,       \* the login cookies: the sign-in sealed in each, or None
    session,   \* the sign-in whose session the browser holds, or None
    stale,     \* sign-ins sealed under a key that is no longer in use
    pc,        \* per sign-in: where it is
    ls, raw,   \* per sign-in: the loginState its callback opened, and from which cookie
    expires,   \* per sign-in: the cookies its Login response expires
    page,      \* per sign-in: what the person sees in its tab
    spent,     \* sign-ins whose code the identity provider has redeemed
    faults, reloads

flowVars == <<pc, ls, raw, expires, page>>
vars == <<maxLoginFlows, jar, session, stale, flowVars, spent, faults, reloads>>

Name == Flow \cup {Plain}
InCallback == {"exchange", "userinfo", "issue", "issued"}

TypeOK ==
    /\ maxLoginFlows \in Limit
    /\ jar \in [Name -> Flow \cup {None}]
    /\ session \in Flow \cup {None}
    /\ stale \subseteq Flow
    /\ pc \in [Flow -> {"new", "redirected", "login", "idp", "code", "error", "shown"}
                         \cup InCallback]
    /\ ls \in [Flow -> Flow \cup {None}]
    /\ raw \in [Flow -> Name]
    /\ expires \in [Flow -> SUBSET Name]
    /\ page \in [Flow -> {"none", "app", "home", "400", "denied", "500", "502"}]
    /\ spent \subseteq Flow
    /\ faults \in 0 .. MaxFaults /\ reloads \in 0 .. MaxReloads

Init ==
    /\ maxLoginFlows \in Limit
    /\ \E upgraded \in BOOLEAN :
        /\ jar = [n \in Name |-> IF upgraded /\ n = Plain THEN Legacy ELSE None]
        /\ pc = [f \in Flow |-> IF upgraded /\ f = Legacy THEN "idp" ELSE "new"]
    /\ session = None
    /\ stale = {}
    /\ ls = [f \in Flow |-> None]
    /\ raw = [f \in Flow |-> Plain]
    /\ expires = [f \in Flow |-> {}]
    /\ page = [f \in Flow |-> "none"]
    /\ spent = {}
    /\ faults = 0 /\ reloads = 0

Fault(kind) ==
    /\ kind \in FaultKinds
    /\ faults < MaxFaults
    /\ faults' = faults + 1

NoFault == UNCHANGED faults

-----------------------------------------------------------------------------
(* From the protected page to the identity provider                        *)

\* A navigation to an app route that requires a session: SessionGate finds none,
\* so AuthGate redirects to the login path.
Visit(f) ==
    /\ pc[f] = "new"
    /\ session = None
    /\ pc' = [pc EXCEPT ![f] = "redirected"]
    /\ UNCHANGED <<maxLoginFlows, jar, session, stale, ls, raw, expires, page, spent,
                   faults, reloads>>

\* loginCookies(r)
loginCookies == {n \in Name : jar[n] # None}

LoginExpiring(f, names) ==
    /\ pc[f] = "redirected"
    /\ Cardinality({g \in Flow : pc[g] = "login"}) < Concurrency
    /\ expires' = [expires EXCEPT ![f] = names]
    /\ pc' = [pc EXCEPT ![f] = "login"]
    /\ UNCHANGED <<maxLoginFlows, jar, session, stale, ls, raw, page, spent, faults, reloads>>

LoginOneTooMany(f) ==
    LoginExpiring(f, IF Cardinality(loginCookies) > maxLoginFlows THEN loginCookies ELSE {})
LoginAlwaysClears(f) == LoginExpiring(f, loginCookies)

\* Login: seal the state; a request that carries maxLoginFlows login cookies has
\* them all expired.
Login(f) ==
    LoginExpiring(f, IF Cardinality(loginCookies) >= maxLoginFlows THEN loginCookies ELSE {})

\* loginCookieName(state): the cookie of the sign-in that issued state.
loginCookieName(f) == f

\* The browser gets Login's response and follows it to the identity provider.
LoginArrives(f) ==
    /\ pc[f] = "login"
    /\ jar' = [n \in Name |-> IF n = loginCookieName(f) THEN f
                              ELSE IF n \in expires[f] THEN None ELSE jar[n]]
    /\ expires' = [expires EXCEPT ![f] = {}]
    /\ pc' = [pc EXCEPT ![f] = "idp"]
    /\ UNCHANGED <<maxLoginFlows, session, stale, ls, raw, page, spent, faults, reloads>>

\* The person signs in, or the identity provider answers with an error; the browser
\* is sent to the callback.  A sign-in that is abandoned takes no step.
Authenticate(f) ==
    /\ pc[f] = "idp"
    /\ \/ NoFault /\ pc' = [pc EXCEPT ![f] = "code"]
       \/ Fault("deny") /\ pc' = [pc EXCEPT ![f] = "error"]
    /\ UNCHANGED <<maxLoginFlows, jar, session, stale, ls, raw, expires, page, spent, reloads>>

-----------------------------------------------------------------------------
(* Callback                                                                *)

\* The tab of f shows p.
Show(f, p) ==
    /\ pc' = [pc EXCEPT ![f] = "shown"]
    /\ page' = [page EXCEPT ![f] = p]
    /\ UNCHANGED <<ls, raw, expires>>

Proceed(f, to) ==
    /\ pc' = [pc EXCEPT ![f] = to]
    /\ UNCHANGED <<ls, raw, expires, page>>

\* rejectCallback: on to the app when the browser holds a valid session.
rejectCallback(f) == Show(f, IF session # None THEN "home" ELSE "400")

\* The cookie a callback with f's state is matched with: its own, else the plain one.
RawName(f) == IF jar[loginCookieName(f)] # None THEN loginCookieName(f) ELSE Plain

CallbackMatching(f, matches) ==
    LET n == RawName(f)
        s == jar[n]
    IN  /\ pc[f] \in {"code", "error"}
        /\ \/ (s = None \/ s \in stale) /\ rejectCallback(f)
           \/ s \notin stale \cup {None} /\ pc[f] = "error" /\ Show(f, "denied")
           \/ s \notin stale \cup {None} /\ pc[f] = "code" /\ ~matches /\ rejectCallback(f)
           \/ /\ s \notin stale \cup {None} /\ pc[f] = "code" /\ matches
              /\ pc' = [pc EXCEPT ![f] = "exchange"]
              /\ ls' = [ls EXCEPT ![f] = s]
              /\ raw' = [raw EXCEPT ![f] = n]
              /\ UNCHANGED <<expires, page>>
        /\ UNCHANGED <<maxLoginFlows, jar, session, stale, spent, faults, reloads>>

CallbackUnmatched(f) == CallbackMatching(f, TRUE)

\* Callback, up to the exchange: find the cookie, open it, compare the states.
Callback(f) == CallbackMatching(f, jar[RawName(f)] = f)

ExchangeRetried(f) ==
    /\ pc[f] = "exchange"
    /\ IF ls[f] = f /\ f \notin spent
         THEN spent' = spent \cup {f} /\ Proceed(f, "userinfo")
         ELSE UNCHANGED <<flowVars, spent>>
    /\ UNCHANGED <<maxLoginFlows, jar, session, stale, faults, reloads>>

\* idp.Exchange: the provider redeems a code once, for the verifier it was asked
\* with; the id_token's nonce must be ls.Nonce.  The answer may be lost.
Exchange(f) ==
    LET honours == ls[f] = f /\ f \notin spent
    IN  /\ pc[f] = "exchange"
        /\ \/ /\ honours
              /\ spent' = spent \cup {f}
              /\ \/ NoFault /\ Proceed(f, "userinfo")
                 \/ Fault("lose") /\ Show(f, "502")
           \/ /\ (~honours /\ NoFault) \/ Fault("exchange")
              /\ UNCHANGED spent
              /\ Show(f, "502")
        /\ UNCHANGED <<maxLoginFlows, jar, session, stale, reloads>>

\* idp.UserInfo, when a claim needs it.
UserInfo(f) ==
    /\ pc[f] = "userinfo"
    /\ \/ NoFault /\ Proceed(f, "issue")
       \/ Fault("userinfo") /\ Show(f, "502")
    /\ UNCHANGED <<maxLoginFlows, jar, session, stale, spent, reloads>>

\* Manager.Issue
Issue(f) ==
    /\ pc[f] = "issue"
    /\ \/ NoFault /\ Proceed(f, "issued")
       \/ Fault("issue") /\ Show(f, "500")
    /\ UNCHANGED <<maxLoginFlows, jar, session, stale, spent, reloads>>

ArrivesExpiring(f, n) ==
    /\ pc[f] = "issued"
    /\ session' = f
    /\ jar' = [jar EXCEPT ![n] = None]
    /\ Show(f, "app")
    /\ UNCHANGED <<maxLoginFlows, stale, spent, faults, reloads>>

ArrivesExpiringOwn(f) == ArrivesExpiring(f, loginCookieName(f))

\* The browser gets Callback's response: the session, the expired login cookie
\* (raw.Name) and the redirect to ls.ReturnTo.
CallbackArrives(f) == ArrivesExpiring(f, raw[f])

-----------------------------------------------------------------------------
(* The person and the environment                                          *)

\* The callback URL is loaded again, while it is being answered (the answer is
\* dropped; the exchange under way may or may not have happened) or after.
Reload(f) ==
    /\ pc[f] \in InCallback \/ (pc[f] = "shown" /\ page[f] # "denied")
    /\ reloads < MaxReloads
    /\ reloads' = reloads + 1
    /\ pc' = [pc EXCEPT ![f] = "code"]
    /\ page' = [page EXCEPT ![f] = "none"]
    /\ \/ UNCHANGED spent
       \/ pc[f] = "exchange" /\ ls[f] = f /\ spent' = spent \cup {f}
    /\ UNCHANGED <<maxLoginFlows, jar, session, stale, ls, raw, expires, faults>>

\* A login cookie reaches loginTTL.
Expire(n) ==
    /\ jar[n] # None
    /\ Fault("ttl")
    /\ jar' = [jar EXCEPT ![n] = None]
    /\ UNCHANGED <<maxLoginFlows, session, stale, flowVars, spent, reloads>>

\* session.key is replaced: the gateway drains its requests and restarts.
KeyChange ==
    /\ \A f \in Flow : pc[f] \notin InCallback \cup {"login"}
    /\ Fault("key")
    /\ stale' = {f \in Flow : pc[f] \notin {"new", "redirected"}}
    /\ session' = None
    /\ UNCHANGED <<maxLoginFlows, jar, flowVars, spent, reloads>>

\* Logout, or the end of the session.
SessionEnds ==
    /\ session # None
    /\ Fault("logout")
    /\ session' = None
    /\ UNCHANGED <<maxLoginFlows, jar, stale, flowVars, spent, reloads>>

\* Every tab shows its page, or waits for a session nobody needs.
Quiet ==
    /\ \A f \in Flow : pc[f] \in {"new", "shown"}
    /\ UNCHANGED vars

Serve(f) ==
    \/ Login(f) \/ LoginArrives(f) \/ Callback(f) \/ Exchange(f)
    \/ UserInfo(f) \/ Issue(f) \/ CallbackArrives(f)

Next ==
    \/ \E f \in Flow : Visit(f) \/ Authenticate(f) \/ Serve(f) \/ Reload(f)
    \/ \E n \in Name : Expire(n)
    \/ KeyChange
    \/ SessionEnds
    \/ Quiet

Spec == Init /\ [][Next]_vars

\* The gateway answers what it is sent (Callback's context ends after 10 s) and the
\* browser follows; the person and the environment owe nothing.
Fairness == \A f \in Flow : WF_vars(Serve(f))
FairSpec == Spec /\ Fairness

(***************************************************************************)
(* Properties                                                              *)
(***************************************************************************)

\* "two sign-ins in flight at once ... cannot overwrite each other"
\* (endpoints.go:20): while no more of them were begun than maxLoginFlows, nothing
\* failed and nobody reloaded, every sign-in that is answered ends in the app, with
\* one begun before the upgrade among them.
SignInsIndependent ==
    (/\ faults = 0 /\ reloads = 0
     /\ Cardinality({f \in Flow : pc[f] # "new"}) <= maxLoginFlows) =>
        \A f \in Flow : page[f] \in {"none", "app"}

\* A code is sent to the identity provider only with the verifier and nonce of the
\* sign-in it was issued to, also when the plain cookie stands in for a lost one.
ExchangeOwnState == \A f \in Flow : pc[f] \in InCallback => ls[f] = f

\* "Single-use" (endpoints.go:161): once a sign-in has ended in the app no login
\* cookie of it is left in the browser, whichever cookie its callback was matched
\* with, and none comes back.
SingleUse == \A f \in Flow : page[f] = "app" => \A n \in Name : jar[n] # f

\* However the responses interleave, the browser carries at most maxLoginFlows login
\* cookies and one more for every further Login that may be in flight.
LoginCookiesBounded ==
    Cardinality(loginCookies) <= maxLoginFlows + Concurrency - 1

\* "maxLoginFlows bounds the login cookies a browser carries at once"
\* (endpoints.go:26).
\* (The code does not keep this: README, Disagreements.)
LoginCookiesAtMost == Cardinality(loginCookies) <= maxLoginFlows

\* Every callback the browser makes is answered with a page.
EveryCallbackAnswered == \A f \in Flow :
    pc[f] \in {"code", "error"} ~> pc[f] = "shown"
=============================================================================
