--------------------------- MODULE LoginFlowProofs ---------------------------
(***************************************************************************)
(* For any number of sign-ins, faults and reloads: a code is exchanged     *)
(* only with the state of its own sign-in, a login cookie is used up by    *)
(* the sign-in it belongs to, the browser never holds more login cookies   *)
(* than Login makes room for, and sign-ins that stay within that number    *)
(* do not disturb each other.                                              *)
(***************************************************************************)
EXTENDS LoginFlow, FiniteSetTheorems, TLAPS

\* Most leaves are first-order logic; those that need arithmetic or records name SMT.
USE Zenon

\* At most one cookie holds a sign-in, and none before its Login was answered.
OneCookie == \A f \in Flow :
    /\ \A m, n \in Name : jar[m] = f /\ jar[n] = f => m = n
    /\ pc[f] \in {"new", "redirected", "login"} => \A n \in Name : jar[n] # f

\* What a callback under way has opened is its own sign-in, from the one cookie of it.
Matched == \A f \in Flow : pc[f] \in InCallback =>
    ls[f] = f /\ \A n \in Name : jar[n] = f => n = raw[f]

\* A tab with a page is at rest.
AtRest == \A f \in Flow : page[f] # "none" => pc[f] = "shown"

IInv == TypeOK /\ OneCookie /\ Matched /\ AtRest /\ SingleUse

\* A step that leaves the sign-ins and every cookie as they are, or expires cookies.
LEMMA ExpiringKeeps ==
  ASSUME IInv, TypeOK', UNCHANGED flowVars,
         \A n \in Name : jar'[n] \in {jar[n], None}
  PROVE  IInv'
  <1>1. \A f \in Flow, n \in Name : jar'[n] = f => jar[n] = f
    BY LoginFlowAssumption
  <1> QED BY SMT, <1>1 DEF IInv, OneCookie, Matched, AtRest, SingleUse, flowVars

\* A sign-in f that moves on outside its callback, while no cookie of it is set.
LEMMA MovesKeep ==
  ASSUME IInv, TypeOK', NEW f \in Flow, NEW to, NEW p,
         pc' = [pc EXCEPT ![f] = to], page' = [page EXCEPT ![f] = p],
         UNCHANGED <<jar, ls, raw>>,
         to \notin {"new", "redirected", "login"} \/ pc[f] \in {"new", "redirected", "login"},
         to \in InCallback => pc[f] \in InCallback,
         p # "none" => to = "shown",
         p # "app"
  PROVE  IInv'
  <1> USE DEF IInv
  <1>1. /\ pc'[f] = to /\ page'[f] = p
        /\ \A g \in Flow \ {f} : pc'[g] = pc[g] /\ page'[g] = page[g]
    BY DEF TypeOK
  <1>2. OneCookie'
    BY SMT, <1>1 DEF OneCookie
  <1>3. Matched'
    BY <1>1 DEF Matched
  <1>4. AtRest' /\ SingleUse'
    BY <1>1 DEF AtRest, SingleUse
  <1> QED BY <1>2, <1>3, <1>4

\* At first at most the sign-in of an older release has a cookie; no callback is under way.
LEMMA InitEstablishes == Init => IInv
  <1> SUFFICES ASSUME Init PROVE IInv
    OBVIOUS
  <1>0. PICK upgraded \in BOOLEAN :
          /\ jar = [n \in Name |-> IF upgraded /\ n = Plain THEN Legacy ELSE None]
          /\ pc = [f \in Flow |-> IF upgraded /\ f = Legacy THEN "idp" ELSE "new"]
    BY DEF Init
  <1>1. TypeOK
    <2>1. jar \in [Name -> Flow \cup {None}]
      BY <1>0, LoginFlowAssumption
    <2>2. pc \in [Flow -> {"idp", "new"}]
      BY <1>0
    <2>3. faults \in 0 .. MaxFaults /\ reloads \in 0 .. MaxReloads
      BY SMT, LoginFlowAssumption DEF Init
    <2> QED BY <2>1, <2>2, <2>3 DEF Init, TypeOK, Name
  <1>2. OneCookie
    BY <1>0, LoginFlowAssumption DEF OneCookie
  <1>3. Matched
    BY <1>0 DEF Matched, InCallback
  <1>4. AtRest /\ SingleUse
    BY DEF Init, AtRest, SingleUse
  <1> QED BY <1>1, <1>2, <1>3, <1>4 DEF IInv

\* Every action keeps the types.
LEMMA TypeKept == TypeOK /\ [Next]_vars => TypeOK'
  <1> SUFFICES ASSUME TypeOK, [Next]_vars PROVE TypeOK'
    OBVIOUS
  <1> USE LoginFlowAssumption
  <1>0. ASSUME NEW kind, Fault(kind) PROVE faults' \in 0 .. MaxFaults
    BY SMT, <1>0 DEF Fault, TypeOK
  <1>1. ASSUME NEW f \in Flow, Visit(f) PROVE TypeOK'
    BY <1>1 DEF Visit, TypeOK
  <1>2. ASSUME NEW f \in Flow, Authenticate(f) PROVE TypeOK'
    <2>1. faults' \in 0 .. MaxFaults
      BY <1>0, <1>2 DEF Authenticate, NoFault, TypeOK
    <2> QED BY SMT, <1>2, <2>1 DEF Authenticate, TypeOK
  <1>3. ASSUME NEW f \in Flow, Login(f) PROVE TypeOK'
    <2>1. loginCookies \subseteq Name
      BY DEF loginCookies
    <2>2. expires' \in [Flow -> SUBSET Name]
      BY <1>3, <2>1 DEF Login, LoginExpiring, TypeOK
    <2> QED BY <1>3, <2>2 DEF Login, LoginExpiring, TypeOK
  <1>4. ASSUME NEW f \in Flow, LoginArrives(f) PROVE TypeOK'
    <2>1. jar' \in [Name -> Flow \cup {None}]
      BY <1>4 DEF LoginArrives, TypeOK
    <2>2. expires' \in [Flow -> SUBSET Name]
      BY <1>4 DEF LoginArrives, TypeOK
    <2> QED BY <1>4, <2>1, <2>2 DEF LoginArrives, TypeOK
  <1>5. ASSUME NEW f \in Flow, Callback(f) PROVE TypeOK'
    <2> DEFINE n == RawName(f)
    <2>1. n \in Name /\ jar[n] \in Flow \cup {None}
      BY DEF RawName, loginCookieName, Name, TypeOK
    <2>2. CASE rejectCallback(f) \/ Show(f, "denied")
      BY SMT, <1>5, <2>2 DEF Callback, CallbackMatching, rejectCallback, Show, TypeOK
    <2>3. CASE /\ pc' = [pc EXCEPT ![f] = "exchange"]
               /\ ls' = [ls EXCEPT ![f] = jar[n]]
               /\ raw' = [raw EXCEPT ![f] = n]
               /\ UNCHANGED <<expires, page>>
      <3>1. ls' \in [Flow -> Flow \cup {None}] /\ raw' \in [Flow -> Name]
        BY <2>1, <2>3 DEF TypeOK
      <3> QED BY <1>5, <2>3, <3>1 DEF Callback, CallbackMatching, TypeOK, InCallback
    <2> QED BY <1>5, <2>2, <2>3 DEF Callback, CallbackMatching
  <1>6. ASSUME NEW f \in Flow, Exchange(f) PROVE TypeOK'
    <2>1. faults' \in 0 .. MaxFaults /\ spent' \subseteq Flow
      BY <1>0, <1>6 DEF Exchange, NoFault, TypeOK
    <2>2. Proceed(f, "userinfo") \/ Show(f, "502")
      BY <1>6 DEF Exchange
    <2> QED BY SMT, <1>6, <2>1, <2>2 DEF Exchange, Proceed, Show, TypeOK, InCallback
  <1>7. ASSUME NEW f \in Flow, UserInfo(f) PROVE TypeOK'
    <2>1. faults' \in 0 .. MaxFaults
      BY <1>0, <1>7 DEF UserInfo, NoFault, TypeOK
    <2> QED BY SMT, <1>7, <2>1 DEF UserInfo, Proceed, Show, TypeOK, InCallback
  <1>8. ASSUME NEW f \in Flow, Issue(f) PROVE TypeOK'
    <2>1. faults' \in 0 .. MaxFaults
      BY <1>0, <1>8 DEF Issue, NoFault, TypeOK
    <2> QED BY SMT, <1>8, <2>1 DEF Issue, Proceed, Show, TypeOK, InCallback
  <1>9. ASSUME NEW f \in Flow, CallbackArrives(f) PROVE TypeOK'
    <2>1. jar' \in [Name -> Flow \cup {None}]
      BY <1>9 DEF CallbackArrives, ArrivesExpiring, TypeOK
    <2> QED BY <1>9, <2>1 DEF CallbackArrives, ArrivesExpiring, Show, TypeOK
  <1>10. ASSUME NEW f \in Flow, Reload(f) PROVE TypeOK'
    <2>1. reloads' \in 0 .. MaxReloads /\ spent' \subseteq Flow
      BY SMT, <1>10 DEF Reload, TypeOK
    <2> QED BY <1>10, <2>1 DEF Reload, TypeOK
  <1>11. ASSUME NEW n \in Name, Expire(n) PROVE TypeOK'
    <2>1. faults' \in 0 .. MaxFaults
      BY <1>0, <1>11 DEF Expire
    <2> QED BY <1>11, <2>1 DEF Expire, TypeOK, flowVars
  <1>12. CASE KeyChange
    <2>1. faults' \in 0 .. MaxFaults
      BY <1>0, <1>12 DEF KeyChange
    <2> QED BY <1>12, <2>1 DEF KeyChange, TypeOK, flowVars
  <1>13. CASE SessionEnds
    <2>1. faults' \in 0 .. MaxFaults
      BY <1>0, <1>13 DEF SessionEnds
    <2> QED BY <1>13, <2>1 DEF SessionEnds, TypeOK, flowVars
  <1>14. CASE UNCHANGED vars
    BY <1>14 DEF vars, flowVars, TypeOK
  <1> QED
    BY <1>1, <1>2, <1>3, <1>4, <1>5, <1>6, <1>7, <1>8, <1>9, <1>10, <1>11, <1>12, <1>13,
       <1>14 DEF Next, Serve, Quiet

\* Only a Login response writes cookies, and each under its own sign-in.
LEMMA NextKeeps == IInv /\ [Next]_vars => IInv'
  <1> SUFFICES ASSUME IInv, [Next]_vars PROVE IInv'
    OBVIOUS
  <1>0. TypeOK' /\ TypeOK
    BY TypeKept DEF IInv
  <1>1. ASSUME NEW f \in Flow, NEW to, pc' = [pc EXCEPT ![f] = to],
               UNCHANGED <<jar, ls, raw, page>>, pc[f] # "shown",
               to \notin {"new", "redirected", "login"} \/ pc[f] \in {"new", "redirected", "login"},
               to \in InCallback => pc[f] \in InCallback
        PROVE  IInv'
    <2>1. page' = [page EXCEPT ![f] = "none"]
      BY <1>0, <1>1 DEF IInv, AtRest, TypeOK
    <2> QED BY <1>0, <1>1, <2>1, MovesKeep
  <1>2. ASSUME NEW f \in Flow, NEW p \in {"home", "400", "denied", "500", "502"}, Show(f, p),
               UNCHANGED jar
        PROVE  IInv'
    BY <1>0, <1>2, MovesKeep DEF Show, InCallback
  <1>3. ASSUME NEW f \in Flow, Visit(f) PROVE IInv'
    BY <1>1, <1>3 DEF Visit, InCallback
  <1>4. ASSUME NEW f \in Flow, Authenticate(f) PROVE IInv'
    BY <1>1, <1>4 DEF Authenticate, InCallback
  <1>5. ASSUME NEW f \in Flow, Login(f) PROVE IInv'
    BY <1>1, <1>5 DEF Login, LoginExpiring, InCallback
  <1>6. ASSUME NEW f \in Flow, LoginArrives(f) PROVE IInv'
    <2>1. f \in Name /\ Flow \subseteq Name /\ None \notin Flow
      BY LoginFlowAssumption DEF Name
    <2>2. /\ jar'[f] = f /\ \A n \in Name \ {f} : jar'[n] \in {jar[n], None}
          /\ \A n \in Name : jar[n] # f
          /\ pc'[f] = "idp" /\ \A g \in Flow \ {f} : pc'[g] = pc[g]
          /\ UNCHANGED <<ls, raw, page>> /\ page[f] = "none"
      BY <1>0, <1>6, <2>1 DEF LoginArrives, loginCookieName, IInv, OneCookie, AtRest, TypeOK
    <2>3. ASSUME NEW g \in Flow \ {f}, NEW n \in Name, jar'[n] = g PROVE jar[n] = g
      BY <2>1, <2>2, <2>3
    <2>4. \A n \in Name : jar'[n] = f => n = f
      BY <2>1, <2>2
    <2>5. OneCookie'
      BY SMT, <2>2, <2>3, <2>4 DEF IInv, OneCookie
    <2>6. Matched'
      BY SMT, <2>2, <2>3 DEF IInv, Matched, InCallback
    <2>7. AtRest' /\ SingleUse'
      BY SMT, <2>2, <2>3 DEF IInv, AtRest, SingleUse
    <2> QED BY <1>0, <2>5, <2>6, <2>7 DEF IInv
  <1>7. ASSUME NEW f \in Flow, Callback(f) PROVE IInv'
    <2> DEFINE n == RawName(f)
    <2>0. UNCHANGED jar /\ pc[f] \in {"code", "error"}
      BY <1>7 DEF Callback, CallbackMatching
    <2>1. CASE rejectCallback(f) \/ Show(f, "denied")
      BY <1>2, <2>0, <2>1 DEF rejectCallback
    <2>2. CASE /\ jar[n] = f
               /\ pc' = [pc EXCEPT ![f] = "exchange"]
               /\ ls' = [ls EXCEPT ![f] = jar[n]]
               /\ raw' = [raw EXCEPT ![f] = n]
               /\ UNCHANGED <<expires, page>>
      <3>1. n \in Name
        BY DEF RawName, loginCookieName, Name
      <3>2. /\ pc'[f] = "exchange" /\ ls'[f] = f /\ raw'[f] = n /\ page' = page
            /\ \A g \in Flow \ {f} : pc'[g] = pc[g] /\ ls'[g] = ls[g] /\ raw'[g] = raw[g]
        BY <1>0, <2>2 DEF TypeOK
      <3>3. \A m \in Name : jar[m] = f => m = n
        BY <2>2, <3>1 DEF IInv, OneCookie
      <3>4. page[f] = "none"
        BY <2>0 DEF IInv, AtRest
      <3>5. OneCookie' /\ AtRest' /\ SingleUse'
        BY SMT, <2>0, <3>2, <3>4 DEF IInv, OneCookie, AtRest, SingleUse
      <3>6. Matched'
        BY <2>0, <3>2, <3>3 DEF IInv, Matched
      <3> QED BY <1>0, <3>5, <3>6 DEF IInv
    <2> QED BY <1>7, <2>1, <2>2 DEF Callback, CallbackMatching
  <1>8. ASSUME NEW f \in Flow, Exchange(f) PROVE IInv'
    <2>1. CASE Proceed(f, "userinfo")
      BY <1>1, <1>8, <2>1 DEF Exchange, Proceed, InCallback
    <2>2. CASE Show(f, "502")
      BY <1>2, <1>8, <2>2 DEF Exchange
    <2> QED BY <1>8, <2>1, <2>2 DEF Exchange
  <1>9. ASSUME NEW f \in Flow, UserInfo(f) PROVE IInv'
    BY <1>1, <1>2, <1>9 DEF UserInfo, Proceed, InCallback
  <1>10. ASSUME NEW f \in Flow, Issue(f) PROVE IInv'
    BY <1>1, <1>2, <1>10 DEF Issue, Proceed, InCallback
  <1>11. ASSUME NEW f \in Flow, CallbackArrives(f) PROVE IInv'
    <2>1. /\ pc[f] = "issued" /\ jar' = [jar EXCEPT ![raw[f]] = None]
          /\ pc'[f] = "shown" /\ \A g \in Flow \ {f} : pc'[g] = pc[g] /\ page'[g] = page[g]
          /\ UNCHANGED <<ls, raw>>
      BY <1>0, <1>11 DEF CallbackArrives, ArrivesExpiring, Show, TypeOK
    <2>2. \A n \in Name : jar'[n] \in {jar[n], None}
      BY <1>0, <2>1 DEF TypeOK
    <2>3. \A g \in Flow, n \in Name : jar'[n] = g => jar[n] = g
      BY <2>2, LoginFlowAssumption
    <2>4. \A n \in Name : jar'[n] # f
      <3>1. raw[f] \in Name /\ jar'[raw[f]] = None /\ None # f
        BY <1>0, <2>1, LoginFlowAssumption DEF TypeOK
      <3>2. \A n \in Name : jar[n] = f => n = raw[f]
        BY <2>1 DEF IInv, Matched, InCallback
      <3> QED BY <2>3, <3>1, <3>2
    <2>5. OneCookie'
      BY SMT, <2>1, <2>3 DEF IInv, OneCookie
    <2>6. Matched'
      BY <2>1, <2>3 DEF IInv, Matched, InCallback
    <2>7. AtRest' /\ SingleUse'
      BY SMT, <2>1, <2>3, <2>4 DEF IInv, AtRest, SingleUse
    <2> QED BY <1>0, <2>5, <2>6, <2>7 DEF IInv
  <1>12. ASSUME NEW f \in Flow, Reload(f) PROVE IInv'
    BY <1>0, <1>12, MovesKeep DEF Reload, InCallback
  <1>13. ASSUME NEW n \in Name, Expire(n) PROVE IInv'
    <2>1. \A m \in Name : jar'[m] \in {jar[m], None}
      BY <1>0, <1>13 DEF Expire, TypeOK
    <2> QED BY <1>0, <1>13, <2>1, ExpiringKeeps DEF Expire
  <1>14. CASE KeyChange
    BY <1>0, <1>14, ExpiringKeeps DEF KeyChange
  <1>15. CASE SessionEnds
    BY <1>0, <1>15, ExpiringKeeps DEF SessionEnds
  <1>16. CASE UNCHANGED vars
    BY <1>0, <1>16, ExpiringKeeps DEF vars
  <1> QED
    BY <1>3, <1>4, <1>5, <1>6, <1>7, <1>8, <1>9, <1>10, <1>11, <1>12, <1>13, <1>14, <1>15,
       <1>16 DEF Next, Serve, Quiet

\* The inductive invariant holds throughout.
LEMMA Invariance == Spec => []IInv
  BY InitEstablishes, NextKeeps, PTL DEF Spec

-----------------------------------------------------------------------------
(* What a step moves                                                       *)

\* What the jar holds for the sign-in f lies under its own name or, for one begun before
\* the upgrade, the plain one, and its callback was matched with that cookie.
Named ==
    /\ \A f \in Flow : jar[f] \in {f, None}
    /\ jar[Plain] \in {Legacy, None}
    /\ \A f \in Flow : pc[f] \in InCallback => raw[f] = f \/ (raw[f] = Plain /\ f = Legacy)

\* The steps other than Login and the arrival of its response only expire cookies.
Rest ==
    /\ UNCHANGED <<maxLoginFlows, expires>>
    /\ \A n \in Name : jar'[n] \in {jar[n], None}
    /\ \A f \in Flow : pc'[f] = "login" <=> pc[f] = "login"
    /\ \A f \in Flow : pc'[f] \in InCallback =>
         \/ pc[f] \in InCallback /\ raw'[f] = raw[f]
         \/ raw'[f] = RawName(f) /\ jar[RawName(f)] = f

\* A step is a Login, the arrival of a Login response, or one that only expires cookies.
LEMMA StepMoves ==
  ASSUME TypeOK, [Next]_vars
  PROVE  (\E f \in Flow : Login(f) \/ LoginArrives(f)) \/ Rest
  <1> USE DEF Rest
  <1>0. ASSUME NEW f \in Flow, NEW to, to # "login", pc[f] # "login",
               to \in InCallback => pc[f] \in InCallback,
               pc' = [pc EXCEPT ![f] = to], UNCHANGED <<maxLoginFlows, expires, raw>>,
               \A n \in Name : jar'[n] \in {jar[n], None}
        PROVE  Rest
    <2>1. /\ pc'[f] = to /\ \A g \in Flow \ {f} : pc'[g] = pc[g]
      BY <1>0 DEF TypeOK
    <2> QED BY <1>0, <2>1
  <1>1. ASSUME NEW f \in Flow, Visit(f) \/ Authenticate(f) PROVE Rest
    BY <1>0, <1>1 DEF Visit, Authenticate, InCallback
  <1>2. ASSUME NEW f \in Flow, Callback(f) PROVE Rest
    <2>1. CASE rejectCallback(f) \/ Show(f, "denied")
      BY <1>0, <1>2, <2>1 DEF Callback, CallbackMatching, rejectCallback, Show, InCallback
    <2>2. CASE /\ jar[RawName(f)] = f
               /\ pc' = [pc EXCEPT ![f] = "exchange"]
               /\ ls' = [ls EXCEPT ![f] = jar[RawName(f)]]
               /\ raw' = [raw EXCEPT ![f] = RawName(f)]
               /\ UNCHANGED <<expires, page>>
      <3>1. /\ pc'[f] = "exchange" /\ raw'[f] = RawName(f)
            /\ \A g \in Flow \ {f} : pc'[g] = pc[g] /\ raw'[g] = raw[g]
        BY <2>2 DEF TypeOK
      <3>2. UNCHANGED <<maxLoginFlows, jar>> /\ pc[f] # "login"
        BY <1>2 DEF Callback, CallbackMatching
      <3> QED BY <2>2, <3>1, <3>2
    <2> QED BY <1>2, <2>1, <2>2 DEF Callback, CallbackMatching
  <1>3. ASSUME NEW f \in Flow, Exchange(f) \/ UserInfo(f) \/ Issue(f) PROVE Rest
    <2>1. \E to \in {"userinfo", "issue", "issued", "shown"} : pc' = [pc EXCEPT ![f] = to]
      BY <1>3 DEF Exchange, UserInfo, Issue, Proceed, Show
    <2>2. UNCHANGED <<maxLoginFlows, expires, raw, jar>> /\ pc[f] \in InCallback
      BY <1>3 DEF Exchange, UserInfo, Issue, Proceed, Show, InCallback
    <2>3. "login" \notin InCallback
      BY DEF InCallback
    <2> QED BY <1>0, <2>1, <2>2, <2>3
  <1>4. ASSUME NEW f \in Flow, CallbackArrives(f) PROVE Rest
    <2>1. \A n \in Name : jar'[n] \in {jar[n], None}
      BY <1>4 DEF CallbackArrives, ArrivesExpiring, TypeOK
    <2> QED BY <1>0, <1>4, <2>1 DEF CallbackArrives, ArrivesExpiring, Show, InCallback
  <1>5. ASSUME NEW f \in Flow, Reload(f) PROVE Rest
    BY <1>0, <1>5 DEF Reload, InCallback
  <1>6. ASSUME NEW n \in Name, Expire(n) PROVE Rest
    <2>1. \A m \in Name : jar'[m] \in {jar[m], None}
      BY <1>6 DEF Expire, TypeOK
    <2> QED BY <1>6, <2>1 DEF Expire, flowVars
  <1>7. CASE KeyChange \/ SessionEnds \/ UNCHANGED vars
    BY <1>7 DEF KeyChange, SessionEnds, vars, flowVars
  <1> QED BY <1>1, <1>2, <1>3, <1>4, <1>5, <1>6, <1>7 DEF Next, Serve, Quiet

\* The jar and the sign-ins after the arrival of Login's response.
LEMMA Arrival ==
  ASSUME TypeOK, NEW f \in Flow, LoginArrives(f)
  PROVE  /\ jar'[f] = f
         /\ \A n \in Name \ {f} : jar'[n] = IF n \in expires[f] THEN None ELSE jar[n]
         /\ pc[f] = "login" /\ pc'[f] = "idp" /\ \A g \in Flow \ {f} : pc'[g] = pc[g]
         /\ expires'[f] = {} /\ \A g \in Flow \ {f} : expires'[g] = expires[g]
         /\ UNCHANGED <<maxLoginFlows, session, stale, ls, raw, page, spent, faults, reloads>>
  <1>1. f \in Name
    BY DEF Name
  <1>2. /\ pc'[f] = "idp" /\ \A g \in Flow \ {f} : pc'[g] = pc[g]
        /\ expires'[f] = {} /\ \A g \in Flow \ {f} : expires'[g] = expires[g]
    BY DEF LoginArrives, TypeOK
  <1>3. jar'[f] = f
    BY <1>1 DEF LoginArrives, loginCookieName
  <1>4. \A n \in Name \ {f} : jar'[n] = IF n \in expires[f] THEN None ELSE jar[n]
    BY DEF LoginArrives, loginCookieName
  <1> QED BY <1>2, <1>3, <1>4 DEF LoginArrives

\* The sign-ins after a Login.
LEMMA Request ==
  ASSUME TypeOK, NEW f \in Flow, Login(f)
  PROVE  /\ expires'[f] = IF Cardinality(loginCookies) >= maxLoginFlows THEN loginCookies ELSE {}
         /\ \A g \in Flow \ {f} : expires'[g] = expires[g]
         /\ pc[f] = "redirected" /\ pc'[f] = "login" /\ \A g \in Flow \ {f} : pc'[g] = pc[g]
         /\ Cardinality({g \in Flow : pc[g] = "login"}) < Concurrency
         /\ UNCHANGED <<maxLoginFlows, jar, session, stale, ls, raw, page, spent, faults, reloads>>
  BY DEF Login, LoginExpiring, TypeOK

\* A response sets the cookie of its own sign-in and expires others; none moves a state.
LEMMA NamedKept == TypeOK /\ Named /\ [Next]_vars => Named'
  <1> SUFFICES ASSUME TypeOK, Named, [Next]_vars PROVE Named'
    OBVIOUS
  <1>0. Flow \subseteq Name /\ Plain \in Name /\ Plain \notin Flow /\ None \notin Flow
    BY LoginFlowAssumption DEF Name
  <1>1. ASSUME NEW f \in Flow, Login(f) PROVE Named'
    BY <1>1, Request DEF Named, InCallback
  <1>2. ASSUME NEW f \in Flow, LoginArrives(f) PROVE Named'
    <2>1. \A g \in Flow : jar'[g] \in {g, None}
      BY <1>0, <1>2, Arrival DEF Named
    <2>2. jar'[Plain] \in {Legacy, None}
      BY SMT, <1>0, <1>2, Arrival DEF Named
    <2>3. \A g \in Flow : pc'[g] \in InCallback => raw'[g] = g \/ (raw'[g] = Plain /\ g = Legacy)
      BY SMT, <1>2, Arrival DEF Named, InCallback
    <2> QED BY <2>1, <2>2, <2>3 DEF Named
  <1>3. CASE Rest
    <2>1. \A g \in Flow : jar'[g] \in {g, None}
      BY <1>0, <1>3 DEF Rest, Named
    <2>2. jar'[Plain] \in {Legacy, None}
      BY <1>0, <1>3 DEF Rest, Named
    <2>3. ASSUME NEW g \in Flow, jar[RawName(g)] = g
          PROVE  RawName(g) = g \/ (RawName(g) = Plain /\ g = Legacy)
      BY SMT, <1>0, <2>3 DEF RawName, loginCookieName, Named
    <2>4. \A g \in Flow : pc'[g] \in InCallback => raw'[g] = g \/ (raw'[g] = Plain /\ g = Legacy)
      BY SMT, <1>3, <2>3 DEF Rest, Named
    <2> QED BY <2>1, <2>2, <2>4 DEF Named
  <1> QED BY <1>1, <1>2, <1>3, StepMoves

\* The jar starts out with at most the cookie of an older release.
LEMMA NamedInitially == Init => Named
  <1> SUFFICES ASSUME Init PROVE Named
    OBVIOUS
  <1>0. PICK upgraded \in BOOLEAN :
          /\ jar = [n \in Name |-> IF upgraded /\ n = Plain THEN Legacy ELSE None]
          /\ pc = [f \in Flow |-> IF upgraded /\ f = Legacy THEN "idp" ELSE "new"]
    BY DEF Init
  <1>1. Flow \subseteq Name /\ Plain \in Name /\ Plain \notin Flow
    BY LoginFlowAssumption DEF Name
  <1>2. (\A f \in Flow : jar[f] = None) /\ jar[Plain] \in {Legacy, None}
    BY <1>0, <1>1
  <1>3. \A f \in Flow : pc[f] \in {"idp", "new"}
    BY <1>0
  <1> QED BY <1>2, <1>3 DEF Named, InCallback

-----------------------------------------------------------------------------
(* How many login cookies there are                                        *)

\* The Login responses on their way, and the cookies left once those of X have arrived.
Answering == {f \in Flow : pc[f] = "login"}
Left(X) == loginCookies \ UNION {expires[f] : f \in X}

\* Whichever of the responses on their way arrive, there is room for their cookies.
Room ==
    /\ Cardinality(Answering) <= Concurrency
    /\ \A X \in SUBSET Answering :
         Cardinality(Left(X)) + Cardinality(X) <= maxLoginFlows + Concurrency - 1

\* Everything that is counted is finite.
LEMMA Finite ==
  /\ IsFiniteSet(Name)
  /\ \A S : S \subseteq Name => IsFiniteSet(S) /\ Cardinality(S) \in Nat
  /\ \A S, T : S \subseteq T /\ T \subseteq Name => Cardinality(S) <= Cardinality(T)
  /\ Answering \subseteq Flow /\ Flow \subseteq Name
  /\ loginCookies \subseteq Name /\ \A X : Left(X) \subseteq loginCookies
  <1>1. IsFiniteSet(Name)
    BY LoginFlowAssumption, FS_AddElement DEF Name
  <1>2. ASSUME NEW S, S \subseteq Name PROVE IsFiniteSet(S) /\ Cardinality(S) \in Nat
    BY <1>1, <1>2, FS_Subset, FS_CardinalityType
  <1>3. ASSUME NEW S, NEW T, S \subseteq T, T \subseteq Name
        PROVE  Cardinality(S) <= Cardinality(T)
    BY <1>2, <1>3, FS_Subset
  <1>4. /\ Answering \subseteq Flow /\ Flow \subseteq Name
        /\ loginCookies \subseteq Name /\ \A X : Left(X) \subseteq loginCookies
    BY DEF Answering, Name, loginCookies, Left
  <1> QED BY <1>1, <1>2, <1>3, <1>4

\* A cookie that is added to some is at most one more.
LEMMA AtMostOneMore ==
  ASSUME NEW S, NEW x, IsFiniteSet(S)
  PROVE  Cardinality(S \cup {x}) <= Cardinality(S) + 1
  <1>1. Cardinality(S \cup {x}) = IF x \in S THEN Cardinality(S) ELSE Cardinality(S) + 1
    BY FS_AddElement
  <1>2. Cardinality(S) \in Nat
    BY FS_CardinalityType
  <1> QED BY SMT, <1>1, <1>2

\* A Login either finds fewer cookies than the limit and keeps them, or expires them all.
LEMMA RequestRoom ==
  ASSUME TypeOK, Room, NEW f \in Flow, Login(f)
  PROVE  Room'
  <1>0. maxLoginFlows \in Nat \ {0} /\ Concurrency \in Nat \ {0} /\ UNCHANGED maxLoginFlows
    BY LoginFlowAssumption, Request DEF TypeOK
  <1>1. Answering' = Answering \cup {f} /\ f \notin Answering
    BY Request DEF Answering
  <1>2. Cardinality(Answering') <= Concurrency
    <2>1. IsFiniteSet(Answering) /\ Cardinality(Answering) \in Nat
      BY Finite
    <2>2. Cardinality(Answering \cup {f}) = Cardinality(Answering) + 1
      BY <1>1, <2>1, FS_AddElement
    <2>3. Cardinality(Answering) < Concurrency
      BY Request DEF Answering
    <2> QED BY SMT, <1>0, <1>1, <2>1, <2>2, <2>3
  <1>3. loginCookies' = loginCookies
    BY Request DEF loginCookies
  <1>4. ASSUME NEW X \in SUBSET Answering'
        PROVE  Cardinality(Left(X)') + Cardinality(X) <= maxLoginFlows + Concurrency - 1
    <2>1. CASE f \notin X
      <3>1. X \subseteq Answering /\ X \subseteq Flow \ {f}
        BY <1>1, <2>1 DEF Answering
      <3>2. \A g \in X : expires'[g] = expires[g]
        BY <3>1, Request
      <3>3. Left(X)' = Left(X)
        BY <1>3, <3>2 DEF Left
      <3> QED BY <3>1, <3>3 DEF Room
    <2>2. CASE f \in X
      <3>0. Answering' \subseteq Name /\ Left(X)' \subseteq loginCookies
        BY <1>1, <1>3, Finite DEF Left
      <3>1. /\ Cardinality(X) <= Concurrency
            /\ Cardinality(X) \in Nat /\ Cardinality(Left(X)') \in Nat
            /\ Cardinality(Left(X)') <= Cardinality(loginCookies)
            /\ Cardinality(loginCookies) \in Nat
        <4>1. Cardinality(X) <= Cardinality(Answering') /\ Cardinality(Answering') \in Nat
          BY <3>0, Finite
        <4>2. X \subseteq Name /\ Left(X)' \subseteq Name
          BY <3>0, Finite
        <4>3. Cardinality(X) \in Nat /\ Cardinality(Left(X)') \in Nat
          BY <4>2, Finite
        <4>4. Cardinality(Left(X)') <= Cardinality(loginCookies)
          BY <3>0, Finite
        <4>5. Cardinality(loginCookies) \in Nat
          BY Finite
        <4> QED BY SMT, <1>0, <1>2, <4>1, <4>3, <4>4, <4>5
      <3>2. CASE Cardinality(loginCookies) >= maxLoginFlows
        <4>1. expires'[f] = loginCookies
          BY <3>2, Request
        <4>2. Left(X)' = {}
          BY <1>3, <2>2, <4>1 DEF Left
        <4>3. Cardinality(Left(X)') = 0
          BY <4>2, FS_EmptySet
        <4> QED BY SMT, <1>0, <3>1, <4>3
      <3>3. CASE ~(Cardinality(loginCookies) >= maxLoginFlows)
        BY SMT, <1>0, <3>1, <3>3
      <3> QED BY <3>2, <3>3
    <2> QED BY <2>1, <2>2
  <1> QED BY <1>0, <1>2, <1>4 DEF Room

\* A response that arrives takes the room that was there for it.
LEMMA ArrivalRoom ==
  ASSUME TypeOK, Room, NEW f \in Flow, LoginArrives(f)
  PROVE  Room'
  <1>0. maxLoginFlows \in Nat /\ Concurrency \in Nat /\ UNCHANGED maxLoginFlows
    BY LoginFlowAssumption, Arrival DEF TypeOK
  <1>1. Answering' = Answering \ {f} /\ f \in Answering
    BY SMT, Arrival DEF Answering
  <1>2. Cardinality(Answering') <= Concurrency
    <2>1. Cardinality(Answering') <= Cardinality(Answering)
      BY <1>1, Finite
    <2>2. Cardinality(Answering') \in Nat /\ Cardinality(Answering) \in Nat
      BY <1>1, Finite
    <2> QED BY SMT, <1>0, <2>1, <2>2 DEF Room
  <1>3. loginCookies' \subseteq (loginCookies \ expires[f]) \cup {f}
    BY Arrival DEF loginCookies
  <1>4. ASSUME NEW X \in SUBSET Answering'
        PROVE  Cardinality(Left(X)') + Cardinality(X) <= maxLoginFlows + Concurrency - 1
    <2>1. X \cup {f} \subseteq Answering /\ f \notin X /\ X \subseteq Flow \ {f}
      BY <1>1 DEF Answering
    <2>2. \A g \in X : expires'[g] = expires[g]
      BY <2>1, Arrival
    <2>3. Left(X)' \subseteq Left(X \cup {f}) \cup {f}
      BY <1>3, <2>2 DEF Left
    <2>4. /\ X \subseteq Name /\ Left(X \cup {f}) \subseteq Name
          /\ Left(X \cup {f}) \cup {f} \subseteq Name
      BY <2>1, Finite
    <2>5. /\ IsFiniteSet(X) /\ Cardinality(X) \in Nat
          /\ IsFiniteSet(Left(X \cup {f})) /\ Cardinality(Left(X \cup {f})) \in Nat
      BY <2>4, Finite
    <2>6. Cardinality(X \cup {f}) = Cardinality(X) + 1
      BY <2>1, <2>5, FS_AddElement
    <2>7. Cardinality(Left(X \cup {f}) \cup {f}) <= Cardinality(Left(X \cup {f})) + 1
      BY <2>5, AtMostOneMore
    <2>8. Cardinality(Left(X)') <= Cardinality(Left(X \cup {f}) \cup {f})
      BY <2>3, <2>4, Finite
    <2>9. Cardinality(Left(X)') \in Nat /\ Cardinality(Left(X \cup {f}) \cup {f}) \in Nat
      BY <2>3, <2>4, Finite
    <2>10. Cardinality(Left(X \cup {f})) + Cardinality(X \cup {f})
             <= maxLoginFlows + Concurrency - 1
      BY <2>1 DEF Room
    <2> QED BY SMT, <1>0, <2>5, <2>6, <2>7, <2>8, <2>9, <2>10
  <1> QED BY <1>0, <1>2, <1>4 DEF Room

\* Login makes room for what is on its way; an arrival only uses what was made.
LEMMA RoomKept == TypeOK /\ Room /\ [Next]_vars => Room'
  <1> SUFFICES ASSUME TypeOK, Room, [Next]_vars PROVE Room'
    OBVIOUS
  <1>1. CASE Rest
    <2>0. maxLoginFlows \in Nat /\ Concurrency \in Nat /\ UNCHANGED <<maxLoginFlows, expires>>
      BY <1>1, LoginFlowAssumption DEF TypeOK, Rest
    <2>1. Answering' = Answering
      BY <1>1 DEF Rest, Answering
    <2>2. loginCookies' \subseteq loginCookies
      BY <1>1 DEF Rest, loginCookies
    <2>3. ASSUME NEW X \in SUBSET Answering
          PROVE  Cardinality(Left(X)') + Cardinality(X) <= maxLoginFlows + Concurrency - 1
      <3>1. Left(X)' \subseteq Left(X)
        BY <2>0, <2>2 DEF Left
      <3>2. Left(X) \subseteq Name /\ Left(X)' \subseteq Name /\ X \subseteq Name
        BY <3>1, Finite
      <3>3. Cardinality(Left(X)') <= Cardinality(Left(X))
        BY <3>1, <3>2, Finite
      <3>4. Cardinality(Left(X)') \in Nat /\ Cardinality(Left(X)) \in Nat /\ Cardinality(X) \in Nat
        BY <3>2, Finite
      <3>5. Cardinality(Left(X)) + Cardinality(X) <= maxLoginFlows + Concurrency - 1
        BY DEF Room
      <3> QED BY SMT, <2>0, <3>3, <3>4, <3>5
    <2> QED BY <2>0, <2>1, <2>3 DEF Room
  <1> QED BY <1>1, StepMoves, RequestRoom, ArrivalRoom

\* At first at most the cookie of an older release is there and nothing is on its way.
LEMMA RoomInitially == Init => Room
  <1> SUFFICES ASSUME Init PROVE Room
    OBVIOUS
  <1>0. PICK upgraded \in BOOLEAN :
          /\ jar = [n \in Name |-> IF upgraded /\ n = Plain THEN Legacy ELSE None]
          /\ pc = [f \in Flow |-> IF upgraded /\ f = Legacy THEN "idp" ELSE "new"]
    BY DEF Init
  <1>1. maxLoginFlows \in Nat \ {0} /\ Concurrency \in Nat \ {0}
    BY LoginFlowAssumption DEF Init
  <1>2. Answering = {}
    BY <1>0 DEF Answering
  <1>3. loginCookies \subseteq {Plain}
    BY <1>0 DEF loginCookies
  <1>4. ASSUME NEW X \in SUBSET Answering
        PROVE  Cardinality(Left(X)) + Cardinality(X) <= maxLoginFlows + Concurrency - 1
    <2>1. X = {} /\ Left(X) \subseteq {Plain} /\ {Plain} \subseteq Name
      BY <1>2, <1>3 DEF Left, Name
    <2>2. Cardinality(X) = 0 /\ Cardinality({Plain}) = 1
      BY <2>1, FS_EmptySet, FS_Singleton
    <2>3. Cardinality(Left(X)) <= Cardinality({Plain}) /\ Cardinality(Left(X)) \in Nat
      BY <2>1, Finite
    <2> QED BY SMT, <1>1, <2>2, <2>3
  <1>5. Cardinality(Answering) <= Concurrency
    BY SMT, <1>1, <1>2, FS_EmptySet
  <1> QED BY <1>4, <1>5 DEF Room

-----------------------------------------------------------------------------
(* Sign-ins that nothing disturbs                                          *)

Begun == {f \in Flow : pc[f] # "new"}
Undisturbed == faults = 0 /\ reloads = 0 /\ Cardinality(Begun) <= maxLoginFlows

\* The browser has a cookie to match the callback of f with.
Holds(f) == jar[f] = f \/ (f = Legacy /\ jar[Plain] = f)

\* The sign-in f keeps its cookie until it has been through its callback, and its code
\* is good when it comes to the exchange.
OnCourse(f) ==
    /\ expires[f] = {} /\ pc[f] # "error" /\ page[f] \in {"none", "app"}
    /\ pc[f] \in {"idp", "code"} => Holds(f)
    /\ f \in spent => pc[f] \notin {"new", "redirected", "login", "idp", "code", "exchange"}

Independent == Undisturbed => stale = {} /\ \A f \in Flow : OnCourse(f)

\* A sign-in that has begun stays begun, and what has disturbed one is not undone.
LEMMA Monotone ==
  ASSUME TypeOK, [Next]_vars, Undisturbed'
  PROVE  Undisturbed /\ faults' = faults /\ reloads' = reloads
  <1>1. faults \in Nat /\ reloads \in Nat /\ maxLoginFlows \in Nat
    BY SMT, LoginFlowAssumption DEF TypeOK
  <1>2. UNCHANGED maxLoginFlows
    BY StepMoves, Request, Arrival DEF Rest
  <1>3. (faults' = faults \/ faults' = faults + 1) /\ (reloads' = reloads \/ reloads' = reloads + 1)
    <2>1. ASSUME NEW f \in Flow, Visit(f) \/ Authenticate(f) \/ Serve(f) \/ Reload(f)
          PROVE  (faults' = faults \/ faults' = faults + 1) /\ (reloads' = reloads \/ reloads' = reloads + 1)
      BY <2>1 DEF Visit, Authenticate, Serve, Login, LoginExpiring, LoginArrives, Callback,
                  CallbackMatching, Exchange, UserInfo, Issue, CallbackArrives, ArrivesExpiring,
                  Reload, Fault, NoFault
    <2> QED BY <2>1 DEF Next, Expire, KeyChange, SessionEnds, Quiet, Fault, vars
  <1>4. faults' = faults /\ reloads' = reloads /\ faults = 0 /\ reloads = 0
    BY SMT, <1>1, <1>3 DEF Undisturbed
  <1>5. Begun \subseteq Begun'
    <2>1. ASSUME NEW f \in Flow, NEW to, to # "new", pc' = [pc EXCEPT ![f] = to]
          PROVE  Begun \subseteq Begun'
      BY <2>1 DEF Begun, TypeOK
    <2>2. ASSUME NEW f \in Flow, Visit(f) \/ Authenticate(f) \/ Serve(f) \/ Reload(f)
          PROVE  Begun \subseteq Begun'
      <3>1. \E to : to # "new" /\ pc' = [pc EXCEPT ![f] = to]
        BY <2>2 DEF Visit, Authenticate, Serve, Login, LoginExpiring, LoginArrives, Callback,
                    CallbackMatching, rejectCallback, Exchange, UserInfo, Issue, CallbackArrives,
                    ArrivesExpiring, Reload, Proceed, Show
      <3> QED BY <2>1, <3>1
    <2>3. CASE UNCHANGED pc
      BY <2>3 DEF Begun
    <2> QED BY <2>2, <2>3 DEF Next, Expire, KeyChange, SessionEnds, Quiet, flowVars, vars
  <1>6. Cardinality(Begun) <= Cardinality(Begun')
    BY <1>5, Finite DEF Begun
  <1>7. Cardinality(Begun) \in Nat /\ Cardinality(Begun') \in Nat
    BY Finite DEF Begun
  <1> QED BY SMT, <1>1, <1>2, <1>4, <1>6, <1>7 DEF Undisturbed

\* Every login cookie is one of another sign-in that has begun, so a Login finds fewer
\* of them than the limit.
LEMMA FewCookies ==
  ASSUME IInv, Undisturbed, NEW f \in Flow, pc[f] = "redirected"
  PROVE  ~(Cardinality(loginCookies) >= maxLoginFlows)
  <1> DEFINE Other == Begun \ {f}
             holder == [n \in loginCookies |-> jar[n]]
  <1>1. /\ IsFiniteSet(Begun) /\ Cardinality(Begun) \in Nat /\ IsFiniteSet(Other)
        /\ Cardinality(Other) \in Nat
        /\ IsFiniteSet(loginCookies) /\ Cardinality(loginCookies) \in Nat
    <2>1. Begun \subseteq Name /\ Other \subseteq Name /\ loginCookies \subseteq Name
      BY Finite DEF Begun
    <2> QED BY <2>1, Finite
  <1>2. Cardinality(Other) = Cardinality(Begun) - 1
    <2>1. f \in Begun
      BY DEF Begun
    <2> QED BY <1>1, <2>1, FS_RemoveElement
  <1>3. holder \in [loginCookies -> Other]
    <2>1. ASSUME NEW n \in loginCookies PROVE jar[n] \in Other
      <3>1. n \in Name /\ jar[n] \in Flow
        BY DEF loginCookies, IInv, TypeOK
      <3>2. pc[jar[n]] \notin {"new", "redirected", "login"}
        BY <3>1 DEF IInv, OneCookie
      <3> QED BY <3>1, <3>2 DEF Begun
    <2> QED BY <2>1
  <1>4. ASSUME NEW m \in loginCookies, NEW n \in loginCookies, holder[m] = holder[n]
        PROVE  m = n
    <2>1. m \in Name /\ n \in Name /\ jar[m] = jar[n] /\ jar[m] \in Flow
      BY <1>4 DEF loginCookies, IInv, TypeOK
    <2> QED BY <2>1 DEF IInv, OneCookie
  <1>5. ~(Cardinality(Other) < Cardinality(loginCookies))
    <2>1. SUFFICES ASSUME Cardinality(Other) < Cardinality(loginCookies) PROVE FALSE
      OBVIOUS
    <2> HIDE DEF Other, holder
    <2>2. PICK m, n \in loginCookies : m # n /\ holder[m] = holder[n]
      BY SMT, <1>1, <1>3, <2>1, FS_PigeonHole
    <2> QED BY <1>4, <2>2
  <1>6. maxLoginFlows \in Nat /\ Cardinality(Begun) <= maxLoginFlows
    BY LoginFlowAssumption DEF IInv, TypeOK, Undisturbed
  <1> QED BY SMT, <1>1, <1>2, <1>5, <1>6

\* The other sign-ins stay on course when a step leaves them and their cookies alone.
LEMMA OthersOnCourse ==
  ASSUME NEW f \in Flow, NEW g \in Flow \ {f}, OnCourse(g),
         expires'[g] = expires[g], pc'[g] = pc[g], page'[g] = page[g],
         g \in spent' => g \in spent, Holds(g) => Holds(g)'
  PROVE  OnCourse(g)'
  BY DEF OnCourse

\* A sign-in f that moves on without touching a cookie, the others as they are.
LEMMA MovesOnCourse ==
  ASSUME TypeOK, \A g \in Flow : OnCourse(g), NEW f \in Flow, NEW to, NEW p,
         pc' = [pc EXCEPT ![f] = to], page' = [page EXCEPT ![f] = p],
         UNCHANGED <<jar, expires>>, spent' \subseteq spent \cup {f},
         to # "error", p \in {"none", "app"}, to \in {"idp", "code"} => Holds(f),
         f \in spent' => to \notin {"new", "redirected", "login", "idp", "code", "exchange"}
  PROVE  \A g \in Flow : OnCourse(g)'
  <1>1. /\ pc'[f] = to /\ page'[f] = p
        /\ \A g \in Flow \ {f} : pc'[g] = pc[g] /\ page'[g] = page[g]
    BY DEF TypeOK
  <1>2. \A g \in Flow : Holds(g)' <=> Holds(g)
    BY DEF Holds
  <1>3. OnCourse(f)'
    BY <1>1, <1>2 DEF OnCourse
  <1>4. ASSUME NEW g \in Flow \ {f} PROVE OnCourse(g)'
    BY <1>1, <1>2, OthersOnCourse
  <1> QED BY <1>3, <1>4

\* Expiring a cookie of f's leaves the cookies of the other sign-ins.
LEMMA OwnCookieOnly ==
  ASSUME TypeOK, Named, NEW f \in Flow, pc[f] \in InCallback,
         jar' = [jar EXCEPT ![raw[f]] = None], NEW g \in Flow \ {f}, Holds(g)
  PROVE  Holds(g)'
  <1>1. raw[f] = f \/ (raw[f] = Plain /\ f = Legacy)
    BY DEF Named
  <1>2. g \in Name /\ Plain \in Name /\ g # Plain
    BY LoginFlowAssumption DEF Name
  <1>3. \A n \in Name \ {raw[f]} : jar'[n] = jar[n]
    BY DEF TypeOK
  <1> QED BY <1>1, <1>2, <1>3, LoginFlowAssumption DEF Holds

\* A callback finds the cookie its sign-in holds.
LEMMA FindsOwn ==
  ASSUME Named, NEW f \in Flow, Holds(f)
  PROVE  jar[RawName(f)] = f
  BY LoginFlowAssumption DEF Named, Holds, RawName, loginCookieName

\* While nothing else disturbs it, no sign-in expires the cookie of another.
LEMMA IndependentKept == IInv /\ Named /\ Independent /\ [Next]_vars => Independent'
  <1> SUFFICES ASSUME IInv, Named, Independent, [Next]_vars, Undisturbed'
               PROVE  stale' = {} /\ \A g \in Flow : OnCourse(g)'
    BY DEF Independent
  <1> DEFINE Goal == stale' = {} /\ \A g \in Flow : OnCourse(g)'
  <1>0. /\ TypeOK /\ Undisturbed /\ faults' = faults /\ reloads' = reloads
        /\ stale = {} /\ \A g \in Flow : OnCourse(g)
    BY Monotone DEF IInv, Independent
  <1>a. ASSUME NEW kind PROVE ~Fault(kind)
    BY SMT, <1>0 DEF Fault, TypeOK
  <1>b. ASSUME NEW f \in Flow, pc[f] # "shown" PROVE page = [page EXCEPT ![f] = "none"]
    BY <1>0, <1>b DEF IInv, AtRest, TypeOK
  <1>1. ASSUME NEW f \in Flow, Visit(f) PROVE Goal
    <2>1. f \notin spent
      BY <1>0, <1>1 DEF Visit, OnCourse
    <2>2. page' = [page EXCEPT ![f] = "none"]
      BY <1>1, <1>b DEF Visit
    <2> QED BY <1>0, <1>1, <2>1, <2>2, MovesOnCourse DEF Visit
  <1>2. ASSUME NEW f \in Flow, Authenticate(f) PROVE Goal
    <2>1. f \notin spent /\ Holds(f)
      BY <1>0, <1>2 DEF Authenticate, OnCourse
    <2>2. page' = [page EXCEPT ![f] = "none"]
      BY <1>2, <1>b DEF Authenticate
    <2> QED BY <1>0, <1>2, <1>a, <2>1, <2>2, MovesOnCourse DEF Authenticate
  <1>3. ASSUME NEW f \in Flow, Login(f) PROVE Goal
    <2>0. pc[f] = "redirected"
      BY <1>0, <1>3, Request
    <2>1. expires'[f] = {}
      BY <1>0, <1>3, <2>0, Request, FewCookies
    <2>2. \A g \in Flow : Holds(g)' <=> Holds(g)
      BY <1>0, <1>3, Request DEF Holds
    <2>3. OnCourse(f)'
      BY <1>0, <1>3, <2>0, <2>1, Request DEF OnCourse
    <2>4. ASSUME NEW g \in Flow \ {f} PROVE OnCourse(g)'
      BY <1>0, <1>3, <2>2, Request, OthersOnCourse
    <2> QED BY <1>0, <1>3, <2>3, <2>4, Request
  <1>4. ASSUME NEW f \in Flow, LoginArrives(f) PROVE Goal
    <2>1. expires[f] = {}
      BY <1>0 DEF OnCourse
    <2>2. jar'[f] = f /\ \A n \in Name \ {f} : jar'[n] = jar[n]
      BY SMT, <1>0, <1>4, <2>1, Arrival
    <2>3. OnCourse(f)'
      BY <1>0, <1>4, <2>2, Arrival DEF OnCourse, Holds
    <2>4. ASSUME NEW g \in Flow \ {f} PROVE OnCourse(g)'
      <3>1. g \in Name \ {f} /\ Plain \in Name \ {f}
        BY LoginFlowAssumption DEF Name
      <3>2. Holds(g) => Holds(g)'
        BY <2>2, <3>1 DEF Holds
      <3>3. /\ expires'[g] = expires[g] /\ pc'[g] = pc[g]
            /\ page'[g] = page[g] /\ (g \in spent' => g \in spent)
        BY <1>0, <1>4, Arrival
      <3> QED BY <1>0, <3>2, <3>3, OthersOnCourse
    <2> QED BY <1>0, <1>4, <2>3, <2>4, Arrival
  <1>5. ASSUME NEW f \in Flow, Callback(f) PROVE Goal
    <2>1. pc[f] = "code" /\ f \notin spent /\ jar[RawName(f)] = f
      <3>1. pc[f] \in {"code", "error"}
        BY <1>5 DEF Callback, CallbackMatching
      <3>2. pc[f] = "code" /\ Holds(f) /\ f \notin spent
        BY <1>0, <3>1 DEF OnCourse
      <3> QED BY <3>2, FindsOwn
    <2>2. /\ pc' = [pc EXCEPT ![f] = "exchange"]
          /\ UNCHANGED <<jar, stale, expires, page, spent>>
      <3>1. f # None /\ "code" # "error"
        BY LoginFlowAssumption
      <3> QED BY <1>0, <1>5, <2>1, <3>1 DEF Callback, CallbackMatching
    <2>3. page' = [page EXCEPT ![f] = "none"]
      BY <2>1, <2>2, <1>b
    <2> QED BY <1>0, <2>1, <2>2, <2>3, MovesOnCourse
  <1>6. ASSUME NEW f \in Flow, NEW to \in {"userinfo", "issue", "issued"}, Proceed(f, to),
               pc[f] # "shown", UNCHANGED <<jar, stale>>, spent' \subseteq spent \cup {f}
        PROVE  Goal
    <2>1. page' = [page EXCEPT ![f] = "none"]
      BY <1>6, <1>b DEF Proceed
    <2> QED BY <1>0, <1>6, <2>1, MovesOnCourse DEF Proceed
  <1>7. ASSUME NEW f \in Flow, Exchange(f) PROVE Goal
    <2>1. ls[f] = f /\ f \notin spent
      BY <1>0, <1>7 DEF Exchange, IInv, Matched, InCallback, OnCourse
    <2> QED BY <1>6, <1>7, <1>a, <2>1 DEF Exchange
  <1>8. ASSUME NEW f \in Flow, UserInfo(f) \/ Issue(f) PROVE Goal
    BY <1>6, <1>8, <1>a DEF UserInfo, Issue
  <1>9. ASSUME NEW f \in Flow, CallbackArrives(f) PROVE Goal
    <2>1. /\ pc[f] \in InCallback /\ jar' = [jar EXCEPT ![raw[f]] = None]
          /\ pc'[f] = "shown" /\ page'[f] = "app"
          /\ \A g \in Flow \ {f} : pc'[g] = pc[g] /\ page'[g] = page[g]
          /\ UNCHANGED <<expires, spent, stale>>
      BY <1>0, <1>9 DEF CallbackArrives, ArrivesExpiring, Show, InCallback, TypeOK
    <2>2. OnCourse(f)'
      BY <1>0, <2>1 DEF OnCourse
    <2>3. ASSUME NEW g \in Flow \ {f} PROVE OnCourse(g)'
      <3>1. Holds(g) => Holds(g)'
        BY <1>0, <2>1, OwnCookieOnly
      <3> QED BY <1>0, <2>1, <3>1, OthersOnCourse
    <2> QED BY <1>0, <2>1, <2>2, <2>3
  <1>10. ASSUME NEW f \in Flow, Reload(f) PROVE Goal
    BY SMT, <1>0, <1>10 DEF Reload, TypeOK
  <1>11. CASE (\E n \in Name : Expire(n)) \/ KeyChange \/ SessionEnds
    BY <1>11, <1>a DEF Expire, KeyChange, SessionEnds
  <1>12. CASE UNCHANGED vars
    BY <1>0, <1>12 DEF vars, flowVars, OnCourse, Holds
  <1> QED
    BY <1>1, <1>2, <1>3, <1>4, <1>5, <1>7, <1>8, <1>9, <1>10, <1>11, <1>12
    DEF Next, Serve, Quiet

\* No response is on its way, and a sign-in of an older release has its cookie.
LEMMA IndependentInitially == Init => Independent
  <1> SUFFICES ASSUME Init PROVE stale = {} /\ \A f \in Flow : OnCourse(f)
    BY DEF Independent
  <1>0. PICK upgraded \in BOOLEAN :
          /\ jar = [n \in Name |-> IF upgraded /\ n = Plain THEN Legacy ELSE None]
          /\ pc = [f \in Flow |-> IF upgraded /\ f = Legacy THEN "idp" ELSE "new"]
    BY DEF Init
  <1>1. ASSUME NEW f \in Flow PROVE pc[f] = "new" \/ (pc[f] = "idp" /\ Holds(f))
    BY <1>0 DEF Holds, Name
  <1>2. ASSUME NEW f \in Flow PROVE OnCourse(f)
    BY <1>1 DEF Init, OnCourse
  <1> QED BY <1>2 DEF Init

-----------------------------------------------------------------------------
(* The theorems                                                            *)

\* idp.Exchange is called only with the verifier and the nonce of the sign-in the code was
\* issued to (Callback compares the states before it exchanges).
THEOREM OwnState == Spec => []ExchangeOwnState
  <1>1. IInv => ExchangeOwnState
    BY DEF IInv, Matched, ExchangeOwnState
  <1> QED BY <1>1, Invariance, PTL

\* A sign-in that has ended in the app leaves no login cookie behind that could be used
\* again: the one its callback was matched with, raw.Name, is the only one it ever had.
THEOREM UsedUp == Spec => []SingleUse
  <1>1. IInv => SingleUse
    BY DEF IInv
  <1> QED BY <1>1, Invariance, PTL

\* However many sign-ins there are and however their responses interleave, the browser
\* carries at most maxLoginFlows login cookies and one more for every further Login that
\* may be in flight: each Login counts the cookies its own request carries.
THEOREM CookiesBounded == Spec => []LoginCookiesBounded
  <1>1. Room => LoginCookiesBounded
    <2> SUFFICES ASSUME Room PROVE LoginCookiesBounded
      OBVIOUS
    <2>1. {} \in SUBSET Answering /\ Left({}) = loginCookies
      BY DEF Left
    <2>2. Cardinality(Left({})) + Cardinality({}) <= maxLoginFlows + Concurrency - 1
      BY <2>1 DEF Room
    <2>3. Cardinality(loginCookies) \in Nat /\ Cardinality({}) = 0
      BY Finite, FS_EmptySet
    <2> QED BY SMT, <2>1, <2>2, <2>3 DEF LoginCookiesBounded
  <1>2. IInv => TypeOK
    BY DEF IInv
  <1> QED BY <1>1, <1>2, Invariance, RoomInitially, RoomKept, PTL DEF Spec

\* Any number of sign-ins up to maxLoginFlows, begun and answered in any order, end nowhere
\* but in the app while nothing fails and nobody reloads: none loses its cookie to another's
\* Login or Callback, the one begun before the upgrade included.
THEOREM Undisturbing == Spec => []SignInsIndependent
  <1>1. Independent => SignInsIndependent
    BY DEF Independent, Undisturbed, Begun, OnCourse, SignInsIndependent
  <1>2. IInv => TypeOK
    BY DEF IInv
  <1> QED
    BY <1>1, <1>2, Invariance, NamedInitially, NamedKept, IndependentInitially,
       IndependentKept, PTL DEF Spec
=============================================================================
