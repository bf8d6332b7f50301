------------------------- MODULE StateManagerProofs -------------------------
(***************************************************************************)
(* For any number of requests, instances, faults and any lifetimes: what   *)
(* a refresh may do to a session, and what it may hand out.  IInv is the   *)
(* inductive invariant of the records and the refresh lock; JInv, kept     *)
(* beside it, follows a refresh through while all is calm.                 *)
(***************************************************************************)
EXTENDS StateManager, TLAPS

\* Most leaves are first-order logic; those that need arithmetic or records name SMT.
USE Zenon

\* Where maybeRefresh has a record, and has accepted its session.
Accepted == {"hand", "wait"} \cup Locked
Kept == {"check"} \cup Accepted

\* The refresh lock of an instance has one holder: the request that is between
\* acquiring it and the deferred unlock.
Mutex ==
    /\ inst \in [Request -> world.instances]
    /\ \A r \in Request : pc[r] \in Locked => holders[inst[r]] = {r}

\* Records hold access tokens that were issued; maybeRefresh works on one.
Recorded ==
    /\ store = Absent \/ store.at \in 1 .. idp.last
    /\ \A r \in Request :
        /\ rec[r] = Absent \/ rec[r].at \in 1 .. idp.last
        /\ pc[r] \in Kept => rec[r] # Absent

\* All records of the session have one expiry, and the store forgets it soon after.
Expiring(e) ==
    /\ store # Absent => store.exp = e /\ until <= e + world.patience
    /\ \A r \in Request : rec[r] # Absent => rec[r].exp = e
OneExpiry == \E e \in Nat : Expiring(e)

\* A request ends within its patience, and a token is as old as it at the most.
Timely == \A r \in Request :
    /\ age[r] <= world.patience
    /\ (pc[r] \in Storing /\ world.atLife > 0) => rec[r].ae + age[r] >= now + world.atLife

\* The session was not over when the request came, and what it is about to be stored with
\* was its rest at some time since.
Lasting == \A r \in Request :
    /\ pc[r] \in Accepted => now <= rec[r].exp + age[r]
    /\ pc[r] = "set" => now + remaining[r] <= rec[r].exp + age[r]

\* On one instance, the tokens about to be stored are the last the IdP has issued.
Newest == Alone => \A r \in Request :
    pc[r] \in Storing => rec[r].at = idp.last /\ rec[r].rt = idp.rt

\* Without rotation the grant has one refresh token.
OneGrant == ~world.rotating =>
    /\ store # Absent => store.rt = idp.rt
    /\ \A r \in Request : rec[r] # Absent => rec[r].rt = idp.rt

IInv ==
    /\ TypeOK /\ Mutex /\ Recorded /\ OneExpiry /\ Timely /\ Lasting /\ Newest /\ OneGrant
    /\ NotStranded

-----------------------------------------------------------------------------
(* Types                                                                   *)

LEMMA Numbers ==
  ASSUME TypeOK
  PROVE  /\ Skew \in Nat /\ MaxTokens \in Nat
         /\ world.atLife \in Nat /\ world.ttl \in Nat /\ world.patience \in Nat
         /\ world.horizon \in Nat /\ world.maxFaults \in Nat
         /\ world.instances \subseteq Instance
         /\ TokenExpiry \in Nat
  <1>1. world \in [rotating : BOOLEAN, instances : (SUBSET Instance) \ {{}}, atLife : Nat,
                   ttl : Nat, patience : Nat, horizon : Nat, maxFaults : Nat,
                   faultKinds : SUBSET AllFaults]
    BY StateManagerAssumption DEF TypeOK
  <1> QED BY SMT, <1>1, StateManagerAssumption DEF TypeOK, TokenExpiry

LEMMA AbsentIsRecord == Absent \in Record /\ Absent.at = 0
  BY DEF Absent, Record, NoRT

LEMMA WorldKept == [Next]_vars => world' = world
  <1>1. ASSUME NEW r \in Request, Step(r) PROVE world' = world
    BY <1>1 DEF faultVars, NoFault, Fault, Fails, Step, Load, Check, Acquire, Recheck, RecheckWhen,
                Refresh, Refused, RefusedThen, Restore, Set, SetWith, Refuse, Hand, Unlock, Clear
  <1>2. ASSUME NEW r \in Request, StartRead(r) \/ StartClear(r) \/ Cancel(r) PROVE world' = world
    BY <1>2 DEF faultVars, Fault, StartRead, StartClear, Start, Cancel
  <1>3. CASE Tick \/ Issue \/ (\E i \in Instance : Crash(i)) \/ UNCHANGED vars
    BY <1>3 DEF vars, faultVars, NoFault, Fault, Tick, Issue, Crash
  <1> QED BY <1>1, <1>2, <1>3 DEF Next, Quiet

\* A request that goes on, or returns, keeps the types of what is its own.
LEMMA GoType ==
  ASSUME TypeOK, NEW r \in Request, NEW s \in Record, NEW ttl \in Nat,
         NEW to \in {"idle", "load", "check", "hand", "wait", "delete"} \cup Locked,
         GoWith(r, to, s, ttl)
  PROVE  /\ pc' \in [Request -> {"idle", "load", "check", "hand", "wait", "delete"} \cup Locked]
         /\ inst' \in [Request -> Instance] /\ rec' \in [Request -> Record]
         /\ remaining' \in [Request -> Nat]
         /\ age' \in [Request -> Nat] /\ cancelled' \subseteq Request
  BY DEF TypeOK, GoWith

LEMMA ZeroType ==
  ASSUME TypeOK, NEW r \in Request, NEW s \in Record,
         NEW to \in {"idle", "load", "check", "hand", "wait", "delete"} \cup Locked,
         Go(r, to, s)
  PROVE  /\ pc' \in [Request -> {"idle", "load", "check", "hand", "wait", "delete"} \cup Locked]
         /\ inst' \in [Request -> Instance] /\ rec' \in [Request -> Record]
         /\ remaining' \in [Request -> Nat]
         /\ age' \in [Request -> Nat] /\ cancelled' \subseteq Request
  BY GoType DEF Go

LEMMA ReturnType ==
  ASSUME TypeOK, NEW r \in Request, Return(r)
  PROVE  /\ pc' \in [Request -> {"idle", "load", "check", "hand", "wait", "delete"} \cup Locked]
         /\ inst' \in [Request -> Instance] /\ rec' \in [Request -> Record]
         /\ remaining' \in [Request -> Nat]
         /\ age' \in [Request -> Nat] /\ cancelled' \subseteq Request
  BY AbsentIsRecord DEF TypeOK, Return

LEMMA FaultType ==
  ASSUME TypeOK, NEW r \in Request, NEW kind, Fails(r, kind) \/ Fault(kind) \/ NoFault
  PROVE  world' \in World /\ faults' \in Nat
  BY SMT DEF TypeOK, Fails, Fault, NoFault, faultVars

LEMMA TypeKept == TypeOK /\ [Next]_vars => TypeOK'
  <1> SUFFICES ASSUME TypeOK, [Next]_vars PROVE TypeOK'
    OBVIOUS
  <1>0. /\ store \in Record
        /\ \A r \in Request : rec[r] \in Record /\ inst[r] \in Instance
    BY DEF TypeOK
  <1>1. CASE Tick
    <2>1. now' \in Nat /\ age' \in [Request -> Nat]
      BY SMT, <1>1 DEF Tick, TypeOK
    <2> QED BY <1>1, <2>1
         DEF Tick, TypeOK, sessionVars, faultVars, lockVars, Lock!LockTypeOK
  <1>2. CASE Issue
    <2>1. /\ until' \in Nat /\ store' \in Record /\ idp' \in [last : Nat, rt : Nat]
          /\ cookie' \in BOOLEAN
      <3>1. PICK rt \in {NoRT, 1}, made \in 0 .. now :
              /\ idp' = [last |-> 1, rt |-> rt]
              /\ \/ /\ store' = [at |-> 1, rt |-> rt, ae |-> world.atLife, exp |-> made + world.ttl]
                    /\ until' = now + world.ttl
                 \/ UNCHANGED <<store, until>>
        BY <1>2 DEF Issue
      <3>2. rt \in Nat /\ now + world.ttl \in Nat /\ made + world.ttl \in Nat /\ world.atLife \in Nat
        BY SMT, Numbers DEF TypeOK, NoRT
      <3>3. idp' \in [last : Nat, rt : Nat]
        BY <3>1, <3>2
      <3>4. store' \in Record /\ until' \in Nat
        BY SMT, <3>1, <3>2 DEF Record, TypeOK
      <3>5. cookie' \in BOOLEAN
        BY <1>2 DEF Issue, TypeOK
      <3> QED BY <3>3, <3>4, <3>5
    <2>2. world' \in World /\ faults' \in Nat
      BY SMT, <1>2 DEF Issue, Fault, NoFault, faultVars, TypeOK
    <2> QED BY <1>2, <2>1, <2>2 DEF Issue, TypeOK, requestVars, lockVars, Lock!LockTypeOK
  <1>3. ASSUME NEW r \in Request, StartRead(r) \/ StartClear(r) PROVE TypeOK'
    <2>1. Go(r, "load", Absent) \/ Go(r, "delete", Absent)
      BY <1>3 DEF StartRead, StartClear, Start
    <2> QED BY <1>3, <2>1, ZeroType, AbsentIsRecord
         DEF StartRead, StartClear, Start, TypeOK, sessionVars, faultVars, lockVars,
             Lock!LockTypeOK
  <1>4. ASSUME NEW r \in Request, Load(r) PROVE TypeOK'
    <2>1. Go(r, "check", store) \/ Return(r)
      BY <1>4 DEF Load
    <2>2. world' \in World /\ faults' \in Nat
      BY <1>4, FaultType DEF Load
    <2> QED BY <1>0, <1>4, <2>1, <2>2, ZeroType, ReturnType
         DEF Load, TypeOK, sessionVars, lockVars, Lock!LockTypeOK
  <1>5. ASSUME NEW r \in Request, Check(r) PROVE TypeOK'
    <2>1. Go(r, "wait", rec[r]) \/ Go(r, "hand", rec[r])
      BY <1>5 DEF Check
    <2>2. Lock!LockTypeOK'
      BY SMT, <1>0, <1>5 DEF Check, TypeOK, Lock!LockTypeOK, Lock!Ask, lockVars
    <2> QED BY <1>0, <1>5, <2>1, <2>2, ZeroType
         DEF Check, TypeOK, sessionVars, faultVars
  <1>6. ASSUME NEW r \in Request, Acquire(r) PROVE TypeOK'
    <2>1. Lock!LockTypeOK'
      BY <1>0, <1>6 DEF Acquire, TypeOK, Lock!LockTypeOK, Lock!Grant
    <2> QED BY <1>0, <1>6, <2>1, ZeroType
         DEF Acquire, TypeOK, sessionVars, faultVars, Locked
  <1>7. ASSUME NEW r \in Request, Recheck(r) PROVE TypeOK'
    <2>1. Go(r, "serve", store) \/ Go(r, "refresh", rec[r])
      BY <1>7 DEF Recheck, RecheckWhen
    <2>2. world' \in World /\ faults' \in Nat
      BY <1>7, FaultType DEF Recheck, RecheckWhen
    <2> QED BY <1>0, <1>7, <2>1, <2>2, ZeroType
         DEF Recheck, RecheckWhen, TypeOK, sessionVars, lockVars, Lock!LockTypeOK, Locked
  <1>8. ASSUME NEW r \in Request, Refresh(r) PROVE TypeOK'
    <2>1. world' \in World /\ faults' \in Nat
      BY <1>8, FaultType DEF Refresh
    <2>2. /\ idp' \in [last : Nat, rt : Nat]
          /\ presented' \in [Instance -> SUBSET Nat]
      BY SMT, <1>0, <1>8 DEF Refresh, TypeOK, Record
    <2>3. PICK s \in Record, to \in {"restore", "refused"} : Go(r, to, s)
      BY SMT, <1>0, <1>8, Numbers DEF Refresh, TypeOK, Record
    <2> QED BY <1>8, <2>1, <2>2, <2>3, ZeroType
         DEF Refresh, TypeOK, lockVars, Lock!LockTypeOK, Locked
  <1>9. ASSUME NEW r \in Request, Refused(r) PROVE TypeOK'
    <2>1. Go(r, "serve", rec[r]) \/ Go(r, "deny", rec[r])
      BY <1>9 DEF Refused, RefusedThen
    <2> QED BY <1>0, <1>9, <2>1, ZeroType
         DEF Refused, RefusedThen, TypeOK, sessionVars, faultVars, lockVars, Lock!LockTypeOK,
             Locked
  <1>10. ASSUME NEW r \in Request, Restore(r) PROVE TypeOK'
    <2>1. PICK to \in {"set", "serve"}, ttl \in Nat : GoWith(r, to, rec[r], ttl)
      <3>1. rec[r].exp - now > 0 => rec[r].exp - now \in Nat
        BY SMT, <1>0 DEF Record, TypeOK
      <3>2. 0 \in Nat
        BY SMT
      <3> QED BY <1>10, <3>1, <3>2 DEF Restore, Go
    <2> QED BY <1>0, <1>10, <2>1, GoType
         DEF Restore, TypeOK, sessionVars, faultVars, lockVars, Lock!LockTypeOK, Locked
  <1>16. ASSUME NEW r \in Request, Set(r) PROVE TypeOK'
    <2>1. world' \in World /\ faults' \in Nat
      BY <1>16, FaultType DEF Set, SetWith
    <2>2. store' \in Record /\ until' \in Nat
      BY SMT, <1>0, <1>16 DEF Set, SetWith, TypeOK
    <2>3. Go(r, "serve", rec[r])
      BY <1>16 DEF Set, SetWith
    <2> QED BY <1>0, <1>16, <2>1, <2>2, <2>3, ZeroType
         DEF Set, SetWith, TypeOK, lockVars, Lock!LockTypeOK, Locked
  <1>17. ASSUME NEW r \in Request, Refuse(r) \/ Hand(r) PROVE TypeOK'
    BY <1>17, ReturnType
    DEF Refuse, Hand, TypeOK, sessionVars, faultVars, lockVars, Lock!LockTypeOK
  <1>11. ASSUME NEW r \in Request, Unlock(r) PROVE TypeOK'
    <2>1. Lock!LockTypeOK'
      BY <1>0, <1>11 DEF Unlock, TypeOK, Lock!LockTypeOK, Lock!Release
    <2> QED BY <1>11, <2>1, ReturnType DEF Unlock, TypeOK, sessionVars, faultVars
  <1>12. ASSUME NEW r \in Request, Clear(r) PROVE TypeOK'
    <2>1. world' \in World /\ faults' \in Nat
      BY <1>12, FaultType DEF Clear
    <2> QED BY <1>12, <2>1, ReturnType, AbsentIsRecord
         DEF Clear, TypeOK, lockVars, Lock!LockTypeOK
  <1>13. ASSUME NEW r \in Request, Cancel(r) PROVE TypeOK'
    BY SMT, <1>13 DEF Cancel, Fault, TypeOK, sessionVars, lockVars, Lock!LockTypeOK
  <1>14. ASSUME NEW i \in Instance, Crash(i) PROVE TypeOK'
    <2>1. Lock!LockTypeOK'
      BY <1>14 DEF Crash, TypeOK, Lock!LockTypeOK
    <2>2. /\ pc' \in [Request -> {"idle", "load", "check", "hand", "wait", "delete"} \cup Locked]
          /\ rec' \in [Request -> Record] /\ age' \in [Request -> Nat]
          /\ cancelled' \subseteq Request /\ remaining' \in [Request -> Nat]
      BY <1>14, AbsentIsRecord DEF Crash, TypeOK
    <2> QED BY SMT, <1>14, <2>1, <2>2 DEF Crash, Fault, TypeOK, sessionVars
  <1>15. CASE UNCHANGED vars
    BY <1>15 DEF vars, TypeOK, sessionVars, requestVars, faultVars, lockVars, Lock!LockTypeOK
  <1> QED
    BY <1>1, <1>2, <1>3, <1>4, <1>5, <1>6, <1>7, <1>8, <1>9, <1>10, <1>11, <1>12, <1>13,
       <1>14, <1>15, <1>16, <1>17 DEF Next, Step, Quiet

-----------------------------------------------------------------------------
(* The lock                                                                *)

LEMMA MutexSame ==
  ASSUME Mutex, UNCHANGED <<world, inst, holders>>,
         \A r \in Request : pc'[r] \in Locked => pc[r] \in Locked
  PROVE  Mutex'
  BY DEF Mutex

LEMMA MutexKept == TypeOK /\ Mutex /\ [Next]_vars => Mutex'
  <1> SUFFICES ASSUME TypeOK, Mutex, [Next]_vars PROVE Mutex'
    OBVIOUS
  <1>0. UNCHANGED world
    BY WorldKept
  <1>16. ASSUME NEW r \in Request, NEW to, NEW s, NEW ttl, GoWith(r, to, s, ttl),
                UNCHANGED lockVars, to \in Locked => pc[r] \in Locked
         PROVE  Mutex'
    BY <1>0, <1>16, MutexSame DEF GoWith, TypeOK, lockVars
  <1>1. ASSUME NEW r \in Request, NEW to, NEW s, Go(r, to, s), UNCHANGED lockVars,
               to \in Locked => pc[r] \in Locked
        PROVE  Mutex'
    BY <1>1, <1>16 DEF Go
  <1>2. ASSUME NEW r \in Request, Return(r), UNCHANGED lockVars
        PROVE  Mutex'
    <2>1. \A q \in Request : pc'[q] \in Locked => pc[q] \in Locked
      BY <1>2 DEF Return, TypeOK, Locked
    <2> QED BY <1>0, <1>2, <2>1, MutexSame DEF Return, lockVars
  <1>3. CASE Tick \/ Issue \/ UNCHANGED vars
    BY <1>0, <1>3, MutexSame DEF Tick, Issue, vars, requestVars, lockVars
  <1>4. ASSUME NEW r \in Request, StartRead(r) \/ StartClear(r) PROVE Mutex'
    BY <1>1, <1>4 DEF StartRead, StartClear, Start, Locked
  <1>5. ASSUME NEW r \in Request, Load(r) PROVE Mutex'
    BY <1>1, <1>2, <1>5 DEF Load, Locked
  <1>6. ASSUME NEW r \in Request, Check(r) PROVE Mutex'
    <2>1. CASE Go(r, "hand", rec[r]) /\ UNCHANGED lockVars
      BY <1>1, <2>1 DEF Locked
    <2>2. CASE Go(r, "wait", rec[r]) /\ Lock!Ask(r, inst[r])
      <3>1. \A q \in Request : pc'[q] \in Locked => pc[q] \in Locked
        BY <2>2 DEF Go, GoWith, TypeOK, Locked
      <3> QED BY <1>0, <2>2, <3>1, MutexSame DEF Go, GoWith, Lock!Ask
    <2> QED BY <1>6, <2>1, <2>2 DEF Check
  <1>7. ASSUME NEW r \in Request, Acquire(r) PROVE Mutex'
    <2>1. /\ holders[inst[r]] = {} /\ holders' = [holders EXCEPT ![inst[r]] = {r}]
          /\ pc' = [pc EXCEPT ![r] = "recheck"] /\ UNCHANGED inst
      BY <1>7 DEF Acquire, Lock!Grant, Go, GoWith
    <2>2. ASSUME NEW q \in Request, pc'[q] \in Locked PROVE holders'[inst'[q]] = {q}
      <3>1. holders \in [Instance -> SUBSET Request] /\ inst \in [Request -> Instance]
        BY DEF TypeOK, Lock!LockTypeOK
      <3>2. CASE q = r
        BY <2>1, <3>1, <3>2
      <3>3. CASE q # r
        <4>1. pc[q] \in Locked
          BY <2>1, <2>2, <3>3 DEF TypeOK
        <4>2. holders[inst[q]] = {q}
          BY <4>1 DEF Mutex
        <4>3. inst[q] # inst[r]
          BY <2>1, <4>2
        <4> QED BY <2>1, <3>1, <4>2, <4>3
      <3> QED BY <3>2, <3>3
    <2> QED BY <1>0, <2>1, <2>2 DEF Mutex
  <1>8. ASSUME NEW r \in Request, Recheck(r) PROVE Mutex'
    BY <1>1, <1>8 DEF Recheck, RecheckWhen, Locked
  <1>9. ASSUME NEW r \in Request, Refresh(r) PROVE Mutex'
    <2>1. \E s : Go(r, "restore", s) \/ Go(r, "refused", s)
      BY <1>9 DEF Refresh
    <2> QED BY <1>1, <1>9, <2>1 DEF Refresh, Locked
  <1>10. ASSUME NEW r \in Request, Refused(r) PROVE Mutex'
    BY <1>1, <1>10 DEF Refused, RefusedThen, Locked
  <1>11. ASSUME NEW r \in Request, Restore(r) PROVE Mutex'
    BY <1>1, <1>11, <1>16 DEF Restore, Locked
  <1>17. ASSUME NEW r \in Request, Set(r) PROVE Mutex'
    BY <1>1, <1>17 DEF Set, SetWith, Locked
  <1>18. ASSUME NEW r \in Request, Refuse(r) \/ Hand(r) PROVE Mutex'
    BY <1>2, <1>18 DEF Refuse, Hand
  <1>12. ASSUME NEW r \in Request, Unlock(r) PROVE Mutex'
    <2>1. /\ r \in holders[inst[r]]
          /\ holders' = [holders EXCEPT ![inst[r]] = @ \ {r}]
          /\ pc' = [pc EXCEPT ![r] = "idle"] /\ UNCHANGED inst
      BY <1>12 DEF Unlock, Lock!Release, Return
    <2>2. ASSUME NEW q \in Request, pc'[q] \in Locked PROVE holders'[inst'[q]] = {q}
      <3>1. holders \in [Instance -> SUBSET Request] /\ inst \in [Request -> Instance]
        BY DEF TypeOK, Lock!LockTypeOK
      <3>2. q # r /\ pc[q] \in Locked
        BY <2>1, <2>2 DEF TypeOK, Locked
      <3>3. holders[inst[q]] = {q}
        BY <3>2 DEF Mutex
      <3>4. inst[q] # inst[r]
        BY <2>1, <3>2, <3>3
      <3> QED BY <2>1, <3>1, <3>3, <3>4
    <2> QED BY <1>0, <2>1, <2>2 DEF Mutex
  <1>13. ASSUME NEW r \in Request, Clear(r) PROVE Mutex'
    BY <1>2, <1>13 DEF Clear
  <1>14. ASSUME NEW r \in Request, Cancel(r) PROVE Mutex'
    BY <1>0, <1>14, MutexSame DEF Cancel, lockVars
  <1>15. ASSUME NEW i \in Instance, Crash(i) PROVE Mutex'
    <2>1. ASSUME NEW q \in Request, pc'[q] \in Locked PROVE holders'[inst'[q]] = {q}
      <3>1. holders \in [Instance -> SUBSET Request] /\ inst \in [Request -> Instance]
        BY DEF TypeOK, Lock!LockTypeOK
      <3>2. pc[q] \in Locked /\ inst[q] # i
        BY <1>15, <2>1 DEF Crash, InProgress, Locked
      <3>3. holders' = [holders EXCEPT ![i] = {}] /\ UNCHANGED inst
        BY <1>15 DEF Crash
      <3> QED BY <3>1, <3>2, <3>3 DEF Mutex
    <2> QED BY <1>0, <1>15, <2>1 DEF Mutex, Crash
  <1> QED
    BY <1>3, <1>4, <1>5, <1>6, <1>7, <1>8, <1>9, <1>10, <1>11, <1>12, <1>13, <1>14, <1>15,
       <1>17, <1>18 DEF Next, Step, Quiet

\* On one instance no two requests are past Acquire.
LEMMA AloneInLock ==
  ASSUME TypeOK, Mutex, Alone, NEW r \in Request, NEW q \in Request,
         pc[r] \in Locked, pc[q] \in Locked
  PROVE  q = r
  <1>1. inst[r] = inst[q]
    BY DEF Alone, Mutex
  <1> QED BY <1>1 DEF Mutex

\* The lock of an instance is held by the requests there between Acquire and the deferred
\* unlock, and awaited by those there in m.refresh.lock.
Accounted == \A r \in Request, i \in Instance :
    /\ r \in holders[i] <=> pc[r] \in Locked /\ inst[r] = i
    /\ r \in waiters[i] <=> pc[r] = "wait" /\ inst[r] = i

\* A step that leaves the locks alone, and no request at its lock or past it.
LEMMA AccountedSame ==
  ASSUME Accounted, UNCHANGED <<inst, lockVars>>,
         \A r \in Request : /\ pc'[r] \in Locked <=> pc[r] \in Locked
                            /\ pc'[r] = "wait" <=> pc[r] = "wait"
  PROVE  Accounted'
  BY DEF Accounted, lockVars

\* The locks change with the requests: no path out of maybeRefresh keeps one, and none
\* gives back what it does not hold.
LEMMA AccountedKept == TypeOK /\ Accounted /\ [Next]_vars => Accounted'
  <1> SUFFICES ASSUME TypeOK, Accounted, [Next]_vars PROVE Accounted'
    OBVIOUS
  <1>0. /\ holders \in [Instance -> SUBSET Request] /\ waiters \in [Instance -> SUBSET Request]
        /\ inst \in [Request -> Instance] /\ DOMAIN pc = Request
    BY DEF TypeOK, Lock!LockTypeOK
  <1>16. ASSUME NEW r \in Request, NEW to, NEW s, NEW ttl, GoWith(r, to, s, ttl),
                UNCHANGED lockVars, to \in Locked <=> pc[r] \in Locked,
                to # "wait", pc[r] # "wait"
         PROVE  Accounted'
    BY <1>0, <1>16, AccountedSame DEF GoWith
  <1>1. ASSUME NEW r \in Request, NEW to, NEW s, Go(r, to, s), UNCHANGED lockVars,
               to \in Locked <=> pc[r] \in Locked, to # "wait", pc[r] # "wait"
        PROVE  Accounted'
    BY <1>1, <1>16 DEF Go
  <1>2. ASSUME NEW r \in Request, Return(r), UNCHANGED lockVars,
               pc[r] \in {"load", "check", "hand", "delete"}
        PROVE  Accounted'
    BY <1>0, <1>2, AccountedSame DEF Return, Locked
  <1>3. CASE Tick \/ Issue \/ UNCHANGED vars
    BY <1>3, AccountedSame DEF Tick, Issue, vars, requestVars
  <1>4. ASSUME NEW r \in Request, StartRead(r) \/ StartClear(r) PROVE Accounted'
    BY <1>1, <1>4 DEF StartRead, StartClear, Start, Locked
  <1>5. ASSUME NEW r \in Request, Load(r) PROVE Accounted'
    BY <1>1, <1>2, <1>5 DEF Load, Locked
  <1>6. ASSUME NEW r \in Request, Check(r) PROVE Accounted'
    <2>1. CASE Go(r, "hand", rec[r]) /\ UNCHANGED lockVars
      BY <1>1, <1>6, <2>1 DEF Check, Locked
    <2>2. CASE Go(r, "wait", rec[r]) /\ Lock!Ask(r, inst[r])
      <3>1. /\ waiters' = [waiters EXCEPT ![inst[r]] = @ \cup {r}] /\ UNCHANGED <<holders, inst>>
            /\ pc' = [pc EXCEPT ![r] = "wait"] /\ pc[r] = "check"
        BY <1>6, <2>2 DEF Check, Go, GoWith, Lock!Ask
      <3>2. \A q \in Request : q # r => pc'[q] = pc[q]
        BY <1>0, <3>1
      <3>3. pc'[r] = "wait" /\ "wait" \notin Locked /\ "check" \notin Locked
        BY <1>0, <3>1 DEF Locked
      <3>4. /\ waiters'[inst[r]] = waiters[inst[r]] \cup {r}
            /\ \A i \in Instance : i # inst[r] => waiters'[i] = waiters[i]
        BY <1>0, <3>1
      <3> QED BY SMT, <1>0, <3>1, <3>2, <3>3, <3>4 DEF Accounted
    <2> QED BY <1>6, <2>1, <2>2 DEF Check
  <1>7. ASSUME NEW r \in Request, Acquire(r) PROVE Accounted'
    <2>1. /\ waiters' = [waiters EXCEPT ![inst[r]] = @ \ {r}] /\ UNCHANGED inst
          /\ holders' = [holders EXCEPT ![inst[r]] = {r}] /\ holders[inst[r]] = {}
          /\ pc' = [pc EXCEPT ![r] = "recheck"] /\ pc[r] = "wait"
      BY <1>7 DEF Acquire, Go, GoWith, Lock!Grant
    <2>2. \A q \in Request : q # r => pc'[q] = pc[q]
      BY <1>0, <2>1
    <2>3. pc'[r] = "recheck" /\ "recheck" \in Locked /\ "recheck" # "wait"
      BY <1>0, <2>1 DEF Locked
    <2>4. /\ waiters'[inst[r]] = waiters[inst[r]] \ {r} /\ holders'[inst[r]] = {r}
          /\ \A i \in Instance : i # inst[r] => waiters'[i] = waiters[i] /\ holders'[i] = holders[i]
      BY <1>0, <2>1
    <2> QED BY SMT, <1>0, <2>1, <2>2, <2>3, <2>4 DEF Accounted
  <1>8. ASSUME NEW r \in Request, Recheck(r) PROVE Accounted'
    BY <1>1, <1>8 DEF Recheck, RecheckWhen, Locked
  <1>9. ASSUME NEW r \in Request, Refresh(r) PROVE Accounted'
    <2>1. \E s : Go(r, "restore", s) \/ Go(r, "refused", s)
      BY <1>9 DEF Refresh
    <2> QED BY <1>1, <1>9, <2>1 DEF Refresh, Locked
  <1>10. ASSUME NEW r \in Request, Refused(r) PROVE Accounted'
    BY <1>1, <1>10 DEF Refused, RefusedThen, Locked
  <1>11. ASSUME NEW r \in Request, Restore(r) PROVE Accounted'
    BY <1>1, <1>11, <1>16 DEF Restore, Locked
  <1>17. ASSUME NEW r \in Request, Set(r) PROVE Accounted'
    BY <1>1, <1>17 DEF Set, SetWith, Locked
  <1>18. ASSUME NEW r \in Request, Refuse(r) \/ Hand(r) PROVE Accounted'
    BY <1>2, <1>18 DEF Refuse, Hand
  <1>12. ASSUME NEW r \in Request, Unlock(r) PROVE Accounted'
    <2>1. /\ UNCHANGED <<waiters, inst>> /\ holders' = [holders EXCEPT ![inst[r]] = @ \ {r}]
          /\ pc' = [pc EXCEPT ![r] = "idle"] /\ pc[r] \in {"serve", "deny"}
      BY <1>12 DEF Unlock, Return, Lock!Release
    <2>2. \A q \in Request : q # r => pc'[q] = pc[q]
      BY <1>0, <2>1
    <2>3. pc'[r] = "idle" /\ "idle" \notin Locked /\ "idle" # "wait" /\ pc[r] # "wait" /\ pc[r] \in Locked
      BY <1>0, <2>1 DEF Locked
    <2>4. /\ holders'[inst[r]] = holders[inst[r]] \ {r}
          /\ \A i \in Instance : i # inst[r] => holders'[i] = holders[i]
      BY <1>0, <2>1
    <2> QED BY SMT, <1>0, <2>1, <2>2, <2>3, <2>4 DEF Accounted
  <1>13. ASSUME NEW r \in Request, Clear(r) PROVE Accounted'
    BY <1>2, <1>13 DEF Clear
  <1>14. ASSUME NEW r \in Request, Cancel(r) PROVE Accounted'
    BY <1>14, AccountedSame DEF Cancel
  <1>15. ASSUME NEW i \in Instance, Crash(i) PROVE Accounted'
    <2>1. /\ waiters' = [waiters EXCEPT ![i] = {}] /\ holders' = [holders EXCEPT ![i] = {}]
          /\ UNCHANGED inst
          /\ \A q \in Request : pc'[q] = IF pc[q] # "idle" /\ inst[q] = i THEN "idle" ELSE pc[q]
      BY <1>15 DEF Crash, InProgress
    <2>2. /\ waiters'[i] = {} /\ holders'[i] = {}
          /\ \A j \in Instance : j # i => waiters'[j] = waiters[j] /\ holders'[j] = holders[j]
      BY <1>0, <2>1
    <2>3. "idle" \notin Locked /\ "idle" # "wait"
      BY DEF Locked
    <2> QED BY SMT, <1>0, <2>1, <2>2, <2>3 DEF Accounted
  <1> QED
    BY <1>3, <1>4, <1>5, <1>6, <1>7, <1>8, <1>9, <1>10, <1>11, <1>12, <1>13, <1>14, <1>15,
       <1>17, <1>18 DEF Next, Step, Quiet

-----------------------------------------------------------------------------
(* The records                                                             *)

LEMMA InitEstablishes == Init => IInv
  <1> SUFFICES ASSUME Init PROVE IInv
    OBVIOUS
  <1>1. /\ \A r \in Request : pc[r] = "idle" /\ rec[r] = Absent /\ age[r] = 0
        /\ store = Absent /\ world \in World
    BY DEF Init
  <1>2. world.instances \subseteq Instance /\ world.patience \in Nat
    BY <1>1, StateManagerAssumption
  <1>3. TypeOK
    BY <1>1, <1>2, AbsentIsRecord DEF Init, TypeOK, NoRT, Lock!LockInit, Lock!LockTypeOK
  <1>4. Mutex
    BY <1>1 DEF Init, Mutex, Locked
  <1>5. Recorded /\ OneExpiry /\ Newest /\ OneGrant
    BY <1>1 DEF Recorded, OneExpiry, Expiring, Newest, OneGrant, Kept, Accepted, Locked, Storing
  <1>6. Timely /\ Lasting /\ NotStranded
    BY SMT, <1>1, <1>2 DEF Timely, Lasting, NotStranded, Live, Present, Accepted, Locked, Storing
  <1> QED BY <1>3, <1>4, <1>5, <1>6 DEF IInv

\* Two records of the session have one expiry.
LEMMA SameExpiry ==
  ASSUME OneExpiry, NEW q \in Request, rec[q] # Absent, store # Absent
  PROVE  store.exp = rec[q].exp
  BY DEF OneExpiry, Expiring

\* A step after which every record is one that was there before, or none, and that
\* gives up no token the IdP has issued but is not stored yet.
LEMMA RecordsSame ==
  ASSUME IInv, TypeOK', Mutex', UNCHANGED <<now, until, idp, world>>,
         store' \in {store, Absent},
         \A q \in Request :
            /\ rec'[q] \in {rec[q], store, Absent}
            /\ pc'[q] \in Kept => rec'[q] # Absent
            /\ age'[q] \in {age[q], 0}
            /\ pc'[q] \in Accepted =>
                 /\ age'[q] = age[q]
                 /\ \/ pc[q] \in Accepted
                    \/ rec'[q] = rec[q] /\ now <= rec[q].exp
            /\ pc'[q] \in Storing => pc'[q] = pc[q] /\ rec'[q] = rec[q]
            /\ pc'[q] = "set" => remaining'[q] = remaining[q],
         \/ \A q \in Request : pc[q] \in Storing => pc'[q] \in Storing
         \/ ~Without({"set", "lose", "crash"})
  PROVE  IInv'
  <1> USE DEF IInv
  <1>1. Recorded'
    BY DEF Recorded
  <1>2. OneExpiry'
    <2>1. PICK e \in Nat : Expiring(e)
      BY DEF OneExpiry
    <2>2. Expiring(e)'
      BY <2>1 DEF Expiring
    <2> QED BY <2>2 DEF OneExpiry
  <1>0. Storing \subseteq Accepted /\ Accepted \subseteq Kept /\ "set" \in Storing
    BY DEF Storing, Accepted, Kept, Locked
  <1>3. Timely'
    <2>1. world.patience \in Nat
      BY Numbers
    <2>2. \A q \in Request : age'[q] <= world.patience
      BY SMT, <2>1 DEF Timely
    <2>3. ASSUME NEW q \in Request, pc'[q] \in Storing, world.atLife > 0
          PROVE  rec'[q].ae + age'[q] >= now + world.atLife
      BY <1>0, <2>3 DEF Timely
    <2> QED BY <2>2, <2>3 DEF Timely
  <1>7. Lasting'
    <2>1. ASSUME NEW q \in Request, pc'[q] \in Accepted PROVE now' <= rec'[q].exp + age'[q]
      <3>1. CASE pc[q] \in Accepted
        <4>1. rec[q] # Absent /\ rec'[q] # Absent
          BY <1>0, <2>1, <3>1 DEF Recorded
        <4>2. rec'[q].exp = rec[q].exp
          BY <4>1, SameExpiry
        <4> QED BY <2>1, <3>1, <4>2 DEF Lasting
      <3>2. CASE rec'[q] = rec[q] /\ now <= rec[q].exp
        <4>1. now \in Nat /\ rec[q].exp \in Nat /\ age[q] \in Nat /\ age'[q] = age[q]
          BY <2>1 DEF TypeOK, Record
        <4> QED BY SMT, <3>2, <4>1
      <3> QED BY <2>1, <3>1, <3>2
    <2>2. ASSUME NEW q \in Request, pc'[q] = "set"
          PROVE  now' + remaining'[q] <= rec'[q].exp + age'[q]
      BY <1>0, <2>2 DEF Lasting
    <2> QED BY <2>1, <2>2 DEF Lasting
  <1>4. Newest'
    BY DEF Newest, Alone
  <1>5. OneGrant'
    BY DEF OneGrant
  <1>6. NotStranded'
    BY <1>5 DEF NotStranded, Live, Present, Alone, Without, OneGrant
  <1> QED BY <1>1, <1>2, <1>3, <1>4, <1>5, <1>6, <1>7

\* The same for one request r that goes on or returns.
LEMMA StepSame ==
  ASSUME IInv, TypeOK', Mutex', UNCHANGED <<now, until, idp, world>>,
         store' \in {store, Absent},
         NEW r \in Request, pc[r] \notin Storing,
         \/ Return(r)
         \/ \E to \in ({"load", "check", "hand", "wait", "delete"} \cup Locked) \ Storing,
               s \in {rec[r], store, Absent} :
                 /\ Go(r, to, s) /\ (to \in Kept => s # Absent)
                 /\ to \in Accepted => pc[r] \in Accepted \/ (s = rec[r] /\ now <= rec[r].exp)
  PROVE  IInv'
  <1>0. TypeOK
    BY DEF IInv
  <1>2. "set" \in Storing /\ Storing \subseteq Accepted
    BY DEF Storing, Accepted, Locked
  <1>1. ASSUME NEW q \in Request
        PROVE  /\ rec'[q] \in {rec[q], store, Absent}
               /\ pc'[q] \in Kept => rec'[q] # Absent
               /\ age'[q] \in {age[q], 0}
               /\ pc'[q] \in Accepted =>
                    /\ age'[q] = age[q]
                    /\ \/ pc[q] \in Accepted
                       \/ rec'[q] = rec[q] /\ now <= rec[q].exp
               /\ pc'[q] \in Storing => pc'[q] = pc[q] /\ rec'[q] = rec[q]
               /\ pc'[q] = "set" => remaining'[q] = remaining[q]
               /\ pc[q] \in Storing => pc'[q] \in Storing
    <2>1. CASE Return(r)
      <3>1. CASE q = r
        <4>1. pc'[q] = "idle" /\ rec'[q] = Absent /\ age'[q] = 0
          BY <1>0, <2>1, <3>1 DEF Return, TypeOK
        <4> QED BY <1>2, <3>1, <4>1 DEF Kept, Accepted, Locked, Storing
      <3>2. CASE q # r
        <4>1. /\ pc'[q] = pc[q] /\ rec'[q] = rec[q] /\ age'[q] = age[q]
              /\ remaining'[q] = remaining[q]
          BY <1>0, <1>1, <2>1, <3>2 DEF Return, TypeOK
        <4> QED BY <1>1, <4>1 DEF IInv, Recorded
      <3> QED BY <3>1, <3>2
    <2>2. CASE ~Return(r)
      <3>1. PICK to \in ({"load", "check", "hand", "wait", "delete"} \cup Locked) \ Storing,
                 s \in {rec[r], store, Absent} :
                 /\ Go(r, to, s) /\ (to \in Kept => s # Absent)
                 /\ to \in Accepted => pc[r] \in Accepted \/ (s = rec[r] /\ now <= rec[r].exp)
        BY <2>2
      <3>3. CASE q = r
        <4>1. pc'[q] = to /\ rec'[q] = s /\ age'[q] = age[q] /\ to \notin Storing
          BY <1>0, <3>1, <3>3 DEF Go, GoWith, TypeOK
        <4> QED BY <1>2, <3>1, <3>3, <4>1
      <3>4. CASE q # r
        <4>1. /\ pc'[q] = pc[q] /\ rec'[q] = rec[q] /\ age'[q] = age[q]
              /\ remaining'[q] = remaining[q]
          BY <1>0, <1>1, <3>1, <3>4 DEF Go, GoWith, TypeOK
        <4> QED BY <1>1, <4>1 DEF IInv, Recorded
      <3> QED BY <3>3, <3>4
    <2> QED BY <2>1, <2>2
  <1> QED BY <1>1, RecordsSame

-----------------------------------------------------------------------------
(* The invariant is kept                                                   *)

\* A token the IdP has issued to r, whose answer arrives or is lost.
LEMMA IssuedKeeps ==
  ASSUME IInv, TypeOK', Mutex', UNCHANGED <<now, store, until, world>>,
         NEW r \in Request, Refresh(r), idp' # idp
  PROVE  IInv'
  <1> DEFINE token == rec[r].rt
             new == idp.last + 1
             newRT == IF world.rotating THEN new ELSE token
             s == [at |-> new, rt |-> newRT, ae |-> TokenExpiry, exp |-> rec[r].exp]
  <1>0. /\ TypeOK /\ rec[r] \in Record /\ idp \in [last : Nat, rt : Nat]
        /\ rec[r] # Absent /\ pc[r] = "refresh"
        /\ \A q \in Request : rec[q] \in Record
        /\ store \in Record
    BY DEF IInv, TypeOK, Recorded, Refresh, Kept, Accepted, Locked
  <1>1. /\ idp.rt = token /\ idp' = [last |-> new, rt |-> newRT]
        /\ \/ Go(r, "restore", s)
           \/ "lose" \in world.faultKinds /\ Go(r, "refused", rec[r])
    BY DEF Refresh, Fault
  <1>2. /\ \A q \in Request \ {r} :
              pc'[q] = pc[q] /\ rec'[q] = rec[q] /\ remaining'[q] = remaining[q]
        /\ age' = age
        /\ \/ pc'[r] = "restore" /\ rec'[r] = s
           \/ pc'[r] = "refused" /\ rec'[r] = rec[r] /\ "lose" \in world.faultKinds
    BY <1>0, <1>1 DEF Go, GoWith, TypeOK
  <1>3. /\ idp'.last = idp.last + 1 /\ idp'.rt = newRT /\ idp.last \in Nat
        /\ s.at = new /\ s.rt = newRT /\ s.ae = TokenExpiry /\ s.exp = rec[r].exp
        /\ s # Absent
    BY SMT, <1>0, <1>1 DEF Absent
  <1>4. Recorded'
    <2>1. 1 .. idp.last \subseteq 1 .. idp'.last /\ new \in 1 .. idp'.last
      BY SMT, <1>3
    <2>2. store' = Absent \/ store'.at \in 1 .. idp'.last
      BY <2>1 DEF IInv, Recorded
    <2>3. ASSUME NEW q \in Request
          PROVE  /\ rec'[q] = Absent \/ rec'[q].at \in 1 .. idp'.last
                 /\ pc'[q] \in Kept => rec'[q] # Absent
      <3>1. CASE q = r
        BY SMT, <1>0, <1>2, <1>3, <2>1, <3>1 DEF IInv, Recorded
      <3>2. CASE q # r
        BY <1>2, <2>1, <3>2 DEF IInv, Recorded
      <3> QED BY <3>1, <3>2
    <2> QED BY <2>2, <2>3 DEF Recorded
  <1>5. OneExpiry'
    <2>1. PICK e \in Nat : Expiring(e)
      BY DEF IInv, OneExpiry
    <2>2. ASSUME NEW q \in Request, rec'[q] # Absent PROVE rec'[q].exp = e
      BY <1>0, <1>2, <1>3, <2>1, <2>2 DEF Expiring
    <2>3. Expiring(e)'
      BY <2>1, <2>2 DEF Expiring
    <2> QED BY <2>3 DEF OneExpiry
  <1>6. Timely'
    <2>1. age[r] \in Nat /\ now \in Nat /\ world.atLife \in Nat
      BY <1>0, Numbers DEF TypeOK
    <2>2. world.atLife > 0 => TokenExpiry + age[r] >= now + world.atLife
      BY SMT, <2>1 DEF TokenExpiry
    <2>3. ASSUME NEW q \in Request, pc'[q] \in Storing, world.atLife > 0
          PROVE  rec'[q].ae + age[q] >= now + world.atLife
      BY <1>2, <1>3, <2>2, <2>3 DEF IInv, Timely, Storing
    <2> QED BY <1>2, <2>3 DEF IInv, Timely
  <1>10. Lasting'
    <2>1. pc'[r] # "set" /\ pc[r] \in Accepted
      BY <1>0, <1>2 DEF Accepted, Locked
    <2>2. ASSUME NEW q \in Request
          PROVE  /\ pc'[q] \in Accepted => now <= rec'[q].exp + age[q]
                 /\ pc'[q] = "set" => now + remaining'[q] <= rec'[q].exp + age[q]
      <3>1. CASE q = r
        BY <1>2, <1>3, <2>1, <3>1 DEF IInv, Lasting
      <3>2. CASE q # r
        BY <1>2, <3>2 DEF IInv, Lasting
      <3> QED BY <3>1, <3>2
    <2> QED BY <1>2, <2>2 DEF Lasting
  <1>7. Newest'
    <2>1. SUFFICES ASSUME Alone, NEW q \in Request, pc'[q] \in Storing
                   PROVE  rec'[q].at = idp'.last /\ rec'[q].rt = idp'.rt
      BY DEF Newest, Alone
    <2>2. q = r
      <3>1. q # r => pc[q] \in Locked
        BY <1>2, <2>1 DEF Locked, Storing
      <3> QED BY <1>0, <2>1, <3>1, AloneInLock DEF IInv, Locked
    <2> QED BY <1>2, <1>3, <2>1, <2>2 DEF Storing
  <1>8. OneGrant'
    <2>1. SUFFICES ASSUME ~world.rotating
                   PROVE  /\ store # Absent => store.rt = idp'.rt
                          /\ \A q \in Request : rec'[q] # Absent => rec'[q].rt = idp'.rt
      BY DEF OneGrant
    <2>2. idp'.rt = idp.rt /\ s.rt = idp.rt
      BY <1>1, <1>3, <2>1
    <2> QED BY <1>2, <2>1, <2>2 DEF IInv, OneGrant
  <1>9. NotStranded'
    <2>1. CASE pc'[r] = "restore"
      BY <1>8, <2>1 DEF NotStranded, OneGrant, Live, Present, Storing
    <2>2. CASE pc'[r] # "restore"
      BY <1>2, <1>8, <2>2 DEF NotStranded, OneGrant, Live, Present, Without, Alone
    <2> QED BY <2>1, <2>2
  <1> QED BY <1>4, <1>5, <1>6, <1>7, <1>8, <1>9, <1>10 DEF IInv

\* The clock moves.
LEMMA TickKeeps ==
  ASSUME IInv, TypeOK', Mutex', Tick
  PROVE  IInv'
  <1>0. /\ now \in Nat /\ age \in [Request -> Nat] /\ until \in Nat
        /\ world.patience \in Nat /\ world.atLife \in Nat
        /\ \A r \in Request : rec[r] \in Record
    BY Numbers DEF IInv, TypeOK
  <1>1. /\ now' = now + 1
        /\ \A r \in Request : age'[r] = IF InProgress(r) THEN age[r] + 1 ELSE 0
        /\ \A r \in Request : InProgress(r) => age[r] < world.patience
        /\ UNCHANGED <<store, until, idp, pc, rec, remaining, world>>
    BY <1>0 DEF Tick, sessionVars, faultVars
  <1>2. Recorded' /\ Newest' /\ OneGrant'
    BY <1>1 DEF IInv, Recorded, Newest, OneGrant, Alone
  <1>3. OneExpiry'
    BY <1>1 DEF IInv, OneExpiry, Expiring
  <1>4. Timely'
    <2>1. ASSUME NEW r \in Request
          PROVE  /\ age'[r] <= world.patience
                 /\ (pc[r] \in Storing /\ world.atLife > 0) =>
                      rec[r].ae + age'[r] >= now' + world.atLife
      <3>1. age[r] \in Nat /\ rec[r].ae \in Nat
        BY <1>0 DEF Record
      <3> QED BY SMT, <1>0, <1>1, <2>1, <3>1 DEF IInv, Timely, InProgress, Storing
    <2> QED BY <1>1, <2>1 DEF Timely
  <1>5. NotStranded'
    <2>1. Live' => Live
      <3>1. store.exp \in Nat
        BY DEF IInv, TypeOK, Record
      <3> QED BY SMT, <1>0, <1>1, <3>1 DEF Live, Present
    <2> QED BY <1>1, <2>1 DEF IInv, NotStranded, Alone, Without
  <1>6. Lasting'
    <2>1. ASSUME NEW r \in Request
          PROVE  /\ pc[r] \in Accepted => now' <= rec[r].exp + age'[r]
                 /\ pc[r] = "set" => now' + remaining[r] <= rec[r].exp + age'[r]
      <3>1. age[r] \in Nat /\ rec[r].exp \in Nat /\ remaining[r] \in Nat
        BY <1>0 DEF Record, IInv, TypeOK
      <3>2. pc[r] \in Accepted \/ pc[r] = "set" => age'[r] = age[r] + 1
        BY <1>1, <2>1 DEF Accepted, Locked, InProgress
      <3>3. CASE pc[r] \in Accepted \/ pc[r] = "set"
        <4>1. /\ pc[r] \in Accepted => now <= rec[r].exp + age[r]
              /\ pc[r] = "set" => now + remaining[r] <= rec[r].exp + age[r]
          BY <2>1 DEF IInv, Lasting
        <4>2. now' = now + 1 /\ age'[r] = age[r] + 1
          BY <1>1, <3>2, <3>3
        <4>3. now <= rec[r].exp + age[r] => now' <= rec[r].exp + age'[r]
          BY SMT, <1>0, <3>1, <4>2
        <4>4. now + remaining[r] <= rec[r].exp + age[r] => now' + remaining[r] <= rec[r].exp + age'[r]
          BY SMT, <1>0, <3>1, <4>2
        <4> QED BY <4>1, <4>3, <4>4
      <3> QED BY <3>3
    <2> QED BY <1>1, <2>1 DEF Lasting
  <1> QED BY <1>2, <1>3, <1>4, <1>5, <1>6 DEF IInv

\* The session begins: there is no record of it yet.
LEMMA IssueKeeps ==
  ASSUME IInv, TypeOK', Mutex', Issue, UNCHANGED world
  PROVE  IInv'
  <1>0. /\ idp.last = 0 /\ world.ttl \in Nat /\ world.patience \in Nat /\ now \in Nat
        /\ now <= world.patience /\ UNCHANGED <<now, pc, rec, age>>
    BY Numbers DEF IInv, TypeOK, Issue, requestVars
  <1>1. store = Absent /\ \A r \in Request : rec[r] = Absent /\ pc[r] \notin Kept
    BY SMT, <1>0 DEF IInv, Recorded
  <1>2. PICK rt \in {NoRT, 1}, made \in 0 .. now :
          /\ idp' = [last |-> 1, rt |-> rt]
          /\ \/ /\ store' = [at |-> 1, rt |-> rt, ae |-> world.atLife, exp |-> made + world.ttl]
                /\ until' = now + world.ttl
             \/ UNCHANGED store
    BY DEF Issue
  <1>3. Recorded'
    BY SMT, <1>0, <1>1, <1>2 DEF Recorded
  <1>4. OneExpiry'
    <2>1. made + world.ttl \in Nat /\ now + world.ttl <= made + world.ttl + world.patience
      BY SMT, <1>0, <1>2
    <2>2. \/ store'.exp = made + world.ttl /\ until' = now + world.ttl
          \/ store' = Absent
      BY SMT, <1>1, <1>2
    <2>3. Expiring(made + world.ttl)'
      BY <1>0, <1>1, <2>1, <2>2 DEF Expiring
    <2> QED BY <2>1, <2>3 DEF OneExpiry
  <1>5. Timely' /\ Lasting' /\ Newest'
    BY <1>0, <1>1 DEF IInv, Timely, Lasting, Newest, Kept, Accepted, Locked, Storing
  <1>6. store' # Absent => store'.rt = idp'.rt
    BY SMT, <1>1, <1>2
  <1>7. OneGrant' /\ NotStranded'
    BY <1>0, <1>1, <1>6 DEF OneGrant, NotStranded, Live, Present
  <1> QED BY <1>3, <1>4, <1>5, <1>7 DEF IInv

\* The rest of the session's life is read; a session that is over is not stored again.
LEMMA RestoreKeeps ==
  ASSUME IInv, TypeOK', Mutex', UNCHANGED world, NEW r \in Request, Restore(r)
  PROVE  IInv'
  <1>0. /\ TypeOK /\ rec[r] \in Record /\ rec[r] # Absent /\ pc[r] = "restore"
        /\ now \in Nat /\ age[r] \in Nat /\ rec[r].exp \in Nat
        /\ pc[r] \in Accepted /\ pc[r] \in Storing
        /\ "serve" \in Accepted /\ "set" \in Accepted /\ "serve" \notin Storing
    BY DEF IInv, TypeOK, Record, Recorded, Restore, Kept, Accepted, Locked, Storing
  <1>1. /\ \A q \in Request \ {r} : pc'[q] = pc[q] /\ remaining'[q] = remaining[q]
        /\ rec' = rec
        /\ UNCHANGED <<now, idp, age, store, until>>
        /\ \/ pc'[r] = "set" /\ remaining'[r] = rec[r].exp - now
           \/ pc'[r] = "serve" /\ rec[r].exp - now <= 0
    BY SMT, <1>0 DEF Restore, Go, GoWith, TypeOK, sessionVars
  <1>2. Recorded'
    BY <1>0, <1>1 DEF IInv, Recorded, Kept
  <1>3. OneExpiry'
    BY <1>1 DEF IInv, OneExpiry, Expiring
  <1>4. Timely' /\ Newest' /\ OneGrant'
    BY <1>0, <1>1 DEF IInv, Timely, Newest, OneGrant, Alone
  <1>5. Lasting'
    <2>1. now + (rec[r].exp - now) <= rec[r].exp + age[r]
      BY SMT, <1>0
    <2> QED BY <1>0, <1>1, <2>1 DEF IInv, Lasting
  <1>6. NotStranded'
    <2>1. CASE pc'[r] = "set"
      BY <1>0, <1>1, <1>4, <2>1 DEF NotStranded, OneGrant, Live, Present, Storing
    <2>2. CASE rec[r].exp - now <= 0
      <3>1. ~(store # Absent /\ now < store.exp)
        <4>1. store # Absent => store.exp = rec[r].exp
          BY <1>0, SameExpiry DEF IInv
        <4>2. ~(now < rec[r].exp)
          BY SMT, <1>0, <2>2
        <4> QED BY <4>1, <4>2
      <3> QED BY <1>1, <3>1 DEF NotStranded, Live, Present
    <2> QED BY <1>1, <2>1, <2>2
  <1> QED BY <1>2, <1>3, <1>4, <1>5, <1>6 DEF IInv

\* The refreshed record is stored, or is not.
LEMMA SetKeeps ==
  ASSUME IInv, TypeOK', Mutex', UNCHANGED world, NEW r \in Request, Set(r)
  PROVE  IInv'
  <1>0. /\ TypeOK /\ rec[r] \in Record /\ rec[r] # Absent /\ pc[r] = "set"
        /\ now \in Nat /\ age[r] \in Nat /\ remaining[r] \in Nat
        /\ pc[r] \in Accepted /\ pc[r] \in Storing
        /\ "serve" \in Accepted /\ "serve" \notin Storing
    BY DEF IInv, TypeOK, Recorded, Set, SetWith, Kept, Accepted, Locked, Storing
  <1>1. /\ \A q \in Request \ {r} : pc'[q] = pc[q] /\ remaining'[q] = remaining[q]
        /\ pc'[r] = "serve" /\ rec' = rec
        /\ UNCHANGED <<now, idp, age>>
    BY SMT, <1>0 DEF Set, SetWith, Go, GoWith, TypeOK
  <1>2. \/ store' = rec[r] /\ until' = now + remaining[r]
        \/ UNCHANGED <<store, until>> /\ "set" \in world.faultKinds
    BY DEF Set, SetWith, Fault
  <1>4. Recorded'
    BY <1>0, <1>1, <1>2 DEF IInv, Recorded, Kept
  <1>5. OneExpiry'
    <2>1. PICK e \in Nat : Expiring(e)
      BY DEF IInv, OneExpiry
    <2>2. rec[r].exp = e
      BY <1>0, <2>1 DEF Expiring
    <2>3. now + remaining[r] <= e + world.patience
      <3>1. /\ world.patience \in Nat /\ age[r] <= world.patience
            /\ now + remaining[r] <= e + age[r]
        BY <1>0, <2>2, Numbers DEF IInv, Timely, Lasting
      <3> QED BY SMT, <1>0, <2>1, <3>1
    <2>4. Expiring(e)'
      BY <1>0, <1>1, <1>2, <2>1, <2>2, <2>3 DEF Expiring
    <2> QED BY <2>4 DEF OneExpiry
  <1>6. Timely' /\ Lasting' /\ Newest'
    BY <1>0, <1>1 DEF IInv, Timely, Lasting, Newest, Alone
  <1>7. OneGrant'
    BY <1>0, <1>1, <1>2 DEF IInv, OneGrant
  <1>8. NotStranded'
    <2>1. SUFFICES ASSUME Alone, Without({"set", "lose", "crash"}), Live'
                   PROVE  store'.rt = idp'.rt
      BY <1>7 DEF NotStranded, OneGrant, Live, Present, Alone, Without
    <2>2. "set" \notin world.faultKinds
      BY <2>1 DEF Without
    <2> QED BY <1>0, <1>1, <1>2, <2>1, <2>2 DEF IInv, Newest
  <1> QED BY <1>4, <1>5, <1>6, <1>7, <1>8 DEF IInv

LEMMA NextKeeps == IInv /\ [Next]_vars => IInv'
  <1> SUFFICES ASSUME IInv, [Next]_vars PROVE IInv'
    OBVIOUS
  <1>0. TypeOK' /\ Mutex' /\ UNCHANGED world
    BY TypeKept, MutexKept, WorldKept DEF IInv
  <1>1. CASE Tick
    BY <1>0, <1>1, TickKeeps
  <1>2. CASE Issue
    BY <1>0, <1>2, IssueKeeps
  <1>3. ASSUME NEW r \in Request, StartRead(r) \/ StartClear(r) PROVE IInv'
    <2>1. PICK to \in {"load", "delete"} : Start(r, to)
      BY <1>3 DEF StartRead, StartClear
    <2>2. /\ pc[r] = "idle" /\ Go(r, to, Absent)
          /\ UNCHANGED <<now, until, idp, store>>
      BY <2>1 DEF Start, sessionVars
    <2>3. /\ to \in ({"load", "check", "hand", "wait", "delete"} \cup Locked) \ Storing
          /\ to \notin Kept /\ to \notin Accepted /\ pc[r] \notin Storing
      BY SMT, <2>2 DEF Locked, Kept, Accepted, Storing
    <2> QED BY <1>0, <2>2, <2>3, StepSame
  <1>4. ASSUME NEW r \in Request, Load(r) PROVE IInv'
    <2>1. pc[r] \notin Storing /\ "check" \notin Storing /\ "check" \notin Accepted
      BY <1>4 DEF Load, Storing, Accepted, Locked
    <2> QED BY <1>0, <1>4, <2>1, StepSame DEF Load, Present, sessionVars
  <1>5. ASSUME NEW r \in Request, pc[r] \in Kept PROVE rec[r] # Absent
    BY <1>5 DEF IInv, Recorded
  <1>6. ASSUME NEW r \in Request, Check(r) PROVE IInv'
    <2>1. /\ pc[r] \notin Storing /\ "hand" \notin Storing /\ "wait" \notin Storing
          /\ pc[r] \in Kept
      BY <1>6 DEF Check, Storing, Kept
    <2> QED BY <1>0, <1>5, <1>6, <2>1, StepSame DEF Check, sessionVars
  <1>7. ASSUME NEW r \in Request, Acquire(r) PROVE IInv'
    <2>1. /\ pc[r] \notin Storing /\ pc[r] \in Accepted /\ pc[r] \in Kept
          /\ "recheck" \in Locked \ Storing
      BY <1>7 DEF Acquire, Storing, Accepted, Kept, Locked
    <2> QED BY <1>0, <1>5, <1>7, <2>1, StepSame DEF Acquire, sessionVars
  <1>8. ASSUME NEW r \in Request, Recheck(r) PROVE IInv'
    <2>1. /\ pc[r] \notin Storing /\ pc[r] \in Accepted /\ pc[r] \in Kept
          /\ "serve" \in Locked \ Storing /\ "refresh" \in Locked \ Storing
      BY <1>8 DEF Recheck, RecheckWhen, Storing, Accepted, Kept, Locked
    <2> QED BY <1>0, <1>5, <1>8, <2>1, StepSame DEF Recheck, RecheckWhen, Present, sessionVars
  <1>9. ASSUME NEW r \in Request, Refresh(r) PROVE IInv'
    <2>1. CASE idp' # idp
      BY <1>0, <1>9, <2>1, IssuedKeeps DEF Refresh
    <2>2. CASE idp' = idp
      <3>1. \A x : [last |-> idp.last + 1, rt |-> x] # idp
        BY SMT DEF IInv, TypeOK
      <3>2. Go(r, "refused", rec[r])
        BY <1>9, <2>2, <3>1 DEF Refresh
      <3>3. /\ pc[r] \notin Storing /\ pc[r] \in Accepted /\ pc[r] \in Kept
            /\ "refused" \in Locked \ Storing
        BY <1>9 DEF Refresh, Storing, Accepted, Kept, Locked
      <3> QED BY <1>0, <1>5, <1>9, <2>2, <3>2, <3>3, StepSame DEF Refresh
    <2> QED BY <2>1, <2>2
  <1>10. ASSUME NEW r \in Request, Refused(r) PROVE IInv'
    <2>1. /\ pc[r] \notin Storing /\ pc[r] \in Accepted /\ pc[r] \in Kept
          /\ "serve" \in Locked \ Storing /\ "deny" \in Locked \ Storing
      BY <1>10 DEF Refused, RefusedThen, Storing, Accepted, Kept, Locked
    <2> QED BY <1>0, <1>5, <1>10, <2>1, StepSame DEF Refused, RefusedThen, sessionVars
  <1>11. ASSUME NEW r \in Request, Restore(r) PROVE IInv'
    BY <1>0, <1>11, RestoreKeeps
  <1>17. ASSUME NEW r \in Request, Set(r) PROVE IInv'
    BY <1>0, <1>17, SetKeeps
  <1>18. ASSUME NEW r \in Request, Refuse(r) \/ Hand(r) PROVE IInv'
    BY <1>0, <1>18, StepSame DEF Refuse, Hand, sessionVars, Storing
  <1>12. ASSUME NEW r \in Request, Unlock(r) PROVE IInv'
    BY <1>0, <1>12, StepSame DEF Unlock, sessionVars, Storing
  <1>13. ASSUME NEW r \in Request, Clear(r) PROVE IInv'
    BY <1>0, <1>13, StepSame DEF Clear, Storing
  <1>14. ASSUME NEW r \in Request, Cancel(r) PROVE IInv'
    BY <1>0, <1>14, RecordsSame DEF Cancel, sessionVars, IInv, Recorded
  <1>15. ASSUME NEW i \in Instance, Crash(i) PROVE IInv'
    <2>1. "crash" \in world.faultKinds /\ UNCHANGED <<now, store, until, idp>>
      BY <1>15 DEF Crash, Fault, sessionVars
    <2>2. ASSUME NEW q \in Request
          PROVE  \/ /\ pc'[q] = pc[q] /\ rec'[q] = rec[q] /\ age'[q] = age[q]
                    /\ remaining'[q] = remaining[q]
                 \/ pc'[q] = "idle" /\ rec'[q] = Absent /\ age'[q] = 0
      BY <1>15, <2>2 DEF Crash
    <2>3. ~Without({"set", "lose", "crash"})
      BY <2>1 DEF Without
    <2> QED BY <1>0, <2>1, <2>2, <2>3, RecordsSame
         DEF IInv, Recorded, Kept, Accepted, Locked, Storing
  <1>16. CASE UNCHANGED vars
    BY <1>0, <1>16, RecordsSame DEF vars, sessionVars, requestVars, IInv, Recorded
  <1> QED
    BY <1>1, <1>2, <1>3, <1>4, <1>6, <1>7, <1>8, <1>9, <1>10, <1>11, <1>12, <1>13, <1>14,
       <1>15, <1>16, <1>17, <1>18 DEF Next, Step, Quiet

LEMMA Invariance == Spec => []IInv
  BY InitEstablishes, NextKeeps, PTL DEF Spec

-----------------------------------------------------------------------------
(* What a step moves                                                       *)

\* What a step does to the request q: nothing, let time pass, end or begin it, or take a
\* step of its own.
LEMMA Moves ==
  ASSUME IInv, [Next]_vars, NEW q \in Request
  PROVE  \/ Tick
         \/ UNCHANGED now /\ pc'[q] = pc[q] /\ rec'[q] = rec[q] /\ age'[q] = age[q]
         \/ UNCHANGED now /\ pc'[q] \in {"idle", "load", "delete"} /\ rec'[q] = Absent
         \/ UNCHANGED now /\ Step(q)
  <1>0. TypeOK
    BY DEF IInv
  <1>1. CASE Issue \/ UNCHANGED vars
    BY <1>1 DEF Issue, vars, requestVars
  <1>2. ASSUME NEW r \in Request, StartRead(r) \/ StartClear(r)
        PROVE  /\ UNCHANGED now
               /\ \/ pc'[q] = pc[q] /\ rec'[q] = rec[q] /\ age'[q] = age[q]
                  \/ pc'[q] \in {"load", "delete"} /\ rec'[q] = Absent
    BY <1>0, <1>2 DEF StartRead, StartClear, Start, Go, GoWith, TypeOK
  <1>3. ASSUME NEW r \in Request, Cancel(r)
        PROVE  UNCHANGED now /\ pc'[q] = pc[q] /\ rec'[q] = rec[q] /\ age'[q] = age[q]
    BY <1>3 DEF Cancel
  <1>4. ASSUME NEW i \in Instance, Crash(i)
        PROVE  /\ UNCHANGED now
               /\ \/ pc'[q] = pc[q] /\ rec'[q] = rec[q] /\ age'[q] = age[q]
                  \/ pc'[q] = "idle" /\ rec'[q] = Absent
    BY <1>4 DEF Crash
  <1>5. ASSUME NEW r \in Request, Step(r), r # q
        PROVE  UNCHANGED now /\ pc'[q] = pc[q] /\ rec'[q] = rec[q] /\ age'[q] = age[q]
    <2>1. UNCHANGED now
      BY <1>5 DEF Step, Load, Check, Acquire, Recheck, RecheckWhen, Refresh, Refused, RefusedThen,
                  Restore, Set, SetWith, Refuse, Hand, Unlock, Clear
    <2>2. (\E to, s, ttl : GoWith(r, to, s, ttl)) \/ Return(r)
      BY <1>5 DEF Step, Go, Load, Check, Acquire, Recheck, RecheckWhen, Refresh, Refused, RefusedThen,
                  Restore, Set, SetWith, Refuse, Hand, Unlock, Clear
    <2> QED BY <1>0, <1>5, <2>1, <2>2 DEF GoWith, Return, TypeOK
  <1>6. ASSUME Step(q) PROVE UNCHANGED now
    BY <1>6 DEF Step, Load, Check, Acquire, Recheck, RecheckWhen, Refresh, Refused, RefusedThen,
                Restore, Set, SetWith, Refuse, Hand, Unlock, Clear
  <1> QED BY <1>1, <1>2, <1>3, <1>4, <1>5, <1>6 DEF Next, Quiet

\* Where a step of its own takes the request r, and with which record.
LEMMA StepMoves ==
  ASSUME TypeOK, NEW r \in Request, Step(r)
  PROVE  \/ pc'[r] = "idle" /\ rec'[r] = Absent
         \/ pc'[r] = "check" /\ Load(r) /\ rec'[r] = store /\ UNCHANGED store
         \/ /\ pc'[r] = "hand" /\ pc[r] = "check" /\ rec'[r] = rec[r] /\ now <= rec[r].exp
            /\ rec[r].rt = NoRT \/ ~NearExpiry(rec[r])
         \/ pc'[r] = "wait" /\ pc[r] = "check" /\ rec'[r] = rec[r] /\ age'[r] = age[r]
         \/ pc'[r] = "recheck" /\ pc[r] = "wait" /\ rec'[r] = rec[r] /\ age'[r] = age[r]
         \/ /\ pc'[r] = "serve" /\ pc[r] = "recheck" /\ rec'[r] = store
            /\ Present /\ now < store.ae - Skew
         \/ pc'[r] = "refresh" /\ pc[r] = "recheck" /\ rec'[r] = rec[r] /\ Recheck(r)
         \/ pc'[r] = "restore" /\ Refresh(r)
         \/ pc'[r] = "refused" /\ Refresh(r) /\ Go(r, "refused", rec[r]) /\ rec'[r] = rec[r]
         \/ pc'[r] = "serve" /\ pc[r] = "refused" /\ rec'[r] = rec[r] /\ now < rec[r].ae
         \/ pc'[r] = "deny" /\ pc[r] = "refused" /\ rec'[r] = rec[r]
         \/ pc'[r] = "set" /\ pc[r] = "restore" /\ rec'[r] = rec[r]
         \/ pc'[r] = "serve" /\ pc[r] \in Storing /\ rec'[r] = rec[r]
  <1>11. ASSUME NEW to, NEW s, NEW ttl, GoWith(r, to, s, ttl)
         PROVE  pc'[r] = to /\ rec'[r] = s /\ age'[r] = age[r]
    BY <1>11 DEF GoWith, TypeOK
  <1>1. ASSUME NEW to, NEW s, Go(r, to, s) PROVE pc'[r] = to /\ rec'[r] = s /\ age'[r] = age[r]
    BY <1>1, <1>11 DEF Go
  <1>2. ASSUME Return(r) PROVE pc'[r] = "idle" /\ rec'[r] = Absent
    BY <1>2 DEF Return, TypeOK
  <1>3. CASE Load(r)
    BY <1>1, <1>2, <1>3 DEF Load, sessionVars
  <1>4. CASE Check(r)
    BY <1>1, <1>4 DEF Check
  <1>5. CASE Acquire(r)
    BY <1>1, <1>5 DEF Acquire
  <1>6. CASE Recheck(r)
    <2>1. CASE Present /\ now < store.ae - Skew /\ Go(r, "serve", store)
      BY <1>1, <1>6, <2>1 DEF Recheck, RecheckWhen
    <2>2. CASE Go(r, "refresh", rec[r])
      BY <1>1, <1>6, <2>2 DEF Recheck, RecheckWhen
    <2> QED BY <1>6, <2>1, <2>2 DEF Recheck, RecheckWhen
  <1>7. CASE Refresh(r)
    <2>1. (\E s : Go(r, "restore", s)) \/ Go(r, "refused", rec[r])
      BY <1>7 DEF Refresh
    <2> QED BY <1>1, <1>7, <2>1
  <1>8. CASE Refused(r)
    BY <1>1, <1>8 DEF Refused, RefusedThen
  <1>9. CASE Restore(r)
    BY <1>1, <1>9, <1>11 DEF Restore, Storing
  <1>12. CASE Set(r)
    BY <1>1, <1>12 DEF Set, SetWith, Storing
  <1>10. CASE Refuse(r) \/ Hand(r) \/ Unlock(r) \/ Clear(r)
    BY <1>2, <1>10 DEF Refuse, Hand, Unlock, Clear
  <1> QED BY <1>3, <1>4, <1>5, <1>6, <1>7, <1>8, <1>9, <1>10, <1>12 DEF Step

\* What a step does to the stored record: nothing, remove it, or replace it by one that a
\* request has refreshed.
LEMMA StoreMoves ==
  ASSUME IInv, [Next]_vars
  PROVE  \/ UNCHANGED <<store, until>>
         \/ store' = Absent
         \/ Issue
         \/ \E r \in Request :
              /\ Set(r) /\ pc[r] = "set" /\ rec[r] # Absent
              /\ store' = rec[r] /\ until' = now + remaining[r]
  <1>1. ASSUME NEW r \in Request, Set(r), ~UNCHANGED <<store, until>>
        PROVE  /\ pc[r] = "set" /\ rec[r] # Absent
               /\ store' = rec[r] /\ until' = now + remaining[r]
    BY <1>1 DEF Set, SetWith, IInv, Recorded, Kept, Accepted, Locked
  <1>2. ASSUME NEW r \in Request, Clear(r), ~UNCHANGED <<store, until>> PROVE store' = Absent
    BY <1>2 DEF Clear
  <1>3. ASSUME NEW r \in Request,
               \/ StartRead(r) \/ StartClear(r) \/ Load(r) \/ Check(r) \/ Acquire(r)
               \/ Recheck(r) \/ Refresh(r) \/ Refused(r) \/ Unlock(r) \/ Cancel(r)
               \/ Refuse(r) \/ Hand(r) \/ Restore(r)
        PROVE  UNCHANGED <<store, until>>
    BY <1>3 DEF StartRead, StartClear, Start, Load, Check, Acquire, Recheck, RecheckWhen,
                Refresh, Refused, RefusedThen, Unlock, Cancel, Refuse, Hand, Restore,
                sessionVars
  <1>4. CASE Tick \/ (\E i \in Instance : Crash(i)) \/ UNCHANGED vars
    BY <1>4 DEF Tick, Crash, vars, sessionVars
  <1> QED BY <1>1, <1>2, <1>3, <1>4 DEF Next, Step, Quiet

\* When the session is issued nobody holds a record of it.
LEMMA IssueFirst ==
  ASSUME IInv, Issue
  PROVE  /\ store = Absent /\ UNCHANGED <<now, requestVars, presented>>
         /\ \A r \in Request : rec[r] = Absent /\ pc[r] \notin Kept
  <1>1. idp.last = 0
    BY DEF Issue
  <1>2. \A n \in 1 .. idp.last : FALSE
    BY SMT, <1>1
  <1> QED BY <1>2 DEF Issue, IInv, Recorded

\* Besides Issue, when there is no record, only Set puts one into the store.
LEMMA OnlySetWrites ==
  ASSUME IInv, [Next]_vars, store # Absent, store' # Absent
  PROVE  \/ UNCHANGED <<store, until>>
         \/ \E r \in Request :
              /\ pc[r] = "set" /\ rec[r] # Absent
              /\ store' = rec[r] /\ until' = now + remaining[r]
  BY StoreMoves, IssueFirst

-----------------------------------------------------------------------------
(* Refreshing while all is calm                                            *)

Early == {"check", "wait", "recheck"}

\* A request that has not done its double check yet holds the stored record, or the
\* stored token was issued so lately that the double check will find it fresh.
Overtaken == (world.atLife > 0 /\ store # Absent) => \A r \in Request :
    pc[r] \in Early =>
        rec[r] = store \/ store.ae + age[r] + world.patience >= now + world.atLife

\* Refresh tokens are handed on in the order the IdP issued them.
Ordered == world.rotating =>
    /\ idp.rt <= idp.last /\ store.rt <= idp.rt
    /\ \A r \in Request : rec[r].rt <= idp.rt

\* What was presented is used up, unless the call never reached the IdP.
UsedUp == (world.rotating /\ Without({"refuse"})) =>
    \A i \in Instance : \A p \in presented[i] : p < idp.rt

\* Only clients that leave are cancelled; and while all is calm the request that is about
\* to refresh holds the stored record.
Current ==
    /\ Without({"cancel"}) => cancelled = {}
    /\ Calm => \A r \in Request : (pc[r] = "refresh" /\ Live) => rec[r] = store

\* Why a refresh fails.
Unanswered == \A r \in Request : pc[r] \in {"refused", "deny"} =>
    /\ Calm => ~Live
    /\ world.rotating \/ ~Without({"refuse", "lose"})

JInv == Overtaken /\ Ordered /\ UsedUp /\ Current /\ Unanswered

\* Only Issue and Refresh reach the IdP.
LEMMA IdPMoves ==
  ASSUME [Next]_vars
  PROVE  UNCHANGED <<idp, presented>> \/ Issue \/ \E r \in Request : Refresh(r)
  BY DEF Next, Step, Quiet, StartRead, StartClear, Start, Load, Check, Acquire, Recheck,
         RecheckWhen, Refused, RefusedThen, Restore, Set, SetWith, Refuse, Hand, Unlock, Clear, Cancel, Tick,
         Crash, vars, sessionVars

\* Where a request that has not done its double check comes from.
LEMMA EarlyMoves ==
  ASSUME IInv, [Next]_vars, NEW q \in Request, pc'[q] \in Early
  PROVE  \/ UNCHANGED <<now, store>> /\ rec'[q] = store
         \/ /\ pc[q] \in Early /\ rec'[q] = rec[q]
            /\ (UNCHANGED now /\ age'[q] = age[q]) \/ (now' = now + 1 /\ age'[q] = age[q] + 1)
  <1>0. TypeOK /\ pc'[q] \notin {"idle", "load", "delete", "serve", "deny", "refresh",
                                  "refused", "restore", "set", "hand"}
    BY DEF IInv, Early
  <1>1. CASE Tick
    BY <1>0, <1>1 DEF Tick, InProgress, TypeOK, Early
  <1>2. CASE UNCHANGED now /\ Step(q)
    BY <1>0, <1>2, StepMoves DEF Early, Storing
  <1> QED BY <1>0, <1>1, <1>2, Moves

LEMMA OvertakenKept ==
  ASSUME IInv, IInv', Overtaken, [Next]_vars
  PROVE  Overtaken'
  <1>0. /\ UNCHANGED world /\ now \in Nat /\ world.atLife \in Nat /\ world.patience \in Nat
        /\ store \in Record /\ age \in [Request -> Nat]
    BY WorldKept, Numbers DEF IInv, TypeOK
  <1>1. SUFFICES ASSUME world.atLife > 0, store' # Absent, NEW q \in Request, pc'[q] \in Early
                 PROVE  \/ rec'[q] = store'
                        \/ store'.ae + age'[q] + world.patience >= now' + world.atLife
    BY <1>0 DEF Overtaken
  <1>2. CASE UNCHANGED store
    <2>1. CASE rec'[q] = store
      BY <1>2, <2>1
    <2>2. CASE /\ pc[q] \in Early /\ rec'[q] = rec[q]
               /\ (UNCHANGED now /\ age'[q] = age[q]) \/ (now' = now + 1 /\ age'[q] = age[q] + 1)
      <3>1. rec[q] = store \/ store.ae + age[q] + world.patience >= now + world.atLife
        BY <1>1, <1>2, <2>2 DEF Overtaken
      <3>2. store.ae \in Nat /\ age[q] \in Nat
        BY <1>0 DEF Record
      <3> QED BY SMT, <1>0, <1>2, <2>2, <3>1, <3>2
    <2> QED BY <1>1, <2>1, <2>2, EarlyMoves
  <1>3. CASE Issue
    BY <1>1, <1>3, IssueFirst DEF requestVars, Early, Kept, Accepted, Locked
  <1>4. ASSUME NEW r \in Request, Set(r), pc[r] = "set", store' = rec[r]
        PROVE  store'.ae + age'[q] + world.patience >= now' + world.atLife
    <2>1. rec[r].ae + age[r] >= now + world.atLife /\ age[r] <= world.patience
      BY <1>1, <1>4 DEF IInv, Timely, Storing
    <2>2. UNCHANGED now /\ age'[q] = age[q]
      BY <1>4 DEF Set, SetWith, Go, GoWith
    <2>3. rec[r].ae \in Nat /\ age[r] \in Nat /\ age[q] \in Nat
      BY <1>0 DEF IInv, TypeOK, Record
    <2> QED BY SMT, <1>0, <1>4, <2>1, <2>2, <2>3
  <1> QED BY <1>1, <1>2, <1>3, <1>4, StoreMoves

\* The records a step leaves are those that were there, but for what Refresh is given.
LEMMA RecordMoves ==
  ASSUME IInv, [Next]_vars, NEW q \in Request, ~Refresh(q)
  PROVE  rec'[q] \in {rec[q], store, Absent}
  <1>0. TypeOK
    BY DEF IInv
  <1>3. CASE Step(q)
    BY <1>0, <1>3, StepMoves
  <1>4. CASE Tick
    BY <1>4 DEF Tick
  <1> QED BY <1>3, <1>4, Moves

\* What Refresh does to the grant and to the request, under an IdP that rotates.
LEMMA RefreshMoves ==
  ASSUME IInv, NEW r \in Request, Refresh(r), world.rotating
  PROVE  /\ \/ idp.rt = rec[r].rt /\ idp'.last = idp.last + 1 /\ idp'.rt = idp.last + 1
            \/ UNCHANGED idp /\ (idp.rt # rec[r].rt \/ "refuse" \in world.faultKinds)
         /\ rec'[r] = rec[r] \/ rec'[r].rt = idp'.rt
         /\ \A q \in Request \ {r} : rec'[q] = rec[q]
         /\ presented' = [presented EXCEPT ![inst[r]] = @ \cup {rec[r].rt}]
         /\ UNCHANGED store
  <1>0. TypeOK
    BY DEF IInv
  <1>1. ASSUME NEW to, NEW s, Go(r, to, s)
        PROVE  rec'[r] = s /\ \A q \in Request \ {r} : rec'[q] = rec[q]
    BY <1>0, <1>1 DEF Go, GoWith, TypeOK
  <1> DEFINE new == idp.last + 1
             record == [at |-> new, rt |-> new, ae |-> TokenExpiry, exp |-> rec[r].exp]
             grant == [last |-> new, rt |-> new]
  <1>2. record.rt = new /\ grant.last = new /\ grant.rt = new
    OBVIOUS
  <1>3. /\ presented' = [presented EXCEPT ![inst[r]] = @ \cup {rec[r].rt}]
        /\ UNCHANGED store
        /\ \/ /\ idp.rt = rec[r].rt /\ idp' = grant
              /\ Go(r, "restore", record) \/ Go(r, "refused", rec[r])
           \/ /\ UNCHANGED idp /\ (idp.rt # rec[r].rt \/ "refuse" \in world.faultKinds)
              /\ Go(r, "refused", rec[r])
    BY DEF Refresh, Fault
  <1> HIDE DEF new, record, grant
  <1> QED BY <1>1, <1>2, <1>3 DEF new

LEMMA OrderedKept ==
  ASSUME IInv, IInv', Ordered, UsedUp, [Next]_vars
  PROVE  Ordered' /\ UsedUp'
  <1>0. UNCHANGED world /\ (Without({"refuse"})' <=> Without({"refuse"}))
    BY WorldKept DEF Without
  <1> SUFFICES ASSUME world.rotating
               PROVE  /\ idp'.rt <= idp'.last /\ store'.rt <= idp'.rt
                      /\ \A q \in Request : rec'[q].rt <= idp'.rt
                      /\ Without({"refuse"}) =>
                           \A i \in Instance : \A p \in presented'[i] : p < idp'.rt
    BY <1>0 DEF Ordered, UsedUp
  <1>1. /\ idp.rt <= idp.last /\ store.rt <= idp.rt
        /\ \A q \in Request : rec[q].rt <= idp.rt
        /\ Without({"refuse"}) => \A i \in Instance : \A p \in presented[i] : p < idp.rt
    BY DEF Ordered, UsedUp
  <1>2. /\ idp.rt \in Nat /\ idp.last \in Nat /\ store.rt \in Nat /\ Absent.rt = 0
        /\ \A q \in Request : rec[q].rt \in Nat /\ inst[q] \in Instance
        /\ presented \in [Instance -> SUBSET Nat]
    BY DEF IInv, TypeOK, Record, Absent, NoRT
  <1>3. CASE Issue
    <2>1. PICK rt \in {NoRT, 1} :
            /\ idp' = [last |-> 1, rt |-> rt]
            /\ store'.rt = rt \/ UNCHANGED store
      BY SMT, <1>3 DEF Issue
    <2>2. /\ idp'.rt = rt /\ idp'.last = 1 /\ rt \in {0, 1}
          /\ store.rt = 0 /\ \A q \in Request : rec'[q].rt = 0
      BY <1>2, <1>3, <2>1, IssueFirst DEF NoRT, requestVars
    <2>3. idp.rt = 0
      BY SMT, <1>1, <1>2, <1>3 DEF Issue
    <2>4. \A n \in Nat : ~(n < 0)
      BY SMT
    <2>5. Without({"refuse"}) => \A i \in Instance : \A p \in presented'[i] : FALSE
      BY <1>1, <1>2, <1>3, <2>3, <2>4, IssueFirst
    <2>6. idp'.rt <= idp'.last /\ store'.rt <= idp'.rt /\ \A q \in Request : rec'[q].rt <= idp'.rt
      BY SMT, <2>1, <2>2
    <2> QED BY <2>5, <2>6
  <1>4. ASSUME NEW r \in Request, Refresh(r)
        PROVE  /\ idp'.rt <= idp'.last /\ store'.rt <= idp'.rt
               /\ \A q \in Request : rec'[q].rt <= idp'.rt
               /\ Without({"refuse"}) =>
                    \A i \in Instance : \A p \in presented'[i] : p < idp'.rt
    <2>1. /\ idp.rt <= idp'.rt /\ idp'.rt \in Nat /\ idp'.rt <= idp'.last
          /\ Without({"refuse"}) => rec[r].rt < idp'.rt
      BY SMT, <1>1, <1>2, <1>4, RefreshMoves DEF Without
    <2>2. \A n \in Nat : (n <= idp.rt => n <= idp'.rt) /\ (n < idp.rt => n < idp'.rt)
      BY SMT, <1>2, <2>1
    <2>3. idp'.rt <= idp'.rt
      BY SMT, <2>1
    <2>4. \A q \in Request : rec'[q].rt <= idp'.rt
      BY <1>1, <1>2, <1>4, <2>2, <2>3, RefreshMoves
    <2>5. ASSUME Without({"refuse"}), NEW i \in Instance, NEW p \in presented'[i] PROVE p < idp'.rt
      <3>1. p \in presented[i] \/ p = rec[r].rt
        <4>1. presented' = [presented EXCEPT ![inst[r]] = @ \cup {rec[r].rt}]
          BY <1>4, RefreshMoves
        <4> QED BY SMT, <1>2, <2>5, <4>1
      <3> QED BY <1>1, <1>2, <2>1, <2>2, <2>5, <3>1
    <2> QED BY <1>1, <1>2, <1>4, <2>1, <2>2, <2>4, <2>5, RefreshMoves
  <1>5. CASE UNCHANGED <<idp, presented>> /\ ~Issue /\ \A r \in Request : ~Refresh(r)
    <2>1. 0 <= idp.rt
      BY SMT, <1>2
    <2>2. store'.rt <= idp'.rt
      BY <1>1, <1>2, <1>5, <2>1, StoreMoves
    <2> QED BY <1>1, <1>2, <1>5, <2>1, <2>2, RecordMoves
  <1> QED BY <1>3, <1>4, <1>5, IdPMoves

LEMMA TimeMoves ==
  ASSUME [Next]_vars
  PROVE  now' = now \/ now' = now + 1
  BY DEF Next, Step, Quiet, StartRead, StartClear, Start, Load, Check, Acquire, Recheck,
         RecheckWhen, Refresh, Refused, RefusedThen, Restore, Set, SetWith, Refuse, Hand, Unlock, Clear, Cancel,
         Tick, Issue, Crash, vars

\* The session lives after a step that did not store it.
LEMMA LiveMoves ==
  ASSUME IInv, [Next]_vars, Live'
  PROVE  \/ UNCHANGED store /\ Live
         \/ Issue
         \/ \E r \in Request : pc[r] = "set"
  <1>1. CASE UNCHANGED <<store, until>>
    <2>1. now \in Nat /\ now' \in {now, now + 1} /\ until \in Nat /\ store.exp \in Nat
      BY TimeMoves DEF IInv, TypeOK, Record
    <2> QED BY SMT, <1>1, <2>1 DEF Live, Present
  <1> QED BY <1>1, StoreMoves DEF Live, Present

\* While all is calm no operation fails.
LEMMA CalmNoFault ==
  ASSUME Calm, Current
  PROVE  /\ Alone /\ cancelled = {} /\ world.atLife > Skew + 2 * world.patience
         /\ Without({"refuse"}) /\ Without({"refuse", "lose"}) /\ Without({"set", "lose", "crash"})
         /\ \A kind \in AllFaults : ~Fault(kind)
  BY DEF Calm, Current, Without, AllFaults, Fault

\* Another request's record cannot come back while r is past the lock, and only then can
\* a record appear that r does not hold.
LEMMA LiveInLock ==
  ASSUME IInv, [Next]_vars, Alone, NEW r \in Request, pc[r] \in Locked \ Storing, Live'
  PROVE  UNCHANGED store /\ Live
  <1>1. ~Issue
    BY IssueFirst DEF Kept, Accepted
  <1>2. \A q \in Request : pc[q] # "set"
    BY AloneInLock DEF IInv, Locked, Storing
  <1> QED BY <1>1, <1>2, LiveMoves

\* The double check lets a request through to the IdP only with the stored record.
LEMMA RecheckCurrent ==
  ASSUME IInv, Overtaken, Current, Calm, NEW r \in Request, Recheck(r), pc'[r] = "refresh", Present
  PROVE  rec[r] = store
  <1>0. /\ now \in Nat /\ Skew \in Nat /\ world.atLife \in Nat /\ world.patience \in Nat
        /\ store.ae \in Nat /\ age[r] \in Nat /\ age[r] <= world.patience
    BY Numbers DEF IInv, TypeOK, Record, Timely
  <1>1. ~Go(r, "serve", store)
    BY DEF Go, GoWith, IInv, TypeOK
  <1>2. pc[r] = "recheck" /\ ~(now < store.ae - Skew)
    BY <1>1, CalmNoFault DEF Recheck, RecheckWhen, Fails, AllFaults
  <1>3. world.atLife > Skew + 2 * world.patience
    BY CalmNoFault
  <1>4. ~(store.ae + age[r] + world.patience >= now + world.atLife)
    BY SMT, <1>0, <1>2, <1>3
  <1>5. world.atLife > 0
    BY SMT, <1>0, <1>3
  <1> QED BY <1>2, <1>4, <1>5 DEF Overtaken, Present, Early

LEMMA CurrentKept ==
  ASSUME IInv, IInv', Overtaken, Current, [Next]_vars
  PROVE  Current'
  <1>0. UNCHANGED world /\ TypeOK /\ (Calm' <=> Calm)
    BY WorldKept DEF IInv, Calm, Alone, Without
  <1>1. (Without({"cancel"}) => cancelled = {})'
    <2>1. CASE Without({"cancel"})
      <3>1. \A r \in Request : ~Cancel(r)
        BY <2>1 DEF Without, Cancel, Fault
      <3>2. cancelled' \subseteq cancelled
        <4>1. ASSUME NEW r \in Request, StartRead(r) \/ StartClear(r) \/ Step(r)
              PROVE  cancelled' \subseteq cancelled
          <5>1. (\E to, t, ttl : GoWith(r, to, t, ttl)) \/ Return(r)
            BY <4>1 DEF Go, StartRead, StartClear, Start, Step, Load, Check, Acquire, Recheck,
                        RecheckWhen, Refresh, Refused, RefusedThen, Restore, Set, SetWith,
                        Refuse, Hand, Unlock, Clear
          <5> QED BY <5>1 DEF GoWith, Return
        <4>2. CASE Tick \/ Issue \/ (\E i \in Instance : Crash(i)) \/ UNCHANGED vars
          BY <4>2 DEF Tick, Issue, Crash, vars, requestVars
        <4> QED BY <3>1, <4>1, <4>2 DEF Next, Quiet
      <3> QED BY <2>1, <3>2 DEF Current
    <2> QED BY <1>0, <2>1 DEF Without
  <1>2. ASSUME Calm, NEW r \in Request, pc'[r] = "refresh", Live' PROVE rec'[r] = store'
    <2>3. CASE Step(r)
      <3>1. Recheck(r) /\ rec'[r] = rec[r] /\ pc[r] \in Locked \ Storing
        BY <1>0, <1>2, <2>3, StepMoves DEF Locked, Storing
      <3>2. UNCHANGED store /\ Live
        BY <1>2, <3>1, LiveInLock, CalmNoFault
      <3> QED BY <1>2, <3>1, <3>2, RecheckCurrent DEF Live
    <2>4. CASE pc[r] = "refresh" /\ rec'[r] = rec[r]
      <3>1. UNCHANGED store /\ Live
        BY <1>2, <2>4, LiveInLock, CalmNoFault DEF Locked, Storing
      <3> QED BY <1>2, <2>4, <3>1 DEF Current
    <2>5. CASE Tick
      BY <1>2, <2>4, <2>5 DEF Tick
    <2> QED BY <1>2, <2>3, <2>4, <2>5, Moves
  <1> QED BY <1>0, <1>1, <1>2 DEF Current

\* The IdP honours what is presented, while the session lives or without rotation.
LEMMA RefreshHonoured ==
  ASSUME IInv, Current, NEW r \in Request, Refresh(r), Go(r, "refused", rec[r])
  PROVE  /\ Calm => ~Live
         /\ world.rotating \/ ~Without({"refuse", "lose"})
  <1>0. pc[r] = "refresh" /\ rec[r] # Absent
    BY DEF Refresh, IInv, Recorded, Kept, Accepted, Locked
  <1>1. idp.rt # rec[r].rt \/ Fault("refuse") \/ Fault("lose")
    <2>1. ASSUME NEW s PROVE ~Go(r, "restore", s)
      BY DEF Go, GoWith, IInv, TypeOK
    <2> QED BY <2>1 DEF Refresh
  <1>2. ~world.rotating => idp.rt = rec[r].rt
    BY <1>0 DEF IInv, OneGrant
  <1>3. ASSUME Calm, Live PROVE FALSE
    <2>1. rec[r] = store
      BY <1>0, <1>3 DEF Current
    <2>2. \A q \in Request : pc[q] \notin Storing
      BY <1>0, <1>3, AloneInLock, CalmNoFault DEF IInv, Locked, Storing
    <2>3. store.rt = idp.rt
      BY <1>3, <2>2, CalmNoFault DEF IInv, NotStranded
    <2> QED BY <1>1, <1>3, <2>1, <2>3, CalmNoFault DEF AllFaults
  <1> QED BY <1>1, <1>2, <1>3 DEF Without, Fault

LEMMA UnansweredKept ==
  ASSUME IInv, IInv', Current, Unanswered, [Next]_vars
  PROVE  Unanswered'
  <1>0. /\ UNCHANGED world /\ TypeOK /\ (Calm' <=> Calm)
        /\ (Without({"refuse", "lose"})' <=> Without({"refuse", "lose"}))
    BY WorldKept DEF IInv, Calm, Alone, Without
  <1>1. ASSUME NEW r \in Request, pc'[r] \in {"refused", "deny"}
        PROVE  /\ pc[r] \in Locked \ Storing
               /\ Calm => ~Live
               /\ world.rotating \/ ~Without({"refuse", "lose"})
    <2>1. CASE pc[r] \in {"refused", "deny"}
      BY <2>1 DEF Unanswered, Locked, Storing
    <2>2. CASE Step(r) /\ pc[r] \notin {"refused", "deny"}
      <3>1. Refresh(r) /\ pc[r] = "refresh" /\ Go(r, "refused", rec[r])
        BY <1>0, <1>1, <2>2, StepMoves DEF Refresh
      <3> QED BY <3>1, RefreshHonoured DEF Locked, Storing
    <2>3. CASE Tick
      BY <1>1, <2>1, <2>3 DEF Tick
    <2> QED BY <1>1, <2>1, <2>2, <2>3, Moves
  <1>2. ASSUME NEW r \in Request, pc'[r] \in {"refused", "deny"}, Calm PROVE ~Live'
    BY <1>1, <1>2, LiveInLock, CalmNoFault
  <1> QED BY <1>0, <1>1, <1>2 DEF Unanswered

LEMMA CalmInvariance == Spec => [](IInv /\ JInv)
  <1>1. Init => JInv
    <2> SUFFICES ASSUME Init PROVE JInv
      OBVIOUS
    <2>1. /\ store = Absent /\ cancelled = {} /\ idp.rt = 0 /\ idp.last = 0 /\ Absent.rt = 0
          /\ \A r \in Request : pc[r] = "idle" /\ rec[r] = Absent
          /\ \A i \in Instance : presented[i] = {}
      BY DEF Init, NoRT, Absent
    <2>2. Ordered
      BY SMT, <2>1 DEF Ordered
    <2> QED BY <2>1, <2>2 DEF JInv, Overtaken, UsedUp, Current, Unanswered, Live, Present, Early
  <1>2. IInv /\ JInv /\ [Next]_vars => IInv' /\ JInv'
    BY NextKeeps, OvertakenKept, OrderedKept, CurrentKept, UnansweredKept DEF JInv
  <1> QED BY <1>1, <1>2, InitEstablishes, PTL DEF Spec

-----------------------------------------------------------------------------
(* The theorems                                                            *)

\* A request hands out what it had, or found in the store, and takes it from a record it
\* has accepted.
LEMMA HandMoves ==
  ASSUME IInv, [Next]_vars, NEW r \in Request, HandsOut(r)
  PROVE  /\ Step(r)
         /\ \/ /\ pc[r] = "check" /\ rec'[r] = rec[r] /\ now <= rec[r].exp
               /\ rec[r].rt = NoRT \/ ~NearExpiry(rec[r])
            \/ pc[r] = "recheck" /\ rec'[r] = store /\ Present /\ now < store.ae - Skew
            \/ pc[r] = "refused" /\ rec'[r] = rec[r] /\ now < rec[r].ae
            \/ pc[r] \in Storing /\ rec'[r] = rec[r]
  <1>1. Step(r)
    BY Moves DEF IInv, Tick, HandsOut
  <1> QED BY <1>1, StepMoves DEF IInv, HandsOut

\* Refreshing renews the access token and never the session, on any number of instances
\* and whatever fails: maybeRefresh keeps Expiry and stores with what was left of it when
\* the request looked, so that the store outlasts it by a request at the most, and no
\* request hands out a session that was over when the request came.
THEOREM NeverExtends == Spec => RefreshNeverExtends
  <1>1. ASSUME IInv, [Next]_vars, store # Absent, store' # Absent
        PROVE  store'.exp = store.exp /\ until' <= store.exp + world.patience
    <2>1. PICK e \in Nat : Expiring(e)
      BY <1>1 DEF IInv, OneExpiry
    <2>2. store.exp = e /\ until <= e + world.patience /\ now \in Nat /\ world.patience \in Nat
      BY <1>1, <2>1, Numbers DEF Expiring, IInv, TypeOK
    <2>3. CASE UNCHANGED <<store, until>>
      BY <2>2, <2>3
    <2>4. ASSUME NEW r \in Request, pc[r] = "set", rec[r] # Absent,
                 store' = rec[r], until' = now + remaining[r]
          PROVE  store'.exp = store.exp /\ until' <= store.exp + world.patience
      <3>1. rec[r].exp = e /\ remaining[r] \in Nat /\ age[r] \in Nat
        BY <1>1, <2>1, <2>4 DEF Expiring, IInv, TypeOK
      <3>2. age[r] <= world.patience /\ now + remaining[r] <= rec[r].exp + age[r]
        BY <1>1, <2>4 DEF IInv, Timely, Lasting
      <3> QED BY SMT, <2>2, <2>4, <3>1, <3>2
    <2> QED BY <1>1, <2>3, <2>4, OnlySetWrites
  <1>2. ASSUME IInv, [Next]_vars, NEW r \in Request, HandsOut(r)
        PROVE  now - age[r] <= rec'[r].exp
    <2>0. /\ now \in Nat /\ age[r] \in Nat /\ rec[r].exp \in Nat /\ store.exp \in Nat
      BY <1>2 DEF IInv, TypeOK, Record
    <2>1. CASE pc[r] = "check" /\ rec'[r] = rec[r] /\ now <= rec[r].exp
      BY SMT, <2>0, <2>1
    <2>2. CASE pc[r] \in Locked
      <3>1. now <= rec[r].exp + age[r] /\ rec[r] # Absent
        BY <1>2, <2>2 DEF IInv, Lasting, Recorded, Kept, Accepted
      <3>2. CASE rec'[r] = rec[r]
        BY SMT, <2>0, <3>1, <3>2
      <3>3. CASE rec'[r] = store /\ Present
        <4>1. store.exp = rec[r].exp
          BY <1>2, <3>1, <3>3 DEF IInv, OneExpiry, Expiring, Present
        <4> QED BY SMT, <2>0, <3>1, <3>3, <4>1
      <3> QED BY <1>2, <2>2, <3>2, <3>3, HandMoves DEF Locked
    <2> QED BY <1>2, <2>1, <2>2, HandMoves DEF Locked, Storing
  <1>3. ASSUME IInv, [Next]_vars
        PROVE  [/\ (store # Absent /\ store' # Absent) =>
                      store'.exp = store.exp /\ until' <= store.exp + world.patience
                /\ \A r \in Request : HandsOut(r) => now - age[r] <= rec'[r].exp]_vars
    BY <1>1, <1>2, <1>3
  <1> QED BY <1>3, Invariance, PTL DEF Spec, RefreshNeverExtends

\* One instance never puts an older access token back: the refresh lock is held from the
\* double check to the re-store.
THEOREM NeverRegresses == Spec => StoreNeverRegresses
  <1>1. ASSUME IInv, [Next]_vars, Alone, store # Absent, store' # Absent
        PROVE  store'.at >= store.at
    <2>1. store.at \in 1 .. idp.last /\ idp.last \in Nat
      BY <1>1 DEF IInv, Recorded, TypeOK
    <2>2. CASE UNCHANGED <<store, until>>
      BY SMT, <2>1, <2>2
    <2>3. ASSUME NEW r \in Request, pc[r] = "set", store' = rec[r]
          PROVE  store'.at >= store.at
      BY SMT, <1>1, <2>1, <2>3 DEF IInv, Newest, Storing
    <2> QED BY <1>1, <2>2, <2>3, OnlySetWrites
  <1> QED BY <1>1, Invariance, PTL DEF Spec, StoreNeverRegresses

\* The stored record can be refreshed again, without rotation always, with it on one
\* instance that neither crashes nor loses an answer or a write.
THEOREM Refreshable == Spec => []NotStranded
  <1>1. IInv => NotStranded
    BY DEF IInv
  <1> QED BY <1>1, Invariance, PTL

\* Where tokens that say when they expire outlive a request, a session that has a refresh
\* token is handed out with an access token that is alive.
THEOREM ServedAlive == Spec => ServedTokenAlive
  <1>1. ASSUME IInv, [Next]_vars, NEW r \in Request, HandsOut(r),
               world.atLife > world.patience, rec'[r].rt # NoRT
        PROVE  now < rec'[r].ae
    <2>0. /\ now \in Nat /\ Skew \in Nat \ {0} /\ age[r] \in Nat
          /\ store.ae \in Nat /\ rec[r].ae \in Nat
          /\ world.atLife \in Nat /\ world.patience \in Nat
      BY <1>1, Numbers, StateManagerAssumption DEF IInv, TypeOK, Record
    <2>1. CASE rec'[r] = rec[r] /\ ~NearExpiry(rec[r])
      BY SMT, <2>0, <2>1 DEF NearExpiry
    <2>2. CASE rec'[r] = store /\ now < store.ae - Skew
      BY SMT, <2>0, <2>2
    <2>3. CASE pc[r] \in Storing /\ rec'[r] = rec[r]
      <3>1. rec[r].ae + age[r] >= now + world.atLife /\ age[r] <= world.patience
        BY SMT, <1>1, <2>0, <2>3 DEF IInv, Timely
      <3> QED BY SMT, <1>1, <2>0, <2>3, <3>1
    <2> QED BY <1>1, <2>1, <2>2, <2>3, HandMoves
  <1>2. ASSUME IInv, [Next]_vars
        PROVE  [\A r \in Request :
                  (HandsOut(r) /\ world.atLife > world.patience /\ rec'[r].rt # NoRT) =>
                    now < rec'[r].ae]_vars
    BY <1>1, <1>2
  <1> QED BY <1>2, Invariance, PTL DEF Spec, ServedTokenAlive

\* "Concurrent refreshes for one session collapse via an in-process per-id lock": for any
\* number of requests, the double check under the lock keeps every one but the first from
\* presenting a rotating refresh token again.
THEOREM RefreshOnce == Spec => []SingleFlight
  <1>1. ASSUME IInv, JInv PROVE SingleFlight
    <2> SUFFICES ASSUME NEW r \in Request, Calm, world.rotating, Live, pc[r] = "refresh"
                 PROVE  rec[r].rt \notin presented[inst[r]]
      BY DEF SingleFlight
    <2>1. rec[r] = store /\ Without({"refuse"}) /\ Alone /\ Without({"set", "lose", "crash"})
      BY <1>1, CalmNoFault DEF JInv, Current
    <2>2. \A q \in Request : pc[q] \notin Storing
      BY <1>1, <2>1, AloneInLock DEF IInv, Locked, Storing
    <2>3. rec[r].rt = idp.rt
      BY <1>1, <2>1, <2>2 DEF IInv, NotStranded
    <2>4. inst[r] \in Instance /\ idp.rt \in Nat
      BY <1>1 DEF IInv, TypeOK
    <2>5. ~(idp.rt < idp.rt)
      BY SMT, <2>4
    <2> QED BY <1>1, <2>1, <2>3, <2>4, <2>5 DEF JInv, UsedUp
  <1> QED BY <1>1, CalmInvariance, PTL

\* A Read is not refused for want of a token while the session is live: the refresh token
\* it presents is the one the IdP honours.
THEOREM LiveServed == Spec => []LiveSessionServed
  <1>1. JInv => LiveSessionServed
    BY DEF JInv, Unanswered, LiveSessionServed
  <1> QED BY <1>1, CalmInvariance, PTL

\* StateManager keeps the terms on which KeyLock lends a lock: a request asks for one only
\* when it neither waits for nor holds any, gives back the one it holds, alone, and has
\* none when it has returned, however it got there (maybeRefresh's returns, a failed
\* refresh or re-store, a client that has gone, a crash).
LockTermsKept == \A r \in Request :
    /\ pc[r] \in Locked => holders[inst[r]] = {r}
    /\ pc[r] = "wait" => r \in waiters[inst[r]]
    /\ pc[r] \notin Locked \cup {"wait"} => ~Lock!Busy(r)

\* LockTermsKept for any number of requests, instances and faults.
THEOREM LockTerms == Spec => []LockTermsKept
  <1>1. Init => Accounted
    BY DEF Init, Accounted, Lock!LockInit, Locked
  <1>2. IInv /\ Accounted => LockTermsKept
    <2> SUFFICES ASSUME IInv, Accounted, NEW r \in Request
                 PROVE  /\ pc[r] \in Locked => holders[inst[r]] = {r}
                        /\ pc[r] = "wait" => r \in waiters[inst[r]]
                        /\ pc[r] \notin Locked \cup {"wait"} => ~Lock!Busy(r)
      BY DEF LockTermsKept
    <2>1. inst[r] \in Instance
      BY DEF IInv, TypeOK
    <2>2. pc[r] \in Locked => holders[inst[r]] = {r}
      BY DEF IInv, Mutex
    <2>3. pc[r] \notin Locked \cup {"wait"} => ~Lock!Busy(r)
      BY DEF Accounted, Lock!Busy
    <2> QED BY <2>1, <2>2, <2>3 DEF Accounted
  <1>3. IInv /\ Accounted /\ [Next]_vars => Accounted'
    BY AccountedKept DEF IInv
  <1> QED BY <1>1, <1>2, <1>3, Invariance, PTL DEF Spec
=============================================================================
