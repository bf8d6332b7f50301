---------------------------- MODULE StateManager ----------------------------
(***************************************************************************)
(* session.stateManager (session/statemanager.go): the server-side session *)
(* of one browser.  Its record lives in a shared StateStore; requests on   *)
(* any instance of the gateway read it, refresh its access token at the    *)
(* identity provider when that token nears its expiry, and sign out.       *)
(*                                                                         *)
(* One session is modelled: records, refresh locks and grants of different *)
(* sessions share nothing.  The refresh lock is the lock per key that      *)
(* KeyedMutex implements; it is in-process, so there is one per instance.  *)
(* Tokens are numbered in the order the IdP issues them; 0 is the empty    *)
(* string.  Sealing a record and opening it again gives the record back.   *)
(***************************************************************************)
EXTENDS Integers

CONSTANTS
    Request,       \* request goroutines; one that returns is used again
    Instance,      \* gateway replicas
    Skew,          \* refreshSkew
    World,         \* the surroundings to look at
    MaxTokens      \* bound: no request starts once the IdP has issued this many

AllFaults == {"get", "set", "delete", "refuse", "lose", "cancel", "crash"}

\* rotating: the IdP replaces the refresh token on every use; atLife: expires_in of
\* its access tokens, 0 when it does not say; ttl: session.ttl; patience: ticks a
\* request may stay in progress; horizon and maxFaults are bounds: when the clock
\* stops, and how many faults there are of the kinds in faultKinds.
ASSUME StateManagerAssumption ==
    /\ Skew \in Nat \ {0} /\ MaxTokens \in Nat
    /\ World \subseteq
         [rotating : BOOLEAN, instances : (SUBSET Instance) \ {{}}, atLife : Nat, ttl : Nat,
          patience : Nat, horizon : Nat, maxFaults : Nat, faultKinds : SUBSET AllFaults]

NoRT == 0
Absent == [at |-> 0, rt |-> NoRT, ae |-> 0, exp |-> 0]

VARIABLES
    world,           \* the World this is
    now,             \* time.Now()
    store, until,    \* the record in the StateStore, and when its TTL drops it
    idp,             \* last access token issued and the refresh token honoured
    cookie,          \* the browser holds the session cookie
    cleared,         \* a Clear has deleted the record
    pc, inst,        \* per request: where it is, and on which instance
    rec,             \* per request: the local variable rec
    remaining,       \* per request: the TTL it is about to store rec with
    age,             \* per request: ticks since it started
    cancelled,       \* requests whose context is cancelled
    presented,       \* per instance: the refresh tokens it has sent to the IdP
    faults,          \* faults so far
    waiters, holders \* the refresh lock of each instance

sessionVars == <<store, until, idp, cookie, cleared>>
requestVars == <<pc, inst, rec, remaining, age, cancelled>>
lockVars    == <<waiters, holders>>
faultVars   == <<world, faults>>
vars == <<now, sessionVars, requestVars, presented, faultVars, lockVars>>

Lock == INSTANCE KeyLock WITH Goroutine <- Request, Key <- Instance

Record == [at : Nat, rt : Nat, ae : Nat, exp : Nat]
\* "serve" and "deny": maybeRefresh returns rec, or nil, its unlock still deferred.
Locked == {"recheck", "refresh", "refused", "restore", "set", "serve", "deny"}
\* Between a refresh and the end of the re-store.
Storing == {"restore", "set"}
InProgress(r) == pc[r] # "idle"

TypeOK ==
    /\ world \in World
    /\ now \in Nat /\ until \in Nat /\ faults \in Nat
    /\ store \in Record
    /\ idp \in [last : Nat, rt : Nat]
    /\ cookie \in BOOLEAN /\ cleared \in BOOLEAN
    /\ pc \in [Request -> {"idle", "load", "check", "hand", "wait", "delete"} \cup Locked]
    /\ inst \in [Request -> Instance]
    /\ rec \in [Request -> Record]
    /\ remaining \in [Request -> Nat]
    /\ age \in [Request -> Nat]
    /\ cancelled \subseteq Request
    /\ presented \in [Instance -> SUBSET Nat]
    /\ Lock!LockTypeOK

Init ==
    /\ world \in World
    /\ now = 0 /\ until = 0 /\ faults = 0
    /\ store = Absent
    /\ idp = [last |-> 0, rt |-> NoRT]
    /\ cookie = FALSE /\ cleared = FALSE
    /\ pc = [r \in Request |-> "idle"]
    /\ inst \in [Request -> world.instances]
    /\ rec = [r \in Request |-> Absent]
    /\ remaining = [r \in Request |-> 0]
    /\ age = [r \in Request |-> 0]
    /\ cancelled = {}
    /\ presented = [i \in Instance |-> {}]
    /\ Lock!LockInit

-----------------------------------------------------------------------------
(* Steps of a request, faults and the environment                          *)

\* r goes on to program point `to' with the local record s, to be stored with TTL ttl.
GoWith(r, to, s, ttl) ==
    /\ pc' = [pc EXCEPT ![r] = to]
    /\ rec' = [rec EXCEPT ![r] = s]
    /\ remaining' = [remaining EXCEPT ![r] = ttl]
    /\ UNCHANGED <<inst, age, cancelled>>

Go(r, to, s) == GoWith(r, to, s, 0)

\* r answers its client.
Return(r) ==
    /\ pc' = [pc EXCEPT ![r] = "idle"]
    /\ rec' = [rec EXCEPT ![r] = Absent]
    /\ remaining' = [remaining EXCEPT ![r] = 0]
    /\ age' = [age EXCEPT ![r] = 0]
    /\ cancelled' = cancelled \ {r}
    /\ UNCHANGED inst

Fault(kind) ==
    /\ kind \in world.faultKinds
    /\ faults < world.maxFaults
    /\ faults' = faults + 1
    /\ UNCHANGED world

NoFault == UNCHANGED faultVars

\* An operation under the request's own context fails: the store does, or the
\* client has gone away.
Fails(r, kind) == Fault(kind) \/ (r \in cancelled /\ NoFault)

\* StateStore.Get finds the record: it is there and its TTL has not run out.
Present == store # Absent /\ now < until

\* time.Now().After(rec.AccessExpiry.Add(-refreshSkew)), first check of maybeRefresh.
NearExpiry(s) == now > s.ae - Skew

\* The Expiry of a new token; the zero time when there was no expires_in.
TokenExpiry == IF world.atLife = 0 THEN 0 ELSE now + world.atLife

Tick ==
    /\ now < world.horizon
    /\ \A r \in Request : InProgress(r) => age[r] < world.patience
    /\ now' = now + 1
    /\ age' = [r \in Request |-> IF InProgress(r) THEN age[r] + 1 ELSE 0]
    /\ UNCHANGED <<sessionVars, pc, inst, rec, remaining, cancelled, presented, faultVars,
                   lockVars>>

\* The client disconnects: r.Context() is cancelled.
Cancel(r) ==
    /\ InProgress(r)
    /\ r \notin cancelled
    /\ Fault("cancel")
    /\ cancelled' = cancelled \cup {r}
    /\ UNCHANGED <<now, sessionVars, pc, inst, rec, remaining, age, presented, lockVars>>

\* An instance dies with its requests and its in-process locks, and restarts.
Crash(i) ==
    LET lost == {r \in Request : InProgress(r) /\ inst[r] = i}
    IN  /\ lost # {}
        /\ Fault("crash")
        /\ pc' = [r \in Request |-> IF r \in lost THEN "idle" ELSE pc[r]]
        /\ rec' = [r \in Request |-> IF r \in lost THEN Absent ELSE rec[r]]
        /\ remaining' = [r \in Request |-> IF r \in lost THEN 0 ELSE remaining[r]]
        /\ age' = [r \in Request |-> IF r \in lost THEN 0 ELSE age[r]]
        /\ cancelled' = cancelled \ lost
        /\ waiters' = [waiters EXCEPT ![i] = {}]
        /\ holders' = [holders EXCEPT ![i] = {}]
        /\ UNCHANGED <<now, sessionVars, inst, presented>>

-----------------------------------------------------------------------------
(* Issue                                                                   *)

\* The callback hands over the tokens of a new grant, which starts the clock: make the
\* session, at some time since, seal the record, Set it, then set the cookie.  The store
\* counts the TTL from when it applies the Set.  A failed Set fails the sign-in, applied
\* or not.
Issue ==
    /\ idp.last = 0
    /\ now <= world.patience
    /\ \E rt \in {NoRT, 1}, made \in 0 .. now :
        /\ idp' = [last |-> 1, rt |-> rt]
        /\ \/ /\ store' = [at |-> 1, rt |-> rt, ae |-> world.atLife, exp |-> made + world.ttl]
              /\ until' = now + world.ttl
              /\ \/ cookie' = TRUE /\ NoFault
                 \/ UNCHANGED cookie /\ Fault("set")
           \/ /\ UNCHANGED <<store, until, cookie>>
              /\ Fault("set")
    /\ UNCHANGED <<now, cleared, requestVars, presented, lockVars>>

-----------------------------------------------------------------------------
(* Read                                                                    *)

\* A request arrives with the session cookie.
Start(r, to) ==
    /\ pc[r] = "idle"
    /\ cookie
    /\ idp.last < MaxTokens
    /\ Go(r, to, Absent)
    /\ UNCHANGED <<now, sessionVars, presented, faultVars, lockVars>>

StartRead(r) == Start(r, "load")

\* Read's load: an error, a miss and a lapsed TTL all end in ErrInvalidSession.
Load(r) ==
    /\ pc[r] = "load"
    /\ \/ Present /\ Go(r, "check", store) /\ NoFault
       \/ ((~Present /\ NoFault) \/ Fails(r, "get")) /\ Return(r)
    /\ UNCHANGED <<now, sessionVars, presented, lockVars>>

\* Read's checks: a session that has expired, or whose fingerprint is not the request's,
\* is invalid.
Refuse(r) ==
    /\ pc[r] = "check"
    /\ \E fp \in BOOLEAN : now > rec[r].exp \/ ~fp
    /\ Return(r)
    /\ UNCHANGED <<now, sessionVars, presented, faultVars, lockVars>>

\* The head of maybeRefresh: a record that has nothing to refresh with is returned as it
\* is, whatever became of its token, and so is one whose token is not near expiry; the
\* others wait for the lock.
Check(r) ==
    /\ pc[r] = "check"
    /\ now <= rec[r].exp
    /\ IF rec[r].rt = NoRT \/ ~NearExpiry(rec[r])
          THEN Go(r, "hand", rec[r]) /\ UNCHANGED lockVars
          ELSE Go(r, "wait", rec[r]) /\ Lock!Ask(r, inst[r])
    /\ UNCHANGED <<now, sessionVars, presented, faultVars>>

\* Read returns the record that needed no refresh.
Hand(r) ==
    /\ pc[r] = "hand"
    /\ Return(r)
    /\ UNCHANGED <<now, sessionVars, presented, faultVars, lockVars>>

\* m.refresh.lock(sessionID) returns.
Acquire(r) ==
    /\ pc[r] = "wait"
    /\ Lock!Grant(r, inst[r])
    /\ Go(r, "recheck", rec[r])
    /\ UNCHANGED <<now, sessionVars, presented, faultVars>>

RecheckWhen(r, fresh) ==
    /\ pc[r] = "recheck"
    /\ \/ fresh /\ Go(r, "serve", store) /\ NoFault
       \/ ((~fresh /\ NoFault) \/ Fails(r, "get")) /\ Go(r, "refresh", rec[r])
    /\ UNCHANGED <<now, sessionVars, presented, lockVars>>

RecheckNot(r) == RecheckWhen(r, FALSE)
RecheckPolls(r) ==
    \/ RecheckWhen(r, Present /\ now < store.ae - Skew) /\ pc'[r] = "serve"
    \/ pc[r] = "recheck" /\ UNCHANGED vars

\* The double check, under the request's context.  A record that is gone, that
\* cannot be loaded or that is itself near expiry leaves rec as it was.
Recheck(r) == RecheckWhen(r, Present /\ now < store.ae - Skew)

\* provider.Refresh(rctx, rec.RefreshToken).  The IdP honours the grant's refresh
\* token and, when rotating, replaces it; the call may fail before it reaches the
\* IdP ("refuse") or its answer may be lost ("lose").  rctx outlives the client.
Refresh(r) ==
    LET token   == rec[r].rt
        honours == idp.rt = token
        new     == idp.last + 1
        newRT   == IF world.rotating THEN new ELSE token
    IN  /\ pc[r] = "refresh"
        /\ presented' = [presented EXCEPT ![inst[r]] = @ \cup {token}]
        /\ \/ /\ honours
              /\ idp' = [last |-> new, rt |-> newRT]
              /\ \/ /\ NoFault
                    /\ Go(r, "restore", [at |-> new, rt |-> newRT, ae |-> TokenExpiry,
                                         exp |-> rec[r].exp])
                 \/ Fault("lose") /\ Go(r, "refused", rec[r])
           \/ /\ (~honours /\ NoFault) \/ Fault("refuse")
              /\ Go(r, "refused", rec[r])
              /\ UNCHANGED idp
        /\ UNCHANGED <<now, store, until, cookie, cleared, lockVars>>

RefusedThen(r, alive, then) ==
    /\ pc[r] = "refused"
    /\ Go(r, IF alive THEN then ELSE "deny", rec[r])
    /\ UNCHANGED <<now, sessionVars, presented, faultVars, lockVars>>

RefusedUnchecked(r) == RefusedThen(r, TRUE, "serve")
RefusedFallsThrough(r) == RefusedThen(r, now < rec[r].ae, "restore")

\* The refresh failed: the old access token serves if it is still alive.
Refused(r) == RefusedThen(r, now < rec[r].ae, "serve")

\* remaining := time.Until(rec.Session.Expiry); a session that is over is not stored.
Restore(r) ==
    LET left == rec[r].exp - now
    IN  /\ pc[r] = "restore"
        /\ \/ left > 0 /\ GoWith(r, "set", rec[r], left)
           \/ left <= 0 /\ Go(r, "serve", rec[r])
        /\ UNCHANGED <<now, sessionVars, presented, faultVars, lockVars>>

\* Seal and Set the refreshed record with TTL ttl, which the store counts from when it
\* applies the Set.  An error, of a Set that was applied or not, is only logged: the
\* request goes on to `otherwise'.  fails: how the Set can go wrong.
SetWith(r, ttl, fails, otherwise) ==
    /\ pc[r] = "set"
    /\ \/ /\ store' = rec[r] /\ until' = now + ttl
          /\ \/ NoFault /\ Go(r, "serve", rec[r])
             \/ fails /\ Go(r, otherwise, rec[r])
       \/ /\ fails /\ Go(r, otherwise, rec[r])
          /\ UNCHANGED <<store, until>>
    /\ UNCHANGED <<now, idp, cookie, cleared, presented, lockVars>>

SetCancellable(r) == SetWith(r, remaining[r], Fails(r, "set"), "serve")
SetFullTTL(r) == SetWith(r, world.ttl, Fault("set"), "serve")
SetOrDeny(r) == SetWith(r, remaining[r], Fault("set"), "deny")

Set(r) == SetWith(r, remaining[r], Fault("set"), "serve")

\* The deferred unlock, and Read's return.
Unlock(r) ==
    /\ pc[r] \in {"serve", "deny"}
    /\ Lock!Release(r, inst[r])
    /\ Return(r)
    /\ UNCHANGED <<now, sessionVars, presented, faultVars>>

-----------------------------------------------------------------------------
(* Clear                                                                   *)

StartClear(r) == Start(r, "delete")

\* store.Delete, whose error is only logged, then expire the cookie.
Clear(r) ==
    /\ pc[r] = "delete"
    /\ Return(r)
    /\ cookie' = FALSE
    /\ \/ store' = Absent /\ cleared' = TRUE /\ NoFault
       \/ UNCHANGED <<store, cleared>> /\ Fails(r, "delete")
    /\ UNCHANGED <<now, until, idp, presented, lockVars>>

-----------------------------------------------------------------------------

\* Nothing is in progress: the gateway waits for the next request.
Quiet ==
    /\ \A r \in Request : ~InProgress(r)
    /\ UNCHANGED vars

Step(r) ==
    \/ Load(r) \/ Refuse(r) \/ Check(r) \/ Hand(r) \/ Acquire(r) \/ Recheck(r)
    \/ Refresh(r) \/ Refused(r) \/ Restore(r) \/ Set(r) \/ Unlock(r) \/ Clear(r)

Next ==
    \/ Tick
    \/ Issue
    \/ \E r \in Request : StartRead(r) \/ StartClear(r) \/ Step(r) \/ Cancel(r)
    \/ \E i \in Instance : Crash(i)
    \/ Quiet

Spec == Init /\ [][Next]_vars

\* A request that is in progress keeps running: the store bounds its operations,
\* rctx bounds the refresh, and the lock is starvation-free (KeyLock).  Clients,
\* faults and the clock owe nothing.
Fairness == \A r \in Request : WF_vars(Step(r)) /\ SF_vars(Acquire(r))

FairSpec == Spec /\ Fairness

(***************************************************************************)
(* Properties                                                              *)
(***************************************************************************)

Without(kinds) == world.faultKinds \cap kinds = {}
Alone == \E i \in Instance : world.instances = {i}
\* One instance, nothing fails, and a token that was just issued is not near expiry
\* again before every request that saw the old one is done: one that loads the record
\* just before the new one is stored is done within its own patience.
Calm == Alone /\ Without(AllFaults) /\ world.atLife > Skew + 2 * world.patience

\* The session in the store has not reached its own end; its TTL, which counts from when
\* the record was stored, ends somewhat later.
Live == Present /\ now < store.exp

HandsOut(r) == pc[r] \notin {"serve", "hand"} /\ pc'[r] \in {"serve", "hand"}

\* A session that has a refresh token is handed out only with an access token that is alive
\* when the outcome is settled: found so by the first check, by the double check or after
\* a failed refresh, or issued to this very request, where tokens that say when they
\* expire outlive a request.  (One without a refresh token is handed out with the token it
\* was issued, dead or alive: statemanager.go:170-172.)
ServedTokenAlive == [][\A r \in Request :
    (HandsOut(r) /\ world.atLife > world.patience /\ rec'[r].rt # NoRT) =>
        now < rec'[r].ae]_vars

\* "Concurrent refreshes for one session collapse via an in-process per-id lock"
\* (statemanager.go:166): while all is calm and the session lives, each rotating
\* refresh token is presented once.
SingleFlight == \A r \in Request :
    (Calm /\ world.rotating /\ Live /\ pc[r] = "refresh") =>
        rec[r].rt \notin presented[inst[r]]

\* The stored record can be refreshed again: it holds the refresh token the IdP
\* honours, except while a request still has the newer one to store.  Failing reads
\* and deletes, refusals and disconnects do not change that; what loses a rotated
\* token, or a second instance, does.
NotStranded ==
    (/\ ~world.rotating \/ (Alone /\ Without({"set", "lose", "crash"}))
     /\ Live /\ \A r \in Request : pc[r] \notin Storing) => store.rt = idp.rt

\* A Read is not refused for want of a token while the session is live: when all is
\* calm and, if the IdP does not rotate and answers, on any number of instances,
\* also when they crash or the store refuses the new record.
LiveSessionServed == \A r \in Request :
    (pc[r] = "deny" /\ (Calm \/ (~world.rotating /\ Without({"refuse", "lose"})))) =>
        cleared \/ ~Live

\* Refreshing renews the access token and never the session: the expiry in the record
\* does not move, however often it is stored; the store forgets the record no later than
\* a request may take after that, for its TTL counts from the Set; and no request hands
\* out a session that was over when the request came.
RefreshNeverExtends == [][
    /\ (store # Absent /\ store' # Absent) =>
            store'.exp = store.exp /\ until' <= store.exp + world.patience
    /\ \A r \in Request : HandsOut(r) => now - age[r] <= rec'[r].exp]_vars

\* The store never goes back to an older access token while one instance writes it.
StoreNeverRegresses == [][(Alone /\ store # Absent /\ store' # Absent) =>
    store'.at >= store.at]_vars

\* Logout "Clears the HOG session": a deleted record stays deleted.
ClearedStaysCleared == cleared => store = Absent

\* Every request returns, whoever holds the lock and whatever the store and the
\* IdP answer.
EveryRequestReturns == \A r \in Request : InProgress(r) ~> ~InProgress(r)
=============================================================================
