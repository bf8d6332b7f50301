------------------------------ MODULE KeyLock ------------------------------
(***************************************************************************)
(* What session.keyedMutex promises its callers (session/keyedmutex.go,    *)
(* "concurrent operations on the same key serialize"): one lock per key.   *)
(* A caller asks for the lock of a key, is granted it when nobody holds it *)
(* and gives it back.  KeyedMutex is shown to implement this module, and   *)
(* StateManager is written against it.                                     *)
(***************************************************************************)
CONSTANTS Goroutine, Key

VARIABLES waiters, holders     \* per key: who waits for it, who holds it

lockVars == <<waiters, holders>>

LockTypeOK ==
    /\ waiters \in [Key -> SUBSET Goroutine]
    /\ holders \in [Key -> SUBSET Goroutine]

\* A goroutine is inside lock() or its critical section for one key at a time.
Busy(g) == \E k \in Key : g \in waiters[k] \cup holders[k]

LockInit ==
    /\ waiters = [k \in Key |-> {}]
    /\ holders = [k \in Key |-> {}]

Ask(g, k) ==
    /\ ~Busy(g)
    /\ waiters' = [waiters EXCEPT ![k] = @ \cup {g}]
    /\ UNCHANGED holders

Grant(g, k) ==
    /\ g \in waiters[k]
    /\ holders[k] = {}
    /\ waiters' = [waiters EXCEPT ![k] = @ \ {g}]
    /\ holders' = [holders EXCEPT ![k] = {g}]

Release(g, k) ==
    /\ g \in holders[k]
    /\ holders' = [holders EXCEPT ![k] = @ \ {g}]
    /\ UNCHANGED waiters

LockNext == \E g \in Goroutine, k \in Key :
    Ask(g, k) \/ Grant(g, k) \/ Release(g, k)

\* A holder always gives the lock back (the callers defer the unlock), and a
\* sync.Mutex does not pass over the same waiter for ever (starvation mode).
LockFairness == \A g \in Goroutine, k \in Key :
    SF_lockVars(Grant(g, k)) /\ WF_lockVars(Release(g, k))

LockSpec == LockInit /\ [][LockNext]_lockVars /\ LockFairness
=============================================================================
