----------------------------- MODULE KeyedMutex -----------------------------
(***************************************************************************)
(* session.keyedMutex (session/keyedmutex.go): a mutex per key whose map   *)
(* entries are reference counted, so that an entry lives exactly as long   *)
(* as somebody uses it.                                                    *)
(*                                                                         *)
(* A *refMutex is a member of Ref: the model tells the mutex OBJECT from   *)
(* the KEY it was found under, because the danger in this code is two      *)
(* objects serving one key.  The sections under k.mu do not block, so each *)
(* is one step.  A refMutex nobody can reach any more is garbage and its   *)
(* member of Ref may be allocated again.                                   *)
(***************************************************************************)
EXTENDS Naturals, FiniteSets

CONSTANTS Goroutine, Key, Ref, NoRef, Nobody

ASSUME KeyedMutexAssumption ==
    /\ IsFiniteSet(Goroutine)
    /\ NoRef \notin Ref
    /\ Nobody \notin Goroutine

VARIABLES
    m,        \* keyedMutex.m: the live refMutex of each key, or NoRef
    refs,     \* refMutex.refs
    owner,    \* who holds refMutex.mu
    pc,       \* where each goroutine is in lock() and its unlock closure
    key, rm   \* the goroutine's parameter key and its local rm

vars == <<m, refs, owner, pc, key, rm>>

InUse(g) == pc[g] # "idle"
Users(k) == {g \in Goroutine : InUse(g) /\ key[g] = k}

TypeOK ==
    /\ m \in [Key -> Ref \cup {NoRef}]
    /\ refs \in [Ref -> Nat]
    /\ owner \in [Ref -> Goroutine \cup {Nobody}]
    /\ pc \in [Goroutine -> {"idle", "waiting", "holding", "unlocked"}]
    /\ key \in [Goroutine -> Key]
    /\ rm \in [Goroutine -> Ref \cup {NoRef}]
    /\ \A g \in Goroutine : InUse(g) => rm[g] \in Ref

Init ==
    /\ m = [k \in Key |-> NoRef]
    /\ refs = [r \in Ref |-> 0]
    /\ owner = [r \in Ref |-> Nobody]
    /\ pc = [g \in Goroutine |-> "idle"]
    /\ key \in [Goroutine -> Key]
    /\ rm = [g \in Goroutine |-> NoRef]

\* &refMutex{}: an object nothing refers to yet.
Fresh(r) ==
    /\ \A k \in Key : m[k] # r
    /\ \A g \in Goroutine : InUse(g) => rm[g] # r

\* lock, the section under k.mu, once rm is found or made.
Enter(g, k, r, count) ==
    /\ pc[g] = "idle"
    /\ refs' = [refs EXCEPT ![r] = count]
    /\ m' = [m EXCEPT ![k] = r]
    /\ pc' = [pc EXCEPT ![g] = "waiting"]
    /\ key' = [key EXCEPT ![g] = k]
    /\ rm' = [rm EXCEPT ![g] = r]

EnterFoundUncounted(g, k) ==
    /\ m[k] # NoRef
    /\ Enter(g, k, m[k], refs[m[k]])
    /\ UNCHANGED owner

\* The entry exists: count this user of it.
EnterFound(g, k) ==
    /\ m[k] # NoRef
    /\ Enter(g, k, m[k], refs[m[k]] + 1)
    /\ UNCHANGED owner

\* The entry does not exist: make it, unlocked and with this one user.
EnterMade(g, k) ==
    /\ m[k] = NoRef
    /\ \E r \in Ref :
        /\ Fresh(r)
        /\ Enter(g, k, r, 1)
        /\ owner' = [owner EXCEPT ![r] = Nobody]

AcquireOrGiveUp(g) ==
    /\ pc[g] = "waiting"
    /\ IF owner[rm[g]] = Nobody
         THEN owner' = [owner EXCEPT ![rm[g]] = g] /\ pc' = [pc EXCEPT ![g] = "holding"]
         ELSE UNCHANGED owner /\ pc' = [pc EXCEPT ![g] = "unlocked"]
    /\ UNCHANGED <<m, refs, key, rm>>

\* rm.mu.Lock(), outside k.mu.
Acquire(g) ==
    /\ pc[g] = "waiting"
    /\ owner[rm[g]] = Nobody
    /\ owner' = [owner EXCEPT ![rm[g]] = g]
    /\ pc' = [pc EXCEPT ![g] = "holding"]
    /\ UNCHANGED <<m, refs, key, rm>>

\* The unlock closure, first half: rm.mu.Unlock().
Unlock(g) ==
    /\ pc[g] = "holding"
    /\ owner' = [owner EXCEPT ![rm[g]] = Nobody]
    /\ pc' = [pc EXCEPT ![g] = "unlocked"]
    /\ UNCHANGED <<m, refs, key, rm>>

\* The unlock closure, second half, under k.mu: refs--, and the entry goes when
\* `last' says so.
LeaveWhen(g, last) ==
    /\ pc[g] = "unlocked"
    /\ refs' = [refs EXCEPT ![rm[g]] = @ - 1]
    /\ m' = IF last THEN [m EXCEPT ![key[g]] = NoRef] ELSE m
    /\ pc' = [pc EXCEPT ![g] = "idle"]
    /\ rm' = [rm EXCEPT ![g] = NoRef]
    /\ UNCHANGED <<owner, key>>

LeaveDropsEntry(g) == LeaveWhen(g, TRUE)

Leave(g) == LeaveWhen(g, refs[rm[g]] - 1 = 0)

Next == \E g \in Goroutine :
    \/ \E k \in Key : EnterFound(g, k) \/ EnterMade(g, k)
    \/ Acquire(g)
    \/ Unlock(g)
    \/ Leave(g)

\* A goroutine inside lock() or the closure keeps running; its critical section
\* is finite (the callers bound it with a timeout); sync.Mutex is starvation-free.
\* Nothing obliges a goroutine to call lock() at all.
Fairness == \A g \in Goroutine :
    SF_vars(Acquire(g)) /\ WF_vars(Unlock(g)) /\ WF_vars(Leave(g))

Spec == Init /\ [][Next]_vars
FairSpec == Spec /\ Fairness

(***************************************************************************)
(* Properties                                                              *)
(***************************************************************************)

\* At most one goroutine is in the critical section of a key, although the
\* refMutex a goroutine locks was looked up earlier, in another section.
MutualExclusion == \A g, h \in Goroutine :
    (pc[g] = "holding" /\ pc[h] = "holding" /\ key[g] = key[h]) => g = h

\* Everybody who waits for, holds or is leaving the lock of a key has the refMutex
\* the map still holds under that key: an entry in use is never replaced.
OneMutexPerKey == \A g \in Goroutine : InUse(g) => m[key[g]] = rm[g]

\* refs is the number of goroutines that use the entry, and an entry exists only
\* while somebody does ("without leaking map entries", keyedmutex.go:6).
RefsCountUsers == \A k \in Key :
    IF m[k] = NoRef THEN Users(k) = {}
                    ELSE /\ refs[m[k]] = Cardinality(Users(k))
                         /\ Users(k) # {}

\* Whoever calls lock() is eventually granted it, however often others re-lock.
EveryWaiterServed == \A g \in Goroutine : pc[g] = "waiting" ~> pc[g] = "holding"

\* keyedMutex implements one lock per key: read through the goroutines' program
\* counters, every step is a step of KeyLock or none, and its fairness is kept.
Abstract == INSTANCE KeyLock WITH
    waiters <- [k \in Key |-> {g \in Users(k) : pc[g] = "waiting"}],
    holders <- [k \in Key |-> {g \in Users(k) : pc[g] = "holding"}]

ImplementsKeyLock == Abstract!LockSpec
=============================================================================
