-------------------------- MODULE KeyedMutexProofs --------------------------
(***************************************************************************)
(* session.keyedMutex for any finite set of goroutines and any keys: its   *)
(* reference counts are exact, an entry in use is never replaced, a key's  *)
(* critical section has one goroutine at a time, and the whole implements  *)
(* the lock per key of module KeyLock.                                     *)
(***************************************************************************)
EXTENDS KeyedMutex, FiniteSetTheorems, TLAPS

\* Most leaves are first-order logic; those that need arithmetic or records name SMT.
USE Zenon

USE KeyedMutexAssumption

\* Two keys never share a refMutex, and refMutex.mu is held by g exactly when g
\* is in the critical section it entered through that refMutex.
ObjectInv ==
    /\ \A k, l \in Key : (m[k] = m[l] /\ m[k] # NoRef) => k = l
    /\ \A g \in Goroutine : pc[g] = "holding" => owner[rm[g]] = g

\* The inductive invariant: what is proved, with the state that makes it so.
IInv == TypeOK /\ OneMutexPerKey /\ RefsCountUsers /\ ObjectInv

-----------------------------------------------------------------------------

\* The users of a key are finitely many, so they can be counted.
LEMMA UsersFinite ==
    ASSUME NEW k \in Key
    PROVE  /\ IsFiniteSet(Users(k))
           /\ Cardinality(Users(k)) \in Nat
           /\ Cardinality(Users(k)) = 0 <=> Users(k) = {}
  <1>1. IsFiniteSet(Users(k))
    BY FS_Subset DEF Users
  <1> QED
    BY <1>1, FS_CardinalityType, FS_EmptySet

\* What entering does to the users of each key: g joins those of k.
LEMMA EnterUsers ==
    ASSUME TypeOK, NEW g \in Goroutine, NEW k \in Key, pc[g] = "idle",
           pc' = [pc EXCEPT ![g] = "waiting"], key' = [key EXCEPT ![g] = k]
    PROVE  /\ Users(k)' = Users(k) \cup {g}
           /\ g \notin Users(k)
           /\ \A l \in Key : l # k => Users(l)' = Users(l)
  BY SMT DEF TypeOK, Users, InUse

\* What leaving does to the users of each key: g parts from those of its key.
LEMMA LeaveUsers ==
    ASSUME TypeOK, NEW g \in Goroutine, pc[g] = "unlocked",
           pc' = [pc EXCEPT ![g] = "idle"], UNCHANGED key
    PROVE  /\ Users(key[g])' = Users(key[g]) \ {g}
           /\ g \in Users(key[g])
           /\ \A l \in Key : l # key[g] => Users(l)' = Users(l)
  BY DEF TypeOK, Users, InUse

\* A step that moves g between program points inside lock() changes no users.
LEMMA SameUsers ==
    ASSUME TypeOK, NEW g \in Goroutine, InUse(g), UNCHANGED key,
           NEW p \in {"waiting", "holding", "unlocked"}, pc' = [pc EXCEPT ![g] = p]
    PROVE  \A k \in Key : Users(k)' = Users(k)
  BY DEF TypeOK, Users, InUse

-----------------------------------------------------------------------------

\* No goroutine is inside and the map is empty: the invariant holds at the start.
LEMMA InitIInv == Init => IInv
  <1> SUFFICES ASSUME Init PROVE IInv
    OBVIOUS
  <1>1. \A k \in Key : Users(k) = {}
    BY DEF Init, Users, InUse
  <1> QED
    BY <1>1 DEF Init, IInv, TypeOK, OneMutexPerKey, RefsCountUsers, ObjectInv, InUse

\* lock(key) finds an entry: it gains one user and one reference.
LEMMA EnterFoundIInv ==
    ASSUME IInv, NEW g \in Goroutine, NEW k \in Key, EnterFound(g, k)
    PROVE  IInv'
  <1> USE DEF IInv, EnterFound, Enter
  <1>0. /\ Users(k)' = Users(k) \cup {g}
        /\ g \notin Users(k)
        /\ \A l \in Key : l # k => Users(l)' = Users(l)
    BY EnterUsers
  <1>1. TypeOK'
    BY SMT DEF TypeOK, InUse
  <1>2. OneMutexPerKey'
    BY DEF TypeOK, OneMutexPerKey, InUse
  <1>3. RefsCountUsers'
    <2> SUFFICES ASSUME NEW l \in Key
                 PROVE  IF m'[l] = NoRef THEN Users(l)' = {}
                        ELSE /\ refs'[m'[l]] = Cardinality(Users(l)')
                             /\ Users(l)' # {}
      BY DEF RefsCountUsers
    <2>1. CASE l = k
      <3>1. Cardinality(Users(k) \cup {g}) = Cardinality(Users(k)) + 1
        BY <1>0, UsersFinite, FS_AddElement
      <3> QED
        BY <2>1, <3>1, <1>0 DEF TypeOK, RefsCountUsers
    <2>2. CASE l # k
      <3>1. m'[l] = m[l] /\ Users(l)' = Users(l)
        BY <2>2, <1>0 DEF TypeOK
      <3>2. m[l] # NoRef => refs'[m[l]] = refs[m[l]]
        BY SMT, <2>2 DEF TypeOK, ObjectInv
      <3> QED
        BY <3>1, <3>2 DEF RefsCountUsers
    <2> QED
      BY <2>1, <2>2
  <1>4. ObjectInv'
    BY DEF TypeOK, ObjectInv, OneMutexPerKey, InUse
  <1> QED
    BY <1>1, <1>2, <1>3, <1>4

\* lock(key) makes the entry: the new refMutex is nobody else's.
LEMMA EnterMadeIInv ==
    ASSUME IInv, NEW g \in Goroutine, NEW k \in Key, EnterMade(g, k)
    PROVE  IInv'
  <1> PICK r \in Ref : /\ Fresh(r)
                       /\ Enter(g, k, r, 1)
                       /\ owner' = [owner EXCEPT ![r] = Nobody]
    BY DEF EnterMade
  <1>0. m[k] = NoRef /\ Users(k) = {}
    BY DEF EnterMade, IInv, RefsCountUsers
  <1> USE DEF IInv, Enter
  <1>1. TypeOK'
    BY DEF TypeOK, InUse
  <1>2. OneMutexPerKey'
    BY <1>0 DEF TypeOK, OneMutexPerKey, InUse, Users
  <1>3. RefsCountUsers'
    <2> SUFFICES ASSUME NEW l \in Key
                 PROVE  IF m'[l] = NoRef THEN Users(l)' = {}
                        ELSE /\ refs'[m'[l]] = Cardinality(Users(l)')
                             /\ Users(l)' # {}
      BY DEF RefsCountUsers
    <2>1. CASE l = k
      <3>1. Users(k)' = {g}
        <4>1. Users(k)' = Users(k) \cup {g}
          BY EnterUsers
        <4> QED
          BY SMT, <1>0, <4>1
      <3>2. Cardinality({g}) = 1
        BY FS_Singleton
      <3> QED
        BY <2>1, <3>1, <3>2 DEF TypeOK
    <2>2. CASE l # k
      <3>1. m'[l] = m[l] /\ Users(l)' = Users(l)
        BY <2>2, EnterUsers DEF TypeOK
      <3>2. m[l] # NoRef => refs'[m[l]] = refs[m[l]]
        BY DEF TypeOK, Fresh
      <3> QED
        BY <3>1, <3>2 DEF RefsCountUsers
    <2> QED
      BY <2>1, <2>2
  <1>4. ObjectInv'
    BY DEF TypeOK, ObjectInv, Fresh, InUse
  <1> QED
    BY <1>1, <1>2, <1>3, <1>4

\* Taking refMutex.mu, which nobody held.
LEMMA AcquireIInv ==
    ASSUME IInv, NEW g \in Goroutine, Acquire(g)
    PROVE  IInv'
  <1> USE DEF IInv, Acquire
  <1>1. TypeOK' /\ OneMutexPerKey'
    BY DEF TypeOK, OneMutexPerKey, InUse
  <1>2. RefsCountUsers'
    BY SameUsers DEF RefsCountUsers, InUse
  <1>3. ObjectInv'
    BY DEF TypeOK, ObjectInv, InUse
  <1> QED
    BY <1>1, <1>2, <1>3

\* Releasing refMutex.mu.
LEMMA UnlockIInv ==
    ASSUME IInv, NEW g \in Goroutine, Unlock(g)
    PROVE  IInv'
  <1> USE DEF IInv, Unlock
  <1>1. TypeOK' /\ OneMutexPerKey'
    BY DEF TypeOK, OneMutexPerKey, InUse
  <1>2. RefsCountUsers'
    BY SameUsers DEF RefsCountUsers, InUse
  <1>3. ObjectInv'
    BY DEF TypeOK, ObjectInv, InUse
  <1> QED
    BY <1>1, <1>2, <1>3

\* Dropping the reference: the entry goes with its last user and not before.
LEMMA LeaveIInv ==
    ASSUME IInv, NEW g \in Goroutine, Leave(g)
    PROVE  IInv'
  <1> DEFINE k == key[g]
  <1> USE DEF IInv, Leave, LeaveWhen
  <1>0. /\ k \in Key
        /\ m[k] = rm[g]
        /\ rm[g] \in Ref
        /\ refs[rm[g]] = Cardinality(Users(k))
        /\ Users(k)' = Users(k) \ {g}
        /\ \A l \in Key : l # k => Users(l)' = Users(l)
    BY LeaveUsers DEF TypeOK, OneMutexPerKey, RefsCountUsers, InUse
  <1>1. /\ Cardinality(Users(k)') = refs[rm[g]] - 1
        /\ refs[rm[g]] \in Nat
        /\ refs[rm[g]] # 0
        /\ refs[rm[g]] - 1 = 0 <=> Users(k)' = {}
    <2>1. Cardinality(Users(k) \ {g}) = Cardinality(Users(k)) - 1
      BY <1>0, UsersFinite, LeaveUsers, FS_RemoveElement
    <2>2. IsFiniteSet(Users(k) \ {g})
      BY <1>0, UsersFinite, LeaveUsers, FS_RemoveElement
    <2>3. Cardinality(Users(k) \ {g}) = 0 <=> Users(k) \ {g} = {}
      BY <2>2, FS_EmptySet
    <2> QED
      BY SMT, <1>0, <2>1, <2>3, UsersFinite, LeaveUsers DEF TypeOK
  <1>2. TypeOK'
    BY SMT, <1>0, <1>1 DEF TypeOK, InUse
  <1>3. OneMutexPerKey'
    BY <1>0, <1>1 DEF TypeOK, OneMutexPerKey, InUse, Users
  <1>4. RefsCountUsers'
    <2> SUFFICES ASSUME NEW l \in Key
                 PROVE  IF m'[l] = NoRef THEN Users(l)' = {}
                        ELSE /\ refs'[m'[l]] = Cardinality(Users(l)')
                             /\ Users(l)' # {}
      BY DEF RefsCountUsers
    <2>1. CASE l = k
      BY <2>1, <1>0, <1>1 DEF TypeOK
    <2>2. CASE l # k
      BY SMT, <2>2, <1>0 DEF TypeOK, RefsCountUsers, ObjectInv
    <2> QED
      BY <2>1, <2>2
  <1>5. ObjectInv'
    BY <1>0 DEF TypeOK, ObjectInv, InUse
  <1> QED
    BY <1>2, <1>3, <1>4, <1>5

\* Every step of lock() and its closure keeps the inductive invariant.
LEMMA NextIInv == IInv /\ [Next]_vars => IInv'
  <1> SUFFICES ASSUME IInv, [Next]_vars PROVE IInv'
    OBVIOUS
  <1>1. ASSUME NEW g \in Goroutine, NEW k \in Key, EnterFound(g, k) \/ EnterMade(g, k)
        PROVE  IInv'
    BY <1>1, EnterFoundIInv, EnterMadeIInv
  <1>2. ASSUME NEW g \in Goroutine, Acquire(g) \/ Unlock(g) \/ Leave(g)
        PROVE  IInv'
    BY <1>2, AcquireIInv, UnlockIInv, LeaveIInv
  <1>3. CASE UNCHANGED vars
    <2> USE <1>3 DEF vars
    <2>1. \A k \in Key : Users(k)' = Users(k)
      BY DEF Users, InUse
    <2>2. RefsCountUsers'
      BY <2>1 DEF IInv, RefsCountUsers
    <2>3. TypeOK' /\ OneMutexPerKey' /\ ObjectInv'
      BY DEF IInv, TypeOK, OneMutexPerKey, ObjectInv, InUse
    <2> QED
      BY <2>2, <2>3 DEF IInv
  <1> QED
    BY <1>1, <1>2, <1>3 DEF Next

\* keyedMutex keeps its inductive invariant, whatever goroutines do.
THEOREM Invariance == Spec => []IInv
  BY InitIInv, NextIInv, PTL DEF Spec

\* The state of keyedMutex and of every caller keeps its type.
THEOREM TypeCorrect == Spec => []TypeOK
  <1>1. IInv => TypeOK
    BY DEF IInv
  <1> QED
    BY <1>1, Invariance, PTL

\* A reference count is the number of users and no entry outlives them.
THEOREM RefsExact == Spec => []RefsCountUsers
  <1>1. IInv => RefsCountUsers
    BY DEF IInv
  <1> QED
    BY <1>1, Invariance, PTL

\* An entry somebody uses is never replaced under its key.
THEOREM NeverTwoMutexes == Spec => []OneMutexPerKey
  <1>1. IInv => OneMutexPerKey
    BY DEF IInv
  <1> QED
    BY <1>1, Invariance, PTL

\* Two holders of one key hold one refMutex, whose mu has one owner.
LEMMA ExclusionFromIInv == IInv => MutualExclusion
  BY SMT DEF IInv, TypeOK, OneMutexPerKey, ObjectInv, MutualExclusion, InUse

\* Two goroutines are never both in the critical section of one key, although each
\* found its refMutex in an earlier section under k.mu.
THEOREM Exclusion == Spec => []MutualExclusion
  BY Invariance, ExclusionFromIInv, PTL

-----------------------------------------------------------------------------

\* The abstract lock's state, read off the goroutines' program counters.
waitersOf == [k \in Key |-> {g \in Users(k) : pc[g] = "waiting"}]
holdersOf == [k \in Key |-> {g \in Users(k) : pc[g] = "holding"}]

\* keyedMutex's safety part: it starts as, and moves as, one lock per key.
AbstractSafety == Abstract!LockInit /\ [][Abstract!LockNext]_(Abstract!lockVars)

\* At the start nobody waits for or holds an abstract lock.
LEMMA InitRefines == Init => Abstract!LockInit
  BY SMT DEF Init, Abstract!LockInit, Users, InUse

\* Entering lock() asks for the abstract lock of the key.
LEMMA EnterRefines ==
    ASSUME IInv, NEW g \in Goroutine, NEW k \in Key, EnterFound(g, k) \/ EnterMade(g, k)
    PROVE  Abstract!Ask(g, k)
  <1>1. /\ pc[g] = "idle"
        /\ pc' = [pc EXCEPT ![g] = "waiting"]
        /\ key' = [key EXCEPT ![g] = k]
    BY DEF EnterFound, EnterMade, Enter
  <1>2. ~Abstract!Busy(g)
    BY <1>1 DEF Abstract!Busy, Users, InUse
  <1>3. waitersOf' = [waitersOf EXCEPT ![k] = @ \cup {g}]
    <2>1. \A l \in Key : {h \in Users(l) : pc[h] = "waiting"}' =
              IF l = k THEN {h \in Users(l) : pc[h] = "waiting"} \cup {g}
                       ELSE {h \in Users(l) : pc[h] = "waiting"}
      BY SMT, <1>1 DEF Users, InUse, IInv, TypeOK
    <2> QED
      BY <2>1 DEF waitersOf
  <1>4. holdersOf' = holdersOf
    BY <1>1 DEF holdersOf, Users, InUse, IInv, TypeOK
  <1> QED
    BY <1>2, <1>3, <1>4 DEF Abstract!Ask, waitersOf, holdersOf

\* Taking refMutex.mu is a grant: nobody else is in the key's critical section,
\* because they would hold the same refMutex.
LEMMA AcquireRefines ==
    ASSUME IInv, NEW g \in Goroutine, NEW k \in Key, key[g] = k, Acquire(g)
    PROVE  Abstract!Grant(g, k)
  <1> USE DEF IInv, TypeOK, InUse, Acquire
  <1>1. g \in waitersOf[k]
    BY DEF waitersOf, Users
  <1>2. holdersOf[k] = {}
    BY SMT DEF holdersOf, Users, ObjectInv, OneMutexPerKey
  <1>3. waitersOf' = [waitersOf EXCEPT ![k] = @ \ {g}]
    <2>1. \A l \in Key : {h \in Users(l) : pc[h] = "waiting"}' =
              IF l = k THEN {h \in Users(l) : pc[h] = "waiting"} \ {g}
                       ELSE {h \in Users(l) : pc[h] = "waiting"}
      BY DEF Users
    <2> QED
      BY <2>1 DEF waitersOf
  <1>4. holdersOf' = [holdersOf EXCEPT ![k] = {g}]
    <2>1. {h \in Users(k) : pc[h] = "holding"} = {}
      BY <1>2 DEF holdersOf
    <2>2. \A h \in Goroutine : key[h] = k => pc[h] # "holding"
      BY <2>1 DEF Users
    <2>3. \A l \in Key : {h \in Users(l) : pc[h] = "holding"}' =
              IF l = k THEN {g} ELSE {h \in Users(l) : pc[h] = "holding"}
      BY SMT, <2>2 DEF Users
    <2> QED
      BY <2>3 DEF holdersOf
  <1> QED
    BY <1>1, <1>2, <1>3, <1>4 DEF Abstract!Grant, waitersOf, holdersOf

\* Releasing refMutex.mu gives the abstract lock back.
LEMMA UnlockRefines ==
    ASSUME IInv, NEW g \in Goroutine, NEW k \in Key, key[g] = k, Unlock(g)
    PROVE  Abstract!Release(g, k)
  <1> USE DEF IInv, TypeOK, InUse, Unlock
  <1>1. g \in holdersOf[k]
    BY DEF holdersOf, Users
  <1>2. holdersOf' = [holdersOf EXCEPT ![k] = @ \ {g}]
    <2>1. \A l \in Key : {h \in Users(l) : pc[h] = "holding"}' =
              IF l = k THEN {h \in Users(l) : pc[h] = "holding"} \ {g}
                       ELSE {h \in Users(l) : pc[h] = "holding"}
      BY DEF Users
    <2> QED
      BY <2>1 DEF holdersOf
  <1>3. waitersOf' = waitersOf
    BY DEF waitersOf, Users
  <1> QED
    BY <1>1, <1>2, <1>3 DEF Abstract!Release, waitersOf, holdersOf

\* Dropping the reference is invisible: the lock was given back before.
LEMMA LeaveRefines ==
    ASSUME IInv, NEW g \in Goroutine, Leave(g)
    PROVE  UNCHANGED <<waitersOf, holdersOf>>
  BY SMT DEF IInv, TypeOK, InUse, Leave, LeaveWhen, waitersOf, holdersOf, Users

\* Every step of keyedMutex is a step of the lock per key, or changes nothing of it.
LEMMA NextRefines == IInv /\ [Next]_vars => [Abstract!LockNext]_(Abstract!lockVars)
  <1> SUFFICES ASSUME IInv, [Next]_vars
               PROVE  Abstract!LockNext \/ UNCHANGED <<waitersOf, holdersOf>>
    BY DEF Abstract!lockVars, waitersOf, holdersOf
  <1>1. ASSUME NEW g \in Goroutine, NEW k \in Key, EnterFound(g, k) \/ EnterMade(g, k)
        PROVE  Abstract!LockNext
    BY <1>1, EnterRefines DEF Abstract!LockNext
  <1>2. ASSUME NEW g \in Goroutine, Acquire(g) \/ Unlock(g)
        PROVE  Abstract!LockNext
    <2> PICK k \in Key : key[g] = k
      BY DEF IInv, TypeOK
    <2>1. CASE Acquire(g)
      BY <2>1, AcquireRefines DEF Abstract!LockNext
    <2>2. CASE Unlock(g)
      BY <2>2, UnlockRefines DEF Abstract!LockNext
    <2> QED
      BY <1>2, <2>1, <2>2
  <1>3. ASSUME NEW g \in Goroutine, Leave(g)
        PROVE  UNCHANGED <<waitersOf, holdersOf>>
    BY <1>3, LeaveRefines
  <1>4. CASE UNCHANGED vars
    BY <1>4 DEF vars, waitersOf, holdersOf, Users, InUse
  <1> QED
    BY <1>1, <1>2, <1>3, <1>4 DEF Next

\* keyedMutex implements one lock per key (its safety; fairness is TLC's).
THEOREM Refinement == Spec => AbstractSafety
  BY InitRefines, NextRefines, Invariance, PTL DEF Spec, AbstractSafety
=============================================================================
