--------------------------- MODULE GatewayProofs ----------------------------
(***************************************************************************)
(* Whatever the number of requests and of calls of hog.Run, a run leaves   *)
(* nothing running behind it and a run that ends on ctx ends gracefully.   *)
(* Whatever the documents, a gateway that Build returns has mounted every  *)
(* route with all that was asked for it, by the route or by a group that   *)
(* matches, and offers no login that cannot succeed.                       *)
(***************************************************************************)
EXTENDS Lifecycle, GatewayBuild, WellFoundedInduction, TLAPS

Before == {"idle", "load", "tracer", "meter", "build"}
Idle == \A r \in Request \ upgraded : req[r] # "active"
NoneLost == \A r \in Request \ upgraded : span[r] # "lost"

\* Before the goroutine that serves is started there is no server and no request.
Unserved ==
    pc \in Before =>
        /\ server = None /\ errCh = None /\ ~inShutdown
        /\ req = [r \in Request |-> None] /\ span = [r \in Request |-> None]

\* The tracer runs from its setup to the flush, and what a handler leaves is queued.
Traced ==
    /\ pc \in {"meter", "build", "select", "drain"} => "tracer" \in providers /\ NoneLost
    /\ pc \in {"idle", "load", "tracer", "returned", "panicked"} => providers = {}

\* When Run is past its select the server has stopped or is about to, and it stops
\* without an error only for Shutdown.
Stopping ==
    /\ pc = "select" => ~inShutdown
    /\ pc = "drain" => inShutdown /\ ret = "nil"
    /\ pc \in {"flush", "returned", "panicked"} => inShutdown \/ server \in {None, "gone"}
    /\ errCh # None => server = "gone"
    /\ errCh = "nil" => inShutdown
    /\ (server = "stopped" /\ ~failed) => inShutdown

\* The drained requests stay done, and their spans are kept to the flush.
DrainedFirst ==
    (pc \in {"flush", "returned"} /\ ret = "nil" /\ ~overrun) =>
        /\ inShutdown
        /\ Idle
        /\ pc = "flush" \/ collector => NoneLost

IInv ==
    /\ TypeOK
    /\ registered <=> pc # "idle"
    /\ Unserved /\ Traced /\ Stopping /\ DrainedFirst

\* Before the first call nothing runs.
LEMMA InitEstablishes == Init => IInv
  <1> SUFFICES ASSUME Init PROVE IInv
    OBVIOUS
  <1>1. runs \in 0 .. MaxRuns /\ providers \subseteq Providers /\ lines \subseteq Request
    BY LifecycleAssumption DEF Init
  <1>2. TypeOK
    BY Zenon, <1>1 DEF Init, TypeOK
  <1>3. Unserved /\ Traced /\ Stopping /\ DrainedFirst
    BY DEF Init, Unserved, Traced, Stopping, DrainedFirst, None
  <1> QED BY <1>2, <1>3 DEF Init, IInv

\* Every step of hog.Run and of its requests keeps the invariant.
LEMMA NextKeeps == IInv /\ [Next]_vars => IInv'
  <1> SUFFICES ASSUME IInv, [Next]_vars PROVE IInv'
    OBVIOUS
  <1> USE LifecycleAssumption DEF IInv, None, Providers, config, tel, srv, reqVars
  <1>1. CASE Call
    <2>1. TypeOK'
      <3>1. runs' \in 0 .. MaxRuns
        BY <1>1 DEF Call, TypeOK
      <3>2. pc' \in {"panicked", "load"} /\ registered' \in BOOLEAN
        BY <1>1 DEF Call
      <3> QED BY Zenon, <1>1, <3>1, <3>2 DEF Call, TypeOK
    <2>2. Unserved' /\ (registered <=> pc # "idle")'
      BY <1>1 DEF Call, TypeOK, Unserved, Before
    <2>3. Traced'
      BY <1>1 DEF Call, Unserved, Traced, Before
    <2>4. Stopping' /\ DrainedFirst'
      BY <1>1 DEF Call, Stopping, DrainedFirst
    <2> QED BY <2>1, <2>2, <2>3, <2>4
  <1>2. CASE Load
    <2>1. TypeOK'
      BY <1>2 DEF Load, To, Return, TypeOK
    <2>2. Unserved' /\ Traced' /\ (registered <=> pc # "idle")'
      BY <1>2 DEF Load, To, Return, Unserved, Traced, Before
    <2>3. Stopping' /\ DrainedFirst'
      BY <1>2 DEF Load, To, Return, Unserved, Stopping, DrainedFirst, Before
    <2> QED BY <2>1, <2>2, <2>3
  <1>3. CASE SetupTracer
    <2>1. TypeOK'
      <3>1. providers' \subseteq Providers
        BY Zenon, <1>3 DEF SetupTracer, TypeOK
      <3> QED BY <1>3, <3>1 DEF SetupTracer, To, Return, TypeOK
    <2>2. Unserved' /\ (registered <=> pc # "idle")'
      BY <1>3 DEF SetupTracer, To, Return, Unserved, Before
    <2>3. NoneLost
      BY <1>3 DEF SetupTracer, Unserved, Before, NoneLost
    <2>4. Traced'
      BY <1>3, <2>3 DEF SetupTracer, To, Return, Traced, NoneLost
    <2>5. Stopping' /\ DrainedFirst'
      BY <1>3 DEF SetupTracer, To, Return, Unserved, Stopping, DrainedFirst, Before
    <2> QED BY <2>1, <2>2, <2>4, <2>5
  <1>4. CASE SetupMeter
    <2> USE DEF SetupMeter, SetupMeterRollingBack
    <2>1. TypeOK'
      <3>1. providers' \subseteq Providers
        BY Zenon, <1>4 DEF TypeOK
      <3> QED BY <1>4, <3>1 DEF To, Return, TypeOK
    <2>2. Unserved' /\ (registered <=> pc # "idle")'
      BY <1>4 DEF To, Return, Unserved, Before
    <2>3. Traced'
      BY <1>4 DEF To, Return, Traced, NoneLost
    <2>4. Stopping' /\ DrainedFirst'
      BY <1>4 DEF To, Return, Unserved, Stopping, DrainedFirst, Before
    <2> QED BY <2>1, <2>2, <2>3, <2>4
  <1>5. CASE Build
    <2>1. TypeOK'
      BY <1>5 DEF Build, TypeOK
    <2>2. Unserved' /\ Traced' /\ (registered <=> pc # "idle")'
      BY <1>5 DEF Build, Unserved, Traced, Before, NoneLost
    <2>3. Stopping' /\ DrainedFirst'
      BY <1>5 DEF Build, Unserved, Stopping, DrainedFirst, Before
    <2> QED BY <2>1, <2>2, <2>3
  <1>6. CASE Listen \/ Fail \/ Close
    <2>1. TypeOK'
      <3>1. server' \in {"listening", "stopped"} /\ failed' \in BOOLEAN
        BY Zenon, <1>6 DEF Listen, Fail, Close, TypeOK
      <3>2. UNCHANGED <<config, registered, runs, pc, ret, signalled, inShutdown, errCh, tel,
                        reqVars, lines, overrun>>
        BY <1>6 DEF Listen, Fail, Close
      <3> QED BY <3>1, <3>2 DEF TypeOK
    <2>2. Unserved' /\ Traced' /\ (registered <=> pc # "idle")'
      BY <1>6 DEF Listen, Fail, Close, Unserved, Traced, NoneLost
    <2>3. Stopping' /\ DrainedFirst'
      BY <1>6 DEF Listen, Fail, Close, TypeOK, Stopping, DrainedFirst, Idle, NoneLost
    <2> QED BY <2>1, <2>2, <2>3
  <1>7. CASE Report
    <2> USE DEF Report, ReportWhen
    <2>1. TypeOK'
      BY <1>7 DEF TypeOK
    <2>2. Unserved' /\ Traced' /\ (registered <=> pc # "idle")'
      BY <1>7 DEF Unserved, Traced, NoneLost
    <2>3. Stopping' /\ DrainedFirst'
      BY <1>7 DEF Stopping, DrainedFirst, Idle, NoneLost
    <2> QED BY <2>1, <2>2, <2>3
  <1>8. ASSUME NEW r \in Request, Arrive(r) PROVE IInv'
    <2>1. TypeOK'
      BY <1>8 DEF Arrive, TypeOK
    <2>2. Unserved' /\ Traced' /\ (registered <=> pc # "idle")'
      BY <1>8 DEF Arrive, Unserved, Traced, NoneLost
    <2>3. Stopping' /\ DrainedFirst'
      BY <1>8 DEF Arrive, Stopping, DrainedFirst
    <2> QED BY <2>1, <2>2, <2>3
  <1>9. ASSUME NEW r \in Request, Complete(r) PROVE IInv'
    <2>1. TypeOK'
      BY <1>9 DEF Complete, TypeOK
    <2>2. Unserved' /\ (registered <=> pc # "idle")'
      BY <1>9 DEF Complete, Unserved
    <2>3. Traced'
      BY <1>9 DEF Complete, Traced, NoneLost, TypeOK
    <2>4. Stopping'
      BY <1>9 DEF Complete, Stopping
    <2>5. DrainedFirst'
      <3>1. Idle => Idle' /\ (NoneLost => NoneLost')
        BY <1>9 DEF Complete, TypeOK, Idle, NoneLost
      <3> QED BY <1>9, <3>1 DEF Complete, DrainedFirst
    <2> QED BY <2>1, <2>2, <2>3, <2>4, <2>5
  <1>10. CASE Export
    <2>1. TypeOK'
      BY <1>10 DEF Export, TypeOK
    <2>2. NoneLost => NoneLost'
      BY <1>10 DEF Export, NoneLost
    <2>3. Unserved' /\ (registered <=> pc # "idle")'
      BY <1>10 DEF Export, Unserved
    <2>4. Traced' /\ Stopping' /\ DrainedFirst'
      BY <1>10, <2>2 DEF Export, Traced, Stopping, DrainedFirst, Idle
    <2> QED BY <2>1, <2>3, <2>4
  <1>11. CASE Signal
    <2>1. TypeOK'
      BY <1>11 DEF Signal, TypeOK
    <2> QED BY <1>11, <2>1
         DEF Signal, Unserved, Traced, Stopping, DrainedFirst, Idle, NoneLost
  <1>12. CASE SelectDone
    <2> USE DEF SelectDone, SelectDoneThen
    <2>1. TypeOK'
      BY <1>12 DEF TypeOK
    <2>2. Unserved' /\ Traced' /\ (registered <=> pc # "idle")'
      BY <1>12 DEF Unserved, Traced, Before, NoneLost
    <2>3. Stopping' /\ DrainedFirst'
      BY <1>12 DEF Stopping, DrainedFirst
    <2> QED BY <2>1, <2>2, <2>3
  <1>13. CASE SelectErr
    <2>1. TypeOK'
      BY <1>13 DEF SelectErr, TypeOK
    <2>2. ret' # "nil" /\ server' = "gone"
      BY <1>13 DEF SelectErr, Stopping
    <2>3. Unserved' /\ Traced' /\ (registered <=> pc # "idle")'
      BY <1>13 DEF SelectErr, Unserved, Traced, Before
    <2>4. Stopping' /\ DrainedFirst'
      BY <1>13, <2>2 DEF SelectErr, Stopping, DrainedFirst
    <2> QED BY <2>1, <2>3, <2>4
  <1>14. CASE Drained
    <2>1. TypeOK'
      BY <1>14 DEF Drained, To, TypeOK
    <2>2. Unserved' /\ Traced' /\ (registered <=> pc # "idle")'
      BY <1>14 DEF Drained, To, Unserved, Traced, Before
    <2>3. Stopping' /\ DrainedFirst'
      BY <1>14 DEF Drained, To, Stopping, Traced, DrainedFirst, Idle, NoneLost
    <2> QED BY <2>1, <2>2, <2>3
  <1>15. CASE Flush
    <2>1. TypeOK'
      BY <1>15 DEF Flush, TypeOK
    <2>2. NoneLost /\ collector => NoneLost'
      BY <1>15 DEF Flush, NoneLost
    <2>3. Unserved' /\ Traced' /\ (registered <=> pc # "idle")'
      BY <1>15 DEF Flush, Unserved, Traced, Before
    <2>4. Stopping' /\ DrainedFirst'
      BY <1>15, <2>2 DEF Flush, Stopping, DrainedFirst, Idle
    <2> QED BY <2>1, <2>3, <2>4
  <1>16. CASE UNCHANGED vars
    BY <1>16 DEF vars, TypeOK, Unserved, Traced, Stopping, DrainedFirst, Idle, NoneLost
  <1>17. ASSUME NEW r \in Request, Upgrade(r) PROVE IInv'
    <2>1. TypeOK'
      BY <1>17 DEF Upgrade, TypeOK
    <2>2. Unserved' /\ Traced' /\ (registered <=> pc # "idle")'
      BY <1>17 DEF Upgrade, Unserved, Traced, NoneLost
    <2>3. Stopping' /\ DrainedFirst'
      BY <1>17 DEF Upgrade, Stopping, DrainedFirst, Idle, NoneLost
    <2> QED BY <2>1, <2>2, <2>3
  <1> QED
    BY <1>1, <1>2, <1>3, <1>4, <1>5, <1>6, <1>7, <1>8, <1>9, <1>10, <1>11, <1>12, <1>13,
       <1>14, <1>15, <1>16, <1>17 DEF Next, Start, Serving, Stop, Over

\* The inductive invariant of hog.Run holds throughout.
LEMMA Invariance == Spec => []IInv
  BY InitEstablishes, NextKeeps, PTL DEF Spec

\* However hog.Run ends, by a return or by a panic of Build, it leaves no provider running
\* and no server that accepts requests (app.Run's deferred shutdownTel, telemetry.Setup's
\* roll-back and Shutdown before the goroutine listens).
THEOREM Clean == Spec => []NothingLeftRunning
  <1>1. IInv => NothingLeftRunning
    BY DEF IInv, Traced, Stopping, NothingLeftRunning, None
  <1> QED BY <1>1, Invariance, PTL

\* A run that ends on ctx within Shutdown's 10 seconds cuts no request off and loses no
\* span: the requests are waited for before the deferred flush, however many there are.
\* Requests upgraded to another protocol are excepted.
THEOREM Graceful == Spec => []GracefulStop
  <1>1. IInv => GracefulStop
    BY Zenon DEF IInv, DrainedFirst, GracefulStop, Idle, NoneLost
  <1> QED BY <1>1, Invariance, PTL

-----------------------------------------------------------------------------
(* Loops                                                                   *)

\* A set of natural numbers that is not empty has a least one.
LEMMA Least ==
  ASSUME NEW T, T \subseteq Nat, T # {}
  PROVE  \E n \in T : \A m \in T : n <= m
  <1>1. PICK n \in T : \A m \in T : ~(<<m, n>> \in OpToRel(<, Nat))
    BY Zenon, WFMin, NatLessThanWellFounded
  <1>2. ASSUME NEW m \in T PROVE n <= m
    <2>1. ~(m < n)
      BY <1>1 DEF OpToRel
    <2> QED BY <2>1
  <1> QED BY <1>2

\* What holds before a loop and is kept by each turn holds after every turn.
LEMMA Induction ==
  ASSUME NEW n \in Nat, NEW S, 0 \in S, \A i \in 1 .. n : i - 1 \in S => i \in S
  PROVE  0 .. n \subseteq S /\ n \in S
  <1> DEFINE T == (0 .. n) \ S
  <1>0. n \in 0 .. n
    OBVIOUS
  <1> SUFFICES ASSUME T # {} PROVE FALSE
    BY <1>0
  <1>1. PICK k \in T : \A m \in T : k <= m
    <2>1. T \subseteq Nat
      OBVIOUS
    <2> QED BY Zenon, <2>1, Least
  <1>2. k \in 1 .. n /\ k - 1 \in 0 .. n /\ k - 1 \notin T
    BY <1>1
  <1> QED BY <1>2

\* The values f of an accumulator that starts at a and is changed by B, over n turns.
Turns(f, n, a, B) == f = [i \in 0 .. n |-> IF i = 0 THEN a ELSE B[i][f[i - 1]]]

\* A loop of n turns whose body takes D to itself runs to its end.
LEMMA LoopRuns ==
  ASSUME NEW n \in Nat, NEW D, NEW a \in D, NEW B \in [1 .. n -> [D -> D]]
  PROVE  \E f \in [0 .. n -> D] : Turns(f, n, a, B)
  <1> DEFINE Runs(m) == \E f \in [0 .. m -> D] : Turns(f, m, a, B)
             S == {m \in 0 .. n : Runs(m)}
  <1>1. 0 \in S
    <2>1. PICK g : g = [i \in 0 .. 0 |-> a]
      OBVIOUS
    <2>2. g \in [0 .. 0 -> D] /\ Turns(g, 0, a, B)
      BY <2>1 DEF Turns
    <2> QED BY <2>2
  <1>2. ASSUME NEW m \in 1 .. n, m - 1 \in S PROVE m \in S
    <2>1. PICK f \in [0 .. m - 1 -> D] : Turns(f, m - 1, a, B)
      BY <1>2
    <2>2. B[m] \in [D -> D] /\ f[m - 1] \in D
      OBVIOUS
    <2>3. PICK d \in D : d = B[m][f[m - 1]]
      BY <2>2
    <2>4. PICK g : g = [i \in 0 .. m |-> IF i = m THEN d ELSE f[i]]
      OBVIOUS
    <2>5. g \in [0 .. m -> D]
      BY <2>4
    <2>6. ASSUME NEW i \in 0 .. m PROVE g[i] = IF i = 0 THEN a ELSE B[i][g[i - 1]]
      <3>1. CASE i = m
        BY <2>3, <2>4, <3>1
      <3>2. CASE i # m
        <4>1. i \in 0 .. m - 1 /\ g[i] = f[i] /\ (i # 0 => g[i - 1] = f[i - 1])
          BY <2>4, <3>2
        <4>2. f[i] = IF i = 0 THEN a ELSE B[i][f[i - 1]]
          BY <2>1, <4>1 DEF Turns
        <4> QED BY <4>1, <4>2
      <3> QED BY <3>1, <3>2
    <2>7. Turns(g, m, a, B)
      BY <2>5, <2>6 DEF Turns
    <2>8. Runs(m)
      BY <2>5, <2>7
    <2> QED BY <2>8
  <1>3. n \in S
    <2> HIDE DEF S
    <2> QED BY Zenon, <1>1, <1>2, Induction
  <1> QED BY <1>3

\* r is seen with the names of X that it lacked appended to it, each once.
Grown(S, r, seen, X) ==
    /\ r \in Seq(S)
    /\ Len(seen) <= Len(r) /\ \A i \in 1 .. Len(seen) : r[i] = seen[i]
    /\ Range(r) = Range(seen) \cup X
    /\ IsInjective(seen) => IsInjective(r)

LEMMA GrownTwice ==
  ASSUME NEW S, NEW p \in Seq(S), NEW q \in Seq(S), NEW r, NEW X, NEW Y,
         Grown(S, q, p, X), Grown(S, r, q, Y)
  PROVE  Grown(S, r, p, X \cup Y)
  <1>1. Len(p) <= Len(q) /\ Len(q) <= Len(r) /\ Len(p) \in Nat /\ Len(q) \in Nat /\ Len(r) \in Nat
    BY DEF Grown
  <1>2. ASSUME NEW i \in 1 .. Len(p) PROVE r[i] = p[i]
    BY <1>1 DEF Grown
  <1>3. Range(r) = Range(p) \cup (X \cup Y)
    BY Zenon DEF Grown
  <1> QED BY <1>1, <1>2, <1>3 DEF Grown

\* The range of a sequence with one more element.
LEMMA RangeAppend ==
  ASSUME NEW S, NEW s \in Seq(S), NEW x
  PROVE  Range(Append(s, x)) = Range(s) \cup {x}
  <1>1. PICK t : t = Append(s, x)
    OBVIOUS
  <1>2. /\ t \in Seq(S \cup {x}) /\ Len(t) = Len(s) + 1 /\ t[Len(s) + 1] = x
        /\ \A i \in 1 .. Len(s) : t[i] = s[i]
    BY <1>1
  <1>3. DOMAIN t = 1 .. Len(s) + 1 /\ DOMAIN s = 1 .. Len(s) /\ Len(s) \in Nat
    BY <1>2
  <1>4. Range(t) \subseteq Range(s) \cup {x}
    <2> SUFFICES ASSUME NEW i \in 1 .. Len(s) + 1 PROVE t[i] \in Range(s) \cup {x}
      BY <1>3 DEF Range
    <2>1. CASE i = Len(s) + 1
      BY <1>2, <2>1
    <2>2. CASE i \in 1 .. Len(s)
      BY <1>2, <1>3, <2>2 DEF Range
    <2> QED BY <1>3, <2>1, <2>2
  <1>5. Range(s) \cup {x} \subseteq Range(t)
    <2>1. x \in Range(t)
      BY <1>2, <1>3 DEF Range
    <2>2. ASSUME NEW i \in 1 .. Len(s) PROVE s[i] \in Range(t)
      <3>1. i \in DOMAIN t /\ t[i] = s[i]
        BY <1>2, <1>3
      <3> QED BY <3>1 DEF Range
    <2> QED BY <1>3, <2>1, <2>2 DEF Range
  <1> QED BY <1>1, <1>4, <1>5

\* A name that seen lacks is appended to it.
LEMMA AppendGrows ==
  ASSUME NEW S, NEW seen \in Seq(S), NEW n \in S, n \notin Range(seen)
  PROVE  Grown(S, Append(seen, n), seen, {n})
  <1>1. PICK r : r = Append(seen, n)
    OBVIOUS
  <1>2. /\ r \in Seq(S) /\ Len(r) = Len(seen) + 1 /\ r[Len(seen) + 1] = n
        /\ \A i \in 1 .. Len(seen) : r[i] = seen[i]
    BY <1>1
  <1>3. Range(r) = Range(seen) \cup {n}
    <2>1. Range(Append(seen, n)) = Range(seen) \cup {n}
      BY Zenon, RangeAppend
    <2> QED BY <1>1, <2>1
  <1>4. ASSUME IsInjective(seen) PROVE IsInjective(r)
    <2>1. /\ DOMAIN r = 1 .. Len(seen) + 1 /\ DOMAIN seen = 1 .. Len(seen)
          /\ Len(seen) \in Nat
      BY <1>2
    <2>2. \A i \in 1 .. Len(seen) : seen[i] # n
      BY <2>1 DEF Range
    <2>3. ASSUME NEW i \in DOMAIN r, NEW j \in DOMAIN r, r[i] = r[j] PROVE i = j
      <3>1. CASE i \in 1 .. Len(seen) /\ j \in 1 .. Len(seen)
        BY <1>2, <1>4, <2>1, <2>3, <3>1 DEF IsInjective
      <3>2. CASE i = Len(seen) + 1 /\ j \in 1 .. Len(seen)
        BY Zenon, <1>2, <2>2, <2>3, <3>2
      <3>3. CASE j = Len(seen) + 1 /\ i \in 1 .. Len(seen)
        BY Zenon, <1>2, <2>2, <2>3, <3>3
      <3>4. \A k \in DOMAIN r : k \in 1 .. Len(seen) \/ k = Len(seen) + 1
        BY <2>1
      <3> QED BY Zenon, <3>1, <3>2, <3>3, <3>4
    <2> QED BY <2>3 DEF IsInjective
  <1>5. Len(seen) <= Len(r)
    BY <1>2
  <1> QED BY <1>1, <1>2, <1>3, <1>4, <1>5 DEF Grown

\* Nothing is appended.
LEMMA SameGrows ==
  ASSUME NEW S, NEW seen \in Seq(S), NEW X, X \subseteq Range(seen)
  PROVE  Grown(S, seen, seen, X)
  <1>1. Range(seen) = Range(seen) \cup X
    OBVIOUS
  <1>2. Len(seen) <= Len(seen)
    OBVIOUS
  <1> QED BY Zenon, <1>1, <1>2 DEF Grown

\* One turn of add.
LEMMA AddNewGrows ==
  ASSUME NEW S, NEW seen \in Seq(S), NEW n \in S
  PROVE  Grown(S, AddNew(seen, n), seen, {n} \ {""})
  <1>1. CASE n = "" \/ n \in Range(seen)
    <2>1. {n} \ {""} \subseteq Range(seen)
      BY Zenon, <1>1
    <2> QED BY Zenon, <1>1, <2>1, SameGrows DEF AddNew
  <1>2. CASE ~(n = "" \/ n \in Range(seen))
    <2>1. {n} \ {""} = {n}
      BY Zenon, <1>2
    <2>2. AddNew(seen, n) = Append(seen, n)
      BY Zenon, <1>2 DEF AddNew
    <2>3. n \notin Range(seen)
      BY Zenon, <1>2
    <2>4. Grown(S, Append(seen, n), seen, {n})
      BY Zenon, <2>3, AppendGrows
    <2> QED BY Zenon, <2>1, <2>2, <2>4
  <1> QED BY <1>1, <1>2

\* The i-th turn of a loop appends the names of X[i].
AllOf(X, n) == UNION {X[i] : i \in 1 .. n}
GrowsBy(S, f, n, X) == \A i \in 1 .. n : f[i - 1] \in Seq(S) => Grown(S, f[i], f[i - 1], X[i])

\* A loop each of whose turns appends some names appends all of them.
LEMMA LoopGrows ==
  ASSUME NEW S, NEW f, NEW n, NEW X, n \in Nat, f[0] \in Seq(S), GrowsBy(S, f, n, X)
  PROVE  Grown(S, f[n], f[0], AllOf(X, n))
  <1> DEFINE U(m) == AllOf(X, m)
             T == {m \in 0 .. n : Grown(S, f[m], f[0], U(m))}
  <1>1. 0 \in T
    <2>1. U(0) = {}
      BY DEF AllOf
    <2>2. Grown(S, f[0], f[0], U(0))
      BY Zenon, <2>1, SameGrows
    <2> QED BY <2>2
  <1>2. ASSUME NEW m \in 1 .. n, m - 1 \in T PROVE m \in T
    <2>1. Grown(S, f[m - 1], f[0], U(m - 1))
      BY <1>2
    <2>2. f[m - 1] \in Seq(S)
      BY <2>1 DEF Grown
    <2>3. Grown(S, f[m], f[m - 1], X[m])
      BY <2>2 DEF GrowsBy
    <2>4. U(m) = U(m - 1) \cup X[m]
      <3>1. 1 .. m = (1 .. m - 1) \cup {m}
        OBVIOUS
      <3> QED BY Zenon, <3>1 DEF AllOf
    <2>5. Grown(S, f[m], f[0], U(m))
      <3> HIDE DEF U
      <3> QED BY <2>1, <2>2, <2>3, <2>4, GrownTwice
    <2> QED BY <2>5
  <1>3. n \in T
    <2> HIDE DEF T
    <2> QED BY Zenon, <1>1, <1>2, Induction
  <1> QED BY <1>3

\* The values of the accumulator in add(names), where its body keeps to D.
AddTurns(f, seen, names) ==
    f[0] = seen /\ \A i \in 1 .. Len(names) : f[i] = AddNew(f[i - 1], names[i])
AddKeeps(D, names) == \A x \in D, i \in 1 .. Len(names) : AddNew(x, names[i]) \in D

\* add(names) runs to the end.
LEMMA AddAllRuns ==
  ASSUME NEW D, NEW seen, NEW names, Len(names) \in Nat, seen \in D, AddKeeps(D, names)
  PROVE  \E f : AddTurns(f, seen, names) /\ AddAll(seen, names) = f[Len(names)]
  <1>0. PICK n \in Nat : n = Len(names)
    OBVIOUS
  <1> DEFINE B == [i \in 1 .. n |-> [x \in D |-> AddNew(x, names[i])]]
             E(f) == f = [i \in 0 .. n |-> IF i = 0 THEN seen ELSE AddNew(f[i - 1], names[i])]
  <1>1. \E f : E(f)
    <2>1. B \in [1 .. n -> [D -> D]]
      BY <1>0 DEF AddKeeps
    <2>2. PICK f \in [0 .. n -> D] : Turns(f, n, seen, B)
      <3> HIDE DEF B
      <3> QED BY Zenon, <2>1, LoopRuns
    <2>3. \A i \in 0 .. n : i # 0 => B[i][f[i - 1]] = AddNew(f[i - 1], names[i])
      OBVIOUS
    <2> HIDE DEF B
    <2> QED BY <2>2, <2>3 DEF Turns
  <1>2. AddAll(seen, names) = (CHOOSE f : E(f))[n]
    BY Zenon, <1>0 DEF AddAll, ForRange
  <1>3. PICK f : E(f) /\ AddAll(seen, names) = f[n]
    BY Zenon, <1>1, <1>2
  <1>4. f[0] = seen /\ \A i \in 1 .. n : f[i] = AddNew(f[i - 1], names[i])
    BY <1>3
  <1> QED BY Zenon, <1>0, <1>3, <1>4 DEF AddTurns

\* add(names) adds all the names but the empty one.
LEMMA AddAllGrows ==
  ASSUME NEW S, NEW seen \in Seq(S), NEW names \in Seq(S)
  PROVE  Grown(S, AddAll(seen, names), seen, Range(names) \ {""})
  <1>1. PICK n \in Nat : n = Len(names) /\ DOMAIN names = 1 .. n
    OBVIOUS
  <1>2. \A i \in 1 .. n : names[i] \in S
    BY <1>1
  <1>3. \A x \in Seq(S), i \in 1 .. n : Grown(S, AddNew(x, names[i]), x, {names[i]} \ {""})
    BY Zenon, <1>2, AddNewGrows
  <1>4. AddKeeps(Seq(S), names)
    BY Zenon, <1>1, <1>3 DEF AddKeeps, Grown
  <1>5. PICK f : AddTurns(f, seen, names) /\ AddAll(seen, names) = f[n]
    <2>1. Len(names) \in Nat
      BY Zenon, <1>1
    <2>2. \E f : AddTurns(f, seen, names) /\ AddAll(seen, names) = f[Len(names)]
      BY ZenonT(30), <1>4, <2>1, AddAllRuns
    <2> QED BY Zenon, <1>1, <2>2
  <1>6. PICK X : X = [i \in 1 .. n |-> {names[i]} \ {""}]
    BY Zenon
  <1>7. GrowsBy(S, f, n, X)
    BY Zenon, <1>1, <1>3, <1>5, <1>6 DEF AddTurns, GrowsBy
  <1>8. Grown(S, f[n], f[0], AllOf(X, n))
    <2>1. f[0] \in Seq(S)
      BY Zenon, <1>5 DEF AddTurns
    <2> QED BY Zenon, <1>7, <2>1, LoopGrows
  <1>9. AllOf(X, n) = Range(names) \ {""}
    <2>1. \A i \in 1 .. n : \A y : y \in X[i] <=> y = names[i] /\ y # ""
      BY Zenon, <1>6
    <2>2. \A y : y \in Range(names) <=> \E i \in 1 .. n : y = names[i]
      BY Zenon, <1>1 DEF Range
    <2>3. ASSUME NEW y PROVE y \in AllOf(X, n) <=> y \in Range(names) \ {""}
      <3>1. y \in AllOf(X, n) <=> \E i \in 1 .. n : y \in X[i]
        BY Zenon DEF AllOf
      <3> QED BY Zenon, <2>1, <2>2, <3>1
    <2> QED BY Zenon, <2>3
  <1> QED BY Zenon, <1>5, <1>8, <1>9 DEF AddTurns

\* The loop of Where over s, when the elements at M pass its test.
Collects(f, s, M) ==
    f = [i \in 0 .. Len(s) |->
           IF i = 0 THEN <<>> ELSE IF i \in M THEN Append(f[i - 1], s[i]) ELSE f[i - 1]]

\* It runs to the end.
LEMMA CollectRuns ==
  ASSUME NEW S, NEW s, NEW M, s \in Seq(S)
  PROVE  \E f : Collects(f, s, M)
  <1>1. PICK n \in Nat : n = Len(s) /\ \A i \in 1 .. n : s[i] \in S
    OBVIOUS
  <1> DEFINE B == [i \in 1 .. n |-> [x \in Seq(S) |-> IF i \in M THEN Append(x, s[i]) ELSE x]]
  <1>2. B \in [1 .. n -> [Seq(S) -> Seq(S)]]
    <2>1. \A x \in Seq(S), i \in 1 .. n : (IF i \in M THEN Append(x, s[i]) ELSE x) \in Seq(S)
      BY <1>1
    <2> QED BY Zenon, <2>1
  <1>3. PICK f \in [0 .. n -> Seq(S)] : Turns(f, n, <<>>, B)
    <2>1. <<>> \in Seq(S)
      OBVIOUS
    <2> HIDE DEF B
    <2> QED BY Zenon, <1>2, <2>1, LoopRuns
  <1>4. ASSUME NEW i \in 0 .. n, i # 0
        PROVE  B[i][f[i - 1]] = IF i \in M THEN Append(f[i - 1], s[i]) ELSE f[i - 1]
    <2>1. i \in 1 .. n /\ f[i - 1] \in Seq(S)
      BY <1>4
    <2> QED BY Zenon, <2>1
  <1>5. Collects(f, s, M)
    <2> HIDE DEF B
    <2> QED BY Zenon, <1>1, <1>3, <1>4 DEF Turns, Collects
  <1> QED BY Zenon, <1>5

Increasing(r) == \A k, l \in DOMAIN r : k < l => r[k] < r[l]
Numbers(s) == \A i \in 1 .. Len(s) : s[i] = i

\* r is what s has at M, in order.
Collected(S, s, M, r) ==
    /\ r \in Seq(S) /\ Range(r) = {s[i] : i \in M}
    /\ Numbers(s) => Increasing(r)

\* It collects what passes, in order.
LEMMA CollectsAll ==
  ASSUME NEW S, NEW s, NEW M, NEW f, s \in Seq(S), M \subseteq 1 .. Len(s), Collects(f, s, M)
  PROVE  Collected(S, s, M, f[Len(s)])
  <1>1. PICK n \in Nat : n = Len(s) /\ \A i \in 1 .. n : s[i] \in S
    OBVIOUS
  <1>2. f[0] = <<>> /\ \A i \in 1 .. n : f[i] = IF i \in M THEN Append(f[i - 1], s[i]) ELSE f[i - 1]
    <2>1. 0 \in 0 .. Len(s) /\ \A i \in 1 .. n : i \in 0 .. Len(s) /\ i # 0
      BY <1>1
    <2> QED BY Zenon, <2>1 DEF Collects
  <1> DEFINE Upto(m) == {s[i] : i \in M \cap (1 .. m)}
             Good(m) == /\ f[m] \in Seq(S) /\ Range(f[m]) = Upto(m)
                        /\ Numbers(s) => Increasing(f[m])
             T == {m \in 0 .. n : Good(m)}
  <1>3. 0 \in T
    <2>1. /\ f[0] \in Seq(S) /\ DOMAIN f[0] = {} /\ 1 .. 0 = {} /\ 0 \in 0 .. n
      BY <1>2
    <2> QED BY Zenon, <2>1 DEF Range, Increasing
  <1>4. ASSUME NEW m \in 1 .. n, m - 1 \in T PROVE m \in T
    <2>1. PICK p : p = f[m - 1]
      BY Zenon
    <2>2. p \in Seq(S) /\ Range(p) = Upto(m - 1) /\ (Numbers(s) => Increasing(p))
      BY Zenon, <1>4, <2>1
    <2>3. 1 .. m = (1 .. m - 1) \cup {m} /\ m \in 0 .. n
      OBVIOUS
    <2>4. CASE m \notin M
      <3>1. f[m] = p /\ Upto(m) = Upto(m - 1)
        BY Zenon, <1>2, <2>1, <2>3, <2>4
      <3>2. Good(m)
        BY Zenon, <2>2, <3>1
      <3> QED BY Zenon, <2>3, <3>2
    <2>5. CASE m \in M
      <3>0. PICK x \in S : x = s[m]
        BY Zenon, <1>1
      <3>1. PICK q : q = Append(p, x)
        BY Zenon
      <3>2. f[m] = q
        BY Zenon, <1>2, <2>1, <2>5, <3>0, <3>1
      <3>3. /\ q \in Seq(S) /\ Len(q) = Len(p) + 1 /\ q[Len(p) + 1] = x
            /\ \A i \in 1 .. Len(p) : q[i] = p[i]
        BY <2>2, <3>1
      <3>4. Upto(m) = Upto(m - 1) \cup {x}
        BY Zenon, <2>3, <2>5, <3>0
      <3>5. Range(q) = Upto(m)
        <4>1. Range(q) = Range(p) \cup {x}
          <5>1. Range(Append(p, x)) = Range(p) \cup {x}
            BY Zenon, <2>2, RangeAppend
          <5> QED BY Zenon, <3>1, <5>1
        <4> QED BY Zenon, <2>2, <3>4, <4>1
      <3>6. ASSUME Numbers(s) PROVE Increasing(q)
        <4>1. \A i \in 1 .. Len(p) : p[i] \in 1 .. m - 1
          <5>1. DOMAIN p = 1 .. Len(p)
            BY <2>2
          <5>2. \A i \in 1 .. Len(p) : p[i] \in Upto(m - 1)
            BY Zenon, <2>2, <5>1 DEF Range
          <5>3. \A i \in M \cap (1 .. m - 1) : s[i] = i
            BY <1>1, <3>6 DEF Numbers
          <5> QED BY Zenon, <5>2, <5>3
        <4>2. x = m
          BY Zenon, <1>1, <3>0, <3>6 DEF Numbers
        <4>3. /\ DOMAIN q = 1 .. Len(p) + 1 /\ DOMAIN p = 1 .. Len(p) /\ Len(p) \in Nat
          BY <2>2, <3>3
        <4>4. ASSUME NEW k \in DOMAIN q, NEW l \in DOMAIN q, k < l PROVE q[k] < q[l]
          <5>1. k \in 1 .. Len(p)
            BY <4>3, <4>4
          <5>2. CASE l \in 1 .. Len(p)
            BY Zenon, <2>2, <3>3, <3>6, <4>3, <4>4, <5>1, <5>2 DEF Increasing
          <5>3. CASE l = Len(p) + 1
            <6>1. q[l] = m /\ q[k] \in 1 .. m - 1
              BY Zenon, <3>3, <4>1, <4>2, <5>1, <5>3
            <6> QED BY <6>1
          <5> QED BY <4>3, <5>2, <5>3
        <4> QED BY Zenon, <4>4 DEF Increasing
      <3>7. Good(m)
        BY Zenon, <3>2, <3>3, <3>5, <3>6
      <3> QED BY Zenon, <2>3, <3>7
    <2> QED BY <2>4, <2>5
  <1>5. n \in T
    <2> HIDE DEF T
    <2> QED BY Zenon, <1>3, <1>4, Induction
  <1>6. Upto(n) = {s[i] : i \in M}
    BY Zenon, <1>1
  <1> QED BY Zenon, <1>1, <1>5, <1>6 DEF Collected

-----------------------------------------------------------------------------
(* route.Resolve                                                           *)

\* The groups are a sequence of RouteGroup documents and rt a Route document.
Documented == rt \in Route /\ groups \in Seq(Group)

\* What the loop over the groups adds at each of them.
Added(i) == IF Applies(groups[i]) THEN Range(groups[i].spec.authorize) \ {""} ELSE {}

\* A list of policies is a sequence of names, in a route and in every group.
LEMMA PolicyLists ==
  ASSUME Documented
  PROVE  /\ own.authorize \in Seq(STRING)
         /\ \A i \in 1 .. Len(groups) : groups[i].spec.authorize \in Seq(STRING)
  <1>1. \A d \in DocSpec : d.authorize \in Seq(STRING)
    <2>1. ASSUME NEW A, NEW B, NEW C, NEW D, NEW d \in [type : A, auth : B, authorize : C, onDeny : D]
          PROVE  d.authorize \in C
      OBVIOUS
    <2> QED BY Zenon, <2>1, AccessAssumption
  <1>2. own \in DocSpec
    BY DEF Documented, Route, own
  <1>3. \A i \in 1 .. Len(groups) : groups[i].spec \in DocSpec
    <2>1. \A i \in 1 .. Len(groups) : groups[i] \in Group
      BY DEF Documented
    <2>2. \A g \in Group : g.spec \in DocSpec
      BY DEF Group
    <2> QED BY Zenon, <2>1, <2>2
  <1> QED BY Zenon, <1>1, <1>2, <1>3

\* The values of authorize in the second loop of Resolve over the groups.
AuthorizeTurns(f) ==
    f[0] = AuthorizeOwn /\ \A i \in 1 .. Len(groups) : f[i] = AddGroupsOwn(f[i - 1], groups[i])
AuthorizeKeeps(D) == \A x \in D, i \in 1 .. Len(groups) : AddGroupsOwn(x, groups[i]) \in D

\* The loop runs to the end.
LEMMA AuthorizeRuns ==
  ASSUME NEW D, Len(groups) \in Nat, AuthorizeOwn \in D, AuthorizeKeeps(D)
  PROVE  \E f : AuthorizeTurns(f) /\ Authorize = f[Len(groups)]
  <1>0. PICK n \in Nat : n = Len(groups)
    OBVIOUS
  <1> DEFINE B == [i \in 1 .. n |-> [x \in D |-> AddGroupsOwn(x, groups[i])]]
             E(f) == f = [i \in 0 .. n |->
                            IF i = 0 THEN AuthorizeOwn ELSE AddGroupsOwn(f[i - 1], groups[i])]
  <1>1. \E f : E(f)
    <2>1. B \in [1 .. n -> [D -> D]]
      BY <1>0 DEF AuthorizeKeeps
    <2>2. PICK f \in [0 .. n -> D] : Turns(f, n, AuthorizeOwn, B)
      <3> HIDE DEF B
      <3> QED BY Zenon, <2>1, LoopRuns
    <2>3. \A i \in 0 .. n : i # 0 => B[i][f[i - 1]] = AddGroupsOwn(f[i - 1], groups[i])
      OBVIOUS
    <2> HIDE DEF B
    <2> QED BY <2>2, <2>3 DEF Turns
  <1>2. Authorize = (CHOOSE f : E(f))[n]
    BY Zenon, <1>0 DEF Authorize, ForRange
  <1>3. PICK f : E(f) /\ Authorize = f[n]
    BY Zenon, <1>1, <1>2
  <1>4. f[0] = AuthorizeOwn /\ \A i \in 1 .. n : f[i] = AddGroupsOwn(f[i - 1], groups[i])
    BY <1>3
  <1> QED BY Zenon, <1>0, <1>3, <1>4 DEF AuthorizeTurns

\* The policies of a route are its own, then those of the groups that match, each once.
LEMMA AuthorizeGrows ==
  ASSUME Documented
  PROVE  /\ Grown(STRING, AuthorizeOwn, <<>>, Range(own.authorize) \ {""})
         /\ Grown(STRING, Authorize, AuthorizeOwn, UNION {Added(i) : i \in 1 .. Len(groups)})
  <1>1. PICK n \in Nat : n = Len(groups) /\ DOMAIN groups = 1 .. n
    BY DEF Documented
  <1>2. Grown(STRING, AuthorizeOwn, <<>>, Range(own.authorize) \ {""})
    <2>1. <<>> \in Seq(STRING)
      OBVIOUS
    <2> QED BY Zenon, <2>1, PolicyLists, AddAllGrows DEF AuthorizeOwn
  <1>3. \A x \in Seq(STRING), i \in 1 .. n : Grown(STRING, AddGroupsOwn(x, groups[i]), x, Added(i))
    <2> SUFFICES ASSUME NEW x \in Seq(STRING), NEW i \in 1 .. n
                 PROVE  Grown(STRING, AddGroupsOwn(x, groups[i]), x, Added(i))
      OBVIOUS
    <2>1. CASE Applies(groups[i])
      <3>1. groups[i].spec.authorize \in Seq(STRING)
        BY Zenon, <1>1, PolicyLists
      <3> QED BY Zenon, <2>1, <3>1, AddAllGrows DEF AddGroupsOwn, Added
    <2>2. CASE ~Applies(groups[i])
      <3>1. AddGroupsOwn(x, groups[i]) = x /\ Added(i) = {}
        BY Zenon, <2>2 DEF AddGroupsOwn, Added
      <3>2. {} \subseteq Range(x)
        BY Zenon
      <3> QED BY Zenon, <3>1, <3>2, SameGrows
    <2> QED BY <2>1, <2>2
  <1>4. AuthorizeKeeps(Seq(STRING)) /\ AuthorizeOwn \in Seq(STRING)
    BY Zenon, <1>1, <1>2, <1>3 DEF AuthorizeKeeps, Grown
  <1>5. PICK f : AuthorizeTurns(f) /\ Authorize = f[n]
    <2>1. Len(groups) \in Nat
      BY Zenon, <1>1
    <2>2. \E f : AuthorizeTurns(f) /\ Authorize = f[Len(groups)]
      BY ZenonT(30), <1>4, <2>1, AuthorizeRuns
    <2> QED BY Zenon, <1>1, <2>2
  <1>6. PICK X : X = [i \in 1 .. n |-> Added(i)]
    BY Zenon
  <1>7. GrowsBy(STRING, f, n, X)
    BY Zenon, <1>1, <1>3, <1>5, <1>6 DEF AuthorizeTurns, GrowsBy
  <1>8. Grown(STRING, f[n], f[0], AllOf(X, n))
    <2>1. f[0] \in Seq(STRING)
      BY Zenon, <1>4, <1>5 DEF AuthorizeTurns
    <2> QED BY Zenon, <1>7, <2>1, LoopGrows
  <1>9. AllOf(X, n) = UNION {Added(i) : i \in 1 .. n}
    BY Zenon, <1>6 DEF AllOf
  <1> QED BY Zenon, <1>1, <1>2, <1>5, <1>8, <1>9 DEF AuthorizeTurns

\* A loop that takes v[i] at the turns i of M and changes nothing at the others, and the
\* last turn of M.
TakesLast(f, v, n, M) == \A i \in 1 .. n : f[i] = IF i \in M THEN v[i] ELSE f[i - 1]
LastIn(M) == CHOOSE i \in M : \A j \in M : j <= i
Took(f, v, n, M) ==
    IF M = {} THEN f[n] = f[0] ELSE LastIn(M) \in M /\ f[n] = v[LastIn(M)]

\* The last of some turns is one of them.
LEMMA HasLast ==
  ASSUME NEW n \in Nat, NEW M, M \subseteq 1 .. n, M # {}
  PROVE  LastIn(M) \in M
  <1>1. PICK T : T = {t \in 0 .. n : n - t \in M}
    BY Zenon
  <1>2. \A i \in M : i \in Nat /\ n - i \in T
    BY <1>1
  <1>3. PICK t \in T : \A u \in T : t <= u
    <2>1. T \subseteq Nat
      BY <1>1
    <2>2. T # {}
      BY Zenon, <1>2
    <2> QED BY Zenon, <2>1, <2>2, Least
  <1>4. t \in Nat /\ n - t \in M
    BY <1>1
  <1>5. \A j \in M : j <= n - t
    BY <1>2, <1>3, <1>4
  <1> QED BY Zenon, <1>4, <1>5 DEF LastIn

\* Such a loop leaves what it takes at the last of those turns.
LEMMA LastWins ==
  ASSUME NEW f, NEW v, NEW n, NEW M, n \in Nat, M \subseteq 1 .. n, TakesLast(f, v, n, M)
  PROVE  Took(f, v, n, M)
  <1> DEFINE Last(k, m) == k \in M /\ k <= m /\ \A j \in M : j <= m => j <= k
             Upto(m) == \/ \E k : Last(k, m) /\ f[m] = v[k]
                        \/ f[m] = f[0] /\ \A j \in M : ~(j <= m)
             T == {m \in 0 .. n : Upto(m)}
  <1>1. 0 \in T
    OBVIOUS
  <1>2. ASSUME NEW m \in 1 .. n, m - 1 \in T PROVE m \in T
    <2>0. m \in 0 .. n
      OBVIOUS
    <2>1. Upto(m - 1) /\ f[m] = IF m \in M THEN v[m] ELSE f[m - 1]
      BY <1>2 DEF TakesLast
    <2>2. CASE m \in M
      <3>1. Last(m, m) /\ f[m] = v[m]
        BY <2>1, <2>2
      <3> QED BY <3>1
    <2>3. CASE m \notin M
      <3>1. \A j \in M : j <= m <=> j <= m - 1
        BY <2>3
      <3>2. f[m] = f[m - 1]
        BY <2>1, <2>3
      <3>3. \A k : Last(k, m) <=> Last(k, m - 1)
        BY Zenon, <3>1
      <3>4. CASE \E k : Last(k, m - 1) /\ f[m - 1] = v[k]
        <4> HIDE DEF Last
        <4>1. \E k : Last(k, m) /\ f[m] = v[k]
          BY Zenon, <3>2, <3>3, <3>4
        <4> QED BY Zenon, <2>0, <4>1
      <3>5. CASE f[m - 1] = f[0] /\ \A j \in M : ~(j <= m - 1)
        BY <3>1, <3>2, <3>5
      <3> QED BY Zenon, <2>1, <3>4, <3>5
    <2> QED BY <2>2, <2>3
  <1>3. n \in T
    <2> HIDE DEF T
    <2> QED BY Zenon, <1>1, <1>2, Induction
  <1>4. Upto(n)
    BY Zenon, <1>3
  <1>5. CASE M = {}
    BY Zenon, <1>4, <1>5 DEF Took
  <1>6. CASE M # {}
    <2>0. \A j \in M : j <= n
      OBVIOUS
    <2>1. PICK k \in M : f[n] = v[k] /\ \A j \in M : j <= k
      BY Zenon, <1>4, <1>6, <2>0
    <2>2. LastIn(M) \in M /\ \A j \in M : j <= LastIn(M)
      BY Zenon, <2>1 DEF LastIn
    <2>3. LastIn(M) = k
      <3>1. PICK c : c = LastIn(M)
        BY Zenon
      <3>2. c \in M /\ k <= c /\ c <= k
        BY Zenon, <2>1, <2>2, <3>1
      <3>3. c = k
        BY <3>2
      <3> QED BY Zenon, <3>1, <3>3
    <2> QED BY Zenon, <1>6, <2>1, <2>3 DEF Took
  <1> QED BY <1>5, <1>6

\* The values of gType, gAuth and onDeny in the first loop of Resolve over the groups.
LaterTurns(f) == f[0] = Unset /\ \A i \in 1 .. Len(groups) : f[i] = Later(f[i - 1], groups[i])
LaterKeeps(D) == \A x \in D, i \in 1 .. Len(groups) : Later(x, groups[i]) \in D

\* The loop runs to the end.
LEMMA FromGroupsRuns ==
  ASSUME NEW D, Len(groups) \in Nat, Unset \in D, LaterKeeps(D)
  PROVE  \E f : LaterTurns(f) /\ FromGroups = f[Len(groups)]
  <1>0. PICK n \in Nat : n = Len(groups)
    OBVIOUS
  <1> DEFINE B == [i \in 1 .. n |-> [x \in D |-> Later(x, groups[i])]]
             E(f) == f = [i \in 0 .. n |-> IF i = 0 THEN Unset ELSE Later(f[i - 1], groups[i])]
  <1>1. \E f : E(f)
    <2>1. B \in [1 .. n -> [D -> D]]
      BY <1>0 DEF LaterKeeps
    <2>2. PICK f \in [0 .. n -> D] : Turns(f, n, Unset, B)
      <3> HIDE DEF B
      <3> QED BY Zenon, <2>1, LoopRuns
    <2>3. \A i \in 0 .. n : i # 0 => B[i][f[i - 1]] = Later(f[i - 1], groups[i])
      OBVIOUS
    <2> HIDE DEF B
    <2> QED BY <2>2, <2>3 DEF Turns
  <1>2. FromGroups = (CHOOSE f : E(f))[n]
    BY Zenon, <1>0 DEF FromGroups, ForRange
  <1>3. PICK f : E(f) /\ FromGroups = f[n]
    BY Zenon, <1>1, <1>2
  <1>4. f[0] = Unset /\ \A i \in 1 .. n : f[i] = Later(f[i - 1], groups[i])
    BY <1>3
  <1> QED BY Zenon, <1>0, <1>3, <1>4 DEF LaterTurns

\* The fields of what Later leaves.
LEMMA OverrideFields ==
  ASSUME NEW a, NEW b
  PROVE  /\ Override(a, b).type = firstNonEmpty(a.type, b.type)
         /\ Override(a, b).auth = firstNonEmpty(a.auth, b.auth)
         /\ Override(a, b).onDeny = firstNonNil(a.onDeny, b.onDeny)
  <1>1. ASSUME NEW x, NEW y, NEW z, NEW r, r = [type |-> x, auth |-> y, onDeny |-> z]
        PROVE  r.type = x /\ r.auth = y /\ r.onDeny = z
    BY <1>1
  <1> QED BY Zenon, <1>1 DEF Override

LEMMA UnsetFields == Unset.type = "" /\ Unset.auth = "" /\ Unset.onDeny = "nil"
  BY DEF Unset

\* Values of gType, gAuth and onDeny.  (The provers do not know that "" is a string.)
Value == STRING \cup {"", "nil"}
Access == [type : Value, auth : Value, onDeny : Value]

\* Every turn of the loop leaves such values.
LEMMA LaterStays ==
  ASSUME Documented
  PROVE  Unset \in Access /\ LaterKeeps(Access)
  <1>1. ASSUME NEW S, NEW x \in S, NEW y \in S, NEW z \in S
        PROVE  [type |-> x, auth |-> y, onDeny |-> z] \in [type : S, auth : S, onDeny : S]
    OBVIOUS
  <1>2. Unset \in Access
    <2>1. "" \in Value /\ "nil" \in Value
      BY Zenon DEF Value
    <2> QED BY Zenon, <1>1, <2>1 DEF Unset, Access
  <1>3. ASSUME NEW x \in Access, NEW d \in DocSpec PROVE Override(d, x) \in Access
    <2>1. d.type \in STRING /\ d.auth \in STRING /\ d.onDeny \in STRING
      <3>1. ASSUME NEW A, NEW B, NEW C, NEW D,
                   NEW r \in [type : A, auth : B, authorize : C, onDeny : D]
            PROVE  r.type \in A /\ r.auth \in B /\ r.onDeny \in D
        OBVIOUS
      <3> QED BY Zenon, <3>1, AccessAssumption
    <2>2. x.type \in Value /\ x.auth \in Value /\ x.onDeny \in Value
      <3>1. ASSUME NEW A, NEW B, NEW C, NEW r \in [type : A, auth : B, onDeny : C]
            PROVE  r.type \in A /\ r.auth \in B /\ r.onDeny \in C
        OBVIOUS
      <3> QED BY Zenon, <3>1 DEF Access
    <2>3. /\ firstNonEmpty(d.type, x.type) \in Value /\ firstNonEmpty(d.auth, x.auth) \in Value
          /\ firstNonNil(d.onDeny, x.onDeny) \in Value
      BY Zenon, <2>1, <2>2 DEF firstNonEmpty, firstNonNil, Value
    <2> QED BY Zenon, <1>1, <2>3 DEF Override, Access
  <1>4. \A i \in 1 .. Len(groups) : groups[i].spec \in DocSpec
    <2>1. \A i \in 1 .. Len(groups) : groups[i] \in Group
      BY DEF Documented
    <2>2. \A g \in Group : g.spec \in DocSpec
      BY DEF Group
    <2> QED BY Zenon, <2>1, <2>2
  <1> QED BY Zenon, <1>2, <1>3, <1>4 DEF LaterKeeps, Later

\* GroupsApply of any documents.
LEMMA Applied == ASSUME Documented PROVE GroupsApply
  <1>1. PICK n \in Nat : n = Len(groups) /\ DOMAIN groups = 1 .. n
    BY DEF Documented
  <1>2. PICK f : LaterTurns(f) /\ FromGroups = f[n]
    <2>1. Len(groups) \in Nat
      BY Zenon, <1>1
    <2>2. \E f : LaterTurns(f) /\ FromGroups = f[Len(groups)]
      BY Zenon, <2>1, LaterStays, FromGroupsRuns
    <2> QED BY Zenon, <1>1, <2>2
  <1>3. ASSUME NEW i \in 1 .. n
        PROVE  /\ f[i].type = IF Applies(groups[i]) /\ groups[i].spec.type # ""
                                THEN groups[i].spec.type ELSE f[i - 1].type
               /\ f[i].auth = IF Applies(groups[i]) /\ groups[i].spec.auth # ""
                                THEN groups[i].spec.auth ELSE f[i - 1].auth
               /\ f[i].onDeny = IF Applies(groups[i]) /\ groups[i].spec.onDeny # "nil"
                                  THEN groups[i].spec.onDeny ELSE f[i - 1].onDeny
    <2>1. f[i] = IF Applies(groups[i]) THEN Override(groups[i].spec, f[i - 1]) ELSE f[i - 1]
      BY Zenon, <1>1, <1>2 DEF LaterTurns, Later
    <2>2. CASE Applies(groups[i])
      <3>1. f[i] = Override(groups[i].spec, f[i - 1])
        BY Zenon, <2>1, <2>2
      <3>2. PICK d, e : d = groups[i].spec /\ e = f[i - 1]
        BY Zenon
      <3>3. f[i] = Override(d, e)
        BY Zenon, <3>1, <3>2
      <3>4. /\ f[i].type = firstNonEmpty(d.type, e.type)
            /\ f[i].auth = firstNonEmpty(d.auth, e.auth)
            /\ f[i].onDeny = firstNonNil(d.onDeny, e.onDeny)
        BY Zenon, <3>3, OverrideFields
      <3> QED BY Zenon, <2>2, <3>2, <3>4 DEF firstNonEmpty, firstNonNil
    <2>3. CASE ~Applies(groups[i])
      BY Zenon, <2>1, <2>3
    <2> QED BY <2>2, <2>3
  <1>4. FromGroups.type = LastOf(LAMBDA g : g.type, "")
    <2>1. PICK h : h = [i \in 0 .. n |-> f[i].type]
      BY Zenon
    <2>2. PICK v : v = [i \in 1 .. n |-> groups[i].spec.type]
      BY Zenon
    <2>3. PICK M : M = {i \in DOMAIN groups : Applies(groups[i]) /\ groups[i].spec.type # ""}
      BY Zenon
    <2>4. TakesLast(h, v, n, M)
      <3> SUFFICES ASSUME NEW i \in 1 .. n PROVE h[i] = IF i \in M THEN v[i] ELSE h[i - 1]
        BY Zenon DEF TakesLast
      <3>1. h[i] = f[i].type /\ h[i - 1] = f[i - 1].type
        BY <2>1
      <3>2. f[i].type = IF i \in M THEN v[i] ELSE f[i - 1].type
        BY Zenon, <1>1, <1>3, <2>2, <2>3
      <3> QED BY Zenon, <3>1, <3>2
    <2>5. h[0] = "" /\ h[n] = FromGroups.type
      <3>1. h[0] = f[0].type /\ h[n] = f[n].type
        BY <2>1
      <3> QED BY Zenon, <1>2, <3>1, UnsetFields DEF LaterTurns
    <2>6. M \subseteq 1 .. n
      BY Zenon, <1>1, <2>3
    <2>7. Took(h, v, n, M)
      BY Zenon, <2>4, <2>6, LastWins
    <2>8. LastOf(LAMBDA g : g.type, "") = IF M = {} THEN "" ELSE groups[LastIn(M)].spec.type
      <3> DEFINE N == {i \in DOMAIN groups : Applies(groups[i]) /\ groups[i].spec.type # ""}
      <3>1. LastOf(LAMBDA g : g.type, "") = IF N = {} THEN "" ELSE groups[LastIn(N)].spec.type
        BY Zenon DEF LastOf, LastIn
      <3> QED BY Zenon, <2>3, <3>1
    <2> QED BY Zenon, <2>2, <2>5, <2>6, <2>7, <2>8 DEF Took
  <1>5. FromGroups.auth = LastOf(LAMBDA g : g.auth, "")
    <2>1. PICK h : h = [i \in 0 .. n |-> f[i].auth]
      BY Zenon
    <2>2. PICK v : v = [i \in 1 .. n |-> groups[i].spec.auth]
      BY Zenon
    <2>3. PICK M : M = {i \in DOMAIN groups : Applies(groups[i]) /\ groups[i].spec.auth # ""}
      BY Zenon
    <2>4. TakesLast(h, v, n, M)
      <3> SUFFICES ASSUME NEW i \in 1 .. n PROVE h[i] = IF i \in M THEN v[i] ELSE h[i - 1]
        BY Zenon DEF TakesLast
      <3>1. h[i] = f[i].auth /\ h[i - 1] = f[i - 1].auth
        BY <2>1
      <3>2. f[i].auth = IF i \in M THEN v[i] ELSE f[i - 1].auth
        BY Zenon, <1>1, <1>3, <2>2, <2>3
      <3> QED BY Zenon, <3>1, <3>2
    <2>5. h[0] = "" /\ h[n] = FromGroups.auth
      <3>1. h[0] = f[0].auth /\ h[n] = f[n].auth
        BY <2>1
      <3> QED BY Zenon, <1>2, <3>1, UnsetFields DEF LaterTurns
    <2>6. M \subseteq 1 .. n
      BY Zenon, <1>1, <2>3
    <2>7. Took(h, v, n, M)
      BY Zenon, <2>4, <2>6, LastWins
    <2>8. LastOf(LAMBDA g : g.auth, "") = IF M = {} THEN "" ELSE groups[LastIn(M)].spec.auth
      <3> DEFINE N == {i \in DOMAIN groups : Applies(groups[i]) /\ groups[i].spec.auth # ""}
      <3>1. LastOf(LAMBDA g : g.auth, "") = IF N = {} THEN "" ELSE groups[LastIn(N)].spec.auth
        BY Zenon DEF LastOf, LastIn
      <3> QED BY Zenon, <2>3, <3>1
    <2> QED BY Zenon, <2>2, <2>5, <2>6, <2>7, <2>8 DEF Took
  <1>6. FromGroups.onDeny = LastOf(LAMBDA g : g.onDeny, "nil")
    <2>1. PICK h : h = [i \in 0 .. n |-> f[i].onDeny]
      BY Zenon
    <2>2. PICK v : v = [i \in 1 .. n |-> groups[i].spec.onDeny]
      BY Zenon
    <2>3. PICK M : M = {i \in DOMAIN groups : Applies(groups[i]) /\ groups[i].spec.onDeny # "nil"}
      BY Zenon
    <2>4. TakesLast(h, v, n, M)
      <3> SUFFICES ASSUME NEW i \in 1 .. n PROVE h[i] = IF i \in M THEN v[i] ELSE h[i - 1]
        BY Zenon DEF TakesLast
      <3>1. h[i] = f[i].onDeny /\ h[i - 1] = f[i - 1].onDeny
        BY <2>1
      <3>2. f[i].onDeny = IF i \in M THEN v[i] ELSE f[i - 1].onDeny
        BY Zenon, <1>1, <1>3, <2>2, <2>3
      <3> QED BY Zenon, <3>1, <3>2
    <2>5. h[0] = "nil" /\ h[n] = FromGroups.onDeny
      <3>1. h[0] = f[0].onDeny /\ h[n] = f[n].onDeny
        BY <2>1
      <3> QED BY Zenon, <1>2, <3>1, UnsetFields DEF LaterTurns
    <2>6. M \subseteq 1 .. n
      BY Zenon, <1>1, <2>3
    <2>7. Took(h, v, n, M)
      BY Zenon, <2>4, <2>6, LastWins
    <2>8. LastOf(LAMBDA g : g.onDeny, "nil") = IF M = {} THEN "nil" ELSE groups[LastIn(M)].spec.onDeny
      <3> DEFINE N == {i \in DOMAIN groups : Applies(groups[i]) /\ groups[i].spec.onDeny # "nil"}
      <3>1. LastOf(LAMBDA g : g.onDeny, "nil") = IF N = {} THEN "nil" ELSE groups[LastIn(N)].spec.onDeny
        BY Zenon DEF LastOf, LastIn
      <3> QED BY Zenon, <2>3, <3>1
    <2> QED BY Zenon, <2>2, <2>5, <2>6, <2>7, <2>8 DEF Took
  <1>7. Range(Authorize) =
          (Range(own.authorize) \cup UNION {Range(groups[i].spec.authorize) :
             i \in {j \in DOMAIN groups : Applies(groups[j])}}) \ {""}
    <2>1. Range(<<>>) = {}
      BY DEF Range
    <2>2. Range(Authorize) = (Range(own.authorize) \ {""}) \cup UNION {Added(i) : i \in 1 .. n}
      BY Zenon, <1>1, <2>1, AuthorizeGrows DEF Grown
    <2>3. ASSUME NEW y
          PROVE  y \in UNION {Added(i) : i \in 1 .. n} <=>
                 y # "" /\ \E i \in 1 .. n : Applies(groups[i]) /\ y \in Range(groups[i].spec.authorize)
      BY Zenon DEF Added
    <2>4. ASSUME NEW y
          PROVE  y \in UNION {Range(groups[i].spec.authorize) :
                               i \in {j \in DOMAIN groups : Applies(groups[j])}} <=>
                 \E i \in 1 .. n : Applies(groups[i]) /\ y \in Range(groups[i].spec.authorize)
      BY Zenon, <1>1
    <2> QED BY Zenon, <2>2, <2>3, <2>4
  <1>8. IsInjective(Authorize)
    <2>1. IsInjective(<<>>)
      BY DEF IsInjective
    <2> QED BY Zenon, <2>1, AuthorizeGrows DEF Grown
  <1>9. SubSeq(Authorize, 1, Len(AuthorizeOwn)) = AuthorizeOwn
    <2>1. ASSUME NEW S, NEW p \in Seq(S), NEW r \in Seq(S), Len(p) <= Len(r),
                 \A i \in 1 .. Len(p) : r[i] = p[i]
          PROVE  SubSeq(r, 1, Len(p)) = p
      BY <2>1
    <2> QED BY Zenon, <2>1, AuthorizeGrows DEF Grown
  <1> QED BY Zenon, <1>4, <1>5, <1>6, <1>7, <1>8, <1>9 DEF GroupsApply

-----------------------------------------------------------------------------
(* What the documents ask for                                              *)

\* The documents of a kind are those of the documents that have it.
LEMMA OfKindIs ==
  ASSUME NEW S, NEW docs \in Seq(S), NEW k
  PROVE  /\ OfKind(docs, k) \in Seq(S)
         /\ Range(OfKind(docs, k)) = {docs[i] : i \in {j \in 1 .. Len(docs) : docs[j].kind = k}}
  <1>1. PICK M : M = {j \in 1 .. Len(docs) : docs[j].kind = k}
    BY Zenon
  <1> DEFINE E(f) == f = [i \in 0 .. Len(docs) |->
                            IF i = 0 THEN <<>>
                            ELSE IF docs[i].kind = k THEN Append(f[i - 1], docs[i]) ELSE f[i - 1]]
  <1>2. OfKind(docs, k) = (CHOOSE f : E(f))[Len(docs)]
    BY Zenon DEF OfKind, Where, ForRange
  <1>3. \A i \in 0 .. Len(docs) : i # 0 => (i \in M <=> docs[i].kind = k)
    BY <1>1
  <1>4. ASSUME NEW f PROVE E(f) <=> Collects(f, docs, M)
    BY Zenon, <1>3 DEF Collects
  <1> HIDE DEF E
  <1>5. PICK f : Collects(f, docs, M) /\ OfKind(docs, k) = f[Len(docs)]
    <2>1. \E f : Collects(f, docs, M)
      BY Zenon, CollectRuns
    <2>2. PICK f : f = CHOOSE g : E(g)
      BY Zenon
    <2>3. E(f)
      BY Zenon, <1>4, <2>1, <2>2
    <2> QED BY Zenon, <1>2, <1>4, <2>2, <2>3
  <1>6. M \subseteq 1 .. Len(docs)
    BY Zenon, <1>1
  <1>7. Collected(S, docs, M, OfKind(docs, k))
    BY Zenon, <1>5, <1>6, CollectsAll
  <1> QED BY Zenon, <1>1, <1>7 DEF Collected

\* The plugins of a kind for the route at hand are the documents that select it, in order.
LEMMA SelectingIs ==
  ASSUME NEW S, documents \in Seq(S), NEW k
  PROVE  /\ Selecting(k) \in Seq(1 .. Len(documents)) /\ Increasing(Selecting(k))
         /\ Range(Selecting(k)) =
              {i \in 1 .. Len(documents) : documents[i].kind = k /\ Selects(documents[i], next)}
  <1>1. PICK n \in Nat : n = Len(documents) /\ DOMAIN documents = 1 .. n
    OBVIOUS
  <1>2. PICK s : s = [i \in DOMAIN documents |-> i]
    BY Zenon
  <1>3. s \in Seq(1 .. n) /\ Len(s) = n /\ \A i \in 1 .. n : s[i] = i
    BY <1>1, <1>2
  <1>4. PICK M : M = {j \in 1 .. n : documents[j].kind = k /\ Selects(documents[j], next)}
    BY Zenon
  <1> DEFINE E(f) == f = [i \in 0 .. Len(s) |->
                            IF i = 0 THEN <<>>
                            ELSE IF /\ documents[s[i]].kind = k
                                    /\ Matches(documents[s[i]].selector, next.rt.labels)
                              THEN Append(f[i - 1], s[i]) ELSE f[i - 1]]
  <1>5. Selecting(k) = (CHOOSE f : E(f))[Len(s)]
    BY Zenon, <1>2 DEF Selecting, Where, ForRange
  <1>6. ASSUME NEW i \in 0 .. Len(s), i # 0
        PROVE  i \in M <=> /\ documents[s[i]].kind = k
                           /\ Matches(documents[s[i]].selector, next.rt.labels)
    <2>1. i \in 1 .. n
      BY <1>3, <1>6
    <2> QED BY Zenon, <1>3, <1>4, <2>1 DEF Selects
  <1>7. ASSUME NEW f PROVE E(f) <=> Collects(f, s, M)
    BY Zenon, <1>6 DEF Collects
  <1> HIDE DEF E
  <1>8. PICK f : Collects(f, s, M) /\ Selecting(k) = f[Len(s)]
    <2>1. \E f : Collects(f, s, M)
      BY Zenon, <1>3, CollectRuns
    <2>2. PICK f : f = CHOOSE g : E(g)
      BY Zenon
    <2>3. E(f)
      BY Zenon, <1>7, <2>1, <2>2
    <2> QED BY Zenon, <1>5, <1>7, <2>2, <2>3
  <1>9. M \subseteq 1 .. Len(s) /\ Numbers(s) /\ {s[i] : i \in M} = M
    BY Zenon, <1>3, <1>4 DEF Numbers
  <1>10. Collected(1 .. n, s, M, Selecting(k))
    <2>1. s \in Seq(1 .. n) /\ M \subseteq 1 .. Len(s)
      BY Zenon, <1>3, <1>9
    <2>2. Collected(1 .. n, s, M, f[Len(s)])
      BY Zenon, <1>8, <2>1, CollectsAll
    <2> QED BY Zenon, <1>8, <2>2
  <1>11. Selecting(k) \in Seq(1 .. n) /\ Increasing(Selecting(k)) /\ Range(Selecting(k)) = M
    <2>1. /\ Selecting(k) \in Seq(1 .. n) /\ Increasing(Selecting(k))
          /\ Range(Selecting(k)) = {s[i] : i \in M}
      BY Zenon, <1>9, <1>10 DEF Collected
    <2> QED BY Zenon, <1>9, <2>1
  <1> QED BY Zenon, <1>1, <1>4, <1>11

\* The plugins of a chain: request plugins first and each kind in document order.
Ordered(p) == \A k, l \in DOMAIN p : k < l =>
    IF documents[p[k]].kind = documents[p[l]].kind THEN p[k] < p[l]
    ELSE documents[p[k]].kind = "RequestPlugin"

\* p is the plugins that select a route.
Runs(p, r) ==
    /\ Range(p) = {k \in DOMAIN documents :
                    /\ documents[k].kind \in {"RequestPlugin", "ResponsePlugin"}
                    /\ Selects(documents[k], r)}
    /\ Ordered(p)

Chosen == Selecting("RequestPlugin") \o Selecting("ResponsePlugin")

\* p is a followed by b.
Joined(p, a, b) ==
    /\ Range(p) = Range(a) \cup Range(b)
    /\ Len(a) \in Nat /\ DOMAIN a = 1 .. Len(a) /\ DOMAIN p \subseteq Nat
    /\ \A k \in DOMAIN p : \/ k \in DOMAIN a /\ p[k] = a[k]
                           \/ k - Len(a) \in DOMAIN b /\ p[k] = b[k - Len(a)] /\ k > Len(a)

\* What a followed by b consists of.
LEMMA Concatenated ==
  ASSUME NEW S, NEW a \in Seq(S), NEW b \in Seq(S)
  PROVE  Joined(a \o b, a, b)
  <1>0. PICK p : p = a \o b
    BY Zenon
  <1>1. /\ p \in Seq(S) /\ Len(p) = Len(a) + Len(b) /\ Len(a) \in Nat /\ Len(b) \in Nat
        /\ DOMAIN a = 1 .. Len(a) /\ DOMAIN b = 1 .. Len(b) /\ DOMAIN p = 1 .. Len(a) + Len(b)
        /\ \A k \in 1 .. Len(a) : p[k] = a[k]
        /\ \A k \in Len(a) + 1 .. Len(a) + Len(b) : p[k] = b[k - Len(a)]
    BY <1>0
  <1>2. \A k \in DOMAIN p : \/ k \in DOMAIN a /\ p[k] = a[k]
                            \/ k - Len(a) \in DOMAIN b /\ p[k] = b[k - Len(a)] /\ k > Len(a)
    BY <1>1
  <1>3. ASSUME NEW k \in DOMAIN a PROVE k \in DOMAIN p /\ p[k] = a[k]
    BY <1>1
  <1>4. ASSUME NEW k \in DOMAIN b PROVE k + Len(a) \in DOMAIN p /\ p[k + Len(a)] = b[k]
    <2>1. k \in 1 .. Len(b) /\ k + Len(a) \in Len(a) + 1 .. Len(a) + Len(b)
      BY <1>1
    <2>2. k + Len(a) \in 1 .. Len(a) + Len(b) /\ (k + Len(a)) - Len(a) = k
      BY <1>1, <2>1
    <2> QED BY Zenon, <1>1, <2>1, <2>2
  <1>5. Range(p) = Range(a) \cup Range(b)
    <2>1. ASSUME NEW y \in Range(p) PROVE y \in Range(a) \cup Range(b)
      BY Zenon, <1>2 DEF Range
    <2>2. ASSUME NEW y \in Range(a) PROVE y \in Range(p)
      BY Zenon, <1>3 DEF Range
    <2>3. ASSUME NEW y \in Range(b) PROVE y \in Range(p)
      BY Zenon, <1>4 DEF Range
    <2> QED BY Zenon, <2>1, <2>2, <2>3
  <1>6. DOMAIN p \subseteq Nat
    BY <1>1
  <1> QED BY Zenon, <1>0, <1>1, <1>2, <1>5, <1>6 DEF Joined

\* resolvePlugins takes the plugins that select the next route.
LEMMA ChosenAre ==
  ASSUME NEW S, documents \in Seq(S)
  PROVE  Runs(Chosen, next)
  <1> DEFINE C(kind) == {i \in 1 .. Len(documents) : documents[i].kind = kind /\ Selects(documents[i], next)}
  <1>0. PICK a, b, p : a = Selecting("RequestPlugin") /\ b = Selecting("ResponsePlugin") /\ p = a \o b
    BY Zenon
  <1>1. /\ a \in Seq(1 .. Len(documents)) /\ Increasing(a) /\ Range(a) = C("RequestPlugin")
        /\ b \in Seq(1 .. Len(documents)) /\ Increasing(b) /\ Range(b) = C("ResponsePlugin")
    BY Zenon, <1>0, SelectingIs
  <1>2. DOMAIN documents = 1 .. Len(documents)
    OBVIOUS
  <1>3. Joined(p, a, b)
    BY Zenon, <1>0, <1>1, Concatenated
  <1>4. PICK n \in Nat : n = Len(a) /\ DOMAIN a = 1 .. n /\ DOMAIN p \subseteq Nat
    BY Zenon, <1>3 DEF Joined
  <1>5. Range(p) = {k \in DOMAIN documents :
                      /\ documents[k].kind \in {"RequestPlugin", "ResponsePlugin"}
                      /\ Selects(documents[k], next)}
    <2>1. Range(p) = C("RequestPlugin") \cup C("ResponsePlugin")
      BY Zenon, <1>1, <1>3 DEF Joined
    <2> QED BY Zenon, <1>2, <2>1
  <1>6. /\ \A k \in DOMAIN a : documents[a[k]].kind = "RequestPlugin"
        /\ \A k \in DOMAIN b : documents[b[k]].kind = "ResponsePlugin"
    BY Zenon, <1>1 DEF Range
  <1>7. ASSUME NEW k \in DOMAIN p, NEW l \in DOMAIN p, k < l,
               documents[p[k]].kind # "RequestPlugin" \/ documents[p[k]].kind = documents[p[l]].kind
        PROVE  p[k] < p[l] /\ documents[p[k]].kind = documents[p[l]].kind
    <2>1. CASE k \in DOMAIN a /\ p[k] = a[k] /\ l \in DOMAIN a /\ p[l] = a[l]
      BY Zenon, <1>1, <1>6, <1>7, <2>1 DEF Increasing
    <2>2. CASE k \in DOMAIN a /\ p[k] = a[k] /\ l - n \in DOMAIN b /\ p[l] = b[l - n]
      BY Zenon, <1>6, <1>7, <2>2
    <2>3. CASE /\ k - n \in DOMAIN b /\ p[k] = b[k - n] /\ k > n
               /\ l - n \in DOMAIN b /\ p[l] = b[l - n]
      <3>1. k - n < l - n
        BY <1>4, <1>7
      <3> QED BY Zenon, <1>1, <1>6, <2>3, <3>1 DEF Increasing
    <2>4. ~(k > n /\ l \in DOMAIN a)
      BY <1>4, <1>7
    <2> QED BY Zenon, <1>3, <1>4, <2>1, <2>2, <2>3, <2>4 DEF Joined
  <1>8. Ordered(p)
    BY Zenon, <1>7 DEF Ordered
  <1> QED BY Zenon, <1>0, <1>5, <1>8 DEF Chosen, Runs

\* The routes are Route documents.
LEMMA RoutesAre ==
  ASSUME documents \in Documents
  PROVE  /\ \E S : documents \in Seq(S)
         /\ Len(routes) \in Nat /\ DOMAIN routes = 1 .. Len(routes)
         /\ \A i \in DOMAIN routes : routes[i].rt \in Route
  <1>1. PICK S : S = Range(documents)
    BY Zenon
  <1>2. documents \in Seq(S)
    BY Zenon, <1>1, DocumentsAssumption
  <1>3. /\ routes \in Seq(S)
        /\ Range(routes) =
             {documents[i] : i \in {j \in 1 .. Len(documents) : documents[j].kind = "Route"}}
    <2>1. routes = OfKind(documents, "Route")
      BY Zenon DEF routes, Kind
    <2>2. /\ OfKind(documents, "Route") \in Seq(S)
          /\ Range(OfKind(documents, "Route")) =
               {documents[i] : i \in {j \in 1 .. Len(documents) : documents[j].kind = "Route"}}
      BY Zenon, <1>2, OfKindIs
    <2> QED BY Zenon, <2>1, <2>2
  <1>4. Len(routes) \in Nat /\ DOMAIN routes = 1 .. Len(routes) /\ DOMAIN documents = 1 .. Len(documents)
    BY <1>2, <1>3
  <1>5. ASSUME NEW i \in DOMAIN routes PROVE routes[i].rt \in Route
    <2>1. routes[i] \in Range(routes)
      BY Zenon DEF Range
    <2> QED BY Zenon, <1>3, <1>4, <2>1, DocumentsAssumption
  <1> QED BY Zenon, <1>2, <1>4, <1>5

\* A chain has what the documents ask for its route.
Enforces(c, r) ==
    /\ Range(c.authorize) = (UNION {Range(a.authorize) : a \in Speaking(r)}) \ {""}
    /\ Range(c.authorize) \subseteq policies
    /\ Runs(c.plugins, r)
    /\ (c.type = "service" /\ ~c.required) => \E a \in Speaking(r) : a.auth = "public"

\* The groups that apply to the route at hand are those that select it.
LEMMA SpeakingAre ==
  ASSUME Documented, rt = next.rt, NEW a
  PROVE  a \in Speaking(next) <=>
           a = own \/ \E i \in DOMAIN groups : Applies(groups[i]) /\ a = groups[i].spec
  BY Zenon DEF Speaking, Selects, Applies, own, Range

\* Resolve leaves a service open only if its own access or that of a group says so.
LEMMA OpenIfTold ==
  ASSUME Documented, rt = next.rt, Valid, EffectiveType = "service", EffectiveAuth # "required"
  PROVE  \E a \in Speaking(next) : a.auth = "public"
  <1>1. EffectiveAuth = "public"
    BY Zenon DEF Valid
  <1>2. PICK set : set = firstNonEmpty(own.auth, FromGroups.auth)
    BY Zenon
  <1>3. set = "public"
    <2>1. set # ""
      BY Zenon, <1>2 DEF EffectiveAuth, ToLower
    <2>2. ToLower(set) = "public"
      BY Zenon, <1>1, <1>2, <2>1 DEF EffectiveAuth
    <2> QED BY <2>2 DEF ToLower
  <1>4. CASE own.auth # ""
    BY Zenon, <1>2, <1>3, <1>4, SpeakingAre DEF firstNonEmpty
  <1>5. CASE own.auth = ""
    <2>1. FromGroups.auth = "public"
      BY Zenon, <1>2, <1>3, <1>5 DEF firstNonEmpty
    <2>2. FromGroups.auth = LastOf(LAMBDA g : g.auth, "")
      BY Zenon, Applied DEF GroupsApply
    <2>3. PICK M : M = {i \in DOMAIN groups : Applies(groups[i]) /\ groups[i].spec.auth # ""}
      BY Zenon
    <2>4. LastOf(LAMBDA g : g.auth, "") = IF M = {} THEN "" ELSE groups[LastIn(M)].spec.auth
      <3> DEFINE N == {i \in DOMAIN groups : Applies(groups[i]) /\ groups[i].spec.auth # ""}
      <3>1. LastOf(LAMBDA g : g.auth, "") = IF N = {} THEN "" ELSE groups[LastIn(N)].spec.auth
        BY Zenon DEF LastOf, LastIn
      <3> QED BY Zenon, <2>3, <3>1
    <2>5. M # {} /\ groups[LastIn(M)].spec.auth = "public"
      BY Zenon, <2>1, <2>2, <2>4
    <2>6. LastIn(M) \in M
      <3>1. Len(groups) \in Nat /\ DOMAIN groups = 1 .. Len(groups)
        BY DEF Documented
      <3>2. M \subseteq 1 .. Len(groups)
        BY Zenon, <2>3, <3>1
      <3> QED BY Zenon, <2>5, <3>1, <3>2, HasLast
    <2> QED BY Zenon, <2>3, <2>5, <2>6, SpeakingAre
  <1> QED BY Zenon, <1>4, <1>5

\* The policies of the route at hand are those of the blocks that speak of it.
LEMMA PoliciesAre ==
  ASSUME Documented, rt = next.rt
  PROVE  Range(Authorize) = (UNION {Range(a.authorize) : a \in Speaking(next)}) \ {""}
  <1>1. Range(Authorize) =
          (Range(own.authorize) \cup UNION {Range(groups[i].spec.authorize) :
             i \in {j \in DOMAIN groups : Applies(groups[j])}}) \ {""}
    BY Zenon, Applied DEF GroupsApply
  <1>2. ASSUME NEW y
        PROVE  y \in UNION {Range(a.authorize) : a \in Speaking(next)} <=>
                 \/ y \in Range(own.authorize)
                 \/ \E i \in DOMAIN groups : Applies(groups[i]) /\ y \in Range(groups[i].spec.authorize)
    <2>1. y \in UNION {Range(a.authorize) : a \in Speaking(next)} <=>
            \E a \in Speaking(next) : y \in Range(a.authorize)
      BY Zenon
    <2> QED BY Zenon, <2>1, SpeakingAre
  <1>3. ASSUME NEW y
        PROVE  y \in UNION {Range(groups[i].spec.authorize) :
                             i \in {j \in DOMAIN groups : Applies(groups[j])}} <=>
                 \E i \in DOMAIN groups : Applies(groups[i]) /\ y \in Range(groups[i].spec.authorize)
    BY Zenon
  <1>4. ASSUME NEW y
        PROVE  y \in Range(Authorize) <=>
               y \in (UNION {Range(a.authorize) : a \in Speaking(next)}) \ {""}
    <2>1. y \in Range(Authorize) <=>
            /\ y # ""
            /\ \/ y \in Range(own.authorize)
               \/ y \in UNION {Range(groups[i].spec.authorize) :
                               i \in {j \in DOMAIN groups : Applies(groups[j])}}
      BY Zenon, <1>1
    <2> QED BY Zenon, <1>2, <1>3, <2>1
  <1> QED BY Zenon, <1>4

\* Nothing is mounted yet.
LEMMA EmptyMounts ==
    \A m : m = <<>> => Len(m) = 0 /\ 1 .. Len(m) = {} /\ \E S : m \in Seq(S)
  <1> SUFFICES ASSUME NEW m, m = <<>>
               PROVE  Len(m) = 0 /\ 1 .. Len(m) = {} /\ \E S : m \in Seq(S)
    OBVIOUS
  <1>1. m \in Seq({}) /\ Len(m) = 0 /\ 1 .. 0 = {}
    BY SMT
  <1> QED BY <1>1

\* The inductive invariant: between resolvePlugins and Mount, rt and plugins are those of
\* the route at hand, and every chain mounted has what was asked for.
Enforcing ==
    /\ documents \in Documents /\ Documented
    /\ stage = "mount" => Len(mux) < Len(routes) /\ rt = next.rt /\ Runs(plugins, next)
    /\ \A i \in 1 .. Len(mux) : Enforces(mux[i], routes[i])

\* Runs speaks of nothing but the documents.
LEMMA RunsStill ==
  ASSUME NEW p, NEW r, UNCHANGED documents
  PROVE  Runs(p, r)' <=> Runs(p, r)
  <1>1. Ordered(p)' <=> Ordered(p)
    BY Zenon DEF Ordered
  <1>2. ASSUME NEW k PROVE Selects(documents'[k], r) <=> Selects(documents[k], r)
    BY Zenon
  <1> QED BY Zenon, <1>1, <1>2 DEF Runs

\* What a chain has to do depends on the documents, the groups and the policies.
LEMMA StillEnforces ==
  ASSUME NEW c, NEW r, Enforces(c, r), UNCHANGED <<documents, groups, policies>>
  PROVE  Enforces(c, r)'
  <1>1. Speaking(r)' = Speaking(r)
    BY Zenon DEF Speaking, Selects
  <1>2. Runs(c.plugins, r)'
    BY Zenon, RunsStill DEF Enforces
  <1> QED BY Zenon, <1>1, <1>2 DEF Enforces

\* A chain that stays mounted goes on to have it.
LEMMA EnforcesStill ==
  ASSUME NEW i, Enforces(mux[i], routes[i]), UNCHANGED <<documents, groups, policies>>,
         mux'[i] = mux[i]
  PROVE  Enforces(mux[i], routes[i])'
  <1>1. routes' = routes
    BY DEF routes, Kind
  <1>2. PICK c, r : c = mux[i] /\ r = routes[i]
    BY Zenon
  <1>3. Enforces(c, r)'
    BY Zenon, <1>2, StillEnforces
  <1> QED BY Zenon, <1>1, <1>2, <1>3

\* A step of Build that mounts nothing.
LEMMA EnforcingStays ==
  ASSUME Enforcing, UNCHANGED <<documents, groups, mux>>, rt' \in Route,
         UNCHANGED policies \/ mux = <<>>,
         stage' = "mount" => Len(mux) < Len(routes) /\ rt' = next.rt /\ Runs(plugins', next)
  PROVE  Enforcing'
  <1>1. routes' = routes /\ next' = next
    BY Zenon DEF routes, Kind, next
  <1>2. \A i \in 1 .. Len(mux) : Enforces(mux[i], routes[i])'
    <2>1. CASE mux = <<>>
      BY Zenon, <2>1, EmptyMounts
    <2>2. CASE UNCHANGED policies
      BY Zenon, <2>2, EnforcesStill DEF Enforcing
    <2> QED BY Zenon, <2>1, <2>2
  <1>3. \A p, r : Runs(p, r) <=> Runs(p, r)'
    BY Zenon, RunsStill
  <1>4. Documented'
    BY Zenon DEF Enforcing, Documented
  <1>5. (stage = "mount" => Len(mux) < Len(routes) /\ rt = next.rt /\ Runs(plugins, next))'
    BY Zenon, <1>1, <1>3 
  <1> QED BY Zenon, <1>1, <1>2, <1>4, <1>5 DEF Enforcing

\* An operator's edit leaves a sequence of RouteGroup documents.
LEMMA EditKeeps ==
  ASSUME groups \in Seq(Group), EditNext
  PROVE  groups' \in Seq(Group) /\ rt' = rt
  <1>1. ASSUME AddGroup PROVE groups' \in Seq(Group)
    BY <1>1 DEF AddGroup
  <1>2. ASSUME RemoveGroup PROVE groups' \in Seq(Group)
    BY <1>2 DEF RemoveGroup
  <1>3. ASSUME Reorder PROVE groups' \in Seq(Group)
    BY <1>3 DEF Reorder
  <1> QED BY <1>1, <1>2, <1>3 DEF EditNext, AddGroup, RemoveGroup, Reorder

-----------------------------------------------------------------------------
(* Build                                                                   *)

\* Most leaves are first-order logic; those that need arithmetic or sequences name SMT.
USE Zenon

noIdP == <<"no IdP", 0>>

\* What the stages of Build have settled about logging in.
Settled ==
    /\ stage # "serving" => endpoints = {}
    /\ stage \in {"stopped", "idp", "session"} => sess = "none"
    /\ (stage \notin {"refused", "panicked"} /\ sess # "none") =>
         ~(active.present /\ active.verifyOnly)
    /\ (stage \in {"compile", "route", "mount", "serving"} /\ sess # "none" /\ ~active.present) =>
         noIdP \in warned
    /\ stage = "serving" =>
         IF active.present /\ sess # "none" THEN Login \in endpoints ELSE endpoints = {}

\* ServeMux gets the login path first of all.
LEMMA LoginFirst == Login \in Range(AuthEndpoints)
  <1> DEFINE a == Login
             b == [method |-> "POST", path |-> gateway.auth.logout]
             c == [method |-> "", path |-> callbackPath]
             d == [method |-> "", path |-> gateway.infoPath]
  <1>1. AuthEndpoints = <<a, b, c, d>>
    BY DEF AuthEndpoints
  <1> HIDE DEF a, b, c, d
  <1>2. 1 \in DOMAIN AuthEndpoints /\ AuthEndpoints[1] = a
    BY SMT, <1>1
  <1> QED BY <1>2 DEF Range, a

\* The login path depends on the documents and on there being a session.
LEMMA SameLogin == UNCHANGED <<documents, sess>> => Login' = Login
  BY DEF Login, gateway, Kind

\* buildIdP decides what is active before there is a session; Build refuses a session
\* next to a connector that only verifies.
LEMMA SettledKept == Settled /\ [BuildNext]_buildVars => Settled'
  <1> SUFFICES ASSUME Settled, [BuildNext]_buildVars PROVE Settled'
    OBVIOUS
  <1>1. ASSUME Refuse \/ Panic, stage # "serving" PROVE Settled'
    BY <1>1 DEF Refuse, Panic, Go, built, Settled
  <1>2. ASSUME Parse PROVE Settled'
    BY <1>1, <1>2 DEF Parse, Go, built, Settled
  <1>3. ASSUME buildIdP PROVE Settled'
    BY <1>1, <1>3 DEF buildIdP, Go, built, Settled
  <1>4. ASSUME buildSession, ~Refuse PROVE Settled'
    <2>1. /\ stage = "session" /\ Go("auth") /\ UNCHANGED <<active, endpoints>>
          /\ ~(gateway.session # "absent" /\ active.present /\ active.verifyOnly)
          /\ gateway.session = "absent" => sess' = "none"
      BY <1>4 DEF buildSession, buildSessionUnless
    <2> QED BY <2>1 DEF Go, Settled
  <1>5. ASSUME authFromYAML PROVE Settled'
    BY <1>1, <1>5 DEF authFromYAML, Go, Settled, noIdP
  <1>6. ASSUME Compile PROVE Settled'
    BY <1>1, <1>6 DEF Compile, Go, Settled
  <1>7. ASSUME resolvePlugins PROVE Settled'
    BY <1>1, <1>7 DEF resolvePlugins, Settled
  <1>8. ASSUME Mount, ~Refuse, ~Panic PROVE Settled'
    <2>1. /\ stage = "mount" /\ Go("route") /\ UNCHANGED <<active, sess, endpoints>>
          /\ warned \subseteq warned'
      BY <1>8 DEF Mount, MountAuthorizing
    <2> QED BY <2>1 DEF Go, Settled
  <1>9. ASSUME MountEndpoints, ~Panic PROVE Settled'
    <2>0. Login' = Login
      BY <1>9, SameLogin DEF MountEndpoints, Go, built
    <2>1. CASE ~(active.present /\ sess # "none")
      BY <1>9, <2>0, <2>1 DEF MountEndpoints, Go, built, Settled
    <2>2. CASE active.present /\ sess # "none"
      <3>1. /\ stage = "route" /\ stage' = "serving" /\ UNCHANGED <<active, sess, warned>>
            /\ endpoints' = Range(AuthEndpoints)
        BY <1>9, <2>2 DEF MountEndpoints, Go
      <3>2. Login \in Range(AuthEndpoints)
        BY LoginFirst
      <3> QED BY <2>0, <2>2, <3>1, <3>2 DEF Settled
    <2> QED BY <2>1, <2>2
  <1>10. ASSUME StopGateway PROVE Settled'
    BY <1>10 DEF StopGateway, Settled
  <1>11. ASSUME Edit PROVE Settled'
    BY <1>11 DEF Edit, built, Settled
  <1>12. ASSUME UNCHANGED buildVars PROVE Settled'
    <2>1. Login' = Login
      BY <1>12, SameLogin DEF buildVars, built
    <2> QED BY <1>12, <2>1 DEF buildVars, built, Settled
  <1>13. CASE Refuse \/ Panic
    <2>1. CASE stage # "serving"
      BY <1>1, <1>13, <2>1
    <2>2. CASE stage = "serving"
      BY <1>10, <1>12, <2>2
      DEF BuildNext, Parse, buildIdP, buildSession, buildSessionUnless, authFromYAML,
          Compile, resolvePlugins, Mount, MountAuthorizing, MountEndpoints, Edit
    <2> QED BY <2>1, <2>2
  <1> QED
    BY <1>2, <1>3, <1>4, <1>5, <1>6, <1>7, <1>8, <1>9, <1>10, <1>11, <1>12, <1>13 DEF BuildNext

\* What Build has settled stays settled.
LEMMA Settling == BuildSpec => []Settled
  <1>1. BuildInit => Settled
    BY DEF BuildInit, Settled
  <1> QED BY <1>1, SettledKept, PTL DEF BuildSpec

\* Whatever the documents, a gateway that serves has login endpoints only with a connector
\* that can log people in, and a session that nobody can get only if it has said so: Build
\* decides that in buildIdP, buildSession, the auth block and MountEndpoints.
THEOREM NoDeadEnd == BuildSpec => []LoginNotDeadEnd
  <1>1. Settled => LoginNotDeadEnd
    BY DEF Settled, LoginNotDeadEnd, noIdP
  <1> QED BY <1>1, Settling, PTL

\* The chain of the i-th route is its own, issues assertions only with an issuer, and a
\* gate that cannot be enforced is in the log.
Own(i) ==
    /\ mux[i].match = routes[i].match
    /\ mux[i].issues <=> routes[i].forwardIdentity
    /\ mux[i].issues => "issue" \in gateway.identity.assertion
    /\ mux[i].required => mux[i].gates \/ <<"unenforced", i>> \in warned

\* The chains mounted so far are those of the first routes, one each.
Mounted ==
    /\ \E S : mux \in Seq(S)
    /\ stage \in {"stopped", "idp", "session", "auth", "compile"} => mux = <<>>
    /\ \A i \in 1 .. Len(mux) : Own(i)
    /\ \A i, j \in 1 .. Len(mux) : i < j => ~Conflict(mux[i].match, mux[j].match)
    /\ stage = "serving" =>
         /\ Len(mux) = Len(routes)
         /\ \A i \in 1 .. Len(mux), e \in endpoints : ~Conflict(mux[i].match, e)

\* What holds of a chain goes on to hold while its documents are the same.
LEMMA OwnKept ==
  ASSUME NEW i, Own(i), UNCHANGED documents, mux'[i] = mux[i], warned \subseteq warned'
  PROVE  /\ mux'[i].match = routes'[i].match
         /\ mux'[i].issues <=> routes'[i].forwardIdentity
         /\ mux'[i].issues => "issue" \in gateway'.identity.assertion
         /\ mux'[i].required => mux'[i].gates \/ <<"unenforced", i>> \in warned'
  <1>1. routes' = routes /\ gateway' = gateway
    BY DEF routes, gateway, Kind
  <1> QED BY <1>1 DEF Own

\* A step of Build that mounts nothing.
LEMMA KeepMounted ==
  ASSUME Mounted, UNCHANGED <<documents, mux>>, warned \subseteq warned' \/ mux = <<>>,
         stage' \in {"stopped", "idp", "session", "auth", "compile"} => mux = <<>>,
         stage' = "serving" =>
           /\ Len(mux) = Len(routes)
           /\ \A i \in 1 .. Len(mux), e \in endpoints' : ~Conflict(mux[i].match, e)
  PROVE  Mounted'
  <1>1. routes' = routes
    BY DEF routes, Kind
  <1>2. ASSUME NEW i \in 1 .. Len(mux) PROVE Own(i)'
    <2>1. warned \subseteq warned'
      BY <1>2, EmptyMounts
    <2>2. Own(i)
      BY DEF Mounted
    <2> QED BY <2>1, <2>2, OwnKept DEF Own
  <1>3. \A p, q : Conflict(p, q)' <=> Conflict(p, q)
    BY DEF Conflict, Matched
  <1> QED BY <1>1, <1>2 DEF Mounted

\* q is m with c after it.
AppendedTo(q, S, m, c) ==
    /\ q \in Seq(S \cup {c}) /\ Len(m) \in Nat /\ DOMAIN m = 1 .. Len(m)
    /\ Len(q) = Len(m) + 1 /\ q[Len(m) + 1] = c
    /\ \A i \in 1 .. Len(m) : q[i] = m[i]
    /\ \A i \in 1 .. Len(q) : i \in 1 .. Len(m) \/ i = Len(m) + 1

\* What Append does to the mux.
LEMMA Appended ==
  ASSUME NEW S, NEW m \in Seq(S), NEW c, NEW q, q = Append(m, c)
  PROVE  AppendedTo(q, S, m, c)
  <1>1. q \in Seq(S \cup {c}) /\ Len(m) \in Nat /\ DOMAIN m = 1 .. Len(m)
    BY SMT
  <1>2. Len(q) = Len(m) + 1
    BY SMT
  <1>3. q[Len(m) + 1] = c /\ \A i \in 1 .. Len(m) : q[i] = m[i]
    BY SMT
  <1>4. \A i \in 1 .. Len(q) : i \in 1 .. Len(m) \/ i = Len(m) + 1
    BY SMT, <1>1, <1>2
  <1> QED BY <1>1, <1>2, <1>3, <1>4 DEF AppendedTo

\* What the chain of the next route keeps of it.
LEMMA ComposedFields ==
  ASSUME NEW a
  PROVE  /\ Composed(a).match = next.match /\ Composed(a).issues = next.forwardIdentity
         /\ Composed(a).gates = authActive
         /\ Composed(a).required = (EffectiveAuth = "required")
         /\ Composed(a).type = EffectiveType
         /\ Composed(a).authorize = a /\ Composed(a).plugins = plugins
  <1>1. ASSUME NEW m, NEW g, NEW t, NEW r, NEW l, NEW p, NEW i, NEW c,
               c = [match |-> m, gates |-> g, type |-> t, required |-> r, login |-> l,
                    authorize |-> a, plugins |-> p, issues |-> i]
        PROVE  /\ c.match = m /\ c.gates = g /\ c.required = r /\ c.issues = i
               /\ c.authorize = a /\ c.plugins = p /\ c.type = t
    BY SMT, <1>1
  <1> QED BY <1>1 DEF Composed

\* Mount appends the chain of the next route, after a check against all before it.
LEMMA MountMounts ==
  ASSUME Mounted, Mount, ~Refuse, ~Panic
  PROVE  Mounted'
  <1>0. PICK n : n = Len(mux) + 1
    OBVIOUS
  <1>1. /\ stage = "mount" /\ stage' = "route" /\ UNCHANGED documents
        /\ mux' = Append(mux, Composed(Authorize))
        /\ ~(next.forwardIdentity /\ "issue" \notin gateway.identity.assertion)
        /\ \A i \in DOMAIN mux : ~Conflict(mux[i].match, next.match)
        /\ warned' = IF EffectiveAuth = "required" /\ ~authActive
                       THEN warned \cup {<<"unenforced", n>>} ELSE warned
    BY <1>0 DEF Mount, MountAuthorizing, Go
  <1>2. PICK S : mux \in Seq(S)
    BY DEF Mounted
  <1>3. /\ mux' \in Seq(S \cup {Composed(Authorize)}) /\ Len(mux) \in Nat
        /\ Len(mux') = n /\ mux'[n] = Composed(Authorize)
        /\ \A i \in 1 .. Len(mux) : mux'[i] = mux[i]
        /\ DOMAIN mux = 1 .. Len(mux)
    <2>1. AppendedTo(mux', S, mux, Composed(Authorize))
      BY <1>1, <1>2, Appended
    <2> QED BY <1>0, <2>1 DEF AppendedTo
  <1>4. \A i \in 1 .. Len(mux') : i \in 1 .. Len(mux) \/ i = n
    BY SMT, <1>0, <1>3
  <1>5. LET c == Composed(Authorize)
        IN  /\ c.match = next.match /\ c.issues = next.forwardIdentity
            /\ c.gates = authActive /\ c.required = (EffectiveAuth = "required")
    BY ComposedFields
  <1>6. \A i \in 1 .. Len(mux) : Own(i)'
    <2>1. warned \subseteq warned'
      BY <1>1
    <2> QED BY <1>1, <1>3, <2>1, OwnKept DEF Mounted, Own
  <1>7. Own(n)'
    <2>1. routes' = routes /\ gateway' = gateway
      BY <1>1 DEF routes, gateway, Kind
    <2>2. /\ mux'[n].match = next.match /\ mux'[n].issues = next.forwardIdentity
          /\ mux'[n].gates = authActive /\ mux'[n].required = (EffectiveAuth = "required")
      BY <1>3, <1>5
    <2>3. next = routes[n]
      BY <1>0 DEF next
    <2>4. mux'[n].required => mux'[n].gates \/ <<"unenforced", n>> \in warned'
      BY <1>1, <2>2
    <2> QED BY <1>1, <2>1, <2>2, <2>3, <2>4 DEF Own
  <1>8. ASSUME NEW i \in 1 .. Len(mux'), NEW j \in 1 .. Len(mux'), i < j
        PROVE  ~Conflict(mux'[i].match, mux'[j].match)
    <2>1. i \in 1 .. Len(mux)
      BY SMT, <1>0, <1>3, <1>8
    <2>2. CASE j \in 1 .. Len(mux)
      BY <1>3, <1>8, <2>1, <2>2 DEF Mounted
    <2>3. CASE j = n
      <3>1. mux'[n].match = next.match
        BY <1>3, <1>5
      <3> QED BY <1>1, <1>3, <2>1, <2>3, <3>1
    <2> QED BY <1>4, <2>2, <2>3
  <1>9. (\E T : mux' \in Seq(T)) /\ \A i \in 1 .. Len(mux') : Own(i)'
    BY <1>3, <1>4, <1>6, <1>7
  <1> QED BY <1>1, <1>8, <1>9 DEF Mounted

\* Mount adds the next route's chain, and MountEndpoints those of signing in, unless ServeMux
\* objects to a conflict.
LEMMA MountedKept == Settled /\ Mounted /\ [BuildNext]_buildVars => Mounted'
  <1> SUFFICES ASSUME Settled, Mounted, [BuildNext]_buildVars PROVE Mounted'
    OBVIOUS
  <1>1. ASSUME Refuse \/ Panic PROVE Mounted'
    BY <1>1, KeepMounted DEF Refuse, Panic, Go, built
  <1>2. CASE Parse \/ buildIdP \/ Compile
    BY <1>1, <1>2, KeepMounted DEF Parse, buildIdP, Compile, Go, built, Mounted
  <1>3. CASE buildSession
    BY <1>1, <1>3, KeepMounted DEF buildSession, buildSessionUnless, Go, Mounted
  <1>4. CASE authFromYAML
    BY <1>1, <1>4, KeepMounted DEF authFromYAML, Go, Mounted
  <1>5. CASE resolvePlugins
    BY <1>1, <1>5, KeepMounted DEF resolvePlugins, Mounted
  <1>6. CASE Mount
    BY <1>1, <1>6, MountMounts
  <1>7. CASE MountEndpoints
    <2> SUFFICES ASSUME ~Panic PROVE Mounted'
      BY <1>1
    <2>0. /\ UNCHANGED <<documents, mux, warned>> /\ stage' = "serving"
          /\ Len(mux) = Len(routes)
      BY <1>7 DEF MountEndpoints, Go, built
    <2>1. CASE ~(active.present /\ sess # "none")
      <3>1. endpoints' = {}
        BY <1>7, <2>1 DEF MountEndpoints, built, Settled
      <3> QED BY <2>0, <3>1, KeepMounted
    <2>2. CASE active.present /\ sess # "none"
      <3>1. /\ endpoints' = Range(AuthEndpoints)
            /\ \A j \in DOMAIN AuthEndpoints, i \in DOMAIN mux :
                 ~Conflict(mux[i].match, AuthEndpoints[j])
        BY <1>7, <2>2 DEF MountEndpoints
      <3>2. DOMAIN mux = 1 .. Len(mux)
        BY SMT DEF Mounted
      <3>3. \A i \in 1 .. Len(mux), e \in endpoints' : ~Conflict(mux[i].match, e)
        BY <3>1, <3>2 DEF Range
      <3> QED BY <2>0, <3>3, KeepMounted
    <2> QED BY <2>1, <2>2
  <1>8. CASE StopGateway
    <2>1. mux' = <<>> /\ stage' = "stopped"
      BY <1>8 DEF StopGateway
    <2>2. 1 .. Len(mux') = {} /\ \E S : mux' \in Seq(S)
      BY <2>1, EmptyMounts
    <2> QED BY <2>1, <2>2 DEF Mounted
  <1>9. CASE Edit
    BY <1>9, KeepMounted DEF Edit, built, Mounted
  <1>10. CASE UNCHANGED buildVars
    BY <1>10, KeepMounted DEF buildVars, built, Mounted
  <1> QED
    BY <1>2, <1>3, <1>4, <1>5, <1>6, <1>7, <1>8, <1>9, <1>10 DEF BuildNext

\* The loop over the routes mounts the chain of each.
LEMMA Mounting == BuildSpec => []Mounted
  <1>1. BuildInit => Mounted
    <2> SUFFICES ASSUME BuildInit PROVE Mounted
      OBVIOUS
    <2>1. mux = <<>> /\ stage = "stopped"
      BY DEF BuildInit
    <2> QED BY <2>1, EmptyMounts DEF Mounted
  <1> QED BY <1>1, Settling, MountedKept, PTL DEF BuildSpec

\* A gateway that serves has mounted every route of the documents once and in their order,
\* under its own pattern; no two patterns, endpoints included, conflict; a route
\* forwards identities only where there is an issuer; and a route that requires somebody
\* has gates, or the log says it is unenforced.
RoutesMounted == stage = "serving" =>
    /\ Len(mux) = Len(routes)
    /\ \A i \in 1 .. Len(routes) : Own(i)
    /\ \A i, j \in 1 .. Len(routes) : i < j => ~Conflict(mux[i].match, mux[j].match)
    /\ \A i \in 1 .. Len(routes), e \in endpoints : ~Conflict(mux[i].match, e)

\* RoutesMounted for any documents: the loop of Build over the routes skips none, and what
\* it cannot mount it refuses or panics on.
THEOREM AllMounted == BuildSpec => []RoutesMounted
  <1>1. Mounted => RoutesMounted
    BY DEF Mounted, RoutesMounted
  <1> QED BY <1>1, Mounting, PTL

\* "A route's own spec.access always wins" (concepts.md): whatever Resolve's loop over the
\* groups leaves, it has no say in a field the route sets.
THEOREM OwnAccessWins == BuildSpec => RouteWins
  <1>1. ASSUME rt' = rt
        PROVE  /\ own.type # "" => EffectiveType' = EffectiveType
               /\ own.auth # "" => EffectiveAuth' = EffectiveAuth
               /\ own.onDeny # "nil" => EffectiveOnDeny' = EffectiveOnDeny
    <2>0. own' = own
      BY <1>1 DEF own
    <2>1. own.type # "" => EffectiveType' = EffectiveType
      BY <1>1, <2>0 DEF EffectiveType, EffectiveTypeOf, firstNonEmpty
    <2>2. own.auth # "" => EffectiveAuth' = EffectiveAuth
      BY <1>1, <2>0 DEF EffectiveAuth, firstNonEmpty
    <2>3. own.onDeny # "nil" => EffectiveOnDeny' = EffectiveOnDeny
      BY <1>1, <2>0 DEF EffectiveOnDeny, firstNonNil
    <2> QED BY <2>1, <2>2, <2>3
  <1> QED BY <1>1, PTL DEF RouteWins

\* Mount composes what was asked for the next route, for it refuses a policy it does not
\* know and an access Resolve cannot make out.
LEMMA NextEnforces ==
  ASSUME Enforcing, stage = "mount", Valid, Range(Authorize) \subseteq policies
  PROVE  Enforces(Composed(Authorize), next)
  <1>0. Documented /\ rt = next.rt /\ Runs(plugins, next)
    BY DEF Enforcing
  <1>1. PICK c : c = Composed(Authorize)
    OBVIOUS
  <1>2. /\ c.authorize = Authorize /\ c.plugins = plugins /\ c.type = EffectiveType
        /\ c.required = (EffectiveAuth = "required")
    BY <1>1, ComposedFields
  <1>3. (c.type = "service" /\ ~c.required) => \E a \in Speaking(next) : a.auth = "public"
    BY <1>0, <1>2, OpenIfTold
  <1>4. Range(c.authorize) = (UNION {Range(a.authorize) : a \in Speaking(next)}) \ {""}
    BY <1>0, <1>2, PoliciesAre
  <1>5. Enforces(c, next)
    BY <1>0, <1>2, <1>3, <1>4 DEF Enforces
  <1> QED BY <1>1, <1>5

\* Mount adds the chain of the route at hand.
LEMMA MountEnforces ==
  ASSUME Enforcing, Mounted, Mount, ~Refuse, ~Panic
  PROVE  Enforcing'
  <1>1. /\ stage = "mount" /\ stage' = "route" /\ UNCHANGED <<documents, groups, rt, policies>>
        /\ mux' = Append(mux, Composed(Authorize))
        /\ Valid /\ Range(Authorize) \subseteq policies
    BY DEF Mount, MountAuthorizing, Go, editVars
  <1>2. PICK S, c : mux \in Seq(S) /\ c = Composed(Authorize)
    BY DEF Mounted
  <1>3. PICK n : /\ n = Len(mux) + 1 /\ mux'[n] = c
                 /\ \A i \in 1 .. Len(mux) : mux'[i] = mux[i]
                 /\ \A i \in 1 .. Len(mux') : i \in 1 .. Len(mux) \/ i = n
    <2>1. AppendedTo(mux', S, mux, c)
      BY <1>1, <1>2, Appended
    <2> QED BY <2>1 DEF AppendedTo
  <1>4. \A i \in 1 .. Len(mux) : Enforces(mux[i], routes[i])'
    BY <1>1, <1>3, EnforcesStill DEF Enforcing
  <1>5. Enforces(mux[n], routes[n])'
    <2>1. next = routes[n] /\ routes' = routes
      BY <1>1, <1>3 DEF next, routes, Kind
    <2>2. Enforces(c, routes[n])
      BY <1>1, <1>2, <2>1, NextEnforces
    <2>3. PICK r : r = routes[n]
      OBVIOUS
    <2>4. Enforces(c, r)'
      BY <1>1, <2>2, <2>3, StillEnforces
    <2> QED BY <1>3, <2>1, <2>3, <2>4
  <1>6. Documented'
    BY <1>1 DEF Enforcing, Documented
  <1>7. \A i \in 1 .. Len(mux') : Enforces(mux[i], routes[i])'
    BY <1>3, <1>4, <1>5
  <1> QED BY <1>1, <1>6, <1>7 DEF Enforcing

\* Only Mount mounts, only resolvePlugins moves to the next route, and the groups change
\* only before there is a chain.
LEMMA EnforcingKept == Mounted /\ Enforcing /\ [BuildNext]_buildVars => Enforcing'
  <1> SUFFICES ASSUME Mounted, Enforcing, [BuildNext]_buildVars PROVE Enforcing'
    OBVIOUS
  <1>0. rt \in Route /\ groups \in Seq(Group) /\ documents \in Documents
    BY DEF Enforcing, Documented
  <1>1. ASSUME Refuse \/ Panic PROVE Enforcing'
    BY <1>0, <1>1, EnforcingStays DEF Refuse, Panic, Go, built, editVars
  <1>2. CASE Parse \/ buildIdP \/ Compile
    BY <1>0, <1>1, <1>2, EnforcingStays DEF Parse, buildIdP, Compile, Go, built, editVars, Mounted
  <1>3. CASE buildSession
    BY <1>0, <1>1, <1>3, EnforcingStays DEF buildSession, buildSessionUnless, Go, editVars
  <1>4. CASE authFromYAML
    BY <1>0, <1>1, <1>4, EnforcingStays DEF authFromYAML, Go, editVars
  <1>5. ASSUME resolvePlugins, ~Refuse PROVE Enforcing'
    <2>1. /\ stage' = "mount" /\ rt' = next.rt /\ plugins' = Chosen /\ Len(mux) < Len(routes)
          /\ UNCHANGED <<documents, groups, mux, policies>>
      BY <1>5 DEF resolvePlugins, Chosen
    <2>2. Len(mux) + 1 \in DOMAIN routes
      <3>1. Len(mux) \in Nat
        BY SMT DEF Mounted
      <3>2. Len(routes) \in Nat /\ DOMAIN routes = 1 .. Len(routes)
        BY <1>0, RoutesAre
      <3> QED BY SMT, <2>1, <3>1, <3>2
    <2>3. next.rt \in Route
      BY <1>0, <2>2, RoutesAre DEF next
    <2>4. Runs(Chosen, next)
      BY <1>0, RoutesAre, ChosenAre
    <2> QED BY <2>1, <2>3, <2>4, EnforcingStays
  <1>6. CASE Mount
    BY <1>1, <1>6, MountEnforces
  <1>7. CASE MountEndpoints
    BY <1>0, <1>1, <1>7, EnforcingStays DEF MountEndpoints, Go, built, editVars
  <1>8. CASE StopGateway
    <2>1. mux' = <<>> /\ stage' = "stopped" /\ UNCHANGED <<rt, groups, documents>>
      BY <1>8 DEF StopGateway, editVars
    <2>2. 1 .. Len(mux') = {}
      BY <2>1, EmptyMounts
    <2> QED BY <1>0, <2>1, <2>2 DEF Enforcing, Documented
  <1>9. CASE Edit
    <2>1. mux = <<>> /\ UNCHANGED <<documents, stage, mux>> /\ stage = "stopped"
      BY <1>9 DEF Edit, Mounted, built
    <2>2. groups' \in Seq(Group) /\ rt' = rt
      BY <1>0, <1>9, EditKeeps DEF Edit
    <2>3. 1 .. Len(mux') = {}
      BY <2>1, EmptyMounts
    <2> QED BY <1>0, <2>1, <2>2, <2>3 DEF Enforcing, Documented
  <1>10. CASE UNCHANGED buildVars
    BY <1>0, <1>10, EnforcingStays DEF buildVars, built, editVars, Enforcing
  <1> QED
    BY <1>1, <1>2, <1>3, <1>4, <1>5, <1>6, <1>7, <1>8, <1>9, <1>10 DEF BuildNext

\* Enforcing holds of every state Build can reach.
LEMMA AlwaysEnforcing == BuildSpec => []Enforcing
  <1>1. BuildInit => Enforcing
    <2> SUFFICES ASSUME BuildInit PROVE Enforcing
      OBVIOUS
    <2>1. /\ mux = <<>> /\ stage = "stopped" /\ rt \in Route /\ groups = <<>>
          /\ documents \in Documents
      BY DEF BuildInit
    <2>2. groups \in Seq(Group)
      BY SMT, <2>1
    <2>3. 1 .. Len(mux) = {}
      BY <2>1, EmptyMounts
    <2> QED BY <2>1, <2>2, <2>3 DEF Enforcing, Documented
  <1> QED BY <1>1, Mounting, EnforcingKept, PTL DEF BuildSpec

\* Whatever the groups and however an operator adds, removes and reorders them, what
\* Resolve's loops leave is the last matching group's value of each field, and the union of
\* the policies, each once and the route's own first (GroupsApply).
THEOREM GroupsApplied == BuildSpec => []GroupsApply
  <1>1. Enforcing => GroupsApply
    BY Applied DEF Enforcing
  <1> QED BY <1>1, AlwaysEnforcing, PTL

\* Policies are "unioned (not replaced)": no edit of the groups that keeps them all, in
\* whatever order and with whatever others, takes a policy from a route, and none that
\* brings in no other group adds one.
PoliciesMonotone ==
    [][rt' = rt =>
         /\ Range(groups) \subseteq Range(groups') => Range(Authorize) \subseteq Range(Authorize')
         /\ Range(groups') \subseteq Range(groups) => Range(Authorize') \subseteq Range(Authorize)]_editVars

\* The policies depend on which groups there are, not on where.
LEMMA PoliciesFrom ==
  ASSUME GroupsApply, NEW y
  PROVE  y \in Range(Authorize) <=>
           /\ y # ""
           /\ \/ y \in Range(own.authorize)
              \/ \E g \in Range(groups) : Applies(g) /\ y \in Range(g.spec.authorize)
  <1>1. Range(Authorize) =
          (Range(own.authorize) \cup UNION {Range(groups[i].spec.authorize) :
             i \in {j \in DOMAIN groups : Applies(groups[j])}}) \ {""}
    BY DEF GroupsApply
  <1>2. y \in UNION {Range(groups[i].spec.authorize) :
                      i \in {j \in DOMAIN groups : Applies(groups[j])}} <=>
          \E i \in DOMAIN groups : Applies(groups[i]) /\ y \in Range(groups[i].spec.authorize)
    OBVIOUS
  <1>3. (\E i \in DOMAIN groups : Applies(groups[i]) /\ y \in Range(groups[i].spec.authorize)) <=>
          \E g \in Range(groups) : Applies(g) /\ y \in Range(g.spec.authorize)
    <2> DEFINE P(g) == Applies(g) /\ y \in Range(g.spec.authorize)
    <2> HIDE DEF P
    <2>1. (\E i \in DOMAIN groups : P(groups[i])) <=> \E g \in Range(groups) : P(g)
      BY DEF Range
    <2> QED BY <2>1 DEF P
  <1> QED BY <1>1, <1>2, <1>3

\* PoliciesMonotone, for any groups: a group's policies come on top of what there is.
THEOREM GroupsOnlyAdd == BuildSpec => PoliciesMonotone
  <1> DEFINE In(y) == /\ y # ""
                      /\ \/ y \in Range(own.authorize)
                         \/ \E g \in Range(groups) : Applies(g) /\ y \in Range(g.spec.authorize)
             All == \A y : y \in Range(Authorize) <=> In(y)
  <1>1. GroupsApply => All
    BY PoliciesFrom
  <1>2. ASSUME All, All', rt' = rt
        PROVE  /\ Range(groups) \subseteq Range(groups') => Range(Authorize) \subseteq Range(Authorize')
               /\ Range(groups') \subseteq Range(groups) => Range(Authorize') \subseteq Range(Authorize)
    <2>1. own' = own /\ \A g : Applies(g)' <=> Applies(g)
      BY <1>2 DEF own, Applies
    <2>2. ASSUME NEW y, Range(groups) \subseteq Range(groups'), In(y) PROVE In(y)'
      BY <2>1, <2>2
    <2>3. ASSUME NEW y, Range(groups') \subseteq Range(groups), In(y)' PROVE In(y)
      BY <2>1, <2>3
    <2> HIDE DEF In
    <2> QED BY <1>2, <2>2, <2>3
  <1>3. All /\ All' =>
          [rt' = rt =>
             /\ Range(groups) \subseteq Range(groups') => Range(Authorize) \subseteq Range(Authorize')
             /\ Range(groups') \subseteq Range(groups) => Range(Authorize') \subseteq Range(Authorize)]_editVars
    <2> HIDE DEF All
    <2> QED BY <1>2
  <1> HIDE DEF All
  <1> QED BY <1>1, <1>3, GroupsApplied, PTL DEF PoliciesMonotone

\* Whatever the documents, nothing they ask for is dropped on the way through the stages of
\* Build: the chain of every route of a gateway that serves has the policies, the plugins
\* and the gates asked for (NothingDropped).
THEOREM Undropped == BuildSpec => []NothingDropped
  <1>1. Enforcing /\ Mounted => NothingDropped
    <2> SUFFICES ASSUME Enforcing, Mounted, stage = "serving" PROVE NothingDropped
      BY DEF NothingDropped
    <2>1. DOMAIN routes = 1 .. Len(mux)
      BY RoutesAre DEF Enforcing, Mounted
    <2>2. ASSUME NEW i \in DOMAIN routes
          PROVE  Own(i) /\ Enforces(mux[i], routes[i])
      BY <2>1 DEF Enforcing, Mounted
    <2>3. ASSUME NEW i \in DOMAIN routes
          PROVE  \A k, l \in DOMAIN mux[i].plugins : k < l =>
                     LET p == documents[mux[i].plugins[k]].kind
                         q == documents[mux[i].plugins[l]].kind
                     IN  IF p = q THEN mux[i].plugins[k] < mux[i].plugins[l] ELSE p = "RequestPlugin"
      BY <2>2 DEF Enforces, Runs, Ordered
    <2> QED BY <2>2, <2>3 DEF NothingDropped, Enforces, Runs, Own
  <1> QED BY <1>1, Mounting, AlwaysEnforcing, PTL

\* The length of a sequence with an element put in or taken out.
LEMMA EditedLength ==
  ASSUME NEW S, NEW s \in Seq(S), NEW g \in S, NEW i \in 1 .. Len(s) + 1
  PROVE  /\ Len(SubSeq(s, 1, i - 1) \o <<g>> \o SubSeq(s, i, Len(s))) = Len(s) + 1
         /\ i \in 1 .. Len(s) =>
              Len(SubSeq(s, 1, i - 1) \o SubSeq(s, i + 1, Len(s))) = Len(s) - 1
  <1>1. SubSeq(s, 1, i - 1) \in Seq(S) /\ Len(SubSeq(s, 1, i - 1)) = i - 1
    BY SMT
  <1>2. SubSeq(s, i, Len(s)) \in Seq(S) /\ Len(SubSeq(s, i, Len(s))) = Len(s) + 1 - i
    BY SMT
  <1>3. i \in 1 .. Len(s) =>
          SubSeq(s, i + 1, Len(s)) \in Seq(S) /\ Len(SubSeq(s, i + 1, Len(s))) = Len(s) - i
    BY SMT
  <1>4. ASSUME NEW a \in Seq(S), NEW b \in Seq(S)
        PROVE  Len(a \o b) = Len(a) + Len(b) /\ Len(a \o <<g>> \o b) = Len(a) + 1 + Len(b)
    BY SMT
  <1>5. Len(s) \in Nat
    BY SMT
  <1> HIDE DEF SubSeq
  <1>6. Len(SubSeq(s, 1, i - 1) \o <<g>> \o SubSeq(s, i, Len(s))) = (i - 1) + 1 + (Len(s) + 1 - i)
    BY <1>1, <1>2, <1>4
  <1>7. i \in 1 .. Len(s) =>
          Len(SubSeq(s, 1, i - 1) \o SubSeq(s, i + 1, Len(s))) = (i - 1) + (Len(s) - i)
    BY <1>1, <1>3, <1>4
  <1>8. /\ (i - 1) + 1 + (Len(s) + 1 - i) = Len(s) + 1
        /\ (i - 1) + (Len(s) - i) = Len(s) - 1
    BY SMT, <1>5
  <1> QED BY <1>6, <1>7, <1>8

\* An edit keeps the number of groups within its bound.
LEMMA EditBounded ==
  ASSUME groups \in Seq(Group), Len(groups) <= MaxGroups, EditNext
  PROVE  Len(groups') <= MaxGroups
  <1>0. MaxGroups \in Nat /\ Len(groups) \in Nat /\ DOMAIN groups = 1 .. Len(groups)
    <2>1. MaxGroups \in Nat
      BY AccessAssumption
    <2> QED BY SMT, <2>1
  <1>1. ASSUME AddGroup PROVE Len(groups') <= MaxGroups
    <2>1. Len(groups') = Len(groups) + 1 /\ Len(groups) < MaxGroups
      <3>1. PICK g \in Group, i \in 1 .. Len(groups) + 1 :
              groups' = SubSeq(groups, 1, i - 1) \o <<g>> \o SubSeq(groups, i, Len(groups))
        BY <1>1 DEF AddGroup
      <3>2. Len(SubSeq(groups, 1, i - 1) \o <<g>> \o SubSeq(groups, i, Len(groups))) = Len(groups) + 1
        BY EditedLength
      <3> QED BY <1>1, <3>1, <3>2 DEF AddGroup
    <2> QED BY SMT, <1>0, <2>1
  <1>2. ASSUME RemoveGroup PROVE Len(groups') <= MaxGroups
    <2>0. 1 .. Len(groups) \subseteq 1 .. Len(groups) + 1
      BY SMT, <1>0
    <2>1. PICK i \in 1 .. Len(groups) :
            groups' = SubSeq(groups, 1, i - 1) \o SubSeq(groups, i + 1, Len(groups))
      BY <1>0, <1>2 DEF RemoveGroup
    <2>2. groups[i] \in Group
      BY SMT, <2>1
    <2>3. Len(groups') = Len(groups) - 1
      BY <2>0, <2>1, <2>2, EditedLength
    <2> QED BY SMT, <1>0, <2>3
  <1>3. ASSUME Reorder PROVE Len(groups') <= MaxGroups
    <2>1. groups' = [i \in 1 .. Len(groups) |-> groups[Len(groups) + 1 - i]]
      BY <1>0, <1>3 DEF Reorder
    <2>2. Len(groups') = Len(groups)
      BY SMT, <1>0, <2>1
    <2> QED BY <2>2
  <1> QED BY <1>1, <1>2, <1>3 DEF EditNext

\* What Resolve returns is made of what the documents say.
LEMMA ResolvedFrom ==
  ASSUME Documented, Valid
  PROVE  Resolved \in [type : {"app", "service"}, auth : {"required", "public"},
                       onDeny : {a.onDeny : a \in DocSpec},
                       authorize : Seq(UNION {Range(a.authorize) : a \in DocSpec})]
  <1>0. /\ own \in DocSpec /\ DOMAIN groups = 1 .. Len(groups) /\ Len(groups) \in Nat
        /\ \A i \in DOMAIN groups : groups[i].spec \in DocSpec
    <2>1. rt \in Route /\ groups \in Seq(Group)
      BY DEF Documented
    <2>2. (\A r \in Route : r.spec \in DocSpec) /\ \A g \in Group : g.spec \in DocSpec
      BY SMT DEF Route, Group
    <2>3. DOMAIN groups = 1 .. Len(groups) /\ Len(groups) \in Nat
      BY SMT, <2>1
    <2>4. \A i \in DOMAIN groups : groups[i] \in Group
      BY SMT, <2>1
    <2> QED BY <2>1, <2>2, <2>3, <2>4 DEF own
  <1>1. EffectiveType \in {"app", "service"} /\ EffectiveAuth \in {"required", "public"}
    BY DEF Valid
  <1>2. EffectiveOnDeny \in {a.onDeny : a \in DocSpec}
    <2>1. CASE own.onDeny # "nil"
      BY <1>0, <2>1 DEF EffectiveOnDeny, firstNonNil
    <2>2. CASE own.onDeny = "nil"
      <3>1. EffectiveOnDeny = FromGroups.onDeny
        BY <2>2 DEF EffectiveOnDeny, firstNonNil
      <3>2. FromGroups.onDeny = LastOf(LAMBDA g : g.onDeny, "nil")
        BY Applied DEF GroupsApply
      <3>3. PICK M : M = {i \in DOMAIN groups : Applies(groups[i]) /\ groups[i].spec.onDeny # "nil"}
        OBVIOUS
      <3>4. LastOf(LAMBDA g : g.onDeny, "nil") = IF M = {} THEN "nil" ELSE groups[LastIn(M)].spec.onDeny
        <4> DEFINE N == {i \in DOMAIN groups : Applies(groups[i]) /\ groups[i].spec.onDeny # "nil"}
        <4>1. LastOf(LAMBDA g : g.onDeny, "nil") = IF N = {} THEN "nil" ELSE groups[LastIn(N)].spec.onDeny
          BY DEF LastOf, LastIn
        <4> QED BY <3>3, <4>1
      <3>5. CASE M = {}
        BY <1>0, <2>2, <3>1, <3>2, <3>4, <3>5
      <3>6. CASE M # {}
        <4>1. M \subseteq 1 .. Len(groups)
          BY <1>0, <3>3
        <4>2. LastIn(M) \in DOMAIN groups
          BY <1>0, <3>6, <4>1, HasLast
        <4> QED BY <1>0, <3>1, <3>2, <3>4, <3>6, <4>2
      <3> QED BY <3>5, <3>6
    <2> QED BY <2>1, <2>2
  <1>3. Authorize \in Seq(UNION {Range(a.authorize) : a \in DocSpec})
    <2>1. PICK A : A = UNION {Range(a.authorize) : a \in DocSpec}
      OBVIOUS
    <2>2. ASSUME NEW y \in Range(Authorize) PROVE y \in A
      <3>1. \/ y \in Range(own.authorize)
            \/ \E i \in DOMAIN groups : y \in Range(groups[i].spec.authorize)
        <4>1. Range(Authorize) =
                (Range(own.authorize) \cup UNION {Range(groups[i].spec.authorize) :
                   i \in {j \in DOMAIN groups : Applies(groups[j])}}) \ {""}
          BY Applied DEF GroupsApply
        <4> QED BY <4>1
      <3> QED BY <1>0, <2>1, <3>1
    <2>3. Authorize \in Seq(STRING)
      BY AuthorizeGrows DEF Grown
    <2>4. ASSUME NEW T, NEW s \in Seq(T), \A y \in Range(s) : y \in A PROVE s \in Seq(A)
      <3>1. \A i \in DOMAIN s : s[i] \in A
        BY <2>4 DEF Range
      <3>2. PICK n \in Nat : DOMAIN s = 1 .. n /\ s = [i \in 1 .. n |-> s[i]]
        BY SMT
      <3>3. \A i \in 1 .. n : s[i] \in A
        BY <3>1, <3>2
      <3> QED BY SMT, <3>2, <3>3
    <2>5. Authorize \in Seq(A)
      BY <2>2, <2>3, <2>4
    <2> QED BY <2>1, <2>5
  <1>4. ASSUME NEW t, NEW u, NEW d, NEW s, NEW T, NEW U, NEW D, NEW S,
               t \in T, u \in U, d \in D, s \in S
        PROVE  [type |-> t, auth |-> u, onDeny |-> d, authorize |-> s] \in
               [type : T, auth : U, onDeny : D, authorize : S]
    BY SMT, <1>4
  <1> QED BY <1>1, <1>2, <1>3, <1>4 DEF Resolved

\* Type correctness of route.Resolve, for any documents: the groups stay RouteGroup
\* documents within their bound, and what Resolve accepts it resolves to a type and an auth
\* it knows, with an onDeny and policies that some document names.
THEOREM ResolveTypes == BuildSpec => []EditTypeOK
  <1> DEFINE B == Len(groups) <= MaxGroups
  <1>1. BuildInit => B
    <2> SUFFICES ASSUME groups = <<>> PROVE B
      BY DEF BuildInit
    <2> QED BY SMT, AccessAssumption
  <1>2. Enforcing /\ B /\ [BuildNext]_buildVars => B'
    <2> SUFFICES ASSUME Enforcing, B, [BuildNext]_buildVars PROVE B'
      OBVIOUS
    <2>1. CASE Edit
      BY <2>1, EditBounded DEF Edit, Enforcing, Documented
    <2>2. CASE UNCHANGED groups
      BY <2>2
    <2> QED BY <2>1, <2>2
        DEF BuildNext, Parse, buildIdP, buildSession, buildSessionUnless, authFromYAML, Compile,
            resolvePlugins, Mount, MountAuthorizing, MountEndpoints, StopGateway, Refuse, Panic,
            Go, editVars, buildVars
  <1>3. Enforcing /\ B => EditTypeOK
    BY ResolvedFrom DEF Enforcing, Documented, EditTypeOK
  <1> QED BY <1>1, <1>2, <1>3, AlwaysEnforcing, PTL DEF BuildSpec
=============================================================================
