--------------------------- MODULE TerminalProofs ---------------------------
(***************************************************************************)
(* What the terminal handlers guarantee, for any number of backends, any   *)
(* files and paths, and any deployments: each handler by an inductive      *)
(* invariant of its own, and the route by the handler it has.              *)
(***************************************************************************)
EXTENDS Terminal, TLAPS

\* Most leaves are first-order logic; those that need arithmetic or records name SMT.
USE Zenon

-----------------------------------------------------------------------------
(* api: the fan-out                                                        *)

TooSlow(b) == cause[b] = "transport" \/ (cause[b] = "deadline" /\ bounded)

\* A goroutine has stored its result exactly when it is done, an error response has a
\* failed required backend behind it, and a timeout is recorded only for a call that ran
\* into the deadline or a limit of the transport.
IInv ==
    /\ TypeOK
    /\ \A b \in Backend : pc[b] = "done" <=> result[b] # "none"
    /\ ctx = "deadline" => bounded
    /\ \A b \in Backend : result[b] = "timeout" => TooSlow(b)
    /\ NoCallOutlivesHandler
    /\ EveryGroupAccounted
    /\ ErrorFromRequired

\* The initial states satisfy the inductive invariant: nothing is called or answered.
LEMMA InitEstablishes == Init => IInv
BY DEF Init, IInv, TypeOK, Result, NoCallOutlivesHandler, EveryGroupAccounted,
       ErrorFromRequired, TooSlow, Backend

\* A goroutine moving on without a result keeps the invariant.
LEMMA ToKeeps ==
    ASSUME IInv, NEW b \in Backend, NEW point \in {"sent", "body"}, pc[b] # "done",
           To(b, point)
    PROVE  IInv'
<1>1. response = "none"
  BY DEF IInv, NoCallOutlivesHandler, TypeOK
<1> QED
  BY <1>1 DEF IInv, TypeOK, Result, To, NoCallOutlivesHandler, EveryGroupAccounted,
              ErrorFromRequired, TooSlow

\* A goroutine that stores a result while ServeHTTP still waits keeps the invariant.
LEMMA FinishKeeps ==
    ASSUME IInv, NEW b \in Backend, pc[b] # "done",
           NEW res \in Result, res # "none",
           NEW why \in {"none", "backend", "request", "transport", "deadline", "cancelled"},
           res = "timeout" => why = "transport" \/ (why = "deadline" /\ bounded),
           Finish(b, res, why)
    PROVE  IInv'
<1>1. response = "none"
  BY DEF IInv, NoCallOutlivesHandler, TypeOK
<1>2. TypeOK'
  BY DEF IInv, TypeOK, Finish
<1> QED
  BY SMT, <1>1, <1>2 DEF IInv, TypeOK, Result, Finish, NoCallOutlivesHandler, EveryGroupAccounted,
                    ErrorFromRequired, TooSlow

\* Merging after wg.Wait establishes what the response says.
LEMMA MergeKeeps ==
    ASSUME IInv, Merge
    PROVE  IInv'
<1> DEFINE broken == Failed \cap required
<1>1. AllDone /\ response = "none"
  BY DEF Merge, MergeFor
<1>2. UNCHANGED <<required, bounded, ctx, pc, result, cause>>
  BY DEF Merge, MergeFor
<1>3. \A b \in Backend : result[b] \in {"ok", "failed", "timeout"}
  BY <1>1 DEF IInv, AllDone, TypeOK, Result
<1>4. Failed = {b \in Backend : result[b] \in {"failed", "timeout"}}
  BY <1>3 DEF Failed
<1>5. CASE broken = {}
  <2>1. response' = "200" /\ merged' = Backend \ Failed /\ omitted' = Failed
    BY <1>5 DEF Merge, MergeFor
  <2>2. Failed \cap required = {}
    BY <1>5
  <2>3. TypeOK' /\ NoCallOutlivesHandler'
    BY <1>1, <1>2, <2>1 DEF IInv, TypeOK, AllDone, NoCallOutlivesHandler, Failed
  <2>4. EveryGroupAccounted'
    BY <1>2, <1>3, <1>4, <2>1, <2>2 DEF EveryGroupAccounted
  <2> QED BY <1>2, <2>1, <2>3, <2>4 DEF IInv, TooSlow, ErrorFromRequired
<1>6. CASE broken # {}
  <2>1. PICK first \in broken :
           /\ response' = IF result[first] = "timeout" THEN "504" ELSE "502"
           /\ UNCHANGED <<merged, omitted>>
    BY <1>6 DEF Merge, MergeFor
  <2>2. first \in required /\ first \in Backend /\ result[first] \in {"failed", "timeout"}
    BY <2>1, <1>4
  <2>3. response' = "504" => TooSlow(first)
    BY <2>1, <2>2 DEF IInv
  <2>4. TypeOK' /\ NoCallOutlivesHandler' /\ EveryGroupAccounted'
    BY <1>1, <1>2, <2>1 DEF IInv, TypeOK, AllDone, NoCallOutlivesHandler, EveryGroupAccounted
  <2>5. ErrorFromRequired'
    BY <1>2, <2>2, <2>3 DEF ErrorFromRequired, TooSlow
  <2> QED BY <1>2, <2>4, <2>5 DEF IInv, TooSlow
<1> QED BY <1>5, <1>6

\* Every step of the request keeps the inductive invariant.
LEMMA NextKeeps == IInv /\ [Next]_vars => IInv'
<1> SUFFICES ASSUME IInv, [Next]_vars PROVE IInv'
  OBVIOUS
<1>1. ASSUME NEW b \in Backend, Local(b) PROVE IInv'
  <2>1. CASE Call(b)
    BY <2>1, ToKeeps, FinishKeeps DEF Call, Result
  <2>2. CASE GiveUp(b)
    <3>1. ctx \in {"deadline", "cancelled"}
      BY <2>2 DEF GiveUp, IInv, TypeOK
    <3>2. ctx = "deadline" => bounded
      BY DEF IInv
    <3> QED BY <2>2, <3>1, <3>2, FinishKeeps DEF GiveUp, Result
  <2>3. CASE CutOff(b)
    <3>1. ctx \in {"deadline", "cancelled"}
      BY <2>3 DEF CutOff, CutOffWhen, IInv, TypeOK
    <3> QED BY <2>3, <3>1, FinishKeeps DEF CutOff, CutOffWhen, Result
  <2>4. CASE TransportTimeout(b)
    BY <2>4, FinishKeeps DEF TransportTimeout, Result
  <2> QED BY <1>1, <2>1, <2>2, <2>3, <2>4 DEF Local
<1>2. ASSUME NEW b \in Backend, Remote(b) PROVE IInv'
  BY <1>2, ToKeeps, FinishKeeps DEF Remote, Refuse, Headers, Answer, BadBody, Result
<1>3. CASE Deadline
  BY <1>3 DEF Deadline, IInv, TypeOK, NoCallOutlivesHandler, EveryGroupAccounted,
              ErrorFromRequired, TooSlow
<1>4. CASE Cancel
  BY <1>4 DEF Cancel, IInv, TypeOK, NoCallOutlivesHandler, EveryGroupAccounted,
              ErrorFromRequired, TooSlow
<1>5. CASE UNCHANGED vars
  BY SMT, <1>5 DEF vars, IInv, TypeOK, NoCallOutlivesHandler, EveryGroupAccounted,
                   ErrorFromRequired, TooSlow
<1> QED BY <1>1, <1>2, <1>3, <1>4, <1>5, MergeKeeps DEF Next, Answered

-----------------------------------------------------------------------------
(* static                                                                  *)

\* The name the handler resolves the path to, as far as what it has seen so far tells.
Resolved(n) ==
    \/ S!rel = <<>> /\ n = index
    \/ S!rel # <<>> /\ n = S!rel /\ S!Ever(S!rel) \ {Dir} # {}
    \/ S!rel # <<>> /\ n = S!rel \o index /\ Dir \in S!Ever(S!rel)

Unstable(n) == S!Ever(n) \ S!Deployed # {}
ToShell == spaFallback /\ S!extensionless(S!rel)

\* The name the path resolves to was missing at some moment of the request.
Missed == \E n \in {index, S!rel, S!rel \o index} : Resolved(n) /\ Unstable(n)

\* The names that may be served: the one the path resolves to and, once that was missed,
\* the shell.
Servable(n) == ~S!refused(path) /\ (Resolved(n) \/ (n = index /\ ToShell /\ Missed))

\* f was in the directory at some moment of the request.
Held(f) == f # Nothing /\ f.of \in Name /\ f.at \in since[f.of]

\* The browser's copy is what its ETag says, and a shell is never kept without asking.
Copied == copy # Nothing =>
    /\ copy = [etag |-> copy.etag, cc |-> copy.cc, body |-> copy.body]
    /\ copy.body = copy.etag
    /\ (Len(index) = 1 /\ copy.body.of = index) => copy.cc # S!Long

Handling ==
    /\ at = "stat" => ~S!refused(path) /\ S!rel # <<>> /\ name = S!rel
    /\ at = "open" => ~S!refused(path) /\ Resolved(name)
    /\ at = "fallback" => name = index /\ ToShell /\ Servable(name)
    /\ at = "serve" => Held(file) /\ file.of = name /\ Servable(name)

Shown == S!Shown =>
    /\ answer.code \in {"200", "304"} => Held(answer.body) /\ Servable(answer.body.of)
    /\ answer.code = "404" =>
         /\ answer.body = Nothing
         /\ S!refused(path) \/ (Missed /\ (ToShell => Unstable(index)))
    /\ (answer.code = "cached" /\ Len(index) = 1) => answer.body.of # index

SInv ==
    /\ index \in Index
    /\ \A n \in Name : tree[n] \in since[n]
    /\ Copied /\ Handling /\ Shown

\* What a request has seen so far stays seen: only since changes, and it grows.
LEMMA SeenStays ==
  ASSUME UNCHANGED <<index, spaFallback, path>>, \A n \in Name : since[n] \subseteq since'[n]
  PROVE  /\ \A n : Resolved(n) => Resolved(n)'
         /\ \A n : Unstable(n) => Unstable(n)'
         /\ \A n : Servable(n) => Servable(n)'
         /\ \A f : Held(f) => Held(f)'
         /\ Missed => Missed'
         /\ ToShell' <=> ToShell
  <1>1. S!rel' = S!rel /\ S!refused(path)' = S!refused(path)
    BY DEF S!rel, S!refused
  <1>2. \A n : S!Ever(n) \subseteq S!Ever(n)'
    BY DEF S!Ever
  <1>3. ASSUME NEW n, Resolved(n) PROVE Resolved(n)'
    BY <1>1, <1>2, <1>3 DEF Resolved
  <1>4. ASSUME NEW n, Unstable(n) PROVE Unstable(n)'
    BY <1>2, <1>4 DEF Unstable
  <1>5. ToShell' <=> ToShell
    BY <1>1 DEF ToShell, S!extensionless
  <1>6. Missed => Missed'
    BY <1>1, <1>3, <1>4 DEF Missed
  <1>7. \A n : Servable(n) => Servable(n)'
    BY <1>1, <1>3, <1>5, <1>6 DEF Servable
  <1> QED BY <1>3, <1>4, <1>5, <1>6, <1>7 DEF Held

\* A step that ends no request and leaves the copy as it is.
LEMMA StaticSame ==
  ASSUME SInv, UNCHANGED <<index, spaFallback, path, copy>>,
         \A n \in Name : since[n] \subseteq since'[n] /\ tree'[n] \in since'[n],
         Handling',
         at' = "idle" => at = "idle" /\ UNCHANGED answer
  PROVE  SInv'
  <1>1. Copied'
    BY DEF SInv, Copied, S!Long
  <1>2. Shown'
    <2> SUFFICES ASSUME at' = "idle", answer' # Nothing PROVE Shown'
      BY DEF Shown, S!Shown
    <2>1. S!Shown /\ answer' = answer
      BY DEF S!Shown
    <2>2. S!refused(path)' = S!refused(path)
      BY DEF S!refused
    <2>3. (answer.code \in {"200", "304"} => Held(answer.body) /\ Servable(answer.body.of))'
      BY <2>1, SeenStays DEF SInv, Shown
    <2>4. (answer.code = "404" =>
            /\ answer.body = Nothing
            /\ S!refused(path) \/ (Missed /\ (ToShell => Unstable(index))))'
      BY <2>1, <2>2, SeenStays DEF SInv, Shown
    <2>5. ((answer.code = "cached" /\ Len(index) = 1) => answer.body.of # index)'
      BY <2>1 DEF SInv, Shown
    <2> QED BY <2>3, <2>4, <2>5 DEF Shown
  <1> QED BY <1>1, <1>2 DEF SInv

\* A request that fails shows no body.
LEMMA FailShows ==
  ASSUME SInv, UNCHANGED <<index, path>>, NEW code \in {"404", "405", "500"}, S!Fail(code),
         \A n \in Name : tree'[n] \in since'[n],
         (code = "404") => (S!refused(path) \/ (Missed /\ (ToShell => Unstable(index))))'
  PROVE  SInv'
  <1>1. at' = "idle" /\ copy' = copy /\ answer' = [code |-> code, body |-> Nothing]
    BY DEF S!Fail, S!Show, S!Return
  <1>2. answer'.code = code /\ answer'.body = Nothing
    BY <1>1
  <1>3. Copied' /\ Handling'
    BY <1>1 DEF SInv, Copied, Handling, S!Long
  <1>4. Shown'
    BY <1>2 DEF Shown
  <1> QED BY <1>3, <1>4 DEF SInv

\* The browser asks.
LEMMA ArriveKeeps ==
  ASSUME SInv, NEW m \in {"GET", "HEAD", "POST"}, S!Arrive(m)
  PROVE  SInv'
  <1>1. /\ UNCHANGED <<index, spaFallback, path, tree>>
        /\ \A n \in Name : since'[n] = {tree[n]}
    BY DEF S!Arrive, S!cfgVars, S!treeVars
  <1>2. S!rel' = S!rel /\ S!refused(path)' = S!refused(path)
    BY <1>1 DEF S!rel, S!refused
  <1>3. CASE S!Fail("405") \/ (S!refused(path) /\ S!Fail("404"))
    BY <1>1, <1>2, <1>3, FailShows
  <1>4. CASE /\ ~S!refused(path)
             /\ at' = IF S!rel = <<>> THEN "open" ELSE "stat"
             /\ name' = IF S!rel = <<>> THEN index ELSE S!rel
             /\ UNCHANGED copy
    <2>1. Handling'
      BY <1>1, <1>2, <1>4 DEF Handling, Resolved
    <2>2. Shown' /\ Copied'
      BY <1>1, <1>4 DEF Shown, S!Shown, SInv, Copied, S!Long
    <2> QED BY <1>1, <2>1, <2>2 DEF SInv
  <1> QED BY <1>3, <1>4 DEF S!Arrive

\* The browser shows its copy without asking, or lets it lapse.
LEMMA CacheKeeps ==
  ASSUME SInv, S!FromCache \/ S!Expire
  PROVE  SInv'
  <1>1. /\ UNCHANGED <<index, spaFallback, path, tree, at>> /\ at = "idle"
        /\ copy # Nothing /\ copy.cc = S!Long
    BY DEF S!FromCache, S!Expire, S!cfgVars, S!treeVars, S!Fresh
  <1>2. Handling'
    BY <1>1 DEF Handling
  <1>3. CASE S!FromCache
    <2>1. /\ \A n \in Name : since'[n] = {tree[n]}
          /\ copy' = copy /\ answer'.code = "cached" /\ answer'.body = copy.body
      BY <1>3 DEF S!FromCache, S!Show
    <2>2. Copied' /\ Shown'
      BY <1>1, <2>1 DEF SInv, Copied, Shown, S!Long
    <2> QED BY <1>1, <1>2, <2>1, <2>2 DEF SInv
  <1>4. CASE S!Expire
    <2>1. copy' = [copy EXCEPT !.cc = Nothing] /\ UNCHANGED <<since, answer>>
      BY <1>4 DEF S!Expire
    <2>2. /\ copy'.body = copy.body /\ copy'.etag = copy.etag /\ copy'.cc = Nothing
          /\ copy' = [etag |-> copy.etag, cc |-> Nothing, body |-> copy.body]
      BY SMT, <1>1, <2>1 DEF SInv, Copied
    <2>3. Nothing # S!Long
      BY TerminalAssumption
    <2>4. Copied'
      BY <1>1, <2>2, <2>3 DEF SInv, Copied, S!Long
    <2>5. Shown'
      <3>1. S!rel' = S!rel /\ S!refused(path)' = S!refused(path)
        BY <1>1 DEF S!rel, S!refused
      <3>2. \A n \in Name : since[n] \subseteq since'[n]
        BY <2>1
      <3> QED BY <1>1, <2>1, <3>1, <3>2, SeenStays DEF SInv, Shown, S!Shown
    <2> QED BY <1>1, <1>2, <2>1, <2>4, <2>5 DEF SInv
  <1> QED BY <1>3, <1>4

\* root.Stat: what the path is at that moment has been seen.
LEMMA StatKeeps ==
  ASSUME SInv, S!Stat
  PROVE  SInv'
  <1>1. /\ UNCHANGED <<index, spaFallback, path, tree, since, answer, copy>>
        /\ at = "stat" /\ at' = "open"
        /\ name' = IF S!EntryOf(name) = Dir THEN name \o index ELSE name
    BY DEF S!Stat, S!cfgVars, S!treeVars
  <1>2. S!refused(path)' = S!refused(path)
    BY <1>1 DEF S!refused
  <1>3. ~S!refused(path) /\ S!rel # <<>> /\ name = S!rel
    BY <1>1 DEF SInv, Handling
  <1>4. S!EntryOf(S!rel) \in S!Ever(S!rel)
    BY DEF S!EntryOf, S!Ever, SInv
  <1>5. Resolved(name')
    BY <1>1, <1>3, <1>4 DEF Resolved
  <1>6. \A n \in Name : since[n] \subseteq since'[n] /\ tree'[n] \in since'[n]
    BY <1>1 DEF SInv
  <1>7. Handling'
    BY <1>1, <1>2, <1>3, <1>5, <1>6, SeenStays DEF Handling
  <1> QED BY <1>1, <1>6, <1>7, StaticSame

\* serveFile opens the file, turns to the shell, or misses.
LEMMA OpenKeeps ==
  ASSUME SInv, S!Open
  PROVE  SInv'
  <1>1. /\ UNCHANGED <<index, spaFallback, path, tree, since>>
        /\ at \in {"open", "fallback"}
    BY DEF S!Open, S!OpenWhen, S!cfgVars, S!treeVars
  <1>2. S!refused(path)' = S!refused(path)
    BY <1>1 DEF S!refused
  <1>3. \A n \in Name : since[n] \subseteq since'[n] /\ tree'[n] \in since'[n]
    BY <1>1 DEF SInv
  <1>4. Servable(name) /\ (at = "open" => Resolved(name))
        /\ (at = "fallback" => name = index /\ ToShell)
    BY <1>1 DEF SInv, Handling, Servable
  <1>5. S!EntryOf(name) \in S!Ever(name)
    BY DEF S!EntryOf, S!Ever, SInv
  <1>6. Resolved(name) => name \in {index, S!rel, S!rel \o index}
    BY DEF Resolved
  <1>7. CASE /\ S!EntryOf(name) \in S!Deployed
             /\ file' = [of |-> name, at |-> tree[name]]
             /\ at' = "serve" /\ UNCHANGED <<name, answer, copy>>
    <2>1. Nothing \notin S!File /\ Nothing \notin S!Deployed
      BY TerminalAssumption
    <2>2. name \in Name /\ tree[name] \in S!Deployed /\ tree[name] \in since[name]
      BY <1>7, <2>1 DEF S!EntryOf, SInv
    <2>3. file'.of = name /\ file'.at = tree[name] /\ file' \in S!File
      BY <1>7, <2>2 DEF S!File
    <2>4. Held(file')
      BY <2>1, <2>2, <2>3 DEF Held
    <2>5. Handling'
      BY <1>1, <1>3, <1>4, <1>7, <2>3, <2>4, SeenStays DEF Handling
    <2> QED BY <1>1, <1>3, <1>7, <2>5, StaticSame
  <1>8. CASE /\ S!EntryOf(name) \notin S!Deployed
             /\ at = "open" /\ ToShell
             /\ at' = "fallback" /\ name' = index /\ UNCHANGED <<file, answer, copy>>
    <2>1. Missed
      BY <1>4, <1>5, <1>6, <1>8 DEF Missed, Unstable
    <2>2. Servable(index)
      BY <1>4, <1>8, <2>1 DEF Servable
    <2>3. Handling'
      BY <1>1, <1>3, <1>8, <2>2, SeenStays DEF Handling
    <2> QED BY <1>1, <1>3, <1>8, <2>3, StaticSame
  <1>9. CASE /\ S!EntryOf(name) \notin S!Deployed
             /\ ~(at = "open" /\ ToShell) /\ S!Fail("404")
    <2>1. Unstable(name)
      BY <1>5, <1>9 DEF Unstable
    <2>2. Missed /\ (ToShell => Unstable(index))
      <3>1. CASE at = "open"
        BY <1>4, <1>6, <1>9, <2>1, <3>1 DEF Missed
      <3>2. CASE at = "fallback"
        <4>1. Resolved(index) => Missed
          BY <1>4, <2>1, <3>2 DEF Missed
        <4> QED BY <1>4, <2>1, <3>2, <4>1 DEF Servable
      <3> QED BY <1>1, <3>1, <3>2
    <2>3. Missed' /\ (ToShell' => ToShell)
      BY <1>1, <1>3, <2>2, SeenStays
    <2>4. Unstable(index) => Unstable(index)'
      BY <1>1, <1>3, SeenStays
    <2> QED BY <1>1, <1>3, <1>9, <2>2, <2>3, <2>4, FailShows
  <1> QED BY <1>7, <1>8, <1>9 DEF S!Open, S!OpenWhen, ToShell

\* The rest of serveFile: the open file's ETag names what the browser gets.
LEMMA ServeKeeps ==
  ASSUME SInv, S!Serve
  PROVE  SInv'
  <1>1. /\ UNCHANGED <<index, spaFallback, path, tree, since>> /\ at = "serve" /\ at' = "idle"
        /\ S!ServeContent(file, IF <<S!Base(name)>> = index THEN "no-cache" ELSE cacheControl)
    BY DEF S!Serve, S!ServeWith, S!Return, S!cfgVars, S!treeVars
  <1>2. Held(file) /\ file.of = name /\ Servable(name)
    BY <1>1 DEF SInv, Handling
  <1> DEFINE cc == IF <<S!Base(name)>> = index THEN "no-cache" ELSE cacheControl
             same == copy # Nothing /\ copy.etag = file
  <1>3. same => copy.body = file
    BY DEF SInv, Copied
  <1>4. answer' = [code |-> IF same THEN "304" ELSE "200", body |-> file]
    BY <1>1, <1>3 DEF S!ServeContent, S!Show
  <1>5. copy' = copy \/ copy' = [etag |-> file, cc |-> cc, body |-> file]
    BY <1>1, <1>3 DEF S!ServeContent
  <1>6. \A n \in Name : since[n] \subseteq since'[n] /\ tree'[n] \in since'[n]
    BY <1>1 DEF SInv
  <1>7. (Len(index) = 1 /\ file.of = index) => cc # S!Long
    <2> SUFFICES ASSUME Len(index) = 1, name = index PROVE cc # S!Long
      BY <1>2
    <2>1. index \in Seq(STRING)
      BY TerminalAssumption DEF SInv
    <2>2. S!Base(index) = index[1]
      BY DEF S!Base
    <2>3. <<index[1]>> = index
      BY SMT, <2>1
    <2> QED BY <2>2, <2>3 DEF S!Long
  <1>8. Copied'
    <2>1. CASE copy' = copy
      BY <1>1, <2>1 DEF SInv, Copied, S!Long
    <2>2. CASE copy' = [etag |-> file, cc |-> cc, body |-> file]
      <3>1. copy'.etag = file /\ copy'.cc = cc /\ copy'.body = file
        BY <2>2
      <3> QED BY <1>1, <1>7, <2>2, <3>1 DEF Copied, S!Long
    <2> QED BY <1>5, <2>1, <2>2
  <1>9. Shown'
    <2>1. PICK f : f = file
      OBVIOUS
    <2>2. answer'.code \in {"200", "304"} /\ answer'.body = f
      BY <1>4, <2>1
    <2>3. Held(f)' /\ Servable(f.of)'
      BY <1>1, <1>2, <1>6, <2>1, SeenStays
    <2> QED BY <2>2, <2>3 DEF Shown
  <1> QED BY <1>1, <1>6, <1>8, <1>9 DEF SInv, Handling

\* A deployment only adds to what the request has seen.
LEMMA DeployKeeps ==
  ASSUME SInv, NEW n \in Name, S!Deploy(n)
  PROVE  SInv'
  <1>1. /\ UNCHANGED <<index, spaFallback, path, at, name, file, answer, copy>>
        /\ \A m \in Name : since'[m] = since[m] \cup {tree'[m]}
    BY DEF S!Deploy, S!cfgVars
  <1>2. \A m \in Name : since[m] \subseteq since'[m] /\ tree'[m] \in since'[m]
    BY <1>1
  <1>3. S!rel' = S!rel /\ S!refused(path)' = S!refused(path)
    BY <1>1 DEF S!rel, S!refused
  <1>4. ASSUME NEW m PROVE /\ Resolved(m) => Resolved(m)'
                           /\ Servable(m) => Servable(m)'
                           /\ Held(m) => Held(m)'
    BY <1>1, <1>2, SeenStays
  <1>5. Handling'
    <2>1. (at = "stat" => ~S!refused(path) /\ S!rel # <<>> /\ name = S!rel)'
      BY <1>1, <1>3 DEF SInv, Handling
    <2>2. (at = "open" => ~S!refused(path) /\ Resolved(name))'
      BY <1>1, <1>3, <1>4 DEF SInv, Handling
    <2>3. ToShell' <=> ToShell
      BY <1>1, <1>2, SeenStays
    <2>4. (at = "fallback" => name = index /\ ToShell /\ Servable(name))'
      BY <1>1, <1>4, <2>3 DEF SInv, Handling
    <2>5. (at = "serve" => Held(file) /\ file.of = name /\ Servable(name))'
      BY <1>1, <1>4 DEF SInv, Handling
    <2> QED BY <2>1, <2>2, <2>4, <2>5 DEF Handling
  <1> QED BY <1>1, <1>2, <1>5, StaticSame

\* Before the browser asks there is nothing to be wrong about.
LEMMA StaticInit == S!Init => SInv
  BY DEF S!Init, SInv, Copied, Handling, Shown, S!Shown

\* Every step of the browser, the handler and the deployments keeps the invariant.
LEMMA StaticKeeps == SInv /\ [S!Next]_(S!vars) => SInv'
  <1> SUFFICES ASSUME SInv, [S!Next]_(S!vars) PROVE SInv'
    OBVIOUS
  <1>1. CASE S!StatFails
    <2>1. /\ UNCHANGED <<index, spaFallback, path, tree, since>> /\ S!Fail("500")
      BY <1>1 DEF S!StatFails, S!cfgVars, S!treeVars
    <2>2. \A n \in Name : tree'[n] \in since'[n]
      BY <2>1 DEF SInv
    <2> QED BY <2>1, <2>2, FailShows
  <1>2. CASE UNCHANGED S!vars
    <2>1. UNCHANGED <<index, spaFallback, path, tree, since, at, name, file, answer, copy>>
      BY <1>2 DEF S!vars, S!cfgVars, S!treeVars
    <2>2. \A n \in Name : since[n] \subseteq since'[n] /\ tree'[n] \in since'[n]
      BY <2>1 DEF SInv
    <2>3. S!rel' = S!rel /\ S!refused(path)' = S!refused(path)
      BY <2>1 DEF S!rel, S!refused
    <2>4. Handling'
      BY <2>1, <2>2, <2>3, SeenStays DEF SInv, Handling
    <2> QED BY <2>1, <2>2, <2>4, StaticSame
  <1> QED BY <1>1, <1>2, ArriveKeeps, CacheKeeps, StatKeeps, OpenKeeps, ServeKeeps, DeployKeeps
          DEF S!Next

\* The names a stable target leaves to be resolved to: itself.
LEMMA StableTarget ==
  ASSUME NEW n, Resolved(n), ~Unstable(IF S!rel = <<>> \/ S!Ever(S!rel) = {Dir}
                                         THEN S!rel \o index ELSE S!rel),
         index \in Index
  PROVE  n = IF S!rel = <<>> \/ S!Ever(S!rel) = {Dir} THEN S!rel \o index ELSE S!rel
  <1>1. Dir \notin S!Deployed /\ index \in Seq(STRING)
    BY TerminalAssumption
  <1>2. <<>> \o index = index
    BY SMT, <1>1
  <1>3. CASE S!rel = <<>>
    BY <1>2, <1>3 DEF Resolved
  <1>4. CASE S!rel # <<>> /\ S!Ever(S!rel) = {Dir}
    BY <1>4 DEF Resolved
  <1>5. CASE S!rel # <<>> /\ S!Ever(S!rel) # {Dir}
    <2>1. Dir \notin S!Ever(S!rel)
      BY <1>1, <1>5 DEF Unstable
    <2> QED BY <1>5, <2>1 DEF Resolved
  <1> QED BY <1>3, <1>4, <1>5

\* What the invariant says of the browser is what it is to see.
LEMMA StaticCurrent == SInv => S!BrowserUpToDate
  <1>1. ASSUME SInv, S!Shown, answer.code \in {"200", "304"} PROVE S!Current(answer.body)
    BY <1>1 DEF SInv, Shown, Held, S!Current, S!Ever
  <1>2. ASSUME SInv, S!Shown, answer.code = "cached", Len(index) = 1, answer.body.of = index
        PROVE  FALSE
    BY <1>2 DEF SInv, Shown
  <1> QED BY <1>1, <1>2 DEF S!BrowserUpToDate

\* And of the file it is to get.
LEMMA StaticRight == SInv => S!RightFile
  <1> SUFFICES ASSUME SInv, S!Shown, answer.code \in {"200", "304", "404"} PROVE S!RightFile
    BY DEF S!RightFile
  <1> DEFINE target == IF S!rel = <<>> \/ S!Ever(S!rel) = {Dir} THEN S!rel \o index ELSE S!rel
             served == IF answer.body = Nothing THEN <<>> ELSE answer.body.of
             stable(n) == S!Ever(n) \subseteq S!Deployed
  <1>1. ASSUME NEW n PROVE stable(n) <=> ~Unstable(n)
    BY DEF Unstable
  <1>2. index \in Index /\ <<>> \notin Name \cup Index /\ index \in Seq(STRING)
    BY TerminalAssumption DEF SInv
  <1>3. <<>> \o index = index
    BY SMT, <1>2
  <1>4. ASSUME NEW n, Resolved(n) PROVE n \in {S!rel, S!rel \o index}
    BY <1>3, <1>4 DEF Resolved
  <1>5. ASSUME Missed PROVE ~stable(target)
    <2>1. PICK n : Resolved(n) /\ Unstable(n)
      BY <1>5 DEF Missed
    <2> QED BY <1>1, <1>2, <2>1, StableTarget
  <1>6. CASE answer.code \in {"200", "304"}
    <2>1. /\ ~S!refused(path) /\ served \in Name /\ served # <<>>
          /\ Resolved(served) \/ (served = index /\ ToShell /\ Missed)
      BY <1>2, <1>6 DEF SInv, Shown, Held, Servable
    <2>2. stable(target) => served = target
      BY <1>1, <1>2, <1>5, <2>1, StableTarget
    <2>3. served \in {<<>>, S!rel, S!rel \o index, index}
      BY <1>4, <2>1
    <2>4. (served = index /\ index \notin {S!rel, S!rel \o index}) => ToShell
      BY <1>4, <2>1
    <2> QED BY <2>1, <2>2, <2>3, <2>4 DEF S!RightFile, ToShell
  <1>7. CASE answer.code = "404"
    <2>1. served = <<>> /\ (S!refused(path) \/ (Missed /\ (ToShell => ~stable(index))))
      BY <1>1, <1>7 DEF SInv, Shown
    <2>2. served # index
      BY <1>2, <2>1
    <2>3. ~S!refused(path) => ~stable(target)
      BY <1>5, <2>1
    <2> QED BY <2>1, <2>2, <2>3 DEF S!RightFile, ToShell
  <1> QED BY <1>6, <1>7

-----------------------------------------------------------------------------
(* The route                                                               *)

TInv == IInv /\ SInv

\* The handlers share nothing: each keeps its invariant, also while another one runs.
LEMMA Invariance == TerminalSpec => []TInv
  <1>1. TerminalInit => TInv
    BY InitEstablishes, StaticInit DEF TerminalInit, NoApi, NoStatic, TInv
  <1>2. TInv /\ [TerminalNext]_allVars => TInv'
    <2> SUFFICES ASSUME TInv, [TerminalNext]_allVars PROVE TInv'
      OBVIOUS
    <2>1. [Next]_vars
      BY DEF TerminalNext, allVars
    <2>2. [S!Next]_(S!vars)
      BY DEF TerminalNext, allVars, staticVars, S!vars, S!cfgVars, S!treeVars
    <2> QED BY <2>1, <2>2, NextKeeps, StaticKeeps DEF TInv
  <1> QED BY <1>1, <1>2, PTL DEF TerminalSpec

\* Whatever the number of backends and the order they finish in, a 200 of the api
\* handler accounts for each group exactly once and omits no required one.
THEOREM GroupsAccounted == TerminalSpec => []EveryGroupAccounted
  <1>1. TInv => EveryGroupAccounted
    BY DEF TInv, IInv
  <1> QED BY <1>1, Invariance, PTL

\* The api handler never answers while one of its backend goroutines is running.
THEOREM CallsFinishFirst == TerminalSpec => []NoCallOutlivesHandler
  <1>1. TInv => NoCallOutlivesHandler
    BY DEF TInv, IInv
  <1> QED BY <1>1, Invariance, PTL

\* Only a failed required backend makes the response of the api handler an error, and
\* only one that took too long makes it a 504, whatever the number of backends.
THEOREM ErrorsJustified == TerminalSpec => []ErrorFromRequired
  <1>1. TInv => ErrorFromRequired
    BY DEF TInv, IInv
  <1> QED BY <1>1, Invariance, PTL

\* For any files, paths, configuration and deployments, what an answer of the static
\* handler leaves the browser with was in the directory during the request, and no shell
\* at the top is shown from the cache after a deployment has replaced it.
THEOREM BrowserCurrent == TerminalSpec => []BrowserUpToDate
  <1>1. TInv => BrowserUpToDate
    BY StaticCurrent DEF TInv, BrowserUpToDate
  <1> QED BY <1>1, Invariance, PTL

\* Whatever is deployed meanwhile, the static handler serves the file the path names, or
\* the index of the directory it names, if that was there throughout; falls back to the
\* shell only for a path without extension; and resolves no hidden path.
THEOREM FileServed == TerminalSpec => []RightFile
  <1>1. TInv => RightFile
    BY StaticRight DEF TInv, RightFile
  <1> QED BY <1>1, Invariance, PTL
=============================================================================
