----------------------------- MODULE StaticFiles -----------------------------
(***************************************************************************)
(* The `static' terminal handler (terminal/static.go): a browser asks for  *)
(* one path again and again while a deployment replaces the files behind   *)
(* it.  A file name is the sequence of its path segments.  What a file     *)
(* holds is known by its name and the deployment that wrote it, and so is  *)
(* its ETag, made of the size and the modification time of the open file.  *)
(*                                                                         *)
(* Deployments are the environment's: they replace a file by renaming a    *)
(* new one over it, and no two files have the same size and time.          *)
(***************************************************************************)
EXTENDS Naturals, Sequences

CONSTANTS
    Name,         \* file names deployments may write
    Index,        \* h.index: the names of the shell a configuration may give
    Path,         \* request paths, as segments, after stripPrefix was cut off
    Nothing, Dir, \* what a name may be besides a file
    Hidden,       \* segments that start with "." and are not "."
    WithExt,      \* segments that have a file extension
    MaxDeploys    \* bound: changes to the directory

Long == "configured"    \* cacheControl, when it is set

VARIABLES
    index, spaFallback, cacheControl,    \* the handler's configuration
    path, method,    \* the request
    tree,            \* what each name is: absent, a directory or a file's deployment
    deploys,         \* deployments so far
    since,           \* everything each name has been since the request arrived
    pc, name, file,  \* ServeHTTP: where it is, the name it tries and the file it opened
    answer,          \* what the browser was shown last
    copy             \* the browser's copy of the path

cfgVars == <<index, spaFallback, cacheControl>>
treeVars == <<tree, deploys>>
vars == <<cfgVars, path, method, treeVars, since, pc, name, file, answer, copy>>

Names == Name \cup Index \cup {i \o j : i \in Name, j \in Index}
Deployed == 0 .. MaxDeploys
Entry == Deployed \cup {Nothing, Dir}
Policy == {Nothing, Long, "no-cache"}
File == [of : Name, at : Deployed]
Answer == [code : {"200", "304", "404", "405", "500", "cached"}, body : File \cup {Nothing}]
Copy == [body : File, etag : File, cc : Policy]

TypeOK ==
    /\ index \in Index /\ spaFallback \in BOOLEAN /\ cacheControl \in {Nothing, Long}
    /\ path \in Path /\ method \in {"GET", "HEAD", "POST"}
    /\ tree \in [Name -> Entry] /\ deploys \in Deployed
    /\ since \in [Name -> SUBSET Entry]
    /\ pc \in {"idle", "stat", "open", "serve", "fallback"}
    /\ name \in Names \cup {<<>>} /\ file \in File \cup {Nothing}
    /\ answer \in Answer \cup {Nothing}
    /\ copy \in Copy \cup {Nothing}

\* A file is in a directory.
WellFormed(t) ==
    \A n \in Name : Len(n) > 1 /\ t[n] # Nothing =>
        \A k \in 1 .. Len(n) - 1 : SubSeq(n, 1, k) \in Name => t[SubSeq(n, 1, k)] = Dir

\* A name others lie under is a directory, a file or absent; the others are no directory.
MayBeDir(n) == \E m \in Name : Len(m) > Len(n) /\ SubSeq(m, 1, Len(n)) = n

Init ==
    /\ index \in Index /\ spaFallback \in BOOLEAN /\ cacheControl \in {Nothing, Long}
    /\ path \in Path /\ method = "GET"
    /\ tree \in {t \in [Name -> {0, Nothing, Dir}] :
                    WellFormed(t) /\ \A n \in Name : t[n] = Dir => MayBeDir(n)}
    /\ deploys = 0
    /\ since = [n \in Name |-> {tree[n]}]
    /\ pc = "idle" /\ name = <<>> /\ file = Nothing
    /\ answer = Nothing /\ copy = Nothing

-----------------------------------------------------------------------------
(* The request                                                             *)

\* cleanRequestPath: a segment that starts with "." refuses the path; empty and "."
\* segments go.
refused(p) == \E i \in DOMAIN p : p[i] \in Hidden
clean(p) == SelectSeq(p, LAMBDA s : s # "" /\ s # ".")

rel == clean(path)

\* path.Base: the last segment.
Base(n) == n[Len(n)]

\* path.Ext(rel) == ""
extensionless(n) == n = <<>> \/ Base(n) \notin WithExt

Show(code, body) == answer' = [code |-> code, body |-> body]

Return == pc' = "idle" /\ name' = <<>> /\ file' = Nothing

Fail(code) == Show(code, Nothing) /\ Return /\ UNCHANGED copy

\* The browser may use its copy without asking.
Fresh == copy # Nothing /\ copy.cc = Long

\* The browser asks: the method is checked, the path cleaned, and the root is the index.
Arrive(m) ==
    /\ pc = "idle"
    /\ ~(m = "GET" /\ Fresh)
    /\ method' = m
    /\ since' = [n \in Name |-> {tree[n]}]
    /\ \/ m = "POST" /\ Fail("405")
       \/ m # "POST" /\ refused(path) /\ Fail("404")
       \/ /\ m # "POST" /\ ~refused(path)
          /\ pc' = IF rel = <<>> THEN "open" ELSE "stat"
          /\ name' = IF rel = <<>> THEN index ELSE rel
          /\ answer' = Nothing
          /\ UNCHANGED <<file, copy>>
    /\ UNCHANGED <<cfgVars, path, treeVars>>

\* The browser shows a copy it may use without asking, or asks once that is too old.
FromCache ==
    /\ pc = "idle"
    /\ Fresh
    /\ since' = [n \in Name |-> {tree[n]}]
    /\ Show("cached", copy.body)
    /\ UNCHANGED <<cfgVars, path, method, treeVars, pc, name, file, copy>>

Expire ==
    /\ pc = "idle"
    /\ Fresh
    /\ copy' = [copy EXCEPT !.cc = Nothing]
    /\ UNCHANGED <<cfgVars, path, method, treeVars, since, pc, name, file, answer>>

-----------------------------------------------------------------------------
(* ServeHTTP                                                               *)

EntryOf(n) == IF n \in Name THEN tree[n] ELSE Nothing

\* root.Stat: a directory stands for the index in it.
Stat ==
    /\ pc = "stat"
    /\ name' = IF EntryOf(name) = Dir THEN name \o index ELSE name
    /\ pc' = "open"
    /\ UNCHANGED <<cfgVars, path, method, treeVars, since, file, answer, copy>>

OpenWhen(shell) ==
    /\ pc \in {"open", "fallback"}
    /\ \/ /\ EntryOf(name) \in Deployed
          /\ file' = [of |-> name, at |-> tree[name]]
          /\ pc' = "serve"
          /\ UNCHANGED <<name, answer, copy>>
       \/ /\ EntryOf(name) \notin Deployed
          /\ IF pc = "open" /\ shell
               THEN /\ pc' = "fallback"
                    /\ name' = index
                    /\ UNCHANGED <<file, answer, copy>>
               ELSE Fail("404")
    /\ UNCHANGED <<cfgVars, path, method, treeVars, since>>

OpenAnyShell == OpenWhen(spaFallback)

\* serveFile's root.Open: a name that is absent, cannot be opened or is a directory is a
\* miss, and the miss of a path without extension falls back to the shell, once.
Open == OpenWhen(spaFallback /\ extensionless(rel))

\* f.Stat fails.
StatFails ==
    /\ pc = "serve"
    /\ Fail("500")
    /\ UNCHANGED <<cfgVars, path, method, treeVars, since>>

\* http.ServeContent with the ETag: 304 where the browser's copy has it.
ServeContent(etag, cc) ==
    LET same == copy # Nothing /\ copy.etag = etag
    IN  /\ IF same THEN Show("304", copy.body) ELSE Show("200", file)
        /\ copy' = IF method = "HEAD" THEN copy
                   ELSE [etag |-> etag, cc |-> cc,
                         body |-> IF same THEN copy.body ELSE file]

ServeWith(etag) ==
    /\ pc = "serve"
    /\ ServeContent(etag, IF <<Base(name)>> = index THEN "no-cache" ELSE cacheControl)
    /\ Return
    /\ UNCHANGED <<cfgVars, path, method, treeVars, since>>

ServeStatByName ==
    ServeWith(IF EntryOf(name) \in Deployed THEN [of |-> name, at |-> tree[name]] ELSE file)

\* The rest of serveFile: the ETag is that of the open file, and a file called like the
\* index is to be revalidated.
Serve == ServeWith(file)

-----------------------------------------------------------------------------
(* The deployment and the specification                                    *)

\* A name is written, made a directory or removed, a directory with what it holds.
Deploy(n) ==
    /\ deploys < MaxDeploys
    /\ deploys' = deploys + 1
    /\ \E e \in {deploys + 1, Nothing, Dir} \ {tree[n]} :
        /\ e = Dir => MayBeDir(n)
        /\ tree' = [m \in Name |-> IF m = n THEN e
                                   ELSE IF Len(m) > Len(n) /\ SubSeq(m, 1, Len(n)) = n
                                     THEN Nothing ELSE tree[m]]
    /\ WellFormed(tree')
    /\ since' = [m \in Name |-> since[m] \cup {tree'[m]}]
    /\ UNCHANGED <<cfgVars, path, method, pc, name, file, answer, copy>>

Next ==
    \/ \E m \in {"GET", "HEAD", "POST"} : Arrive(m)
    \/ FromCache \/ Expire
    \/ Stat \/ Open \/ StatFails \/ Serve
    \/ \E n \in Name : Deploy(n)

Spec == Init /\ [][Next]_vars

-----------------------------------------------------------------------------
(* Properties                                                              *)

Ever(n) == IF n \in Name THEN since[n] ELSE {Nothing}
Shown == pc = "idle" /\ answer # Nothing
Current(body) == body # Nothing /\ body.at \in Ever(body.of)

\* ServeContent handles "If-None-Match (against our ETag)" (static.go:160): what an answer
\* leaves the browser with, sent or revalidated, is what that file held at some moment of
\* the request, though deployments fall between the requests and between the handler's
\* calls.  "Shell (the SPA entry) is always revalidated" (static.go:152): nor does the
\* browser show a shell from its cache that a deployment had replaced before it asked,
\* whatever cacheControl says.  Where the index is a file in a directory, see
\* ShellNeverStaleNested.
BrowserUpToDate ==
    /\ (Shown /\ answer.code \in {"200", "304"}) => Current(answer.body)
    /\ (Shown /\ answer.code = "cached" /\ Len(index) = 1 /\ answer.body.of = index) =>
         Current(answer.body)

\* The same of every index the configuration may name.
\* (The code does not keep this: README, Disagreements.)
ShellNeverStaleNested ==
    (Shown /\ answer.code = "cached" /\ answer.body.of = index) => Current(answer.body)

\* A request is answered with the file its path names, or with the index of the directory
\* it names, when that was there throughout, whatever else is deployed meanwhile.  A path
\* without extension falls back to the shell, one with an extension never; and no path
\* with a segment that starts with "." is ever resolved.
RightFile ==
    (Shown /\ answer.code \in {"200", "304", "404"}) =>
        LET target == IF rel = <<>> \/ Ever(rel) = {Dir} THEN rel \o index ELSE rel
            served == IF answer.body = Nothing THEN <<>> ELSE answer.body.of
            stable(n) == Ever(n) \subseteq Deployed
        IN  IF refused(path) THEN served = <<>>
            ELSE /\ stable(target) => served = target
                 /\ served \in {<<>>, rel, rel \o index, index}
                 /\ (served = index /\ index \notin {rel, rel \o index}) =>
                        spaFallback /\ extensionless(rel)
                 /\ (spaFallback /\ extensionless(rel) /\ stable(index)) => served # <<>>
=============================================================================
