------------------------------ MODULE Terminal ------------------------------
(***************************************************************************)
(* The terminal handler of a route: app.Build gives each route the one its *)
(* handler.type names (buildTerminal), `api' (Aggregate), `reverse-proxy'  *)
(* (Proxy), `static' (StaticFiles) or `health', and a request runs that    *)
(* one.  The variables of the others keep their first values.              *)
(***************************************************************************)
EXTENDS Aggregate, Sequences

CONSTANTS Name, Index, Path, Nothing, Dir, Hidden, WithExt, MaxDeploys

VARIABLES
    handler,    \* handler.type
    proxy, proxyCtx, proxyPc, proxyCause, proxyResponse, proxyEnd,
    index, spaFallback, cacheControl, path, method, tree, deploys, since, at, name, file,
    answer, copy,
    healthy     \* responses of the health handler

P == INSTANCE Proxy WITH bounded <- proxy, ctx <- proxyCtx, pc <- proxyPc,
                         cause <- proxyCause, response <- proxyResponse, end <- proxyEnd

S == INSTANCE StaticFiles WITH pc <- at

\* A file has a name, and Nothing and Dir are what no file is.
ASSUME TerminalAssumption ==
    /\ Index \subseteq Seq(STRING) /\ <<>> \notin Name \cup Index
    /\ Nothing \notin S!File \cup S!Deployed \cup {S!Long} /\ Dir \notin S!Deployed

proxyVars == <<proxy, proxyCtx, proxyPc, proxyCause, proxyResponse, proxyEnd>>
staticVars == <<index, spaFallback, cacheControl, path, method, tree, deploys, since, at,
                name, file, answer, copy>>
allVars == <<handler, vars, proxyVars, staticVars, healthy>>

TerminalTypeOK ==
    /\ handler \in {"api", "reverse-proxy", "static", "health"}
    /\ TypeOK /\ P!TypeOK /\ S!TypeOK
    /\ healthy \in {"none", "200"}

\* A handler that the route does not have.
NoApi == Init /\ required = {} /\ ~bounded
NoProxy == P!Init /\ ~proxy
NoStatic ==
    /\ S!Init
    /\ index = CHOOSE i \in Index : TRUE
    /\ path = CHOOSE p \in Path : TRUE
    /\ ~spaFallback /\ cacheControl = Nothing
    /\ tree = [n \in Name |-> Nothing]

TerminalInit ==
    /\ \/ handler = "api" /\ Init /\ NoProxy /\ NoStatic
       \/ handler = "reverse-proxy" /\ NoApi /\ P!Init /\ NoStatic
       \/ handler = "static" /\ NoApi /\ NoProxy /\ S!Init
       \/ handler = "health" /\ NoApi /\ NoProxy /\ NoStatic
    /\ healthy = "none"

\* The health handler answers 200 to every method and path.
Health == healthy' = "200"

TerminalNext ==
    /\ \/ handler = "api" /\ Next /\ UNCHANGED <<proxyVars, staticVars, healthy>>
       \/ handler = "reverse-proxy" /\ P!Next /\ UNCHANGED <<vars, staticVars, healthy>>
       \/ handler = "static" /\ S!Next /\ UNCHANGED <<vars, proxyVars, healthy>>
       \/ handler = "health" /\ Health /\ UNCHANGED <<vars, proxyVars, staticVars>>
    /\ UNCHANGED handler

\* As in Aggregate, of the handler that runs: the gateway's steps happen and the timers
\* fire; a backend may never answer, and the client may neither send nor read.
TerminalFairness ==
    /\ \A b \in Backend : WF_vars(handler = "api" /\ Local(b))
    /\ WF_vars(handler = "api" /\ Merge)
    /\ WF_vars(handler = "api" /\ Deadline)
    /\ WF_proxyVars(handler = "reverse-proxy" /\ P!Local)
    /\ WF_proxyVars(handler = "reverse-proxy" /\ P!Deadline)

TerminalSpec == TerminalInit /\ [][TerminalNext]_allVars /\ TerminalFairness

-----------------------------------------------------------------------------
(* Properties                                                              *)

\* static: what an answer leaves the browser with is current, and no stale shell is shown
\* from its cache (static.go:152-162).
BrowserUpToDate == S!BrowserUpToDate

\* static: a request gets the file its path names, or the shell (static.go:107-123).
RightFile == S!RightFile

\* Whatever its type, a handler that calls others is not held up by them: with a timeout,
\* or once the client has gone, it comes to an end, and the proxy waits for nothing but
\* its own client.  Without either, the transport limits the wait for the headers
\* (forward.go:17-29), and only a body on its way, of the answer or of the proxied
\* request, that stalls holds it up.
AnswersDespiteUpstreams ==
    /\ handler = "api" => AnswersDespiteBackends
    /\ handler = "reverse-proxy" => P!AnswersDespiteUpstream
=============================================================================
