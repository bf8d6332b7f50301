------------------------------ MODULE Lifecycle ------------------------------
(***************************************************************************)
(* The life of a gateway in its process: hog.Run and app.Run from the      *)
(* configuration to the flushed telemetry, with the goroutine that serves, *)
(* the requests in flight, the spans they leave and the signal that ends   *)
(* it.  A program that embeds HOG may call hog.Run again.                  *)
(***************************************************************************)
EXTENDS Naturals

CONSTANTS
    Request,    \* requests of the clients
    MaxRuns     \* bound: calls of hog.Run

ASSUME LifecycleAssumption == MaxRuns \in Nat

VARIABLES
    exporting,   \* otlp.endpoint is set
    collector,   \* the collector takes what is sent to it
    quiet,       \* logLevel is above accessLog.level
    registered,  \* the built-in modules are in registry.Default
    runs, pc,    \* calls of hog.Run so far; where the last one is
    ret,         \* what it returns
    signalled,   \* ctx is done
    inShutdown,  \* srv.Shutdown has been called
    server,      \* the serve goroutine of the last run
    errCh,       \* the buffered channel it reports on
    failed,      \* it reported an error
    providers,   \* telemetry providers that are running
    req, span,   \* per request: its handler, its span
    upgraded,    \* requests whose connection the reverse proxy has hijacked
    lines,       \* requests with an access line
    overrun      \* Shutdown gave up on a request

tel == <<providers, span>>
srv == <<inShutdown, server, errCh, failed>>
config == <<exporting, collector, quiet>>
reqVars == <<req, upgraded>>
vars == <<config, registered, runs, pc, ret, signalled, srv, tel, reqVars, lines, overrun>>

None == "none"
Providers == {"tracer", "meter"}

TypeOK ==
    /\ exporting \in BOOLEAN /\ collector \in BOOLEAN /\ quiet \in BOOLEAN
    /\ registered \in BOOLEAN
    /\ runs \in 0 .. MaxRuns
    /\ pc \in {"idle", "load", "tracer", "meter", "build", "select", "drain", "flush",
               "returned", "panicked"}
    /\ ret \in {None, "nil", "error", "panic"}
    /\ signalled \in BOOLEAN /\ inShutdown \in BOOLEAN
    /\ server \in {None, "starting", "listening", "stopped", "gone"}
    /\ errCh \in {None, "nil", "error"} /\ failed \in BOOLEAN
    /\ providers \subseteq Providers
    /\ req \in [Request -> {None, "active", "done"}]
    /\ span \in [Request -> {None, "queued", "exported", "lost", "unsampled"}]
    /\ upgraded \subseteq Request
    /\ lines \subseteq Request /\ overrun \in BOOLEAN

Init ==
    /\ exporting \in BOOLEAN /\ collector \in BOOLEAN /\ quiet \in BOOLEAN
    /\ registered = FALSE
    /\ runs = 0 /\ pc = "idle" /\ ret = None
    /\ signalled = FALSE
    /\ inShutdown = FALSE /\ server = None /\ errCh = None /\ failed = FALSE
    /\ providers = {} /\ span = [r \in Request |-> None]
    /\ req = [r \in Request |-> None]
    /\ upgraded = {} /\ lines = {} /\ overrun = FALSE

-----------------------------------------------------------------------------
(* Starting                                                                *)

\* hog.Run: register the built-in modules; Register panics on a duplicate.
Call ==
    /\ pc \in {"idle", "returned"} /\ server \in {None, "gone"}
    /\ \A r \in Request : req[r] # "active"
    /\ runs < MaxRuns
    /\ runs' = runs + 1
    /\ pc' = IF registered THEN "panicked" ELSE "load"
    /\ registered' = TRUE
    /\ ret' = None /\ signalled' = FALSE
    /\ inShutdown' = FALSE /\ server' = None /\ errCh' = None /\ failed' = FALSE
    /\ UNCHANGED <<config, tel, reqVars, lines, overrun>>

To(point) == pc' = point /\ UNCHANGED ret
Return(result) == pc' = "returned" /\ ret' = result

\* config.Load and Parse
Load ==
    /\ pc = "load"
    /\ To("tracer") \/ Return("error")
    /\ UNCHANGED <<config, registered, runs, signalled, srv, tel, reqVars, lines, overrun>>

\* telemetry.Setup: the trace exporter, then the tracer provider.
SetupTracer ==
    /\ pc = "tracer"
    /\ \/ To("meter") /\ providers' = providers \cup {"tracer"}
       \/ exporting /\ Return("error") /\ UNCHANGED providers
    /\ UNCHANGED <<config, registered, runs, signalled, srv, span, reqVars, lines, overrun>>

SetupMeterRollingBack(left) ==
    /\ pc = "meter"
    /\ \/ To("build") /\ providers' = providers \cup {"meter"}
       \/ exporting /\ Return("error") /\ providers' = left
    /\ UNCHANGED <<config, registered, runs, signalled, srv, span, reqVars, lines, overrun>>

SetupMeterOnly == SetupMeterRollingBack(providers)

\* telemetry.Setup: the metric exporter; when it fails what was built is rolled back.
SetupMeter == SetupMeterRollingBack({})

\* Build; when it succeeds, start the goroutine that serves.  It panics on match patterns
\* that ServeMux cannot tell apart, which unwinds through the deferred flush.  It does not
\* look at ctx, and discovers each OpenID provider without a deadline (register.go:18,
\* oidc.go:263), so it may also not return.
Build ==
    /\ pc = "build"
    /\ \/ /\ pc' = "select" /\ UNCHANGED ret
          /\ server' = "starting" /\ UNCHANGED <<inShutdown, errCh, failed>>
       \/ pc' = "flush" /\ ret' \in {"error", "panic"} /\ UNCHANGED srv
    /\ UNCHANGED <<config, registered, runs, signalled, tel, reqVars, lines, overrun>>

-----------------------------------------------------------------------------
(* The goroutine that serves, and the requests                             *)

\* ListenAndServe refuses to start once Shutdown has been called.
Listen ==
    /\ server = "starting"
    /\ server' = IF inShutdown THEN "stopped" ELSE "listening"
    /\ UNCHANGED <<config, registered, runs, pc, ret, signalled, inShutdown, errCh, failed,
                   tel, reqVars, lines, overrun>>

\* The address is in use, or Accept fails.
Fail ==
    /\ server \in {"starting", "listening"} /\ ~inShutdown
    /\ server' = "stopped" /\ failed' = TRUE
    /\ UNCHANGED <<config, registered, runs, pc, ret, signalled, inShutdown, errCh, tel,
                   reqVars, lines, overrun>>

\* Shutdown has closed the listener: ListenAndServe returns ErrServerClosed.
Close ==
    /\ server = "listening" /\ inShutdown
    /\ server' = "stopped"
    /\ UNCHANGED <<config, registered, runs, pc, ret, signalled, inShutdown, errCh, failed,
                   tel, reqVars, lines, overrun>>

ReportWhen(room) ==
    /\ server = "stopped"
    /\ room
    /\ server' = "gone"
    /\ errCh' = IF failed THEN "error" ELSE "nil"
    /\ UNCHANGED <<config, registered, runs, pc, ret, signalled, inShutdown, failed, tel,
                   reqVars, lines, overrun>>

ReportToReceiver == ReportWhen(pc = "select")

\* errCh <- serve(srv): the channel has room for the one report; ErrServerClosed is
\* not an error.
Report == ReportWhen(errCh = None)

\* A request is accepted.
Arrive(r) ==
    /\ server = "listening" /\ ~inShutdown
    /\ req[r] = None
    /\ req' = [req EXCEPT ![r] = "active"]
    /\ UNCHANGED <<config, registered, runs, pc, ret, signalled, srv, tel, upgraded, lines,
                   overrun>>

\* The upstream of a proxied request switches protocols (a websocket): the connection is
\* hijacked, and no longer the server's, while the handler goes on.
Upgrade(r) ==
    /\ req[r] = "active" /\ r \notin upgraded
    /\ upgraded' = upgraded \cup {r}
    /\ UNCHANGED <<config, registered, runs, pc, ret, signalled, srv, tel, req, lines,
                   overrun>>

\* Its handler returns: the span ends, the access line is logged.  hog.Run hands
\* slog.Default() to app.Run, so the logger built from logLevel is not the one used.
Complete(r) ==
    /\ req[r] = "active"
    /\ req' = [req EXCEPT ![r] = "done"]
    /\ span' = [span EXCEPT ![r] = IF ~exporting THEN "unsampled"
                                   ELSE IF "tracer" \in providers THEN "queued" ELSE "lost"]
    /\ lines' = lines \cup {r}
    /\ UNCHANGED <<config, registered, runs, pc, ret, signalled, srv, providers, upgraded,
                   overrun>>

\* The batch span processor sends what it holds.
Export ==
    /\ collector
    /\ "tracer" \in providers
    /\ \E r \in Request : span[r] = "queued"
    /\ span' = [r \in Request |-> IF span[r] = "queued" THEN "exported" ELSE span[r]]
    /\ UNCHANGED <<config, registered, runs, pc, ret, signalled, srv, providers, reqVars,
                   lines, overrun>>

-----------------------------------------------------------------------------
(* Stopping                                                                *)

\* SIGINT, SIGTERM or the embedding program cancels ctx.
Signal ==
    /\ pc \notin {"idle", "returned", "panicked"}
    /\ ~signalled
    /\ signalled' = TRUE
    /\ UNCHANGED <<config, registered, runs, pc, ret, srv, tel, reqVars, lines, overrun>>

SelectDoneThen(point) ==
    /\ pc = "select"
    /\ signalled
    /\ inShutdown' = TRUE
    /\ pc' = point /\ ret' = "nil"
    /\ UNCHANGED <<config, registered, runs, signalled, server, errCh, failed, tel, reqVars,
                   lines, overrun>>

SelectDoneNoWait == SelectDoneThen("flush")

\* select takes <-ctx.Done(): srv.Shutdown stops the listener and waits.
SelectDone == SelectDoneThen("drain")

\* select takes <-errCh.
SelectErr ==
    /\ pc = "select"
    /\ errCh # None
    /\ pc' = "flush" /\ ret' = errCh
    /\ UNCHANGED <<config, registered, runs, signalled, srv, tel, reqVars, lines, overrun>>

\* Shutdown returns when no request is active, or after 10 seconds.  It does not wait for
\* connections that were hijacked.
Drained ==
    /\ pc = "drain"
    /\ To("flush")
    /\ overrun' = \E r \in Request \ upgraded : req[r] = "active"
    /\ UNCHANGED <<config, registered, runs, signalled, srv, tel, reqVars, lines>>

\* The deferred shutdownTel: the providers send what they hold, for 5 seconds.
Flush ==
    /\ pc = "flush"
    /\ providers' = {}
    /\ span' = [r \in Request |-> IF span[r] # "queued" THEN span[r]
                                  ELSE IF collector THEN "exported" ELSE "lost"]
    /\ pc' = IF ret = "panic" THEN "panicked" ELSE "returned"
    /\ UNCHANGED ret
    /\ UNCHANGED <<config, registered, runs, signalled, srv, reqVars, lines, overrun>>

-----------------------------------------------------------------------------
(* The specification                                                       *)

\* The last run is over.
Over ==
    /\ pc \in {"returned", "panicked"}
    /\ UNCHANGED vars

Start == Call \/ Load \/ SetupTracer \/ SetupMeter \/ Build
Serving == Listen \/ Close \/ Report
Stop == SelectDone \/ SelectErr \/ Drained \/ Flush

Next ==
    \/ Start \/ Serving \/ Stop
    \/ Fail \/ Signal \/ Export
    \/ \E r \in Request : Arrive(r) \/ Upgrade(r) \/ Complete(r)
    \/ Over

Spec == Init /\ [][Next]_vars

\* Goroutines run and timers fire.  A handler may never return, nor may Build, and ctx may
\* never be done.
Fairness ==
    /\ WF_vars(Load \/ SetupTracer \/ SetupMeter)
    /\ WF_vars(Listen \/ Close) /\ WF_vars(Report)
    /\ WF_vars(Stop)

FairSpec == Spec /\ Fairness

-----------------------------------------------------------------------------
(* Properties                                                              *)

\* "it rolls back (shuts down) the already-built providers so no goroutine/exporter
\* connection leaks" (telemetry.go): however Run ends, by a return or by a panic of Build,
\* no provider is left running and no server accepts requests, also when ctx is done
\* before the serving goroutine has begun to listen.
NothingLeftRunning ==
    pc \in {"returned", "panicked"} =>
        providers = {} /\ (server = "listening" => inShutdown)

\* A run that ends on ctx waits for the requests in flight and flushes their spans
\* after them: unless a request outlasts the 10 seconds, none is cut off and no span
\* is lost to a telemetry pipeline that was shut down first.  That is so of every request
\* but those upgraded to another protocol, which Shutdown does not wait for.
GracefulStop ==
    (pc = "returned" /\ ret = "nil" /\ ~overrun) =>
        \A r \in Request \ upgraded :
            req[r] # "active" /\ (collector => span[r] # "lost")

\* framework-mode.md: hog.Run "registers the built-in terminal handlers ..., and serves
\* until ctx is cancelled", for "a larger program that already manages its own
\* lifecycle".  Such a program may run the gateway again.
\* (The code does not keep this: README, Disagreements.)
RunAgain == pc = "panicked" => ret = "panic"

\* observability.md: "raising the configured log level above the access log's level
\* suppresses it".
\* (The code does not keep this: README, Disagreements.)
LogLevelHonoured == quiet => lines = {}

\* Once ctx is done Run returns, also with requests that never end, and the goroutine
\* that serves ends too: its report does not wait for somebody to receive it.  The one
\* thing that keeps Run from returning is a Build that does not return, waiting for a
\* provider that accepts the connection and does not answer (app.Run's select comes after).
ShutdownCompletes ==
    \/ <>[](pc = "build")
    \/ signalled ~> (pc \in {"returned", "panicked"} /\ server \in {None, "gone"})
=============================================================================
