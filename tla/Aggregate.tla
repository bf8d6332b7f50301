------------------------------ MODULE Aggregate ------------------------------
(***************************************************************************)
(* The `api' terminal handler (terminal/aggregate.go): one request fans    *)
(* out to every backend concurrently under one deadline, waits for all of  *)
(* them and merges their answers.  Requests share nothing, so one is       *)
(* modelled.  A body is known by the backend that sent it.                 *)
(***************************************************************************)
EXTENDS Naturals, FiniteSets

CONSTANTS N    \* backends, in the order of the configuration

ASSUME AggregateAssumption == N \in Nat \ {0}

Backend == 1 .. N

VARIABLES
    required,    \* backends with `required: true'
    bounded,     \* handler.timeout > 0
    ctx,         \* the fan-out's context: live, or why it is done
    pc,          \* per backend: where its goroutine is
    result,      \* results[i]
    cause,       \* per backend: what made its call fail
    merged,      \* groups in the response body
    omitted,     \* groups in X-Hog-Partial
    response     \* status of the response

vars == <<required, bounded, ctx, pc, result, cause, merged, omitted, response>>

Result == {"none", "ok", "failed", "timeout"}

TypeOK ==
    /\ required \subseteq Backend /\ bounded \in BOOLEAN
    /\ ctx \in {"live", "deadline", "cancelled"}
    /\ pc \in [Backend -> {"call", "sent", "body", "done"}]
    /\ result \in [Backend -> Result]
    /\ cause \in [Backend -> {"none", "backend", "request", "transport", "deadline", "cancelled"}]
    /\ merged \subseteq Backend /\ omitted \subseteq Backend
    /\ response \in {"none", "200", "502", "504"}

Init ==
    /\ required \in SUBSET Backend /\ bounded \in BOOLEAN
    /\ ctx = "live"
    /\ pc = [b \in Backend |-> "call"]
    /\ result = [b \in Backend |-> "none"]
    /\ cause = [b \in Backend |-> "none"]
    /\ merged = {} /\ omitted = {}
    /\ response = "none"

-----------------------------------------------------------------------------
(* call: one goroutine per backend                                         *)

To(b, point) ==
    /\ pc' = [pc EXCEPT ![b] = point]
    /\ UNCHANGED <<required, bounded, ctx, result, cause, merged, omitted, response>>

\* call returns; the goroutine stores results[b] and is done.
Finish(b, res, why) ==
    /\ pc' = [pc EXCEPT ![b] = "done"]
    /\ result' = [result EXCEPT ![b] = res]
    /\ cause' = [cause EXCEPT ![b] = why]
    /\ UNCHANGED <<required, bounded, ctx, merged, omitted, response>>

\* Build the backend request: a {param} value that is unsafe or unknown, or a URL
\* that does not parse, fails this backend before anything is sent.
Call(b) ==
    /\ pc[b] = "call"
    /\ To(b, "sent") \/ Finish(b, "failed", "request")

\* RoundTrip fails on its own: refused, reset, bad TLS; or the status is not 2xx.
Refuse(b) ==
    /\ pc[b] = "sent"
    /\ Finish(b, "failed", "backend")

\* A limit of the shared transport runs out: dialling, or waiting for the headers.  Its
\* error is context.DeadlineExceeded too.
TransportTimeout(b) ==
    /\ pc[b] = "sent"
    /\ Finish(b, "timeout", "transport")

\* RoundTrip gives up because the context is done.
GiveUp(b) ==
    /\ pc[b] = "sent"
    /\ ctx # "live"
    /\ Finish(b, IF ctx = "deadline" THEN "timeout" ELSE "failed", ctx)

\* The headers of a 2xx response have arrived.
Headers(b) ==
    /\ pc[b] = "sent"
    /\ To(b, "body")

\* The body is complete and valid JSON.
Answer(b) ==
    /\ pc[b] = "body"
    /\ Finish(b, "ok", "none")

\* The body breaks off, is cut at maxBackendBytes or is not valid JSON.
BadBody(b) ==
    /\ pc[b] = "body"
    /\ Finish(b, "failed", "backend")

CutOffWhen(b, ended) ==
    /\ pc[b] = "body"
    /\ ctx \in ended
    /\ Finish(b, "failed", ctx)

CutOffByClient(b) == CutOffWhen(b, {"cancelled"})

\* Reading the body fails because the context is done: err is not looked at.
CutOff(b) == CutOffWhen(b, {"deadline", "cancelled"})

-----------------------------------------------------------------------------
(* ServeHTTP                                                               *)

AllDone == \A b \in Backend : pc[b] = "done"

Failed == {b \in Backend : result[b] # "ok"}

MergeFor(deciding) ==
    /\ response = "none"
    /\ AllDone
    /\ LET broken == Failed \cap deciding
       IN  \/ /\ broken = {}
              /\ response' = "200"
              /\ merged' = Backend \ Failed
              /\ omitted' = Failed
           \/ \E first \in broken :
                /\ \A b \in broken : first <= b
                /\ response' = IF result[first] = "timeout" THEN "504" ELSE "502"
                /\ UNCHANGED <<merged, omitted>>
    /\ UNCHANGED <<required, bounded, ctx, pc, result, cause>>

MergeAll == MergeFor(Backend)
MergeNone == MergeFor({})

\* wg.Wait returns; merge in configuration order: the first failed required backend
\* decides the error, failed optional ones are omitted.
Merge == MergeFor(required)

-----------------------------------------------------------------------------
(* The context and the specification                                       *)

\* handler.timeout expires.
Deadline ==
    /\ bounded
    /\ ctx = "live" /\ response = "none"
    /\ ctx' = "deadline"
    /\ UNCHANGED <<required, bounded, pc, result, cause, merged, omitted, response>>

\* The client goes away.
Cancel ==
    /\ ctx = "live" /\ response = "none"
    /\ ctx' = "cancelled"
    /\ UNCHANGED <<required, bounded, pc, result, cause, merged, omitted, response>>

\* The request has been answered.
Answered ==
    /\ response # "none"
    /\ UNCHANGED vars

Local(b) == Call(b) \/ TransportTimeout(b) \/ GiveUp(b) \/ CutOff(b)
Remote(b) == Refuse(b) \/ Headers(b) \/ Answer(b) \/ BadBody(b)

Next ==
    \/ \E b \in Backend : Local(b) \/ Remote(b)
    \/ Merge
    \/ Deadline
    \/ Cancel
    \/ Answered

Spec == Init /\ [][Next]_vars

\* The gateway's own steps happen, and the timers fire: the handler's, and the
\* transport's while it waits for headers.  A backend may never answer.
Fairness ==
    /\ \A b \in Backend : WF_vars(Local(b))
    /\ WF_vars(Merge)
    /\ WF_vars(Deadline)

FairSpec == Spec /\ Fairness

-----------------------------------------------------------------------------
(* Properties                                                              *)

\* A 200 accounts for every backend exactly once, whatever order they finished in:
\* its group is in the body if it answered, in X-Hog-Partial if it failed, and no
\* required one is left out.  It stays true after the response: no goroutine writes
\* results[i] once ServeHTTP has merged.
EveryGroupAccounted ==
    response = "200" =>
        /\ merged = {b \in Backend : result[b] = "ok"}
        /\ omitted = {b \in Backend : result[b] \in {"failed", "timeout"}}
        /\ merged \cup omitted = Backend
        /\ omitted \cap required = {}

\* No backend call is still running when the handler has answered, so none uses the
\* request after net/http has taken it back.
NoCallOutlivesHandler ==
    response # "none" => \A b \in Backend : pc[b] = "done"

\* Only a failed required backend turns the response into an error, and only one that
\* took too long, by handler.timeout or by the transport's limits, into a 504: never a
\* client that left, nor an optional backend.
ErrorFromRequired ==
    /\ response \in {"502", "504"} => \E b \in required : result[b] \in {"failed", "timeout"}
    /\ response = "504" => \E b \in required : \/ cause[b] = "transport"
                                               \/ cause[b] = "deadline" /\ bounded

\* troubleshooting.md: 504 is for a request that "exceeded `handler.timeout'".
\* (The code does not keep this: README, Disagreements.)
TimeoutOnlyPastDeadline ==
    response = "504" => bounded /\ ctx = "deadline"

\* troubleshooting.md: 502 is for a required backend that failed "for any reason other
\* than the configured timeout", 504 for one that exceeded it.
\* (The code does not keep this: README, Disagreements.)
TimeoutIs504 ==
    response = "502" => \E b \in required : cause[b] \in {"backend", "request", "cancelled"}

\* With a timeout, or once the client has gone, the handler answers although a backend
\* never does; without either only a backend that stalls in its body holds it up.
AnswersDespiteBackends ==
    /\ (bounded \/ ctx # "live") ~> (response # "none")
    /\ []<>(response # "none" \/ \E b \in Backend : pc[b] = "body")
=============================================================================
