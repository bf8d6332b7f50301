------------------------------- MODULE Proxy -------------------------------
(***************************************************************************)
(* The `reverse-proxy' terminal handler (terminal/proxy.go): one request   *)
(* to the upstream under an optional deadline, its body streamed there and *)
(* the answer streamed back.  httputil.ReverseProxy and the transport are  *)
(* external; which of their waits a limit of forward.go:17-29 or the       *)
(* context ends, and which only the other side can end, is what matters.   *)
(***************************************************************************)

VARIABLES
    bounded,     \* handler.timeout > 0
    ctx,         \* the request's context: live, or why it is done
    pc,          \* what the handler waits for, see Waits
    cause,       \* why the proxy gave up
    response,    \* status sent to the client
    end          \* how the body ended: whole, or cut off by a panic

vars == <<bounded, ctx, pc, cause, response, end>>

\* dial: a connection; upload: the next bytes of the client's body; push: the upstream to
\* take them; sent: the response's headers; body: the next bytes of its body; flush: the
\* client to take those.
Waits == {"dial", "upload", "push", "sent", "body", "flush"}

Cause == {"none", "upstream", "transport", "handshake", "deadline", "cancelled"}

TypeOK ==
    /\ bounded \in BOOLEAN
    /\ ctx \in {"live", "deadline", "cancelled"}
    /\ pc \in {"call", "done"} \cup Waits
    /\ cause \in Cause
    /\ response \in {"none", "200", "502", "504"}
    /\ end \in {"none", "whole", "cut"}

Init ==
    /\ bounded \in BOOLEAN
    /\ ctx = "live" /\ pc = "call" /\ cause = "none" /\ response = "none" /\ end = "none"

From(here, there) ==
    /\ pc = here /\ pc' = there
    /\ UNCHANGED <<bounded, ctx, cause, response, end>>

\* ServeHTTP and Rewrite: the request goes out to the upstream.
Call == From("call", "dial")

\* There is a connection; a request without a body is then written at once.
Connected == From("dial", "upload") \/ From("dial", "sent")

\* The client sends more of its body, or its end; the upstream takes what was sent, unless
\* the context is done, for then the transport closes the connection.
Upload == From("upload", "push")
Push == ctx = "live" /\ From("push", "upload")
Uploaded == From("upload", "sent")

\* ErrorHandler: 504 for an error that is context.DeadlineExceeded.  That of the
\* handler's deadline is, and so are the transport's own timeouts but that of the TLS
\* handshake.
ErrorHandler(why) ==
    /\ pc' = "done" /\ end' = "whole"
    /\ cause' = why
    /\ response' = IF why \in {"deadline", "transport"} THEN "504" ELSE "502"
    /\ UNCHANGED <<bounded, ctx>>

\* RoundTrip fails by itself.
Refused == pc \in {"dial", "upload", "push", "sent"} /\ ErrorHandler("upstream")

\* The limits of the transport: on dialling and the handshake, and on the wait for the
\* response's headers, which begins when the request has been written.
TransportTimeout ==
    \/ pc \in {"dial", "sent"} /\ ErrorHandler("transport")
    \/ pc = "dial" /\ ErrorHandler("handshake")

\* RoundTrip returns because the context is done.  It waits for the goroutine that writes
\* the request, which a body read from a silent client blocks: once the client has gone
\* that read fails, but at the deadline it does not.
GiveUp ==
    /\ pc \in {"dial", "push", "sent"} \/ (pc = "upload" /\ ctx = "cancelled")
    /\ ctx # "live"
    /\ ErrorHandler(ctx)

\* It may return at once all the same, as HTTP/2 does.
GiveUpEarly == pc = "upload" /\ ctx = "deadline" /\ ErrorHandler(ctx)

\* The response's headers arrive, possibly before the upstream has read the request, and
\* are sent on, whatever the status.
Headers ==
    /\ pc \in {"upload", "push", "sent"}
    /\ pc' = "body" /\ response' = "200"
    /\ UNCHANGED <<bounded, ctx, cause, end>>

\* The upstream sends more of the body, and the client takes it.
More == ctx = "live" /\ From("body", "flush")
Flush == From("flush", "body")

Finish(why, how) ==
    /\ pc' = "done" /\ cause' = why /\ end' = how
    /\ UNCHANGED <<bounded, ctx, response>>

\* The body has been copied; or breaks off, by the upstream or the context, and
\* ReverseProxy panics with ErrAbortHandler.  A write to a client that does not read
\* fails only when the client goes: http.Server has no write timeout (run.go:46).
Body == pc = "body" /\ Finish("none", "whole")
BreakOff == pc = "body" /\ Finish("upstream", "cut")

CutOff ==
    /\ (pc = "body" /\ ctx # "live") \/ (pc = "flush" /\ ctx = "cancelled")
    /\ Finish(ctx, "cut")

Deadline ==
    /\ bounded /\ ctx = "live" /\ pc # "done"
    /\ ctx' = "deadline"
    /\ UNCHANGED <<bounded, pc, cause, response, end>>

Cancel ==
    /\ ctx = "live" /\ pc # "done"
    /\ ctx' = "cancelled"
    /\ UNCHANGED <<bounded, pc, cause, response, end>>

Answered == pc = "done" /\ UNCHANGED vars

\* What the gateway does by itself, what waits for the upstream, and for the client.
Local == Call \/ TransportTimeout \/ GiveUp \/ CutOff
Remote == Connected \/ Push \/ Refused \/ GiveUpEarly \/ Headers \/ More \/ Body \/ BreakOff
Client == Upload \/ Uploaded \/ Flush \/ Cancel

Next == Local \/ Remote \/ Client \/ Deadline \/ Answered

-----------------------------------------------------------------------------
\* Whatever the upstream does, a handler with a timeout, or whose client has gone, comes to
\* an end: only its own client can hold it up, by neither sending the body it announced
\* nor taking the response.  Without either, the transport's limits still see to it that
\* the client has a status, unless the request's body is stuck on its way.
AnswersDespiteUpstream ==
    /\ \/ <>[](pc \in {"upload", "flush"} /\ ctx # "cancelled")
       \/ (bounded \/ ctx # "live") ~> (end # "none")
    /\ <>[](pc \in {"upload", "push"}) \/ <>(response # "none")
=============================================================================
