---------------------------- MODULE CookieSession ----------------------------
(***************************************************************************)
(* session.cookieManager (session/manager.go, session/cookie.go): the      *)
(* stateless session, sealed and split over the cookies <name>.0, .1, ...  *)
(* of one browser.                                                         *)
(*                                                                         *)
(* A request carries the cookies the jar held when it was sent; what its   *)
(* response sets and expires is applied when it arrives.  Several requests *)
(* may be in flight and their responses arrive in any order.  The server   *)
(* keeps nothing between requests, so what it answers is settled by the    *)
(* cookies it was sent: that is computed when the request is sent.  A      *)
(* chunk is known by its session and its index; AES-GCM opens exactly the  *)
(* concatenation that was sealed.                                          *)
(***************************************************************************)
EXTENDS Naturals

CONSTANTS
    Request,       \* requests the browser may have in flight
    MaxChunks,     \* bound: chunks of the largest session
    MaxSessions,   \* bound: sessions issued
    MaxLosses      \* bound: cookies the browser drops by itself

ASSUME CookieSessionAssumption ==
    /\ MaxChunks \in Nat \ {0} /\ MaxSessions \in Nat /\ MaxLosses \in Nat

Index == 0 .. MaxChunks - 1
NoSession == 0
Session == 1 .. MaxSessions
Chunk == [s : Session, i : Index]
Gone == [s |-> NoSession, i |-> 0]
Jar == [Index -> Chunk \cup {Gone}]
Empty == [i \in Index |-> Gone]

VARIABLES
    jar,        \* the session cookies of the browser
    size,       \* size[s]: the chunks of session s, 0 before it is issued
    ended,      \* sessions past their Expiry, or sealed for another fingerprint
    sent,       \* per request: the cookies it carried
    expires,    \* per request: the indices its response expires
    sets,       \* per request: the session its response sets, or NoSession
    inFlight,   \* requests whose response has not arrived
    last,       \* the session set by the last response that set one
    over,       \* a response to a request that carried it has signed it out
    losses      \* cookies lost so far

vars == <<jar, size, ended, sent, expires, sets, inFlight, last, over, losses>>

TypeOK ==
    /\ jar \in Jar
    /\ size \in [Session -> 0 .. MaxChunks]
    /\ ended \subseteq Session
    /\ sent \in [Request -> Jar]
    /\ expires \in [Request -> SUBSET Index]
    /\ sets \in [Request -> Session \cup {NoSession}]
    /\ inFlight \subseteq Request
    /\ last \in Session \cup {NoSession}
    /\ over \in BOOLEAN
    /\ losses \in 0 .. MaxLosses

Init ==
    /\ jar = Empty
    /\ size = [s \in Session |-> 0]
    /\ ended = {}
    /\ sent = [r \in Request |-> Empty]
    /\ expires = [r \in Request |-> {}]
    /\ sets = [r \in Request |-> NoSession]
    /\ inFlight = {}
    /\ last = NoSession
    /\ over = FALSE
    /\ losses = 0

-----------------------------------------------------------------------------
(* Codec                                                                   *)

\* What clearChunkedCookie expires: every chunk the request carried.
Present(j) == {i \in Index : j[i] # Gone}

\* readChunkedCookie: the chunks 0 .. n-1 of the longest contiguous run.
RunLength(j) == CHOOSE n \in 0 .. MaxChunks :
    /\ \A i \in Index : i < n => j[i] # Gone
    /\ n \in Index => j[n] = Gone

\* sealer.open on their concatenation: the session they are the whole of.
Opens(j, s) ==
    /\ size[s] > 0
    /\ RunLength(j) = size[s]
    /\ \A i \in Index : i < size[s] => j[i] = [s |-> s, i |-> i]

\* Manager.Read: the session it returns, or NoSession for its errors.
Read(j) ==
    IF \E s \in Session \ ended : Opens(j, s)
      THEN CHOOSE s \in Session \ ended : Opens(j, s)
      ELSE NoSession

-----------------------------------------------------------------------------
(* Requests and responses                                                  *)

Send(r, clear, s) ==
    /\ r \notin inFlight
    /\ inFlight' = inFlight \cup {r}
    /\ sent' = [sent EXCEPT ![r] = jar]
    /\ expires' = [expires EXCEPT ![r] = clear]
    /\ sets' = [sets EXCEPT ![r] = s]
    /\ UNCHANGED <<jar, ended, last, over, losses>>

\* Issue: seal a new session, expire the chunks of the request, write the new ones.
Issue(r) ==
    \E s \in Session, n \in 1 .. MaxChunks :
        /\ \A t \in Session : size[t] = 0 <=> t >= s
        /\ size' = [size EXCEPT ![s] = n]
        /\ Send(r, Present(jar), s)

ClearOf(r, clear) == UNCHANGED size /\ Send(r, clear, NoSession)

ClearIfReadable(r) == ClearOf(r, IF Read(jar) # NoSession THEN Present(jar) ELSE {})

\* Clear: expire the chunks of the request.
Clear(r) == ClearOf(r, Present(jar))

Expired(r, j) == [i \in Index |-> IF i \in expires[r] THEN Gone ELSE j[i]]
Written(r, j) == [i \in Index |->
    IF sets[r] # NoSession /\ i < size[sets[r]] THEN [s |-> sets[r], i |-> i] ELSE j[i]]

ExpiredLast(r) == Expired(r, Written(r, jar))

\* The jar after the Set-Cookie headers of r's response, in their order:
\* clearChunkedCookie's, then writeChunkedCookie's.
Applied(r) == Written(r, Expired(r, jar))

Carried(r, s) == \E i \in Present(sent[r]) : sent[r][i].s = s

Done(r) ==
    /\ r \in inFlight
    /\ inFlight' = inFlight \ {r}
    /\ sent' = [sent EXCEPT ![r] = Empty]
    /\ expires' = [expires EXCEPT ![r] = {}]
    /\ sets' = [sets EXCEPT ![r] = NoSession]

\* The browser gets the response.
Arrive(r) ==
    /\ Done(r)
    /\ jar' = Applied(r)
    /\ last' = IF sets[r] = NoSession THEN last ELSE sets[r]
    /\ over' = (sets[r] = NoSession /\ (over \/ Carried(r, last)))
    /\ UNCHANGED <<size, ended, losses>>

\* The response is lost, and with it its Set-Cookie headers.
Drop(r) ==
    /\ Done(r)
    /\ UNCHANGED <<jar, size, ended, last, over, losses>>

\* The browser evicts a cookie to make room.
Evict(i) ==
    /\ losses < MaxLosses
    /\ jar[i] # Gone
    /\ jar' = [jar EXCEPT ![i] = Gone]
    /\ losses' = losses + 1
    /\ UNCHANGED <<size, ended, sent, expires, sets, inFlight, last, over>>

\* Session s passes its Expiry, or the browser's fingerprint changes.
End(s) ==
    /\ size[s] > 0
    /\ s \notin ended
    /\ ended' = ended \cup {s}
    /\ UNCHANGED <<jar, size, sent, expires, sets, inFlight, last, over, losses>>

Next ==
    \/ \E r \in Request : Issue(r) \/ Clear(r) \/ Arrive(r) \/ Drop(r)
    \/ \E i \in Index : Evict(i)
    \/ \E s \in Session : End(s)

Spec == Init /\ [][Next]_vars

(***************************************************************************)
(* Properties                                                              *)
(***************************************************************************)

\* Whatever races and whatever the browser loses, a Read gives the session whose
\* response arrived last or none, and that one only until it is signed out: what was
\* replaced or signed out never comes back, not even out of a jar whose leftovers kept it
\* from being read when Clear saw it.
OldSessionNeverBack == Read(jar) = NoSession \/ (Read(jar) = last /\ ~over)

\* Whatever earlier races and evictions have made of the jar, the next response that
\* races with nothing puts it right: after an Issue its session can be read, and a
\* Clear leaves no chunk of any session behind.
ResponseRepairs == [][\A r \in Request :
    (Arrive(r) /\ jar = sent[r]) =>
        IF sets[r] = NoSession THEN jar' = Empty
        ELSE sets[r] \notin ended => Read(jar)' = sets[r]]_vars

\* Issue is to "drop stale chunks from a larger prior session" (manager.go:70): the
\* chunks in the jar are those of one session.
\* (The code does not keep this: README, Disagreements.)
NoStaleChunks == \A i, k \in Present(jar) : jar[i].s = jar[k].s
=============================================================================
