---------------------------- MODULE SessionProofs ----------------------------
(***************************************************************************)
(* The cookie session, for any number of requests in flight, sessions,     *)
(* chunks and lost cookies: an old session never comes back, and a         *)
(* response that races with nothing puts the jar right.  The principal     *)
(* that a session or a request gets, for every connector, identity block,  *)
(* token and directory: a Bearer token that skips userinfo gives the       *)
(* principal it would have given with it, an outage costs only what it     *)
(* kept from being fetched, and the token was meant for this gateway.      *)
(***************************************************************************)
EXTENDS CookieSession, Identity, TLAPS

\* A session has a chunk 0, so that what was set last is what stands in its place, until
\* it is signed out.
Front == jar[0] = Gone \/ (jar[0].s = last /\ ~over)

\* What a response expires are the chunks its request carried; what it sets was sealed.
Answers == \A r \in inFlight :
    /\ expires[r] = Present(sent[r])
    /\ sets[r] # NoSession => size[sets[r]] > 0

\* Whatever is about has been sealed.
Sealed ==
    /\ \A i \in Index : jar[i] # Gone => size[jar[i].s] > 0
    /\ \A r \in inFlight, i \in Index : sent[r][i] # Gone => size[sent[r][i].s] > 0

\* A session that a response is to set is nowhere else yet.
Apart == \A q \in inFlight : sets[q] # NoSession =>
    /\ \A i \in Index : jar[i].s # sets[q]
    /\ \A r \in inFlight : r # q => sets[r] # sets[q]
    /\ \A r \in inFlight, i \in Index : sent[r][i].s # sets[q]

\* A request that carried a chunk of the session now in front carried its chunk 0, so its
\* response expires that.
Fronted == \A r \in inFlight : jar[0] # Gone =>
    sent[r][0] # Gone \/ \A i \in Index : sent[r][i].s # jar[0].s

IInv == TypeOK /\ Front /\ Answers /\ Sealed /\ Apart /\ Fronted

LEMMA Constants ==
    /\ 0 \in Index /\ Index \subseteq Nat
    /\ \A s \in Session : s \in Nat /\ s # NoSession
    /\ Gone.s = NoSession /\ Gone \notin Chunk
    /\ NoSession \notin Session
  BY CookieSessionAssumption DEF Index, Session, Gone, NoSession, Chunk

\* The jar after a response, chunk by chunk.
LEMMA AppliedAt ==
  ASSUME TypeOK, NEW r \in Request
  PROVE  /\ Applied(r) \in Jar
         /\ \A i \in Index : Applied(r)[i] =
              IF sets[r] # NoSession /\ i < size[sets[r]] THEN [s |-> sets[r], i |-> i]
              ELSE IF i \in expires[r] THEN Gone ELSE jar[i]
  <1>1. \A i \in Index : Applied(r)[i] =
          IF sets[r] # NoSession /\ i < size[sets[r]] THEN [s |-> sets[r], i |-> i]
          ELSE IF i \in expires[r] THEN Gone ELSE jar[i]
    BY DEF Applied, Written, Expired
  <1>2. \A i \in Index : sets[r] # NoSession => [s |-> sets[r], i |-> i] \in Chunk
    BY DEF TypeOK, Chunk
  <1>3. \A i \in Index : Applied(r)[i] \in Chunk \cup {Gone}
    BY Zenon, <1>1, <1>2 DEF TypeOK, Jar
  <1>4. Applied(r) = [i \in Index |-> Applied(r)[i]]
    BY DEF Applied, Written
  <1>5. Applied(r) \in Jar
    BY <1>3, <1>4 DEF Jar
  <1> QED BY <1>1, <1>5

LEMMA InitEstablishes == Init => IInv
  <1> SUFFICES ASSUME Init PROVE IInv
    OBVIOUS
  <1>1. Empty \in Jar
    BY DEF Empty, Jar
  <1>2. losses \in 0 .. MaxLosses /\ size \in [Session -> 0 .. MaxChunks]
    BY CookieSessionAssumption DEF Init
  <1>3. TypeOK
    BY <1>1, <1>2 DEF Init, TypeOK
  <1>4. Front /\ Sealed
    BY Constants DEF Init, Front, Sealed, Empty
  <1>5. Answers /\ Apart /\ Fronted
    BY Zenon DEF Init, Answers, Apart, Fronted
  <1> QED BY <1>3, <1>4, <1>5 DEF IInv

\* A request leaves the jar alone and its response keeps to what it carried.
LEMMA SendKeeps ==
  ASSUME IInv, NEW r \in Request, NEW s \in Session \cup {NoSession},
         Send(r, Present(jar), s),
         size' \in [Session -> 0 .. MaxChunks],
         \A t \in Session : size[t] > 0 => size'[t] > 0,
         s # NoSession => size[s] = 0 /\ size'[s] > 0
  PROVE  IInv'
  <1>1. Present(jar) \subseteq Index
    BY DEF Present
  <1>2. TypeOK'
    BY <1>1 DEF IInv, TypeOK, Send
  <1>3. Front'
    BY DEF IInv, Front, Send
  <1>4. jar' = jar /\ r \notin inFlight
    BY DEF Send
  <1>5. /\ r \in inFlight' /\ expires'[r] = Present(jar) /\ sent'[r] = jar /\ sets'[r] = s
    BY DEF IInv, TypeOK, Send
  <1>6. ASSUME NEW q \in inFlight', q # r
        PROVE  /\ q \in inFlight /\ q \in Request /\ sent[q] \in Jar
               /\ expires'[q] = expires[q] /\ sent'[q] = sent[q] /\ sets'[q] = sets[q]
               /\ sets[q] # NoSession => sets[q] \in Session
    BY <1>6 DEF IInv, TypeOK, Send
  <1>7. Answers'
    <2>1. ASSUME NEW q \in inFlight'
          PROVE  /\ expires'[q] = Present(sent'[q])
                 /\ sets'[q] # NoSession => size'[sets'[q]] > 0
      <3>1. CASE q = r
        BY <1>5, <3>1
      <3>2. CASE q # r
        BY <1>6, <3>2 DEF IInv, Answers
      <3> QED BY <3>1, <3>2
    <2> QED BY <2>1 DEF Answers, Present
  <1>8. \A i \in Index : jar[i] # Gone => jar[i].s \in Session /\ size[jar[i].s] > 0
    BY DEF IInv, TypeOK, Jar, Chunk, Sealed
  <1>9. ASSUME NEW q \in inFlight, NEW i \in Index
        PROVE  sent[q][i] # Gone => sent[q][i].s \in Session /\ size[sent[q][i].s] > 0
    BY DEF IInv, TypeOK, Jar, Chunk, Sealed
  <1>10. Sealed'
    <2>1. ASSUME NEW q \in inFlight', NEW i \in Index, sent'[q][i] # Gone
          PROVE  size'[sent'[q][i].s] > 0
      <3>1. CASE q = r
        BY <1>5, <1>8, <2>1, <3>1
      <3>2. CASE q # r
        BY <1>6, <1>9, <2>1, <3>2
      <3> QED BY <3>1, <3>2
    <2> QED BY <1>4, <1>8, <2>1 DEF Sealed
  <1>11. Apart'
    <2>1. s # NoSession => \A i \in Index : jar[i].s # s
      BY <1>8, Constants
    <2>2. ASSUME NEW q \in inFlight, s # NoSession
          PROVE  sets[q] # s /\ \A i \in Index : sent[q][i].s # s
      <3>1. sets[q] # NoSession => size[sets[q]] > 0
        BY DEF IInv, Answers
      <3> QED BY <1>9, <2>2, <3>1, Constants
    <2>3. ASSUME NEW q \in inFlight', sets'[q] # NoSession
          PROVE  /\ \A i \in Index : jar'[i].s # sets'[q]
                 /\ \A p \in inFlight' : p # q => sets'[p] # sets'[q]
                 /\ \A p \in inFlight', i \in Index : sent'[p][i].s # sets'[q]
      <3>1. CASE q = r
        BY <1>4, <1>5, <1>6, <2>1, <2>2, <2>3, <3>1
      <3>2. CASE q # r
        <4>1. /\ q \in inFlight /\ sets'[q] = sets[q]
              /\ \A i \in Index : jar[i].s # sets[q]
          BY <1>6, <2>3, <3>2 DEF IInv, Apart
        <4>2. s # sets[q]
          BY <2>2, <2>3, <4>1
        <4>3. ASSUME NEW p \in inFlight'
              PROVE  /\ p # q => sets'[p] # sets[q]
                     /\ \A i \in Index : sent'[p][i].s # sets[q]
          <5>1. CASE p = r
            BY <1>5, <4>1, <4>2, <5>1
          <5>2. CASE p # r
            BY <1>6, <2>3, <4>1, <5>2 DEF IInv, Apart
          <5> QED BY <5>1, <5>2
        <4> QED BY <1>4, <4>1, <4>3
      <3> QED BY <3>1, <3>2
    <2> QED BY <2>3 DEF Apart
  <1>12. Fronted'
    <2>1. ASSUME NEW q \in inFlight', jar[0] # Gone
          PROVE  sent'[q][0] # Gone \/ \A i \in Index : sent'[q][i].s # jar[0].s
      <3>1. CASE q = r
        BY <1>5, <2>1, <3>1
      <3>2. CASE q # r
        BY <1>6, <2>1, <3>2 DEF IInv, Fronted
      <3> QED BY <3>1, <3>2
    <2> QED BY <1>4, <2>1 DEF Fronted
  <1> QED BY <1>2, <1>3, <1>7, <1>10, <1>11, <1>12 DEF IInv

\* The end of a request disturbs no other.
LEMMA DoneKeeps ==
  ASSUME IInv, NEW r \in Request, Done(r), jar' \in Jar,
         last' \in Session \cup {NoSession}, over' \in BOOLEAN,
         UNCHANGED <<size, ended, losses>>,
         \A i \in Index :
            \/ jar'[i] \in {jar[i], Gone}
            \/ sets[r] # NoSession /\ jar'[i].s = sets[r],
         \/ jar'[0] \in {jar[0], Gone}
         \/ sets[r] # NoSession /\ jar'[0].s = sets[r]
  PROVE  TypeOK' /\ Answers' /\ Sealed' /\ Apart' /\ Fronted'
  <1>1. Empty \in Jar
    BY DEF Empty, Jar
  <1>2. TypeOK'
    BY <1>1 DEF IInv, TypeOK, Done
  <1>3. r \in inFlight /\ sets[r] \in Session \cup {NoSession}
    BY DEF Done, IInv, TypeOK
  <1>4. ASSUME NEW q \in inFlight'
        PROVE  /\ q \in inFlight /\ q # r
               /\ expires'[q] = expires[q] /\ sent'[q] = sent[q] /\ sets'[q] = sets[q]
    BY <1>4 DEF IInv, TypeOK, Done
  <1>5. Answers'
    BY <1>4 DEF IInv, Answers, Present
  <1>6. Sealed'
    <2>1. sets[r] # NoSession => size[sets[r]] > 0
      BY <1>3 DEF IInv, Answers
    <2>2. \A i \in Index : jar'[i] # Gone => size[jar'[i].s] > 0
      BY <2>1 DEF IInv, Sealed
    <2> QED BY <1>4, <2>2 DEF IInv, Sealed
  <1>7. Apart'
    <2>1. ASSUME NEW q \in inFlight', sets'[q] # NoSession
          PROVE  /\ \A i \in Index : jar'[i].s # sets'[q]
                 /\ \A p \in inFlight' : p # q => sets'[p] # sets'[q]
                 /\ \A p \in inFlight', i \in Index : sent'[p][i].s # sets'[q]
      <3>1. /\ q \in inFlight /\ sets'[q] = sets[q] /\ sets[q] # sets[r]
            /\ \A i \in Index : jar[i].s # sets[q]
        BY <1>3, <1>4, <2>1 DEF IInv, Apart
      <3>2. \A i \in Index : jar'[i].s # sets[q]
        BY <2>1, <3>1, Constants
      <3> QED BY <1>4, <2>1, <3>1, <3>2 DEF IInv, Apart
    <2> QED BY <2>1 DEF Apart
  <1>8. Fronted'
    <2>1. ASSUME NEW q \in inFlight', jar'[0] # Gone
          PROVE  sent'[q][0] # Gone \/ \A i \in Index : sent'[q][i].s # jar'[0].s
      <3>1. CASE jar'[0] = jar[0]
        BY <1>4, <2>1, <3>1 DEF IInv, Fronted
      <3>2. CASE sets[r] # NoSession /\ jar'[0].s = sets[r]
        BY <1>3, <1>4, <3>2 DEF IInv, Apart
      <3> QED BY <2>1, <3>1, <3>2
    <2> QED BY <2>1 DEF Fronted
  <1> QED BY <1>2, <1>5, <1>6, <1>7, <1>8

LEMMA NextKeeps == IInv /\ [Next]_vars => IInv'
  <1> SUFFICES ASSUME IInv, [Next]_vars PROVE IInv'
    OBVIOUS
  <1>1. ASSUME NEW r \in Request, Issue(r) PROVE IInv'
    <2>1. PICK s \in Session, n \in 1 .. MaxChunks :
            /\ \A t \in Session : size[t] = 0 <=> t >= s
            /\ size' = [size EXCEPT ![s] = n] /\ Send(r, Present(jar), s)
      BY Zenon, <1>1 DEF Issue
    <2>2. n \in 0 .. MaxChunks /\ n > 0
      BY CookieSessionAssumption
    <2>3. size' \in [Session -> 0 .. MaxChunks]
      BY <2>1, <2>2 DEF IInv, TypeOK
    <2>4. size[s] = 0 /\ size'[s] > 0 /\ \A t \in Session : size[t] > 0 => size'[t] > 0
      BY <2>1, <2>2, Constants DEF IInv, TypeOK
    <2> QED BY <2>1, <2>3, <2>4, SendKeeps
  <1>2. ASSUME NEW r \in Request, Clear(r) PROVE IInv'
    BY <1>2, SendKeeps DEF Clear, ClearOf, IInv, TypeOK
  <1>3. ASSUME NEW r \in Request, Arrive(r) PROVE IInv'
    <2>1. jar' \in Jar
      BY <1>3, AppliedAt DEF IInv, Arrive
    <2>2. last' \in Session \cup {NoSession} /\ over' \in BOOLEAN
      BY <1>3 DEF Arrive, IInv, TypeOK
    <2>3. \A i \in Index : jar'[i] =
            IF sets[r] # NoSession /\ i < size[sets[r]] THEN [s |-> sets[r], i |-> i]
            ELSE IF i \in expires[r] THEN Gone ELSE jar[i]
      BY <1>3, AppliedAt DEF IInv, Arrive
    <2>4. TypeOK' /\ Answers' /\ Sealed' /\ Apart' /\ Fronted'
      <3>1. \A i \in Index :
              \/ jar'[i] \in {jar[i], Gone}
              \/ sets[r] # NoSession /\ jar'[i].s = sets[r]
        <4>1. \A i \in Index : [s |-> sets[r], i |-> i].s = sets[r]
          OBVIOUS
        <4> QED BY Zenon, <2>3, <4>1
      <3>2. Done(r) /\ UNCHANGED <<size, ended, losses>>
        BY <1>3 DEF Arrive
      <3> QED BY <2>1, <2>2, <3>1, <3>2, Constants, DoneKeeps
    <2>5. sets[r] # NoSession => 0 < size[sets[r]]
      <3>1. sets[r] # NoSession => size[sets[r]] > 0 /\ sets[r] \in Session
        BY <1>3 DEF IInv, TypeOK, Answers, Arrive, Done
      <3> QED BY <3>1 DEF IInv, TypeOK
    <2>6. Front'
      <3>1. CASE sets[r] # NoSession
        <4>1. jar'[0] = [s |-> sets[r], i |-> 0]
          BY <2>3, <2>5, <3>1, Constants
        <4>2. jar'[0].s = sets[r]
          BY <4>1
        <4>3. last' = sets[r] /\ ~over'
          BY Zenon, <1>3, <3>1 DEF Arrive
        <4> QED BY <4>2, <4>3 DEF Front
      <3>2. CASE sets[r] = NoSession
        <4>1. jar'[0] = IF 0 \in expires[r] THEN Gone ELSE jar[0]
          BY <2>3, <3>2, Constants
        <4>2. last' = last /\ (over' <=> over \/ Carried(r, last))
          BY <1>3, <3>2 DEF Arrive, IInv, TypeOK
        <4>3. 0 \in expires[r] <=> sent[r][0] # Gone
          BY <1>3, Constants DEF IInv, Answers, Arrive, Done, Present
        <4>4. jar[0] # Gone /\ sent[r][0] = Gone => ~Carried(r, jar[0].s)
          BY <1>3 DEF IInv, Fronted, Arrive, Done, Carried, Present
        <4> QED BY <4>1, <4>2, <4>3, <4>4 DEF IInv, Front
      <3> QED BY <3>1, <3>2
    <2> QED BY <2>4, <2>6 DEF IInv
  <1>4. ASSUME NEW r \in Request, Drop(r) PROVE IInv'
    <2>1. TypeOK' /\ Answers' /\ Sealed' /\ Apart' /\ Fronted'
      BY <1>4, DoneKeeps DEF Drop, IInv, TypeOK
    <2> QED BY <1>4, <2>1 DEF Drop, IInv, Front
  <1>5. ASSUME NEW i \in Index, Evict(i) PROVE IInv'
    <2>1. losses' \in 0 .. MaxLosses
      BY <1>5, CookieSessionAssumption DEF Evict, IInv, TypeOK
    <2>2. TypeOK'
      BY <1>5, <2>1 DEF Evict, IInv, TypeOK, Jar
    <2>3. \A k \in Index : jar'[k] = Gone \/ jar'[k] = jar[k]
      BY <1>5 DEF Evict, IInv, TypeOK, Jar
    <2>4. Front'
      BY <1>5, <2>3, Constants DEF Evict, IInv, Front
    <2>5. UNCHANGED <<size, sent, expires, sets, inFlight>>
      BY <1>5 DEF Evict
    <2>6. Answers' /\ Sealed'
      BY <2>3, <2>5 DEF IInv, Answers, Sealed, Present
    <2>7. Apart'
      <3>1. ASSUME NEW q \in inFlight, sets[q] # NoSession, NEW k \in Index
            PROVE  jar'[k].s # sets[q]
        BY <2>3, <3>1, Constants DEF IInv, Apart
      <3> QED BY <2>5, <3>1 DEF IInv, Apart
    <2>8. Fronted'
      BY <2>3, <2>5, Constants DEF IInv, Fronted
    <2> QED BY <2>2, <2>4, <2>6, <2>7, <2>8 DEF IInv
  <1>6. ASSUME NEW s \in Session, End(s) PROVE IInv'
    BY <1>6 DEF End, IInv, TypeOK, Front, Answers, Sealed, Apart, Fronted, Present
  <1>7. CASE UNCHANGED vars
    BY <1>7 DEF vars, IInv, TypeOK, Front, Answers, Sealed, Apart, Fronted, Present
  <1> QED BY <1>1, <1>2, <1>3, <1>4, <1>5, <1>6, <1>7 DEF Next

LEMMA Invariance == Spec => []IInv
  BY InitEstablishes, NextKeeps, PTL DEF Spec

-----------------------------------------------------------------------------
(* What Read gives                                                         *)

\* The session a jar opens as is the one of its first chunk.
LEMMA OpensFirst ==
  ASSUME TypeOK, NEW j, NEW s \in Session, Opens(j, s)
  PROVE  j[0] = [s |-> s, i |-> 0]
  BY Constants DEF Opens, TypeOK

\* Whatever races and whatever the browser loses, Manager.Read gives the session whose
\* response arrived last or none, and not that one either once it was signed out
\* (session/cookie.go, readChunkedCookie, clearChunkedCookie and open).
THEOREM NeverBack == Spec => []OldSessionNeverBack
  <1>1. ASSUME IInv PROVE OldSessionNeverBack
    <2>1. CASE \E s \in Session \ ended : Opens(jar, s)
      <3>1. PICK s \in Session : Read(jar) = s /\ Opens(jar, s)
        BY <2>1 DEF Read
      <3>2. jar[0] = [s |-> s, i |-> 0]
        BY <1>1, <3>1, OpensFirst DEF IInv
      <3>3. jar[0] # Gone /\ jar[0].s = s
        BY <3>2, Constants DEF Gone
      <3> QED BY <1>1, <3>1, <3>3 DEF IInv, Front, OldSessionNeverBack
    <2>2. CASE ~ \E s \in Session \ ended : Opens(jar, s)
      BY <2>2 DEF Read, OldSessionNeverBack
    <2> QED BY <2>1, <2>2
  <1> QED BY <1>1, Invariance, PTL

\* A jar that holds exactly the chunks of s, from 0 to n - 1, is read as s.
LEMMA WholeIsRead ==
  ASSUME TypeOK, NEW j \in Jar, NEW s \in Session \ ended, size[s] > 0,
         \A i \in Index : j[i] = IF i < size[s] THEN [s |-> s, i |-> i] ELSE Gone
  PROVE  Read(j) = s
  <1> DEFINE Run(n) == /\ \A i \in Index : i < n => j[i] # Gone
                       /\ n \in Index => j[n] = Gone
  <1>1. size[s] \in 0 .. MaxChunks /\ size[s] \in Nat /\ MaxChunks \in Nat
    BY CookieSessionAssumption DEF TypeOK
  <1>2. \A i \in Index : j[i] # Gone <=> i < size[s]
    <2>1. \A i \in Index : [s |-> s, i |-> i] # Gone
      BY Constants DEF Gone
    <2> QED BY Zenon, <2>1
  <1>3. Run(size[s])
    BY <1>1, <1>2, Constants
  <1>4. ASSUME NEW n \in 0 .. MaxChunks, Run(n) PROVE n = size[s]
    <2>1. n < size[s] => n \in Index /\ j[n] # Gone
      BY <1>1, <1>2 DEF Index
    <2>2. size[s] < n => size[s] \in Index /\ j[size[s]] # Gone
      BY <1>1, <1>4 DEF Index
    <2>3. size[s] < n => FALSE
      BY <1>1, <1>2, <2>2
    <2> QED BY <1>1, <1>4, <2>1, <2>3
  <1>5. RunLength(j) = size[s]
    BY <1>1, <1>3, <1>4 DEF RunLength
  <1>6. Opens(j, s)
    BY <1>5 DEF Opens
  <1>7. ASSUME NEW t \in Session, Opens(j, t) PROVE t = s
    <2>1. j[0] = [s |-> s, i |-> 0]
      BY <1>6, OpensFirst
    <2>2. j[0] = [s |-> t, i |-> 0]
      BY <1>7, OpensFirst
    <2> QED BY <2>1, <2>2
  <1> QED BY <1>6, <1>7 DEF Read

\* A response that races with nothing puts the jar right, whatever it held: Issue's
\* session can be read and Clear leaves nothing (manager.go, Issue and Clear).
THEOREM Repairs == Spec => ResponseRepairs
  <1>1. ASSUME IInv, IInv', [Next]_vars, NEW r \in Request, Arrive(r), jar = sent[r]
        PROVE  IF sets[r] = NoSession THEN jar' = Empty
               ELSE sets[r] \notin ended => Read(jar)' = sets[r]
    <2>1. /\ jar' = Applied(r) /\ size' = size /\ ended' = ended
          /\ expires[r] = Present(jar)
          /\ sets[r] # NoSession => size[sets[r]] > 0
      BY <1>1 DEF Arrive, Done, IInv, Answers
    <2>2. \A i \in Index : jar'[i] =
            IF sets[r] # NoSession /\ i < size[sets[r]] THEN [s |-> sets[r], i |-> i] ELSE Gone
      BY <1>1, <2>1, AppliedAt DEF IInv, Present
    <2>3. CASE sets[r] = NoSession
      <3>1. jar' \in [Index -> Chunk \cup {Gone}] /\ \A i \in Index : jar'[i] = Gone
        BY <1>1, <2>2, <2>3 DEF IInv, TypeOK, Jar
      <3> QED BY <2>3, <3>1 DEF Empty
    <2>4. CASE sets[r] # NoSession /\ sets[r] \notin ended
      <3>1. sets[r] \in Session \ ended /\ size[sets[r]] > 0
        BY <1>1, <2>1, <2>4 DEF IInv, TypeOK
      <3>2. jar' \in Jar
        BY <1>1 DEF IInv, TypeOK
      <3>3. \A i \in Index : jar'[i] =
              IF i < size[sets[r]] THEN [s |-> sets[r], i |-> i] ELSE Gone
        BY <2>2, <2>4
      <3>4. Read(jar') = sets[r]
        BY <1>1, <3>1, <3>2, <3>3, WholeIsRead DEF IInv
      <3>5. Read(jar)' = Read(jar')
        BY <2>1 DEF Read, Opens, RunLength
      <3> QED BY <2>4, <3>4, <3>5
    <2> QED BY <2>3, <2>4
  <1>2. ASSUME IInv, IInv', [Next]_vars
        PROVE  [\A r \in Request : (Arrive(r) /\ jar = sent[r]) =>
                  IF sets[r] = NoSession THEN jar' = Empty
                  ELSE sets[r] \notin ended => Read(jar)' = sets[r]]_vars
    BY <1>1, <1>2
  <1> QED BY <1>2, Invariance, PTL DEF Spec, ResponseRepairs

-----------------------------------------------------------------------------
(* The principal of a request                                              *)

\* Most leaves are first-order logic; those that need records name SMT.
USE Zenon

\* NeedUserInfoForToken, of the claims as they are.
Needed ==
    \/ cfg.userInfo = "always"
    \/ /\ cfg.userInfo = "auto"
       /\ \/ cfg.subjectClaim # "sub" /\ claims.uid # "value"
          \/ cfg.groups /\ claims.groups = "nothing"
          \/ \E c \in cfg.claims : claims[c] = "nothing"

\* What there is of a request at each point: no principal before its claims are projected,
\* and nothing from userinfo before, or after a failure of, the fetch.
Underway ==
    /\ pc = "idle" => principal = None /\ userinfo = Silent /\ ~down
    /\ pc = "userinfo" => userinfo = Silent /\ ~down /\ principal = None
    /\ pc \in {"project", "refused"} => principal = None
    /\ down => userinfo = Silent
    /\ pc # "idle" => path \in {"cookie", "bearer"}

\* The Bearer gate has verified the token and fetched userinfo, tried to, or not needed to.
Bearer == (path = "bearer" /\ pc \in {"userinfo", "project", "resolved"}) =>
    /\ VerifyAccessToken(newOIDC(oidc, discovery), token)
    /\ sub # "" \/ cfg.subjectClaim # "sub"
    /\ pc # "userinfo" => userinfo = directory \/ down \/ (~Needed /\ userinfo = Silent)

\* Sign-in has fetched userinfo when it needs it.
Cookie == (path = "cookie" /\ pc \in {"project", "resolved"} /\ NeedsUserInfo) =>
    userinfo = directory

\* A request that is turned into a principal is turned into this one; one that has been
\* past a failed fetch is refused for want of a subject only.
Outcome ==
    /\ pc = "resolved" => principal = Projected
    /\ (path = "bearer" /\ pc = "refused" /\ down) =>
         Projected.sub = "" /\ cfg.subjectClaim = "uid"

\* The types the argument needs.
Typed ==
    /\ oidc \in OidcConfig /\ discovery \in Discovery /\ ~newOIDCFails(oidc)
    /\ cfg \in Config /\ directory \in Source
    /\ sub \in {"sub", ""} /\ claims \in Source /\ userinfo \in Source
    /\ pc \in {"idle", "userinfo", "project", "resolved", "refused"}
    /\ pc \notin {"idle", "refused"} /\ path = "bearer" => token \in AccessToken

IdInv == Typed /\ Underway /\ Bearer /\ Cookie /\ Outcome

\* A source that says nothing is a source.
LEMMA SilentIsSource == Silent \in Source
  BY SMT DEF Silent, Source, Says

\* No request is being resolved yet.
LEMMA IdInit == IdentityInit => IdInv
  BY SilentIsSource DEF IdentityInit, IdInv, Typed, Underway, Bearer, Cookie, Outcome

\* What NewPrincipal is given decides what it returns.
LEMMA SameProjected == UNCHANGED <<cfg, sub, claims, userinfo>> => Projected' = Projected
  BY DEF Projected, NewPrincipal, resolveSubject, projectPassport, projectGroups

\* One step of a request, on either path, and the next request.
LEMMA IdNext == IdInv /\ [IdentityNext]_identityVars => IdInv'
  <1> SUFFICES ASSUME IdInv, [IdentityNext]_identityVars PROVE IdInv'
    OBVIOUS
  <1> USE DEF IdInv
  <1>1. CASE Callback
    <2>0. /\ pc = "idle" /\ UNCHANGED <<boot, userinfo, down, token, principal>>
          /\ path' = "cookie" /\ sub' = "sub" /\ claims' \in Source
          /\ pc' = "userinfo" \/ (pc' = "project" /\ ~NeedsUserInfo)
      BY <1>1 DEF Callback
    <2>1. Typed'
      BY <2>0 DEF Typed, boot
    <2>2. Underway'
      BY <2>0 DEF Underway
    <2>3. Cookie'
      BY <2>0 DEF Cookie, NeedsUserInfo, boot
    <2>4. Bearer' /\ Outcome'
      BY <2>0 DEF Bearer, Outcome
    <2> QED BY <2>1, <2>2, <2>3, <2>4
  <1>2. CASE BearerGate
    <2>0. /\ pc = "idle" /\ UNCHANGED <<boot, userinfo, down, principal>>
          /\ path' = "bearer" /\ sub' \in {"sub", ""} /\ claims' \in Source
          /\ token' \in AccessToken
          /\ \/ pc' = "refused"
             \/ /\ pc' = "userinfo" \/ (pc' = "project" /\ ~NeedUserInfoForToken)
                /\ VerifyAccessToken(newOIDC(oidc, discovery), token')
                /\ sub' # "" \/ cfg.subjectClaim # "sub"
      BY <1>2 DEF BearerGate
    <2>1. Typed'
      BY <2>0 DEF Typed, boot
    <2>2. Underway'
      BY <2>0 DEF Underway
    <2>3. NeedUserInfoForToken <=> Needed'
      BY <2>0 DEF NeedUserInfoForToken, NeedUserInfoWhen, Needed, boot
    <2>4. Bearer'
      BY <2>0, <2>3 DEF Underway, Bearer, boot
    <2>5. Cookie' /\ Outcome'
      BY <2>0 DEF Cookie, Underway, Outcome
    <2> QED BY <2>1, <2>2, <2>4, <2>5
  <1>3. CASE UserInfo
    <2>1. Typed'
      BY <1>3 DEF UserInfo, Typed, boot
    <2>2. Underway' /\ Cookie' /\ Outcome'
      BY <1>3 DEF UserInfo, Underway, Cookie, Outcome, boot
    <2>3. Bearer'
      BY <1>3 DEF UserInfo, Bearer, boot
    <2> QED BY <2>1, <2>2, <2>3
  <1>4. CASE UserInfoFails
    <2>0. /\ pc = "userinfo" /\ down'
          /\ pc' = "refused" \/ (pc' = "project" /\ path # "cookie")
          /\ path = "bearer" => pc' = "project"
          /\ UNCHANGED <<boot, path, sub, claims, userinfo, token, principal>>
      BY <1>4 DEF UserInfoFails, UserInfoFailsTo
    <2>1. Typed'
      BY <2>0 DEF Typed, boot
    <2>2. Underway' /\ Cookie' /\ Outcome'
      BY <2>0 DEF Underway, Cookie, Outcome, boot
    <2>3. Bearer'
      BY <2>0 DEF Bearer, boot
    <2> QED BY <2>1, <2>2, <2>3
  <1>5. CASE Project
    <2>0. /\ pc = "project" /\ UNCHANGED <<boot, path, sub, claims, userinfo, down, token>>
          /\ \/ pc' = "refused" /\ UNCHANGED principal /\ Projected.sub = ""
             \/ pc' = "resolved" /\ principal' = Projected
      BY <1>5 DEF Project
    <2>1. Projected' = Projected
      BY <2>0, SameProjected DEF boot
    <2>2. Typed'
      BY <2>0 DEF Typed, boot
    <2>3. Underway'
      BY <2>0 DEF Underway
    <2>4. Outcome'
      <3>1. Projected.sub = resolveSubject(sub, claims, userinfo)
        BY SMT DEF Projected, NewPrincipal
      <3>2. cfg.subjectClaim \in {"sub", "uid"}
        <4>1. cfg \in Config
          BY DEF Typed
        <4> QED BY <4>1 DEF Config
      <3>3. (path = "bearer" /\ Projected.sub = "") => cfg.subjectClaim = "uid"
        BY <2>0, <3>1, <3>2 DEF Bearer, resolveSubject
      <3> QED BY <2>0, <2>1, <3>3 DEF Outcome, boot
    <2>5. Cookie'
      BY <2>0 DEF Cookie, NeedsUserInfo, boot
    <2>6. Bearer'
      BY <2>0 DEF Bearer, Needed, boot
    <2> QED BY <2>2, <2>3, <2>4, <2>5, <2>6
  <1>6. CASE Again
    <2>1. Typed'
      BY <1>6, SilentIsSource DEF Again, Typed, boot
    <2>2. Underway' /\ Bearer' /\ Cookie' /\ Outcome'
      BY <1>6 DEF Again, Underway, Bearer, Cookie, Outcome
    <2> QED BY <2>1, <2>2
  <1>7. CASE UNCHANGED identityVars
    <2>1. Typed' /\ Underway'
      BY <1>7 DEF identityVars, boot, Typed, Underway
    <2>2. Bearer' /\ Cookie'
      BY <1>7 DEF identityVars, boot, Bearer, Needed, Cookie, NeedsUserInfo
    <2>3. Outcome'
      BY <1>7, SameProjected DEF identityVars, boot, Outcome
    <2> QED BY <2>1, <2>2, <2>3
  <1> QED BY <1>1, <1>2, <1>3, <1>4, <1>5, <1>6, <1>7 DEF IdentityNext

\* The inductive invariant of identity resolution holds throughout.
LEMMA IdInvariance == IdentitySpec => []IdInv
  BY IdInit, IdNext, PTL DEF IdentitySpec

\* For every connector, identity block, token and directory at once, unusable claims
\* included: what the Bearer gate makes of a token alone, when NeedUserInfoForToken lets it
\* skip userinfo, has the subject and every claim of what it would have made with it, and
\* the same values where neither source has an unusable one.
THEOREM Skipping == IdentitySpec => []SkippingIsSafe
  <1>1. IdInv => SkippingIsSafe
    <2> SUFFICES ASSUME IdInv, principal # None, path = "bearer", ~down, cfg.userInfo = "auto"
                 PROVE  LET full == NewPrincipal(sub, claims, directory)
                            Agree(c) == "unusable" \notin {claims[c], directory[c]}
                        IN  /\ principal.sub = full.sub
                            /\ \A c \in Claim :
                                 /\ principal.passport[c] = "nothing"
                                      <=> full.passport[c] = "nothing"
                                 /\ Agree(c) => principal.passport[c] = full.passport[c]
                            /\ Agree("groups") => principal.groups = full.groups
      BY DEF SkippingIsSafe
    <2>1. pc = "resolved" /\ principal = NewPrincipal(sub, claims, userinfo)
      BY DEF IdInv, Typed, Underway, Outcome, Projected
    <2>2. userinfo = directory \/ (~Needed /\ userinfo = Silent)
      BY <2>1 DEF IdInv, Bearer
    <2>3. CASE userinfo = directory
      BY <2>1, <2>3
    <2>4. CASE ~Needed /\ userinfo = Silent
      <3>0. cfg \in Config /\ claims \in Source /\ directory \in Source
        BY DEF IdInv, Typed
      <3>1. /\ cfg.subjectClaim # "sub" => claims.uid = "value"
            /\ cfg.groups => claims.groups # "nothing"
            /\ \A c \in cfg.claims : claims[c] # "nothing"
        BY <2>4 DEF Needed
      <3>2. resolveSubject(sub, claims, Silent) = resolveSubject(sub, claims, directory)
        BY SMT, <3>0, <3>1 DEF resolveSubject, Silent, Config
      <3>3. ASSUME NEW c \in Claim
            PROVE  LET mine == projectPassport(claims, Silent)[c]
                       full == projectPassport(claims, directory)[c]
                   IN  /\ mine = "nothing" <=> full = "nothing"
                       /\ "unusable" \notin {claims[c], directory[c]} => mine = full
        <4>1. Silent[c] = "nothing"
          BY SMT DEF Silent, Claim
        <4>2. claims[c] \in Says /\ directory[c] \in Says
          BY SMT, <3>0 DEF Source, Claim
        <4> QED BY <3>1, <4>1, <4>2 DEF projectPassport, Says
      <3>4. "unusable" \notin {claims.groups, directory.groups} =>
              projectGroups(claims, Silent) = projectGroups(claims, directory)
        BY SMT, <3>0, <3>1 DEF projectGroups, Silent, Source, Says, Config
      <3> QED BY SMT, <2>1, <2>4, <3>2, <3>3, <3>4 DEF NewPrincipal
    <2> QED BY <2>2, <2>3, <2>4
  <1> QED BY <1>1, IdInvariance, PTL

\* A failed userinfo never leaves a session behind that lacks what the directory knows,
\* and costs a Bearer request only what it could not fetch (Callback answers 502, BearerGate
\* goes on with the token's claims).
THEOREM Outage == IdentitySpec => []OutageContained
  <1>1. IdInv => OutageContained
    <2> SUFFICES ASSUME IdInv PROVE OutageContained
      OBVIOUS
    <2>0. principal # None => pc = "resolved" /\ principal = NewPrincipal(sub, claims, userinfo)
      BY DEF IdInv, Typed, Underway, Outcome, Projected
    <2>1. (principal # None /\ path = "cookie" /\ NeedsUserInfo) =>
             principal = NewPrincipal(sub, claims, directory)
      BY <2>0 DEF IdInv, Cookie
    <2>2. ASSUME path = "bearer", down
          PROVE  /\ pc = "refused" => sub = "" /\ claims.uid # "value"
                 /\ principal # None => principal = NewPrincipal(sub, claims, Silent)
      <3>1. userinfo = Silent
        BY <2>2 DEF IdInv, Underway
      <3>2. pc = "refused" =>
              resolveSubject(sub, claims, Silent) = "" /\ cfg.subjectClaim = "uid"
        BY <2>2, <3>1 DEF IdInv, Outcome, Projected, NewPrincipal
      <3>3. pc = "refused" => sub = "" /\ claims.uid # "value"
        BY <3>2 DEF resolveSubject
      <3> QED BY <2>0, <3>1, <3>3
    <2> QED BY <2>1, <2>2 DEF OutageContained
  <1> QED BY <1>1, IdInvariance, PTL

\* Whatever connector newOIDC makes of a document and of discovery, VerifyAccessToken lets
\* no token for another audience, or signed with a key for ID tokens only, become a
\* principal.
THEOREM Audience == IdentitySpec => []TokenForThisGateway
  <1>1. IdInv => TokenForThisGateway
    <2> SUFFICES ASSUME IdInv, principal # None, path = "bearer"
                 PROVE  /\ oidc.requireAudience =>
                             "us" \in IF oidc.audienceClaim = "" THEN token.aud
                                      ELSE token[oidc.audienceClaim]
                        /\ token.key = "id" => oidc.jwksURL = "" /\ discovery.accessTokenJWKS = ""
      BY DEF TokenForThisGateway
    <2>1. pc = "resolved"
      BY DEF IdInv, Typed, Underway
    <2>2. VerifyAccessToken(newOIDC(oidc, discovery), token)
      BY <2>1 DEF IdInv, Bearer
    <2>3. oidc \in OidcConfig /\ discovery \in Discovery
      BY DEF IdInv, Typed
    <2> DEFINE o == newOIDC(oidc, discovery)
    <2>4. /\ o.bearerRequireAud = oidc.requireAudience /\ o.bearerAudClaim = oidc.audienceClaim
          /\ o.skipClientIDCheck <=> ~oidc.requireAudience \/ oidc.audienceClaim # ""
          /\ o.keySet = IF oidc.jwksURL # "" THEN oidc.jwksURL
                        ELSE IF discovery.accessTokenJWKS # "" THEN discovery.accessTokenJWKS
                        ELSE "id"
      BY <2>3 DEF newOIDC, newOIDCWith, OidcConfig
    <2>5. /\ token.key = o.keySet /\ (o.skipClientIDCheck \/ "us" \in token.aud)
          /\ (o.bearerRequireAud /\ o.bearerAudClaim # "") => "us" \in token[o.bearerAudClaim]
      BY <2>2 DEF VerifyAccessToken, bearerVerifier, claimHas
    <2> HIDE DEF o
    <2>6. oidc.jwksURL \in {"", "own"} /\ discovery.accessTokenJWKS \in {"", "access"}
      BY <2>3 DEF OidcConfig, Discovery
    <2> QED BY <2>4, <2>5, <2>6
  <1> QED BY <1>1, IdInvariance, PTL
=============================================================================
