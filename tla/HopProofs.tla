------------------------------ MODULE HopProofs ------------------------------
(***************************************************************************)
(* For every lifetime, tolerance, drift, clock resolution and set of keys: *)
(* how long an assertion can be replayed, that clocks within the tolerance *)
(* never make Verify refuse one that is valid, and that replacing keys in  *)
(* the order of Rotation refuses none either.  Two instances in a row      *)
(* behave as the issuer and the verifier of Assertion, so this holds of    *)
(* them, and a membership that has ended is honoured no longer than        *)
(* Horizon.                                                                *)
(***************************************************************************)
EXTENDS Hop, TLAPS

-----------------------------------------------------------------------------
(* The assertion                                                           *)

\* Cutting a time to whole seconds loses less than a second and adds nothing.
LEMMA UnixBounds ==
    \A t \in Nat : Unix(t) \in Int /\ t - Second < Unix(t) /\ Unix(t) <= t
  <1> SUFFICES ASSUME NEW t \in Nat
               PROVE  Unix(t) \in Int /\ t - Second < Unix(t) /\ Unix(t) <= t
    OBVIOUS
  <1>1. t % Second \in 0 .. Second - 1
    BY AssertionAssumption
  <1> QED BY <1>1, AssertionAssumption DEF Unix

\* What an assertion under way says of the time it was minted at.
Dated(a) ==
    /\ a.mintedAt <= now
    /\ a.iat <= a.mintedAt
    /\ a.exp <= a.mintedAt + TTL /\ a.mintedAt + TTL - Second < a.exp

\* What the last verdict says of the clocks.
Judged ==
    /\ verdict = "accepted" => now + drift <= flight.exp + Skew
    /\ verdict = "expired" => now + drift > flight.exp + Skew
    /\ verdict = "future" => flight.iat > now + drift + Skew
    /\ verdict = "invalid" => flight.key \notin trusted \/ ~flight.ours \/ ~flight.named

\* An assertion with another key than the issuer's was minted before the last switch.
Keyed ==
    /\ switched <= now
    /\ flight # None => flight.key = signing \/ flight.mintedAt <= switched

\* After an orderly past the verifier knows every key that still matters.
Known ==
    orderly =>
        /\ signing \in trusted
        /\ flight # None => \/ flight.key \in trusted
                            \/ now - flight.mintedAt > TTL + Skew + Drift

IInv ==
    /\ TypeOK
    /\ flight # None => Dated(flight)
    /\ Judged
    /\ Keyed /\ Known

\* No assertion has been minted yet.
LEMMA InitEstablishes == Init => IInv
  <1> SUFFICES ASSUME Init PROVE IInv
    OBVIOUS
  <1>1. orderly \in BOOLEAN /\ (orderly => signing \in trusted)
    <2>1. orderly = (signing \in trusted)
      BY DEF Init
    <2>2. CASE signing \in trusted
      BY <2>1, <2>2
    <2>3. CASE signing \notin trusted
      <3>1. (signing \in trusted) = FALSE
        BY <2>3
      <3> QED BY Zenon, <2>1, <3>1
    <2> QED BY <2>2, <2>3
  <1>2. TypeOK
    BY <1>1, AssertionAssumption DEF Init, TypeOK
  <1>3. Judged /\ Keyed
    BY AssertionAssumption DEF Init, Judged, Keyed
  <1>4. Known
    BY <1>1 DEF Init, Known
  <1> QED BY <1>2, <1>3, <1>4 DEF Init, IInv

\* Only Mint writes an assertion and only Verify a verdict.
LEMMA NextKeeps == IInv /\ [Next]_vars => IInv'
  <1> SUFFICES ASSUME IInv, [Next]_vars PROVE IInv'
    OBVIOUS
  <1> USE DEF IInv
  <1>0. /\ now \in Nat /\ switched \in Nat /\ drift \in Int
        /\ TTL \in Nat /\ Skew \in Nat /\ Drift \in Nat
        /\ flight # None => /\ flight.mintedAt \in Nat /\ flight.key \in Key
                            /\ flight.exp \in Int /\ flight.iat \in Int
    BY AssertionAssumption DEF TypeOK, Token
  <1>1. CASE Mint
    <2> DEFINE iat == Unix(now)
               exp == Unix(now + TTL)
    <2>1. PICK named \in BOOLEAN, ours \in BOOLEAN :
            flight' = [named |-> named, ours |-> ours, iat |-> iat, exp |-> exp,
                       key |-> signing, mintedAt |-> now]
      BY <1>1 DEF Mint, MintWith
    <2>2. now + TTL \in Nat /\ signing \in Key
      BY <1>0 DEF TypeOK
    <2>3. /\ iat \in Int /\ iat <= now
          /\ exp \in Int /\ now + TTL - Second < exp /\ exp <= now + TTL
      <3>1. Unix(now) \in Int /\ now - Second < Unix(now) /\ Unix(now) <= now
        BY <1>0, UnixBounds
      <3>2. /\ Unix(now + TTL) \in Int /\ (now + TTL) - Second < Unix(now + TTL)
            /\ Unix(now + TTL) <= now + TTL
        BY <2>2, UnixBounds
      <3> QED BY <3>1, <3>2, <1>0, AssertionAssumption DEF iat, exp
    <2>4. verdict' = None /\ UNCHANGED <<now, drift, signing, trusted, switched, orderly>>
      BY <1>1 DEF Mint, MintWith, keys
    <2> HIDE DEF iat, exp
    <2>5. flight' \in Token
      BY <2>1, <2>2, <2>3, <1>0 DEF Token
    <2>6. TypeOK'
      BY <2>4, <2>5 DEF TypeOK
    <2>7. Dated(flight)'
      BY <2>1, <2>2, <2>3, <2>4, <1>0 DEF Dated
    <2>8. Judged'
      BY <2>4, AssertionAssumption DEF Judged
    <2>9. Keyed' /\ Known'
      BY <2>1, <2>4 DEF Keyed, Known
    <2> QED BY <2>6, <2>7, <2>8, <2>9
  <1>2. CASE Verify
    <2>1. flight # None /\ UNCHANGED <<now, drift, signing, trusted, switched, orderly, flight>>
      BY <1>2 DEF Verify, VerifyWith, keys
    <2>2. TypeOK'
      BY <1>2, <2>1 DEF TypeOK, Verify, VerifyWith
    <2>3. Dated(flight)'
      BY <2>1 DEF Dated
    <2>4. Judged'
      BY <1>0, <1>2, <2>1 DEF Judged, Verify, VerifyWith
    <2>5. Keyed' /\ Known'
      BY <2>1 DEF Keyed, Known
    <2> QED BY <2>2, <2>3, <2>4, <2>5
  <1>3. CASE Tick
    <2>1. now' \in 0 .. MaxTime /\ now < now' /\ now' \in Nat
      BY <1>3, <1>0, AssertionAssumption DEF Tick, TypeOK
    <2>2. /\ drift' \in (-Drift) .. Drift /\ verdict' = None
          /\ UNCHANGED <<signing, trusted, switched, orderly, flight>>
      BY <1>3 DEF Tick, keys
    <2>3. TypeOK'
      BY <2>1, <2>2 DEF TypeOK
    <2>4. ASSUME flight # None PROVE Dated(flight)'
      BY <1>0, <2>1, <2>2, <2>4 DEF Dated
    <2>5. Judged'
      BY <2>2, AssertionAssumption DEF Judged
    <2>6. Keyed' /\ Known'
      BY <1>0, <2>1, <2>2 DEF Keyed, Known
    <2> QED BY <2>2, <2>3, <2>4, <2>5, <2>6
  <1>4. CASE Lose
    BY <1>4, AssertionAssumption DEF Lose, keys, TypeOK, Dated, Judged, Keyed, Known
  <1>5. CASE RestartIssuer
    <2>1. /\ signing' \in Key /\ switched' \in {switched, now}
          /\ signing' # signing => switched' = now
          /\ verdict' = None /\ UNCHANGED <<now, drift, trusted, flight>>
      BY <1>5 DEF RestartIssuer
    <2>2. orderly' \in BOOLEAN /\ (orderly' => orderly /\ signing' \in trusted)
      BY Zenon, <1>5 DEF RestartIssuer, Rotation, TypeOK
    <2>3. TypeOK'
      BY <2>1, <2>2 DEF TypeOK
    <2>4. flight' # None => Dated(flight)'
      BY <2>1 DEF Dated
    <2>5. Judged'
      BY <2>1, AssertionAssumption DEF Judged
    <2>6. Keyed'
      BY <1>0, <2>1 DEF Keyed, Dated
    <2>7. Known'
      BY <2>1, <2>2 DEF Known
    <2> QED BY <2>3, <2>4, <2>5, <2>6, <2>7
  <1>6. CASE RestartVerifier
    <2>1. PICK c \in SUBSET Key : Trust(c, c)
      BY <1>6 DEF RestartVerifier
    <2>2. /\ trusted' = c /\ verdict' = None
          /\ UNCHANGED <<now, drift, signing, switched, flight>>
      BY <2>1 DEF Trust
    <2>3. orderly' \in BOOLEAN /\ (orderly' => orderly /\ Rotation(signing, c))
      BY Zenon, <2>1 DEF Trust, TypeOK
    <2>4. TypeOK'
      BY <2>2, <2>3 DEF TypeOK
    <2>5. flight' # None => Dated(flight)'
      BY <2>2 DEF Dated
    <2>6. Judged' /\ Keyed'
      BY <2>2, AssertionAssumption DEF Judged, Keyed
    <2>7. Known'
      BY <1>0, <2>2, <2>3 DEF Known, Keyed, Rotation, Settled
    <2> QED BY <2>4, <2>5, <2>6, <2>7
  <1>7. CASE UNCHANGED vars
    BY <1>7 DEF vars, keys, TypeOK, Dated, Judged, Keyed, Known
  <1> QED BY <1>1, <1>2, <1>3, <1>4, <1>5, <1>6, <1>7 DEF Next

\* The inductive invariant of the assertion protocol holds throughout: dates and keys borne by
\* an assertion are those Mint gave it, and each verdict of Verify is what they called for.
THEOREM Invariance == Spec => []IInv
  BY InitEstablishes, NextKeeps, PTL DEF Spec

\* Verify accepts no assertion older than its lifetime, the tolerance and the drift of
\* the two clocks together.
THEOREM Replay == Spec => []ReplayBounded
  <1>1. IInv => ReplayBounded
    <2> SUFFICES ASSUME IInv, verdict = "accepted" PROVE now - flight.mintedAt <= TTL + Skew + Drift
      BY DEF ReplayBounded
    <2>1. flight # None /\ flight \in Token
      BY AssertionAssumption DEF IInv, TypeOK
    <2>2. /\ flight.mintedAt \in Nat /\ flight.exp \in Int
          /\ now \in Nat /\ drift \in Int /\ -Drift <= drift
      BY <2>1, AssertionAssumption DEF IInv, TypeOK, Token
    <2>3. now + drift <= flight.exp + Skew /\ flight.exp <= flight.mintedAt + TTL
      BY <2>1 DEF IInv, Judged, Dated
    <2> QED BY <2>2, <2>3, AssertionAssumption
  <1> QED BY <1>1, Invariance, PTL

\* Clocks no further apart than assertionSkew make Verify refuse no assertion as issued in
\* the future, and none as expired before its lifetime in whole seconds is over.
THEOREM Tolerance == Spec => []DriftTolerated
  <1>1. IInv => DriftTolerated
    <2> SUFFICES ASSUME IInv, Drift <= Skew
                 PROVE  /\ verdict # "future"
                        /\ verdict = "expired" => now - flight.mintedAt > TTL - Second
      BY DEF DriftTolerated
    <2>1. CASE verdict \in {"future", "expired"}
      <3>1. flight # None /\ flight \in Token
        BY <2>1, AssertionAssumption DEF IInv, TypeOK
      <3>2. /\ flight.mintedAt \in Nat /\ flight.exp \in Int /\ flight.iat \in Int
            /\ now \in Nat /\ drift \in Int /\ -Drift <= drift /\ drift <= Drift
        BY <3>1, AssertionAssumption DEF IInv, TypeOK, Token
      <3>3. Dated(flight) /\ Judged
        BY <3>1 DEF IInv
      <3> QED BY <3>2, <3>3, AssertionAssumption DEF Dated, Judged
    <2>2. CASE verdict \notin {"future", "expired"}
      BY <2>2
    <2> QED BY <2>1, <2>2
  <1> QED BY <1>1, Invariance, PTL

\* While operators replace keys in the order of Rotation, Verify refuses no assertion for
\* its key that it could still have accepted.
THEOREM Seamless == Spec => []RotationSeamless
  <1>1. IInv => RotationSeamless
    <2> SUFFICES ASSUME IInv, orderly, verdict = "invalid", flight.ours, flight.named
                 PROVE  now - flight.mintedAt > TTL + Skew + Drift
      BY DEF RotationSeamless
    <2>1. flight # None
      BY AssertionAssumption DEF IInv, TypeOK
    <2>2. flight.key \notin trusted
      BY DEF IInv, Judged
    <2> QED BY <2>1, <2>2 DEF IInv, Known
  <1> QED BY <1>1, Invariance, PTL

\* A good assertion is refused neither for its dates nor for its key.
THEOREM Freshness == Spec => []FreshNeverRefused
  BY Tolerance, Seamless, PTL DEF FreshNeverRefused

-----------------------------------------------------------------------------
(* Two instances in a row                                                  *)

\* A step of the two instances is a step of the assertion's protocol or none of it.
LEMMA HopNextIsNext == [HopNext]_hopVars => [Next]_vars
  BY DEF HopNext, hopVars, Grant, Ask, Resolve, ResolveToken, Told, SignIn, Forward, Abandon,
         Receive, Change, Pass, Disturb, Next

\* The composition implements the protocol Assertion specifies.
THEOREM HopImplementsAssertion == HopSpec => Spec
  <1>1. HopInit => Init
    BY DEF HopInit
  <1> QED BY <1>1, HopNextIsNext, PTL DEF HopSpec, Spec

\* How old the directory's word is, at each place it is kept.
Aged ==
    /\ lastMember <= now /\ (member => lastMember = now)
    /\ session # None /\ session.member => session.expiry <= lastMember + SessionTTL + Work
    /\ token # None /\ token.member => token.expiry <= lastMember + TokenTTL
    /\ flight # None /\ says => flight.mintedAt <= lastMember + Kept + Work

\* How old it was when a request of the edge got to know it, which is at most Work ago.
Heard ==
    word # None =>
        /\ word.at <= now /\ now <= word.at + Work
        /\ word.member => word.at <= lastMember + Kept
        /\ word.member /\ word.of = "provider" => word.at <= lastMember

\* The inner instance takes a membership from an assertion it has just accepted, or finds
\* it out with a token that is valid by its clock.
Taken ==
    principal # None =>
        /\ principal.by = "assertion" => verdict = "accepted" /\ principal.member = says
        /\ principal.by = "bearer" /\ principal.member => now <= lastMember + TokenTTL + Drift

HInv == HopTypeOK /\ Aged /\ Heard /\ Taken

\* Kept covers what either credential is honoured for.
LEMMA KeptType ==
  /\ SessionTTL \in Nat /\ TokenTTL \in Nat /\ Work \in Nat /\ Kept \in Nat
  /\ SessionTTL + Work <= Kept /\ TokenTTL <= Kept
  BY HopAssumption DEF Kept

\* Nobody has signed in at the edge yet.
LEMMA HopInitEstablishes == HopInit => HInv
  <1> SUFFICES ASSUME HopInit PROVE HInv
    OBVIOUS
  <1>1. /\ now = 0 /\ flight = None /\ session = None /\ token = None /\ word = None
        /\ principal = None /\ TypeOK
    BY InitEstablishes DEF HopInit, Init, IInv
  <1>2. Horizon \in Nat
    BY AssertionAssumption, KeptType DEF Horizon
  <1>3. lastMember \in Int /\ lastMember <= now /\ (member => lastMember = now)
    BY <1>1, <1>2 DEF HopInit
  <1>4. HopTypeOK
    BY Zenon, <1>1, <1>3 DEF HopInit, HopTypeOK
  <1> QED BY <1>1, <1>3, <1>4 DEF HInv, Aged, Heard, Taken

\* A request gets to know of a membership from one whose word is no older than Kept.
LEMMA ToldKeeps ==
  ASSUME HInv, now \in Nat, NEW of \in {"provider", "session", "token"}, NEW m \in BOOLEAN,
         Told(of, m), m => now <= lastMember + Kept, m /\ of = "provider" => now <= lastMember
  PROVE  HInv'
  <1>1. /\ word' = [of |-> of, member |-> m, at |-> now] /\ principal' = None
        /\ UNCHANGED <<vars, now, flight, member, lastMember, session, token, says>>
    BY DEF Told, vars
  <1>2. word' \in Word
    BY <1>1 DEF Word
  <1>3. HopTypeOK'
    BY <1>1, <1>2 DEF HInv, HopTypeOK, TypeOK, vars, keys
  <1>4. Heard'
    <2>1. word'.at = now /\ word'.member = m /\ word'.of = of
      BY <1>1
    <2> QED BY <1>1, <2>1, KeptType DEF Heard
  <1> QED BY <1>1, <1>3, <1>4 DEF HInv, Aged, Taken

\* Every step of the two instances keeps what is said of a membership as old as it may be.
LEMMA HopNextKeeps == HInv /\ IInv /\ IInv' /\ [HopNext]_hopVars => HInv'
  <1> SUFFICES ASSUME HInv, IInv, IInv', [HopNext]_hopVars PROVE HInv'
    OBVIOUS
  <1> USE DEF HInv
  <1>0. /\ now \in Nat /\ now' \in Nat /\ lastMember \in Int /\ member \in BOOLEAN
        /\ TypeOK' /\ drift \in Int /\ -Drift <= drift /\ drift <= Drift /\ Drift \in Nat
        /\ flight # None => flight.mintedAt \in Nat
    BY AssertionAssumption DEF IInv, TypeOK, HopTypeOK, Token
  <1>a. /\ session # None => session.member \in BOOLEAN /\ session.expiry \in Int
        /\ token # None => token.member \in BOOLEAN /\ token.expiry \in Int
        /\ word # None => word.member \in BOOLEAN /\ word.at \in Nat
    BY DEF HopTypeOK, Credential, Word
  <1>1. CASE Grant
    <2>1. /\ token' = [member |-> member, expiry |-> now + TokenTTL] /\ principal' = None
          /\ UNCHANGED <<now, flight, verdict, member, lastMember, session, word, says>>
      BY <1>1 DEF Grant, vars
    <2>2. token' \in Credential /\ token'.member = member /\ token'.expiry = now + TokenTTL
      BY <1>0, <2>1, KeptType DEF Credential
    <2>3. HopTypeOK'
      BY <1>0, <2>1, <2>2 DEF HopTypeOK
    <2>4. Aged'
      BY <1>0, <2>1, <2>2, KeptType DEF Aged
    <2> QED BY <2>1, <2>3, <2>4 DEF Heard, Taken
  <1>2. CASE Ask
    <2>1. Told("provider", member) /\ (member => now <= lastMember)
      BY <1>0, <1>2 DEF Ask, Aged
    <2> QED BY <1>0, <2>1, ToldKeeps, KeptType
  <1>3. CASE Resolve
    <2>1. /\ session # None /\ now <= session.expiry /\ Told("session", session.member)
      BY <1>3 DEF Resolve, Valid
    <2>2. session.member => now <= lastMember + Kept
      BY <1>0, <1>a, <2>1, KeptType DEF Aged
    <2> QED BY <1>0, <1>a, <2>1, <2>2, ToldKeeps
  <1>4. CASE ResolveToken
    <2>1. /\ token # None /\ now <= token.expiry /\ Told("token", token.member)
      BY <1>4 DEF ResolveToken, Valid
    <2>2. token.member => now <= lastMember + Kept
      BY <1>0, <1>a, <2>1, KeptType DEF Aged
    <2> QED BY <1>0, <1>a, <2>1, <2>2, ToldKeeps
  <1>5. CASE SignIn
    <2>1. /\ word # None /\ word.of = "provider" /\ word' = None
          /\ session' = [member |-> word.member, expiry |-> now + SessionTTL]
          /\ principal' = None
          /\ UNCHANGED <<now, flight, verdict, member, lastMember, token, says>>
      BY <1>5 DEF SignIn, vars
    <2>2. /\ session' \in Credential /\ session'.member = word.member
          /\ session'.expiry = now + SessionTTL
      BY <1>0, <1>a, <2>1, KeptType DEF Credential
    <2>3. HopTypeOK'
      BY <1>0, <2>1, <2>2 DEF HopTypeOK
    <2>4. word.member => now + SessionTTL <= lastMember + SessionTTL + Work
      BY <1>0, <1>a, <2>1, KeptType DEF Heard
    <2>5. Aged'
      BY <1>0, <2>1, <2>2, <2>4 DEF Aged
    <2> QED BY <2>1, <2>3, <2>5 DEF Heard, Taken
  <1>6. CASE Forward
    <2>1. /\ word # None /\ word' = None /\ Mint /\ principal' = None
          /\ UNCHANGED <<member, lastMember, session, token>>
          /\ says' = word.member
      BY <1>6 DEF Forward
    <2>2. flight'.mintedAt = now /\ now' = now
      BY <2>1 DEF Mint, MintWith
    <2>3. HopTypeOK'
      BY <1>0, <1>a, <2>1 DEF HopTypeOK
    <2>4. word.member => now <= lastMember + Kept + Work
      BY <1>0, <1>a, <2>1, KeptType DEF Heard
    <2>5. Aged'
      BY <1>0, <2>1, <2>2, <2>4 DEF Aged
    <2> QED BY <2>1, <2>3, <2>5 DEF Heard, Taken
  <1>7. CASE Abandon
    <2>1. /\ word' = None /\ principal' = None
          /\ UNCHANGED <<now, flight, member, lastMember, session, token, says>>
      BY <1>7 DEF Abandon, vars
    <2>2. HopTypeOK'
      BY <1>0, <2>1 DEF HopTypeOK
    <2> QED BY <2>1, <2>2 DEF Aged, Heard, Taken
  <1>8. CASE Receive
    <2>1. UNCHANGED <<now, flight, member, lastMember, session, token, word, says>>
      BY <1>8 DEF Receive, Verify, VerifyWith, edge
    <2>2. \/ principal' = [by |-> "assertion", member |-> says] /\ verdict' = "accepted"
          \/ /\ token # None /\ now + drift <= token.expiry
             /\ \E m \in {token.member, member} : principal' = [by |-> "bearer", member |-> m]
          \/ principal' = None
      BY <1>8 DEF Receive, Valid
    <2>3. CASE principal' = [by |-> "assertion", member |-> says] /\ verdict' = "accepted"
      <3>1. principal' \in Principal /\ principal'.by = "assertion" /\ principal'.member = says
        BY <2>3 DEF Principal, HopTypeOK
      <3>2. HopTypeOK'
        BY <1>0, <2>1, <3>1 DEF HopTypeOK
      <3> QED BY <2>1, <2>3, <3>1, <3>2 DEF Aged, Heard, Taken
    <2>4. ASSUME token # None, now + drift <= token.expiry, NEW m \in {token.member, member},
                 principal' = [by |-> "bearer", member |-> m]
          PROVE  HInv'
      <3>1. principal' \in Principal /\ principal'.by = "bearer" /\ principal'.member = m
        BY <1>0, <1>a, <2>4 DEF Principal
      <3>2. HopTypeOK'
        BY <1>0, <2>1, <3>1 DEF HopTypeOK
      <3>3. m => now <= lastMember + TokenTTL + Drift
        <4>1. member => now <= lastMember + TokenTTL + Drift
          BY <1>0, KeptType DEF Aged
        <4>2. token.member => now <= lastMember + TokenTTL + Drift
          BY <1>0, <1>a, <2>4, KeptType DEF Aged
        <4> QED BY Zenon, <2>4, <4>1, <4>2
      <3> QED BY <2>1, <3>1, <3>2, <3>3 DEF Aged, Heard, Taken
    <2>5. CASE principal' = None
      <3>1. HopTypeOK'
        BY <1>0, <2>1, <2>5 DEF HopTypeOK
      <3> QED BY <2>1, <2>5, <3>1 DEF Aged, Heard, Taken
    <2> QED BY <2>2, <2>3, <2>4, <2>5
  <1>9. CASE Change
    <2>1. /\ member' \in BOOLEAN /\ lastMember' = now /\ principal' = None
          /\ UNCHANGED <<now, flight, session, token, word, says>>
      BY <1>9 DEF Change, vars, edge
    <2>2. HopTypeOK'
      BY <1>0, <2>1 DEF HopTypeOK
    <2>3. Aged'
      BY <1>0, <1>a, <2>1, KeptType DEF Aged
    <2>4. Heard'
      BY <1>0, <1>a, <2>1, KeptType DEF Aged, Heard
    <2> QED BY <2>1, <2>2, <2>3, <2>4 DEF Taken
  <1>10. CASE Pass
    <2>1. /\ now' = now + 1 /\ lastMember' = (IF member THEN now' ELSE lastMember)
          /\ word # None => now < word.at + Work
          /\ principal' = None /\ UNCHANGED <<flight, member, session, token, word, says>>
      BY <1>10 DEF Pass, Tick, edge
    <2>2. lastMember' \in Int /\ lastMember <= lastMember' /\ lastMember' <= now'
      BY <1>0, <2>1 DEF Aged
    <2>3. HopTypeOK'
      BY <1>0, <2>1, <2>2 DEF HopTypeOK
    <2>4. Aged'
      BY <1>0, <1>a, <2>1, <2>2, KeptType DEF Aged
    <2>5. Heard'
      BY <1>0, <1>a, <2>1, <2>2, KeptType DEF Heard
    <2> QED BY <2>1, <2>3, <2>4, <2>5 DEF Taken
  <1>11. CASE Disturb
    <2>1. /\ principal' = None /\ now' = now /\ flight' \in {flight, None}
          /\ UNCHANGED <<member, lastMember, session, token, word, says>>
      BY <1>11 DEF Disturb, Lose, RestartIssuer, RestartVerifier, Trust, edge
    <2>2. HopTypeOK'
      BY <1>0, <2>1 DEF HopTypeOK
    <2> QED BY <2>1, <2>2 DEF Aged, Heard, Taken
  <1>12. CASE UNCHANGED hopVars
    BY <1>12 DEF hopVars, vars, keys, edge, HopTypeOK, TypeOK, Aged, Heard, Taken
  <1> QED
    BY <1>1, <1>2, <1>3, <1>4, <1>5, <1>6, <1>7, <1>8, <1>9, <1>10, <1>11, <1>12 DEF HopNext

\* However sessions, access tokens, assertions and the directory's changes interleave, no
\* request is judged by a membership that ended more than Horizon ago.
THEOREM Revocation == HopSpec => []RevocationBounded
  <1>1. HInv /\ IInv /\ ReplayBounded => RevocationBounded
    <2> SUFFICES ASSUME HInv, IInv, ReplayBounded, principal # None, principal.member
                 PROVE  now - lastMember <= Horizon
      BY DEF RevocationBounded
    <2>0. /\ now \in Nat /\ lastMember \in Int /\ TTL \in Nat /\ Skew \in Nat /\ Drift \in Nat
          /\ principal.by \in {"bearer", "assertion"}
      BY AssertionAssumption DEF IInv, TypeOK, HInv, HopTypeOK, Principal
    <2>1. CASE principal.by = "assertion"
      <3>1. verdict = "accepted" /\ says
        BY Zenon, <2>1 DEF HInv, Taken
      <3>2. flight # None /\ flight \in Token
        BY <3>1, AssertionAssumption DEF IInv, TypeOK
      <3>3. flight.mintedAt \in Nat
        BY <3>2 DEF Token
      <3>4. /\ now - flight.mintedAt <= TTL + Skew + Drift
            /\ flight.mintedAt <= lastMember + Kept + Work
        BY <3>1, <3>2 DEF ReplayBounded, HInv, Aged
      <3> QED BY <2>0, <3>3, <3>4, KeptType DEF Horizon
    <2>2. CASE principal.by = "bearer"
      <3>1. now <= lastMember + TokenTTL + Drift
        BY <2>2 DEF HInv, Taken
      <3> QED BY <2>0, <3>1, KeptType DEF Horizon
    <2> QED BY <2>0, <2>1, <2>2
  <1>2. HopSpec => []IInv /\ []ReplayBounded
    BY HopImplementsAssertion, Invariance, Replay, PTL
  <1>3. HopSpec => []HInv
    BY <1>2, HopInitEstablishes, HopNextKeeps, PTL DEF HopSpec
  <1> QED BY <1>1, <1>2, <1>3, PTL
=============================================================================
