------------------------------ MODULE Assertion ------------------------------
(***************************************************************************)
(* The identity assertion one HOG instance mints and another verifies: its *)
(* lifetime in whole seconds, the tolerance for the drift between the two  *)
(* clocks, and the keys, which operators replace on either side.           *)
(*                                                                         *)
(* Time is the issuer's clock, in ticks shorter than a second.  The        *)
(* verifier's clock is `drift' ahead of it, which may change at any time.  *)
(* Verify keeps no state, so one assertion in flight stands for all; it    *)
(* may be delayed, lost, or delivered more than once.                      *)
(***************************************************************************)
EXTENDS Integers

CONSTANTS
    Second,     \* ticks in a second
    TTL,        \* issue.ttl
    Skew,       \* assertionSkew
    Drift,      \* bound: how far apart the two clocks are
    Key,        \* Ed25519 keys, each configured under a kid of its own
    None,
    MaxTime     \* bound: the last tick

ASSUME AssertionAssumption ==
    /\ Second \in Nat \ {0} /\ TTL \in Nat \ {0}
    /\ Skew \in Nat /\ Drift \in Nat /\ MaxTime \in Nat
    /\ None \notin Key \cup {"accepted", "expired", "future", "invalid"}

VARIABLES
    now, drift,
    signing,    \* the key the issuer signs with
    trusted,    \* the keys the verifier knows
    flight,     \* the assertion under way; mintedAt is for the properties
    verdict,    \* what Verify has just returned
    switched,   \* when the issuer last got another key
    orderly     \* the operators have replaced keys in the order of Rotation so far

keys == <<signing, trusted, switched, orderly>>
vars == <<now, drift, keys, flight, verdict>>

Token == [named : BOOLEAN, ours : BOOLEAN, iat : Int, exp : Int, key : Key, mintedAt : Nat]

TypeOK ==
    /\ now \in 0 .. MaxTime
    /\ drift \in (-Drift) .. Drift
    /\ signing \in Key /\ trusted \subseteq Key
    /\ switched \in 0 .. MaxTime /\ orderly \in BOOLEAN
    /\ flight \in Token \cup {None}
    /\ verdict \in {None, "accepted", "expired", "future", "invalid"}
    /\ flight = None => verdict = None

Init ==
    /\ now = 0
    /\ drift \in (-Drift) .. Drift
    /\ signing \in Key /\ trusted \in SUBSET Key
    /\ switched = 0 /\ orderly = (signing \in trusted)
    /\ flight = None
    /\ verdict = None

-----------------------------------------------------------------------------

\* time.Time.Unix and time.Unix: whole seconds, here as the tick they begin with.
Unix(t) == t - (t % Second)

MintWith(exp) ==
    /\ \E named \in BOOLEAN, ours \in BOOLEAN :
        flight' = [named |-> named, ours |-> ours, iat |-> Unix(now), exp |-> exp,
                   key |-> signing, mintedAt |-> now]
    /\ verdict' = None
    /\ UNCHANGED <<now, drift, keys>>

MintRoundedUp == MintWith(Unix(now + TTL) + Second)

\* AssertionIssuer.Mint, for a principal that may have no subject, by an instance whose
\* name may not be the one the verifier expects.
Mint == MintWith(Unix(now + TTL))

VerifyWith(late, early) ==
    /\ flight # None
    /\ verdict' = IF flight.key \notin trusted \/ ~flight.ours \/ ~flight.named
                    THEN "invalid"
                  ELSE IF now + drift > flight.exp + late THEN "expired"
                  ELSE IF flight.iat > now + drift + early THEN "future"
                  ELSE "accepted"
    /\ UNCHANGED <<now, drift, keys, flight>>

VerifyStrictFuture == VerifyWith(Skew, 0)

\* AssertionVerifier.Verify, on the verifier's clock.
Verify == VerifyWith(Skew, Skew)

-----------------------------------------------------------------------------
(* The world                                                               *)

\* Time passes and the clocks move apart or are set.
Tick ==
    /\ now < MaxTime
    /\ now' = now + 1
    /\ drift' \in (-Drift) .. Drift
    /\ verdict' = None
    /\ UNCHANGED <<keys, flight>>

Lose ==
    /\ flight # None
    /\ flight' = None /\ verdict' = None
    /\ UNCHANGED <<now, drift, keys>>

\* After the issuer got another key, an assertion signed with the old one may be under
\* way and acceptable for so long.
Settled == now - switched > TTL + Skew + Drift

\* The order of a rotation: the verifier learns the new key, the issuer gets it, and the
\* verifier forgets the old one once that is Settled.
Rotation(sign, trust) == sign \in trust /\ (Settled \/ trusted \subseteq trust)

\* NewAssertionIssuer: the issuer restarts with a key, perhaps another.
RestartIssuer ==
    /\ signing' \in Key
    /\ switched' = IF signing' = signing THEN switched ELSE now
    /\ orderly' = (orderly /\ Rotation(signing', trusted))
    /\ verdict' = None
    /\ UNCHANGED <<now, drift, trusted, flight>>

Trust(configured, known) ==
    /\ trusted' = known
    /\ orderly' = (orderly /\ Rotation(signing, configured))
    /\ verdict' = None
    /\ UNCHANGED <<now, drift, signing, switched, flight>>

RestartVerifierOneKey == \E c \in SUBSET Key : \E k \in c : Trust(c, {k})

\* NewAssertionVerifier: the verifier restarts with the keys of its configuration.
RestartVerifier == \E c \in SUBSET Key : Trust(c, c)

Next == Mint \/ Verify \/ Tick \/ Lose \/ RestartIssuer \/ RestartVerifier

Spec == Init /\ [][Next]_vars

-----------------------------------------------------------------------------
(* Properties                                                              *)

\* "A captured assertion can be replayed for the rest of its lifetime plus the 30-second
\* clock-skew allowance" (authentication.md): however long it was delayed or how often
\* it is delivered, Verify accepts none older than that and the drift of the clocks.
ReplayBounded ==
    verdict = "accepted" => now - flight.mintedAt <= TTL + Skew + Drift

\* assertionSkew "tolerates clock drift between the two instances": while the clocks are
\* no further apart than that, no assertion is refused as issued in the future, and none
\* as expired before its lifetime, cut to whole seconds, is over.
DriftTolerated ==
    Drift <= Skew =>
        /\ verdict # "future"
        /\ verdict = "expired" => now - flight.mintedAt > TTL - Second

\* accept.keys is a list "kid -> ... public key" (identity.go:44) so that keys can be
\* replaced: when that is done in the order of Rotation, no assertion that could still be
\* accepted is refused for its key, whenever the two instances restart.
RotationSeamless ==
    (orderly /\ verdict = "invalid" /\ flight.ours /\ flight.named) =>
        now - flight.mintedAt > TTL + Skew + Drift

\* An assertion that is still good is refused neither for its dates nor for its key.
FreshNeverRefused == DriftTolerated /\ RotationSeamless
=============================================================================
