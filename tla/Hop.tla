--------------------------------- MODULE Hop ---------------------------------
(***************************************************************************)
(* Two HOG instances in a row.  The edge resolves a request's principal    *)
(* from a browser session, which keeps the groups of the sign-in, or from  *)
(* a Bearer token, which may bring its own, and asserts its groups to the  *)
(* inner instance, whose AssertionGate takes them over without asking the  *)
(* provider again.  The directory behind the provider may change its mind  *)
(* at any time.                                                            *)
(*                                                                         *)
(* The groups are one membership; the person is one subject.  The provider *)
(* reads the edge's clock.  `principal' holds for the request just         *)
(* received and no longer.                                                 *)
(***************************************************************************)
EXTENDS Assertion

CONSTANTS
    SessionTTL,     \* session.ttl
    TokenTTL,       \* how long the provider's access tokens live
    Work            \* bound: how long a request is between its gates and its end

ASSUME HopAssumption == SessionTTL \in Nat /\ TokenTTL \in Nat /\ Work \in Nat

VARIABLES
    member,         \* the directory counts the person among the members
    lastMember,     \* the last tick it did
    session,        \* the edge's session: the membership at sign-in and the expiry
    token,          \* the person's access token: the groups claim, if read, and the expiry
    word,           \* what a request at the edge goes by: whose word it is, and since when
    says,           \* the membership the assertion in flight states
    principal       \* who the inner instance takes the request for, and on whose word

edge == <<session, token, word>>
hopVars == <<vars, member, lastMember, edge, says, principal>>

\* The oldest membership a session, or an access token, is honoured for.
Kept == IF SessionTTL + Work >= TokenTTL THEN SessionTTL + Work ELSE TokenTTL

\* No decision on a membership older than this.
Horizon == Kept + Work + TTL + Skew + Drift

Credential == [member : BOOLEAN, expiry : Int]
Word == [of : {"provider", "session", "token"}, member : BOOLEAN, at : Nat]
Principal == [by : {"bearer", "assertion"}, member : BOOLEAN]

HopTypeOK ==
    /\ TypeOK
    /\ member \in BOOLEAN /\ lastMember \in Int
    /\ session \in Credential \cup {None} /\ token \in Credential \cup {None}
    /\ word \in Word \cup {None}
    /\ says \in BOOLEAN
    /\ principal \in Principal \cup {None}

HopInit ==
    /\ Init
    /\ member \in BOOLEAN
    /\ lastMember = IF member THEN now ELSE now - Horizon - 1
    /\ session = None /\ token = None /\ word = None
    /\ says = FALSE /\ principal = None

-----------------------------------------------------------------------------
(* The edge                                                                *)

\* The provider issues an access token.
Grant ==
    /\ token' = [member |-> member, expiry |-> now + TokenTTL]
    /\ principal' = None
    /\ UNCHANGED <<vars, member, lastMember, session, word, says>>

Told(of, m) ==
    /\ word = None
    /\ word' = [of |-> of, member |-> m, at |-> now]
    /\ principal' = None
    /\ UNCHANGED <<vars, member, lastMember, session, token, says>>

Valid(credential, time) == credential # None /\ time <= credential.expiry

\* The provider is asked, by userinfo or for an ID token: in the sign-in callback, or in
\* the Bearer gate for a token whose own claims do not do.
Ask == Told("provider", member)

ResolveEvenExpired == session # None /\ Told("session", session.member)

\* SessionGate: a session past its expiry (Session.Expired) resolves to no principal.
Resolve == Valid(session, now) /\ Told("session", session.member)

\* BearerGate: a valid token that has the groups claim, or userInfo: never.
ResolveToken == Valid(token, now) /\ Told("token", token.member)

\* makeSession, at the end of the callback: the groups are projected once, at sign-in.
SignIn ==
    /\ word # None /\ word.of = "provider"
    /\ session' = [member |-> word.member, expiry |-> now + SessionTTL]
    /\ word' = None /\ principal' = None
    /\ UNCHANGED <<vars, member, lastMember, token, says>>

\* IssueAssertion, behind the other gates and the plugins: an assertion of the principal's
\* groups goes with the request.
Forward ==
    /\ word # None
    /\ Mint
    /\ says' = word.member
    /\ word' = None /\ principal' = None
    /\ UNCHANGED <<member, lastMember, session, token>>

\* A gate or a plugin answers the request, or its route forwards no identity.
Abandon ==
    /\ word # None
    /\ word' = None /\ principal' = None
    /\ UNCHANGED <<vars, member, lastMember, session, token, says>>

-----------------------------------------------------------------------------
(* The inner instance                                                      *)

\* AssertionGate, after a BearerGate that found nobody, the asserted subject by a token of
\* theirs, or another one: an accepted assertion enriches its own subject, or stands alone
\* where allowed.  Otherwise the groups are what the token or the provider says of them.
\* The inner instance may restart with another accept.requireBearer at any time.
Receive ==
    /\ Verify
    /\ \E bearer \in {"nobody", "same", "other"}, requireBearer \in BOOLEAN :
        LET asserted == /\ verdict' = "accepted"
                        /\ bearer = "same" \/ (bearer = "nobody" /\ ~requireBearer)
        IN  /\ bearer = "same" => Valid(token, now + drift)
            /\ \/ asserted /\ principal' = [by |-> "assertion", member |-> says]
               \/ /\ ~asserted /\ bearer = "same"
                  /\ \E m \in {token.member, member} :
                        principal' = [by |-> "bearer", member |-> m]
               \/ ~asserted /\ bearer # "same" /\ principal' = None
    /\ UNCHANGED <<member, lastMember, edge, says>>

-----------------------------------------------------------------------------
(* The world                                                               *)

\* Someone joins or leaves the group.
Change ==
    /\ member' = ~member
    /\ lastMember' = now
    /\ principal' = None
    /\ UNCHANGED <<vars, edge, says>>

\* Time passes, for a request under way no more than Work.
Pass ==
    /\ Tick
    /\ word # None => now < word.at + Work
    /\ lastMember' = IF member THEN now' ELSE lastMember
    /\ principal' = None
    /\ UNCHANGED <<member, edge, says>>

Disturb ==
    /\ Lose \/ RestartIssuer \/ RestartVerifier
    /\ principal' = None
    /\ UNCHANGED <<member, lastMember, edge, says>>

HopNext ==
    \/ Grant \/ Ask \/ Resolve \/ ResolveToken \/ SignIn \/ Forward \/ Abandon
    \/ Receive
    \/ Change \/ Pass \/ Disturb

HopSpec == HopInit /\ [][HopNext]_hopVars

-----------------------------------------------------------------------------

\* Neither the session, nor a token with groups of its own, nor the assertion is checked
\* against the directory again, and the lifetime of each begins where it is made, not where
\* its groups were read; what was read is used only after the other gates and the plugins.
\* Still, no request is judged by a membership the directory has not confirmed within the
\* longer of session.ttl and the access token's lifetime, issue.ttl, the tolerance, the
\* drift of the clocks and the time the edge works on a request.
RevocationBounded ==
    (principal # None /\ principal.member) => now - lastMember <= Horizon
=============================================================================
