----------------------------- MODULE MCIdentity -----------------------------
(* Every identity block, every token and every userinfo answer over the claims the    *)
(* block names, with one connector; or every connector and access token with one      *)
(* identity block.                                                                    *)
EXTENDS Identity, FiniteSets

Common ==
    [identified |-> TRUE, credentials |-> {"clientSecret", "redirectURL"},
     verificationOnly |-> FALSE, requireAudience |-> TRUE, audienceClaim |-> "",
     jwksURL |-> "", signingAlgs |-> {}]
CommonToken ==
    [key |-> "id", alg |-> "RS256", aud |-> {"us"}, client_id |-> {"us"}, current |-> TRUE]
Plain == [userInfo |-> "auto", subjectClaim |-> "sub", groups |-> FALSE, claims |-> {}]

Asked ==
    cfg.claims \cup (IF cfg.groups THEN {"groups"} ELSE {})
               \cup (IF cfg.subjectClaim = "uid" THEN {"uid"} ELSE {})
OfAsked(s) == \A c \in DOMAIN Silent \ Asked : s[c] = "nothing"

OneAtATime ==
    \/ /\ OfAsked(directory) /\ OfAsked(claims)
       /\ oidc = Common
       /\ discovery = [accessTokenJWKS |-> "", signingAlgs |-> {"RS256"}]
       /\ token \in {None, CommonToken}
    \/ /\ cfg = Plain /\ directory = Silent /\ claims = Silent
       /\ discovery.signingAlgs \in {{}, {"ES256"}}
       /\ Cardinality(oidc.signingAlgs) < 2

MCInit == IdentityInit /\ OneAtATime
MCNext == IdentityNext /\ OneAtATime'
MCSpec == MCInit /\ [][MCNext]_identityVars
=============================================================================
