------------------------------ MODULE Connector ------------------------------
(***************************************************************************)
(* The OpenID Connect connector: what newOIDC makes of an IdP document and *)
(* of the provider's discovery document, and which access tokens the       *)
(* result accepts.  A token is described by what Verify looks at.          *)
(***************************************************************************)
EXTENDS Naturals

\* oidcConfig.  identified: issuer and clientID are given; the audience is
\* bearerAudience, the clientID by default.  "" and {} where the document says nothing.
OidcConfig ==
    [identified : BOOLEAN, credentials : SUBSET {"clientSecret", "redirectURL"},
     verificationOnly : BOOLEAN, requireAudience : BOOLEAN,
     audienceClaim : {"", "client_id"}, jwksURL : {"", "own"},
     signingAlgs : SUBSET {"RS256", "ES256"}]

\* The discovery document: jwks_access_token_uri and the ID token's algorithms.
Discovery == [accessTokenJWKS : {"", "access"}, signingAlgs : SUBSET {"RS256", "ES256"}]

\* An access token: the key set its signature is in, its algorithm, whom it is meant for
\* ("us", "others") in aud and in client_id, and whether issuer and expiry are right.
AccessToken ==
    [key : {"id", "access", "own"}, alg : {"RS256", "ES256"},
     aud : SUBSET {"us", "others"}, client_id : SUBSET {"us", "others"}, current : BOOLEAN]

\* newOIDC returns an error.
newOIDCFails(c) ==
    \/ ~c.identified
    \/ c.verificationOnly /\ c.credentials # {}
    \/ ~c.verificationOnly /\ c.credentials # {"clientSecret", "redirectURL"}
    \/ ~c.requireAudience /\ c.audienceClaim # ""

newOIDCWith(c, d, skip) ==
    [verifyOnly |-> c.verificationOnly,
     bearerRequireAud |-> c.requireAudience, bearerAudClaim |-> c.audienceClaim,
     skipClientIDCheck |-> skip,
     keySet |-> IF c.jwksURL # "" THEN c.jwksURL
                ELSE IF d.accessTokenJWKS # "" THEN d.accessTokenJWKS ELSE "id",
     algs |-> LET listed == IF c.signingAlgs # {} THEN c.signingAlgs ELSE d.signingAlgs
              IN  IF listed = {} THEN {"RS256"} ELSE listed]

newOIDCTrustingOwnKeys(c, d) == newOIDCWith(c, d, ~c.requireAudience \/ c.jwksURL # "")

newOIDC(c, d) == newOIDCWith(c, d, ~c.requireAudience \/ c.audienceClaim # "")

\* go-oidc: IDTokenVerifier.Verify with the configuration newOIDC gave it.
bearerVerifier(o, t) ==
    /\ t.current /\ t.key = o.keySet /\ t.alg \in o.algs
    /\ o.skipClientIDCheck \/ "us" \in t.aud

\* claimHas
claimHas(values) == "us" \in values

VerifyAccessToken(o, t) ==
    /\ bearerVerifier(o, t)
    /\ (o.bearerRequireAud /\ o.bearerAudClaim # "") => claimHas(t[o.bearerAudClaim])

\* AuthCodeURL, Exchange and Refresh refuse on a connector that only verifies.
CanLogIn(o) == ~o.verifyOnly
=============================================================================
