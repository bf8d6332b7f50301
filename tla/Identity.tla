------------------------------- MODULE Identity -------------------------------
(***************************************************************************)
(* Who a request is for: how the sign-in callback and the Bearer gate make *)
(* a principal out of a token's claims and, when they think they need it,  *)
(* of what the IdP's userinfo endpoint answers or fails to answer.         *)
(*                                                                         *)
(* One person.  A source (a token, userinfo) says of each claim nothing,   *)
(* something that cannot be used (null, "", a list that is none), or the   *)
(* person's value; sources that have the value agree on it.  A group list  *)
(* that can be used holds a group that the configured patterns keep.       *)
(***************************************************************************)
EXTENDS Connector

CONSTANT None

Says == {"nothing", "unusable", "value"}
Claim == {"email", "dept"}
Source == [uid : Says, groups : Says, email : Says, dept : Says]
Silent == [uid |-> "nothing", groups |-> "nothing", email |-> "nothing", dept |-> "nothing"]

\* The identity block: email is one of the claims HOG expects in every ID token.
Config == [userInfo : {"auto", "always", "never"}, subjectClaim : {"sub", "uid"},
           groups : BOOLEAN, claims : SUBSET Claim]
idTokenDefaultClaims == {"sub", "email"}

VARIABLES
    oidc,        \* the IdP document, and what its provider's discovery said at boot
    discovery,
    cfg,
    directory,   \* what userinfo answers
    pc,
    path,        \* "cookie": the sign-in callback, "bearer": the Bearer gate
    sub, claims, \* the verified token's own subject, or "", and its claims
    userinfo,    \* what was fetched
    down,        \* the fetch failed
    token,       \* the access token of a Bearer request
    principal

boot == <<oidc, discovery, cfg, directory>>
identityVars == <<boot, pc, path, sub, claims, userinfo, down, token, principal>>

Principal ==
    [sub : {"sub", "uid", ""}, passport : [Claim -> Says], groups : BOOLEAN]

IdentityTypeOK ==
    /\ oidc \in OidcConfig /\ discovery \in Discovery /\ token \in AccessToken \cup {None}
    /\ cfg \in Config /\ directory \in Source
    /\ pc \in {"idle", "userinfo", "project", "resolved", "refused"}
    /\ path \in {None, "cookie", "bearer"}
    /\ sub \in {"sub", ""} /\ claims \in Source /\ userinfo \in Source
    /\ down \in BOOLEAN
    /\ principal \in Principal \cup {None}
    /\ principal # None <=> pc = "resolved"

\* Build has succeeded.
IdentityInit ==
    /\ oidc \in OidcConfig /\ discovery \in Discovery /\ ~newOIDCFails(oidc)
    /\ cfg \in Config /\ directory \in Source
    /\ pc = "idle" /\ path = None
    /\ sub = "" /\ claims = Silent
    /\ userinfo = Silent /\ down = FALSE
    /\ token = None /\ principal = None

-----------------------------------------------------------------------------
(* From claims to a principal                                              *)

resolveSubject(own, tok, ui) ==
    IF cfg.subjectClaim = "uid" /\ "value" \in {ui.uid, tok.uid} THEN "uid" ELSE own

\* What userinfo has of a claim, be it usable or not, else what the token has.
projectPassport(tok, ui) ==
    [c \in Claim |-> IF c \notin cfg.claims THEN "nothing"
                     ELSE IF ui[c] # "nothing" THEN ui[c] ELSE tok[c]]

\* userinfo's list, the token's if userinfo has none; what is not a list has no groups.
projectGroups(tok, ui) ==
    /\ cfg.groups
    /\ IF ui.groups # "nothing" THEN ui.groups = "value" ELSE tok.groups = "value"

NewPrincipal(own, tok, ui) ==
    [sub |-> resolveSubject(own, tok, ui), passport |-> projectPassport(tok, ui),
     groups |-> projectGroups(tok, ui)]

\* The sign-in callback decides by the configuration alone.
NeedsUserInfo ==
    \/ cfg.userInfo = "always"
    \/ cfg.userInfo = "auto" /\ (cfg.groups \/ ~(cfg.claims \subseteq idTokenDefaultClaims))

NeedUserInfoWhen(subjectMissing) ==
    \/ cfg.userInfo = "always"
    \/ /\ cfg.userInfo = "auto"
       /\ \/ cfg.subjectClaim # "sub" /\ subjectMissing
          \/ cfg.groups /\ claims'.groups = "nothing"
          \/ \E c \in cfg.claims : claims'[c] = "nothing"

NeedUserInfoIfAbsent == NeedUserInfoWhen(claims'.uid = "nothing")

\* The Bearer gate looks at what the token has.
NeedUserInfoForToken == NeedUserInfoWhen(claims'.uid # "value")

-----------------------------------------------------------------------------
(* The two paths                                                           *)

\* Callback, after the code was exchanged: an ID token always has its own subject.
Callback ==
    /\ pc = "idle"
    /\ path' = "cookie" /\ sub' = "sub" /\ claims' \in Source
    /\ CanLogIn(newOIDC(oidc, discovery))
    /\ pc' = IF NeedsUserInfo THEN "userinfo" ELSE "project"
    /\ UNCHANGED <<boot, userinfo, down, token, principal>>

\* BearerGate: a token VerifyAccessToken does not accept is refused, and without a subject
\* claim one that has no subject.
BearerGate ==
    /\ pc = "idle"
    /\ path' = "bearer" /\ sub' \in {"sub", ""} /\ claims' \in Source
    /\ token' \in AccessToken
    /\ pc' = IF ~VerifyAccessToken(newOIDC(oidc, discovery), token') THEN "refused"
             ELSE IF cfg.subjectClaim = "sub" /\ sub' = "" THEN "refused"
             ELSE IF NeedUserInfoForToken THEN "userinfo" ELSE "project"
    /\ UNCHANGED <<boot, userinfo, down, principal>>

UserInfo ==
    /\ pc = "userinfo"
    /\ userinfo' = directory
    /\ pc' = "project"
    /\ UNCHANGED <<boot, path, sub, claims, down, token, principal>>

UserInfoFailsTo(next) ==
    /\ pc = "userinfo"
    /\ down' = TRUE
    /\ pc' = next
    /\ UNCHANGED <<boot, path, sub, claims, userinfo, token, principal>>

UserInfoFailsOpen == UserInfoFailsTo("project")

\* Sign-in answers 502; the Bearer gate goes on with the token's claims.
UserInfoFails == UserInfoFailsTo(IF path = "cookie" THEN "refused" ELSE "project")

Projected == NewPrincipal(sub, claims, userinfo)

\* makeSession, or NewPrincipal in the Bearer gate, which refuses an empty subject.
Project ==
    /\ pc = "project"
    /\ IF path = "bearer" /\ Projected.sub = ""
         THEN pc' = "refused" /\ UNCHANGED principal
         ELSE pc' = "resolved" /\ principal' = Projected
    /\ UNCHANGED <<boot, path, sub, claims, userinfo, down, token>>

\* The next request.
Again ==
    /\ pc \in {"resolved", "refused"}
    /\ pc' = "idle" /\ path' = None
    /\ sub' = "" /\ claims' = Silent /\ userinfo' = Silent /\ down' = FALSE
    /\ token' = None /\ principal' = None
    /\ UNCHANGED boot

IdentityNext == Callback \/ BearerGate \/ UserInfo \/ UserInfoFails \/ Project \/ Again

IdentitySpec == IdentityInit /\ [][IdentityNext]_identityVars

-----------------------------------------------------------------------------
(* Properties                                                              *)

\* "Token claims first" (identity.go:256), what it costs: a Bearer token that needs no
\* userinfo gives the subject the fetch would have given, whatever either source has; and a
\* passport that lacks no claim the fetch would have put there.  A claim's value, and the
\* groups, are those of the fetch unless a source has them in a form that cannot be used:
\* the code tests a claim's presence only (README, Connector and Identity).
SkippingIsSafe ==
    (principal # None /\ path = "bearer" /\ ~down /\ cfg.userInfo = "auto") =>
        LET full == NewPrincipal(sub, claims, directory)
            Agree(c) == "unusable" \notin {claims[c], directory[c]}
        IN  /\ principal.sub = full.sub
            /\ \A c \in Claim :
                 /\ principal.passport[c] = "nothing" <=> full.passport[c] = "nothing"
                 /\ Agree(c) => principal.passport[c] = full.passport[c]
            /\ Agree("groups") => principal.groups = full.groups

\* configuration.md, security.md: whatever mixture of bearer settings and discovery a
\* connector was built from, a Bearer principal comes from a token meant for this
\* gateway, unless requireAudience is false, and never from one signed with the ID
\* tokens' keys where access tokens have keys of their own.
TokenForThisGateway ==
    (principal # None /\ path = "bearer") =>
        /\ oidc.requireAudience =>
             "us" \in IF oidc.audienceClaim = "" THEN token.aud ELSE token[oidc.audienceClaim]
        /\ token.key = "id" => oidc.jwksURL = "" /\ discovery.accessTokenJWKS = ""

\* A sign-in that needs userinfo makes a session of all of it or none: no outage leaves
\* a session behind that lacks what the directory knows.  An outage costs the Bearer path
\* only what it could not fetch: the token's claims and groups are still there and whoever
\* has a subject is not refused.
OutageContained ==
    /\ (principal # None /\ path = "cookie" /\ NeedsUserInfo) =>
         principal = NewPrincipal(sub, claims, directory)
    /\ (path = "bearer" /\ down) =>
         /\ pc = "refused" => sub = "" /\ claims.uid # "value"
         /\ principal # None => principal = NewPrincipal(sub, claims, Silent)

\* subjectClaim is the "claim that becomes the principal subject (X-User-Id) on both the
\* cookie and the Bearer paths" (configuration.md): when userinfo has it and may be asked.
\* (The code does not keep this: README, Disagreements.)
SubjectClaimHonoured ==
    (/\ principal # None /\ ~down
     /\ cfg.subjectClaim = "uid" /\ cfg.userInfo # "never"
     /\ directory.uid = "value") => principal.sub = "uid"
=============================================================================
