# hog: a TLA+ model of the gateway

HOG is an HTTP gateway: it signs people in at an OpenID Connect provider, keeps
their session in cookies or in a shared store, decides per route who may pass,
and forwards, aggregates or serves. This directory holds TLA+ models of the parts
of it that have state or concurrency, the TLC runs that check them, and proofs
that TLAPS checks for every value of the constants.

Every definition is translated from the Go source; `PROJECT.json` maps each one to
its lines. Definitions keep the source's names where TLA+ allows it.

## The system: inventory

| Part | State | Operations | What is hard about it |
|---|---|---|---|
| Refresh lock (`session/keyedmutex.go`) | a map of reference-counted mutexes | `lock`, the unlock closure | an entry deleted while somebody is about to use it; starvation |
| Server-side sessions (`session/statemanager.go`) | the record in the store, the token grant at the IdP | `Issue`, `Read` with `maybeRefresh`, `Clear` | refresh-token rotation raced by requests, replicas, sign-out, disconnects and crashes |
| Cookie sessions (`session/cookie.go`, `manager.go`) | the browser's chunked cookie | `Issue`, `Read`, `Clear` | responses that arrive in another order; chunks of two sessions |
| Sign-in (`auth/endpoints.go`) | login cookies, the IdP's single-use codes | `Login`, `Callback`, `Logout` | several tabs; limits; reloads; upgrades |
| Terminal handlers (`terminal/`) | one goroutine per backend; an upstream; a file tree and a browser's cache | `ServeHTTP` of `api`, `reverse-proxy`, `static`, `health` | deadlines, the transport's own limits, cancellation, partial failure; files replaced between two calls |
| Lifecycle (`hog.go`, `app/run.go`, `telemetry/telemetry.go`) | server, telemetry providers, channels | `Run`, `serve`, `Setup` | shutdown racing start, listen errors and slow requests; a build that panics |
| Application build (`app/build.go`) | what is built so far | `Parse`, `Build` | what one document asks for is decided at several stages; nothing may be dropped on the way |
| Request chain (`app/build.go`, `chain/`, gates in `auth/`, `authz/`) | the request and its context | one per middleware | order of layers; three credentials; panics on the way out |
| Identity assertion (`auth/assertion.go`) | keys and clocks of two instances | `Mint`, `Verify` | drift, truncation, replay, key rotation |
| Two instances in a row (`auth/`, `session/`) | a session at the edge, an assertion, a gate | sign-in, `IssueAssertion`, `AssertionGate` | lifetimes that add up while the directory changes |
| Identity resolution (`session/identity.go`, `passport.go`) | a token, userinfo | `NeedsUserInfo`, `NeedUserInfoForToken`, `NewPrincipal` | two paths that must agree; outages |
| Connector (`idp/oidc.go`) | configuration and discovery | `newOIDC`, `VerifyAccessToken` | keys, algorithms and audiences with defaults that depend on each other |
| Route access (`route/route.go`, `selector/`) | configuration documents | `Resolve`, `Matches` | merging in document order |
| Others | — | — | listed in `PROJECT.json` with the reason they are left out |

How they interact: `GatewayBuild` turns documents into routes, with `RouteAccess` for
their access blocks and `Connector` for the IdP; what it builds for a route is the
configuration `RequestChain` runs. `RequestChain` is what a request meets; its session
gate calls a session manager (`StateManager` or `CookieSession`), its Bearer gate is
`Identity`'s second path, on a token `Connector` has verified, its assertion gate calls
`Assertion`'s `Verify`, its innermost handler is `Terminal`'s. `LoginFlow`'s `Callback`
is `Identity`'s first path and ends in a manager's `Issue`. `Hop` composes a session, an
assertion and the gate of a second instance. `StateManager` takes its refresh lock from
`KeyLock`, the abstract lock that `KeyedMutex` is shown to implement.

## Modules

| Module | Models | Checked by |
|---|---|---|
| `KeyLock` | what the refresh lock promises: one holder per key, waiters | instance in `KeyedMutex`, `StateManager` |
| `KeyedMutex`, `KeyedMutexProofs` | `keyedMutex` down to the mutex objects | `keyed_mutex`, TLAPS |
| `StateManager`, `StateManagerProofs` | one session on one or more instances | `state_manager`, `state_manager_liveness`, `state_manager_logout`, TLAPS |
| `CookieSession` | one browser's cookie jar and its requests in flight | `cookie_session`, TLAPS (`SessionProofs`) |
| `LoginFlow`, `LoginFlowProofs` | several sign-ins of one browser | `login_flow`, TLAPS |
| `Aggregate` | one aggregated request | `terminal`, TLAPS |
| `Proxy` | one proxied request | `terminal` |
| `StaticFiles` | one browser that asks for files while they are deployed | `terminal`, TLAPS |
| `Terminal`, `TerminalProofs` | a route's terminal handler, one of the above or `health` | `terminal`, TLAPS |
| `Lifecycle` | one process from `hog.Run` to its return | `lifecycle`, TLAPS (`GatewayProofs`) |
| `RequestChain`, `RequestChainProofs` | one request through every layer | `request_chain`, TLAPS |
| `Assertion` | an assertion between two instances | `hop`, TLAPS (`HopProofs`) |
| `Hop`, `HopProofs` | an edge with sessions and an instance behind it | `hop`, TLAPS |
| `Connector` | a connector and the access tokens it verifies | `identity`, `gateway_build`, TLAPS (`SessionProofs`) |
| `Identity` | one person's principal on both paths | `identity`, TLAPS (`SessionProofs`) |
| `RouteAccess` | one route and its groups | `gateway_build`, TLAPS (`GatewayProofs`) |
| `GatewayBuild`, `GatewayProofs` | from documents to a serving gateway | `gateway_build`, TLAPS |

Each `MCx.tla` extends `x` for TLC: symmetry sets and small sets of values. Where two
families of inputs do not interact, it also takes one of them at a time: `MCHop` rotates
keys or changes memberships, of a session or of a token, `MCIdentity` varies the connector
or the identity block, `MCRequestChain` the gates or the names of headers,
`MCGatewayBuild` edits groups or builds documents.

A mutated form of a definition stands next to it (`LeaveDropsEntry` before `Leave`): it is
the same definition with one plausible mistake, and every property of a passing run is
violated by one of them.

### KeyedMutex
`lock` is three steps as in the code: look up or make the entry and count it under
`k.mu` (`Enter`), wait for the entry's own mutex (`Acquire`), and later `Unlock` and,
again under `k.mu`, count down and delete (`Leave`). A `Ref` is a `refMutex` object.
`EveryWaiterServed` and the refinement of `KeyLock` assume weak fairness of the
goroutines' own steps and strong fairness of `Acquire`: a `sync.Mutex` hands itself to
a starving waiter, so somebody who can get it again and again eventually does.

### StateManager
Each store or IdP call of `Read`, `maybeRefresh`, `Issue` and `Clear` is a step, so
everything can happen between two of them. Faults are named (`AllFaults`) and
bounded: a failing `Get`, `Set` or `Delete`, a refused refresh, a refresh whose
answer is lost, a client that disconnects (its context is cancelled, the refresh's
detached one is not), an instance that crashes and restarts. A `Set` that fails may have
been applied or not; that it is applied long after it was given up is not modelled.

A request leaves `maybeRefresh` in one of three ways: with a record that needs no refresh
(`hand`), or from under the lock with a record (`serve`) or without (`deny`). A session
that came without a refresh token is never refreshed and is handed out with the access
token it began with, however dead (`session/statemanager.go:170-172`); `ServedTokenAlive`
is about the others. The re-store reads what remains of the session's lifetime (`Restore`)
before it seals and sends the record (`Set`), and the store counts the TTL from when it
applies it. So the record may outlive the session by as long as that took, which is at
most `patience`; `Read` refuses a session that is over, whatever the store still has. The
clock starts at the grant, and `Issue` likewise makes the session some time before the
store has it.

What surrounds the gateway is a record `world`, picked at the start and never
changed: whether the IdP rotates refresh tokens, how long its access tokens and the
session live, which instances there are, how many ticks of the clock a request may
take (`patience`, which stands for the ten-second context of the refresh), and which
faults may happen. A property that needs something of its surroundings says so:
`SingleFlight` holds where nothing fails and a new token is not near its expiry
before the requests that saw the old one are done (`Calm`), `NotStranded` with a
rotating IdP on one instance unless a rotated token is lost on the way to the store,
`LiveSessionServed` on any number of instances with an IdP that does not rotate.
`MCStateManager` has the surroundings of each run. Fairness is weak for the steps of a
request, whose calls return, fail or time out, and strong for getting the lock, as
`KeyedMutex` provides it.

### CookieSession
The jar is a function from chunk indices to chunks; a request carries a snapshot and
its response's writes and expiries apply when it arrives, in any order or never.
Sealing is modelled by what it gives: a value opens only when it is exactly the
chunks of one session. Evictions are bounded by `MaxLosses`. `over` records that the
session set last has been signed out: by the response to a `Clear` whose request carried a
chunk of it.

### LoginFlow
A sign-in is a member of `Flow` and stands for its state, nonce, verifier and
`return_to`. The plain `hog_login` cookie of an upgrade is `Legacy`'s. The IdP redeems
a code once. Fairness: the gateway answers and the browser follows; a person, the
environment and reloads owe nothing.

### Terminal
`buildTerminal` gives a route one handler; its module runs and the others stand still.
Fairness, in all of them, is of the gateway's own steps and of timers, the transport's
included; a backend, an upstream and a client owe nothing. That the process is not held
up is therefore said of each wait by itself.

* `Aggregate`: a goroutine per backend, the shared deadline, the transport's own limits
  and the client's cancellation. A body is valid JSON or not; a backend that is refused
  while its request is built (a path parameter, a URL) fails without being called.
* `Proxy`: the same surroundings for one upstream, with every wait there is: for the
  connection (`dial`), for the client to send more of the body (`upload`) and for the
  upstream to take it (`push`), for the response's header (`sent`), for its body and for the
  client to take that (`flush`). The transport limits the dial, the handshake and, once the
  request with its body is written, the header; nothing limits `push` or a body on a route
  without a timeout, and `http.Server` has no timeouts, so a client that neither sends nor
  receives holds its own handler up. `AnswersDespiteUpstreams` says so. A status that has
  been sent stays; a body that breaks off afterwards is a panic, as
  `httputil.ReverseProxy` has it.
* `StaticFiles`: `Stat`, `Open`, the `Stat` of the open file and the answer are steps, and
  deployments, which make, replace and remove files and directories, fall between them. A
  path is its sequence of segments; which segments are hidden and which have an extension
  are constants. The browser keeps one copy, uses it without asking as `Cache-Control`
  allows, and revalidates with the `ETag`. A file's `ETag` is its version: size and
  modification time together tell two deployments apart.

### Lifecycle
`hog.Run` with registration, loading, `telemetry.Setup` (its rollback included), a build
that fails or panics, the serving goroutine, the `select`, `Shutdown` with its time-out,
and the deferred flush. A request may never end, and one that is proxied may be upgraded to
another protocol: `Shutdown` does not wait for its connection. Nothing in the environment is
fair except that the process and the timers run. `Build` is not fair either: it does the
IdP's discovery under `context.Background()` (`idp/register.go:18`, `idp/oidc.go:263`), and a
provider that accepts the connection and never answers keeps `Run` from its `select`, with
the signal swallowed.

### RequestChain
`Chain(cfg)` is the sequence of handlers `Build` composes for a configuration of `Route`.
A request walks in, and out by return or by panic. A header is who wrote it: the client or
a subject's gate. There are the `X-User-*` headers, which only the projection gate replaces;
one header outside them that a projection names (`target`, with `override`); the assertion
under each `Name`, the default one and another, which `issueHeader` and `acceptHeader`
choose; and `X-Forwarded-*`. `prepareBackendRequest` starts from a copy of the request for
the proxy and from nothing for the api handler, and strips the assertion under the default
name and the one it learns from an issuer on the chain. Abstracted: request IDs, header
values, the wording of challenges, the backend's access token.

### Assertion
Time is in ticks shorter than a second so that the truncation of `iat` and `exp` shows.
One assertion in flight stands for all because `Verify` keeps no state; it may be
delayed, lost, or verified again. Either instance restarts with other keys at any time;
`orderly` records whether that has been done in the order of `Rotation`: a key is trusted
before it signs and until nothing it signed can be accepted any more.

### Hop
A request at the edge goes by somebody's `word` on the groups: the provider's, asked in the
callback or by the Bearer gate, that of the session, which keeps the groups of its sign-in,
or that of an access token with a groups claim. Other gates and plugins come between the
word and what is made of it, a session or an assertion, for up to `Work` ticks. The inner
instance takes an assertion's groups without asking; a token presented to it speaks for
itself. Groups are one membership of one person, which the directory changes at any time;
`lastMember` records when it last held. The longest chain is a membership read in the
callback, kept for a session's lifetime, and asserted: `Horizon`. `Hop` extends
`Assertion`, and `HopProofs` shows that it implements it.

### Connector and Identity
`Connector` has what `newOIDC` refuses, what discovery and configuration together make
of keys, algorithms and the audience, and `VerifyAccessToken`. A token is its key,
algorithm, audiences and whether it is current; signatures are the key's identity. In
`Identity` sources say nothing, something unusable, or the person's value of a claim, and
sources that have a value agree on it. The Bearer gate tests a passport claim, and the
groups, for presence only: one the token has in an unusable form counts as there and
userinfo is not asked, so `SkippingIsSafe` promises the same value only where neither source has it in
such a form. The subject has no such exception. Group filtering and renaming is left out:
a list that can be used has a group the patterns keep.

### RouteAccess and GatewayBuild
An operator adds, removes and reorders groups; each state is a configuration that
`Resolve` is evaluated on. `projection` is merged exactly as `onDeny` and left out.
`GatewayBuild` goes through `Parse` and `Build` stage by stage, route by route, and stops
at the first refusal, in the code's order. A document is a record with what the stages
look at; whether its own text parses is a flag. A `for ... range` that builds up a value is
`ForRange`, and one that filters `Where`. `mux` keeps the patterns in order, so that
a conflict shows as the panic of `http.ServeMux`.

## Runs

What the runs show (the bounds are in the `.cfg` files):

| Run | Shows |
|---|---|
| `keyed_mutex` | three goroutines, two keys: exact counts; implements `KeyLock`, so a key has one holder; every waiter is served |
| `state_manager` | each rotating refresh token is presented once, the stored record stays refreshable, live sessions are served, and where there is a refresh token with a live access token; refreshing never extends the session, which the store outlasts by one request at most; the store never goes back |
| `state_manager_liveness` | under every kind of fault, twice, every request returns |
| `cookie_session` | races and evictions: a session that was replaced or signed out never comes back, and the next response that races with nothing repairs the jar |
| `login_flow` | tabs do not disturb each other, codes go with their own state, login cookies are single-use and bounded, every callback is answered |
| `terminal` | every group is accounted for, optional backends never decide, and an api route's 504 means a required backend that took too long; a browser gets the right file and is left with a current one while files are deployed; no handler is held up by its upstreams beyond its timeout |
| `lifecycle` | however `Run` ends nothing is left running, no span of a request that was not upgraded is lost in a graceful stop, `Run` and its goroutine end unless `Build` never does |
| `request_chain` | gates first, the first credential wins, every identity header that a handler of the chain answers for is the principal's, always an answer, and a failed evaluation forbids |
| `hop` | replay bounded, a good assertion refused neither for its dates nor for its key, a revoked membership honoured only for the lifetimes that hand it on and the time a request takes |
| `identity` | only tokens meant for this gateway count, skipping userinfo loses nothing that can be used, an outage costs only what could not be fetched |
| `gateway_build` | document order between groups, the route's own values win, policies are united; a gateway that serves enforces every policy and runs every plugin its documents ask for, leaves no service route open unsaid, and its login is no dead end |

Bounds. Two contenders show a race on one key and a third shows that what they leave
behind is sound for the next: there are three requests, goroutines, sign-ins and
backends (two requests in `lifecycle`, where they do not meet). Two keys show that
keys do not interfere. Three chunks allow a session to be shorter and longer than its
predecessor by more than one. Clocks run past the end of the session and of the
assertion: in `hop` the session lives one tick, an access token two, the assertion three, a
request at the edge takes up to one, tolerance and drift are one tick each and a second is
two, so that within nine ticks every lifetime has run out one after the other. Two faults allow a fault during the recovery from another,
and two deployments a file that is removed and put back within one request.
`Limit = {1, 2}` in `login_flow` has a browser that stays under `maxLoginFlows` with two
tabs and one that exceeds it even when two `Login`s are in flight. Two groups show order
and override. `request_chain` has every
configuration of the gates under the default header names, and every naming of headers on
routes that let everybody through, as who may pass does not depend on headers; the client sends all the identity
headers or none. The documents of `gateway_build` have up to two parts that are out of the
ordinary, since what a stage refuses or drops depends on at most two documents. Symmetry
is used only over interchangeable model values and in no run with a liveness property.
Every module that has variables of its own has a type invariant, except `GatewayBuild`,
whose documents have no one type; it is proved where there are proofs, and holds on the
instances of the runs elsewhere.

`state_manager_logout` is expected to end in a violation: logout "Clears the HOG
session", and a refresh that is under way when `Clear` deletes the record stores it
again (`ClearedStaysCleared`; quoted under `findings` in `PROJECT.json`).

## Disagreements

Other places where the code does not do what a comment or the documentation says.
Each is a definition in its module; put in place of the invariants of the `.cfg` that
checks the module it is violated (with the change in the last column, where there is one).

| Definition | What the code does | What is said | Change |
|---|---|---|---|
| `NoStaleChunks` (`CookieSession`) | `Issue` expires the chunks its own request carried, so chunks another response wrote meanwhile stay | `session/manager.go:70` "drop stale chunks from a larger prior session" | |
| `LoginCookiesAtMost` (`LoginFlow`) | `Login` counts the cookies of its own request, so concurrent ones exceed the limit | `auth/endpoints.go:26` "maxLoginFlows bounds the login cookies a browser carries at once" | |
| `TimeoutIs504` (`Aggregate`) | a deadline that passes while a body is read is answered 502 | `website/docs/operations/troubleshooting.md:57` 504: "the request exceeded `handler.timeout`" | |
| `TimeoutOnlyPastDeadline` (`Aggregate`) | the transport's own limits are answered 504 too, also on a route without a timeout | the same line | |
| `ShellNeverStaleNested` (`StaticFiles`) | an `index` in a directory is compared with a base name, so it gets the configured `Cache-Control` | `terminal/static.go:152` "Shell (the SPA entry) is always revalidated" | `mcIndex == {DocsIndex}`, and a name for `S!ShellNeverStaleNested` in `MCTerminal` |
| `LoginReachable` (`GatewayBuild`) | an IdP without a session block and an app route that requires a principal redirect to a login that is not mounted, without a warning | `app/build.go:170` the case "every protected app route would redirect to a path that 404s" is to be refused | |
| `RunAgain` (`Lifecycle`) | a second `hog.Run` registers the built-in modules again and panics | `website/docs/developer/framework-mode.md:52` `Run` is for "embedding HOG inside a larger program" | `MaxRuns = 2` |
| `LogLevelHonoured` (`Lifecycle`) | `hog.Run` passes `slog.Default()`, so `logLevel` has no effect | `website/docs/design/observability.md:53` "raising the configured log level above the access log's level suppresses it" | |
| `OneLinePerRequest` (`RequestChain`) | a request whose handler panics leaves no access line | `website/docs/overview/concepts.md:109` "one structured, trace-correlated log line per request" | |
| `LineNamesPrincipal` (`RequestChain`) | the access log reads its own request's context, which never has the principal | `website/docs/design/observability.md:55` "each line also carries a `session_id`" | |
| `PanicIs500` (`RequestChain`) | a panic after the status was sent keeps that status; the panic by which `ReverseProxy` reports a truncated body is recovered too (`chain/builtin.go:104`), so the client sees a body that ended | `website/docs/architecture/request-lifecycle.md:52` recover "returns `500` instead of crashing the process" | |
| `AssertionStripped` (`RequestChain`) | with a configured `identity.assertion.issue.header` and a route without `forwardIdentity` nobody on the chain knows that name, and the proxy passes on what the client sent under it | `website/docs/operations/authentication.md:300` the header "is stripped from every inbound request on both instances", `terminal/forward.go:80-84` likewise | |
| `UserHeadersStripped` (`RequestChain`) | a gateway without a session, an IdP or an accepted assertion has no projection gate, and a client's `X-User-*` pass | `website/docs/design/auth-model.md:141` "strips every inbound `X-User-*` header — unconditionally, even unauthenticated" | |
| `TargetsCleared` (`RequestChain`) | a projection's own headers are cleared only for a request with a principal | `auth/projection.go:57` "clear every configured target header first" | |
| `SubjectClaimHonoured` (`Identity`) | sign-in does not ask userinfo for a `subjectClaim` the ID token lacks; the Bearer path does | `website/docs/operations/configuration.md:176` the claim is the subject "on both the cookie and the Bearer paths" | |
| `MatchLabelsNeedLabel` (`RouteAccess`) | an empty value also matches an absent label | `website/docs/operations/configuration.md:367` "exact-match map" | a selector for `tier: ""` in `SomeSelectors` |

In `StateManager` the conditions of two properties are such places too. Without `Calm`,
`SingleFlight` is violated by access tokens that live no longer than the skew, and by a
client that leaves while its request waits (the double check then fails and the
refresh goes on with the token read before the lock), although "Concurrent refreshes
for one session collapse" (`session/statemanager.go:166`). With a rotating IdP and two
instances `LiveSessionServed` is violated once the loser's access token is dead,
although "the loser uses its still-valid token" (`session/statemanager.go:167`). And
`GatewayBuild` reaches the stage "panicked": two routes whose patterns conflict make
`http.ServeMux` panic, where other mistakes of the documents are errors of `Build`.

## Proofs

Each proof rests on an inductive invariant, which TLC has checked on the instance of the
run, and has one step per action. Where a module says `USE Zenon`, leaves go to that prover
unless they name SMT. `GatewayProofs` and `SessionProofs` hold the proofs of two specifications each,
which share no state: a process and what it builds, a session and who it is of.

* `KeyedMutexProofs`, for any finite set of goroutines, any keys and enough `Ref`s:
  type correctness, `MutualExclusion`, `OneMutexPerKey`, `RefsCountUsers` and the
  refinement of `KeyLock`. Mutual exclusion per *mutex* is easy; per *key* it needs that
  two users of a key use the same entry. The inductive invariant therefore says that an
  entry's count is the number of its users, that every user's entry is the one in the map
  and that two keys never share one; then a count of zero means that nobody is left who
  would hold the deleted entry.
* `StateManagerProofs`, for any requests, instances, surroundings and faults:
  `RefreshNeverExtends`, `StoreNeverRegresses`, `NotStranded`, `ServedTokenAlive`,
  `SingleFlight`, `LiveSessionServed` and `LockTermsKept`. `IInv` says that a request at
  work on a refresh is the one that holds its instance's lock (`Mutex`), that what requests and the store
  hold was issued by the IdP (`Recorded`) and has the session's one expiry (`OneExpiry`),
  that no request is older than its patience, nor a token about to be stored older than
  its request (`Timely`), that a session accepted was not over when its request came, and
  what it is to be stored with was its rest at some time since (`Lasting`), that on one instance the tokens about to be stored are the last
  the IdP has issued (`Newest`), and that without rotation there is one refresh token
  (`OneGrant`). The lock alone does not tell what its holder is about to store; `Newest`
  does, and `NotStranded` and `StoreNeverRegresses` follow from it. The other two relate a
  history to the present, and `JInv` has it: a request whose record the store has
  overtaken finds a fresh one at the double check (`Overtaken`), refresh tokens presented
  are older than the one the IdP honours (`Ordered`, `UsedUp`), a request past the double
  check holds what the store holds (`Current`), and while nothing fails nobody is refused
  (`Unanswered`).
  `LockTermsKept` is what `KeyLock` asks of its callers: a request asks only when it has no lock, gives back
  the one it holds, and has none once it has returned, whichever way out of `maybeRefresh`
  it took, a crash included. The guards of `Ask` and `Release` therefore never keep a
  request of the model from a step that the code would take. It follows from an exact
  account of who waits for and who holds each lock (`Accounted`).
* `SessionProofs`, first, for any requests in flight, sessions and chunks:
  `OldSessionNeverBack` and `ResponseRepairs`. A session that is set has a chunk 0, so
  chunk 0 is gone or belongs to the session whose response arrived last, which is not signed
  out (`Front`); what is read begins with chunk 0, so it is that session or nothing. A
  response expires what its request carried before it sets its own (`Answers`), which is all
  there is when no other response came between. That a sign-out takes chunk 0 with it is the
  hard part: a request that carried any chunk of the session in front carried its chunk 0
  (`Fronted`), since a session whose chunk 0 is gone from the jar never has it again: what a
  response is to set is nowhere else yet (`Apart`, and `Sealed` for what is new).
  Second, for every connector, identity block, token and directory at once, where the run
  varies the connector or the identity block: `SkippingIsSafe`, `OutageContained` and
  `TokenForThisGateway`. The invariant says what is known where on each path: past the gate
  the token was verified, past userinfo the answer is the directory's, an outage or not
  needed (`Bearer`, `Cookie`), and a principal is what those sources project to (`Outcome`).
* `LoginFlowProofs`, for any number of sign-ins, faults and reloads: `ExchangeOwnState`,
  `SingleUse`, `LoginCookiesBounded` and `SignInsIndependent`. A sign-in has at most one
  login cookie (`OneCookie`), a callback at work has opened the one of its own state
  (`Matched`), and a tab that shows a page has no callback at work (`AtRest`). That the
  cookies stay below `maxLoginFlows + Concurrency` is not inductive: what matters is what
  the responses on their way will do. `Room` says that whichever of them arrive, the
  cookies left, with one for each, stay within the bound; `Login` makes one place before it
  takes one, and an arrival only uses what was promised. Sign-ins do not disturb each other
  because cookies that hold sign-ins are no more than the sign-ins begun (`FewCookies`,
  a pigeonhole argument over `Named`), so `Login` finds nothing to expire.
* `TerminalProofs`, for any number of backends and any files, paths and deployments, over
  the specification of a route's terminal handler, whichever it is: `EveryGroupAccounted`,
  `NoCallOutlivesHandler` and `ErrorFromRequired`, from an invariant that relates each
  goroutine's place to its slot of `results` and to why it failed (`IInv`);
  `BrowserUpToDate` and `RightFile` (`SInv`): the file that is open was in the
  tree at some moment of the request (`Held`), the name it goes by is the one the path
  resolves to unless a deployment made that one be missed (`Servable`, `Missed`), and the
  browser's copy is one that was served (`Copied`).
* `RequestChainProofs`, for every configuration and any subjects: `GatesFirst`,
  `FirstCredentialWins`, `BackendSeesPrincipal` and `AlwaysAnswered`. A chain is a
  sequence of up to fourteen handlers; the proof first shows that it lists the members that
  the configuration calls for, each once and in one fixed order (`Lists`, `Rank`), so that
  to be past a handler is to have a higher rank, in every chain alike. Then: past a gate the request
  has what the gate asks for (`Gated`), past a projection the headers it names are the
  principal's (`Projected`), past an accepting gate the assertion is gone unless the issuer
  has its name (`Dropped`), past the issuer it is the principal's (`Minted`), and a request
  that comes out has its status (`OnTheWay`).
* `HopProofs`, for any lifetime, tolerance, drift, length of a second and set of keys:
  `ReplayBounded` and `FreshNeverRefused`. The invariant adds to the type what dates
  an assertion in flight bears (`Dated`: `iat` and `exp` are within a second of the time
  it was minted and its end), what each verdict says of them (`Judged`), and that after an
  orderly rotation the verifier knows the key that signs, and that of an assertion in
  flight for as long as that can be accepted (`Keyed`, `Known`).
  Further, `Hop` implements `Assertion`, so all of this holds of two instances in a row;
  and `RevocationBounded`: a session or token ends at most its lifetime, and a session the
  time its callback took, after a confirmed membership, and what is asserted is minted
  before that and the time the request took (`Aged`); what a request at the edge goes by was
  no older when it was told, at most `Work` ago (`Heard`); the inner instance takes a
  membership only from an assertion it has just accepted or by a token that is valid by its
  clock (`Taken`); and the rest is `ReplayBounded`.
* `GatewayProofs`, first, for any requests and any number of runs: `NothingLeftRunning` and
  `GracefulStop`. The invariant follows `Run` and its deferred calls: before the serving
  goroutine there is no server and no request (`Unserved`), the tracer runs from its setup
  to the flush (`Traced`), past the `select` the server has stopped or is told to
  (`Stopping`), and requests that were drained, all but the upgraded ones, keep their spans until the
  flush (`DrainedFirst`).
  Second, for any documents and groups: `LoginNotDeadEnd`, since a session next to a
  connector that only verifies is refused, one without a connector is warned of, and the
  endpoints are mounted with both (`Settled`); `RouteWins`, since what the loop over the
  groups leaves has no say in a field the route sets; and `RoutesMounted` (theorem
  `AllMounted`): the mux has the chain of every route, one each, in order, under its own
  pattern, which conflicts with none (`Mounted`).
  Third, what the loops of `Resolve` and `resolvePlugins` compute, for lists of any length.
  A loop is a recursive function of the turn; every set of numbers has a least element
  (`Least`, from the well-foundedness of `<`), so a loop that goes wrong goes wrong at a
  first turn (`Induction`), and one whose body is defined runs to its end (`LoopRuns`). Then:
  a loop that appends what is new grows by the union of what it is given, each once and
  behind what was there (`LoopGrows`, for the policies); one that overwrites leaves what the
  last turn to write wrote (`LastWins`, for type, auth and onDeny); and one that filters
  keeps what passes, in order (`CollectsAll`, for documents of a kind and plugins). The
  first two give `GroupsApply`, and from it that for a given route the policies depend on
  which groups there are, not on their order, and more groups never mean fewer policies
  (`PoliciesMonotone`). For `NothingDropped` the inductive invariant
  (`Enforcing`) says that between `resolvePlugins` and `Mount` the access and the plugins at
  hand are those of the next route, and that every chain mounted has what its route and the
  groups ask for; groups and policies change only while nothing is mounted. Last, what
  `Resolve` returns is of its type (`EditTypeOK`). `RoutesMounted`, `PoliciesMonotone` and
  `EditTypeOK` are no properties of a run; TLC has checked them on the instance of
  `gateway_build`, and `LockTermsKept` on that of `state_manager`.

Assumptions on constants are named (`AssertionAssumption`, `StateManagerAssumption`, ...)
and say that bounds are natural numbers, goroutines and sign-ins (which are counted) finite,
and `None`, `Nothing` and `Dir` none of the values they stand beside; TLC evaluates them in
the runs. Some say more. There is at least one instance. `maxLoginFlows` is at least 1 (the
constant of `auth/endpoints.go` is 5), and a browser can have at least one `Login` in flight.
The index of a static route names a file, as the factory's default makes sure. `Skew` is
positive, as `NewStateManager` replaces any other by a minute. `AccessAssumption` and
`DocumentsAssumption` give the fields of a document their types: the configuration is a
list, policies are lists of names, and what a `Route` document holds is a route.

Only model-checked: all liveness, since fairness and `ENABLED` are beyond the prover
(`EveryWaiterServed` and the fair refinement of `KeyLock`, `AnswersDespiteUpstreams` and the
like). Every invariant and action property of a passing run has its theorem. The library's
induction theorems take an operator as parameter, which no installed prover can
instantiate; `GatewayProofs` does its inductions over sets instead.

Four things came out of the proofs. In `GatewayBuild` the session's kind was a `CASE` with
overlapping guards, of which TLC takes the first and the logic any; it is an `IF` now. In
`LoginFlow` the bound on cookies needs a limit of at least 1; with 0, which the code does
not have, a `Login` would set a cookie where there is no room for one. In `RouteAccess` the
loops of `Resolve` ran over a list of the groups that match, which the code never builds;
they run over all groups now and test each, as the code does. And `UNION S \ {""}`, which
SANY and the prover read differently, has parentheses now in `NothingDropped`.

## Not modelled

Text processing (YAML, environment expansion, YAML defaults, path parameters, group
filtering and renaming), cryptography and JWT validation (libraries; modelled by their
outcome), the session info endpoint and the response-buffering helper (no state of their
own), `Range` requests and MIME types (`http.ServeContent`), telemetry transport and option
parsing, the image builder, the schema, tests. `PROJECT.json` lists each with its reason.

## Plan

1. Done: the components above, the composition of two instances, the build, and proofs
   of every safety property of the runs.
2. Model next: the path parameters of the aggregation and group filtering as checked
   algorithms; a module that composes `RequestChain` with a session manager, so that a
   sign-out or refresh races a request's way through the gates; the size limit of
   aggregated bodies.
3. Prove next: that `CookieSession` and `StateManager` implement one abstract session
   manager.
