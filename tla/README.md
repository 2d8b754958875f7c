# Formal model of strava-auth-proxy

TLA+ modules, TLC runs and TLAPS proofs for the proxy in `src/`. The proxy lets
several applications ("virtual clients") share one Strava API application: it
gives each its own id and secret, sends the user's browser to Strava under the
real id, and carries the state of every authorization inside signed envelopes,
because it stores nothing itself.

`PROJECT.json` maps every definition to the lines it stands for and lists runs,
hazards, findings and theorems; this file explains them.

## 1. Inventory

| component | code | state | operations | interacts with |
|---|---|---|---|---|
| sealed envelopes | `internal/seal` | none; a key ring from the configuration | `Seal`, `Open` | authorize, callback and token seal or open |
| authorization endpoints | `internal/oauth/authorize.go` | none; a nonce cookie in the browser | validate, set cookie, seal state, 302 | configuration snapshot, browser, Strava's consent page |
| callback endpoint | `internal/oauth/callback.go` | none | open state, re-validate, check and clear nonce, wrap code, 302 | snapshot, browser, application |
| token endpoint | `internal/oauth/token.go` | none | verify client, unwrap code or pass a refresh token, one upstream call | snapshot, relay |
| relay | `internal/oauth/handler.go`, `internal/upstream/transport.go` | the call in progress | send, redial, stream the answer, 502 or 504 | Strava, counters |
| deauthorize, revoke | `internal/oauth/revoke.go` | none | gate (revoke only), stream the body, relay | snapshot, relay |
| configuration | `internal/config` | an atomic pointer to an immutable snapshot | `Load`, `Get`, `Reload` | environment, files; read by every handler |
| process | `cmd/strava-auth-proxy/main.go` | listeners, one-place SIGHUP channel, root context | boot, serve, reload, drain, exit | signals, configuration, requests |
| reverse proxy | `internal/upstream/proxy.go` | the call in progress | rewrite, stream, abort | Strava, counters |
| routing | `publicHandler`, `Handler.Register`, `isOAuthSurface` | none | choose a handler, mark no-store | every handler |
| access log, metrics | `internal/httpmid`, `internal/metrics` | records, counters | one record a request, count outcomes | every handler |
| faults, probe, admin listener | `internal/fault`, `healthcheck.go`, `main.go` | none | constant answers | |
| Strava | external; reproduced by `internal/fakestrava` | single-use codes, tokens | consent, exchange | browser, relay |

What makes it hard. Handlers run concurrently and each keeps the snapshot it
loaded when its request arrived, while an operator swaps snapshots. Everything
the proxy knows about a flow comes back to it through browsers and applications
that may deliver late, twice, in the wrong browser, cut, or not at all. Strava's
codes are single-use, so an ambiguous failure of the one upstream call cannot be
retried, while the transport below redials. An answer may break off after its
status has been relayed, and callers stop sending, stop reading or leave. Keys are
rotated under envelopes that are in circulation. Processes are killed, restarted
and drained at any point.

What makes each component correct:

- envelopes: what opens was sealed, for that purpose, by a listed key, in time;
  what was sealed in time under a listed key opens;
- authorize and callback: a redirect goes only to a registered client and URI,
  the application sees its own flow's answer and its own state, the cookie binds
  the callback to the browser, and honest users are not refused;
- token: a code is exchanged only by a client it was wrapped for, credentials are
  verified first, the one attempt is never repeated, honest clients are not refused;
- relay and reverse proxy: Strava's token endpoints see the real pair of one
  configuration, a call runs once unless its caller has declared it safe to repeat,
  a response that looks complete is complete, log and counters say what happened,
  every request ends;
- configuration and process: a valid snapshot is always served, the last SIGHUP
  wins, exchanges survive the drain;
- rotation: no envelope is refused for want of a key while its age allows it.

## 2. Modules

    Envelope ── Handlers ── OAuthFlow ── OAuthFlowProperties ── MCOAuthFlow
        │                                  │        │
        │                    AuthGrant ────┘        └── OAuthFlowProofs ── AuthGrantProofs
        │                                               │                  └── NonceProofs
        │                                               │                      └── CompletenessProofs
        ├── EnvelopeProofs ─────────────────────────────┘
        └── KeyRotation ── MCKeyRotation
                └── KeyRotationProofs (with EnvelopeProofs)
    Lifecycle ── MCLifecycle
        └── LifecycleProofs
    Relay ── RelayProperties ── MCRelay
                    └── RelayProofs

**Envelope** (`seal.go`). Symbolic cryptography: an envelope is a record of key
id, MAC and body, and the MAC is the pair of key material and domain. Anything
that is not a well-formed envelope is the one value `Garbage`. `Open` checks in
the code's order. Time is in ticks, `Second` of them to a second; the payload
carries whole seconds (`Unix`), the window is measured in ticks, so the model has
the code's rounding.

**Handlers** (`authorize.go`, `callback.go`, `token.go`). Each handler's decision
as a function of snapshot, request and instant, in the order of the early
returns. `Marshalled` is what `encoding/json` does to a state that is not UTF-8.

**OAuthFlow**. The concurrent system: `Slots` requests in progress, browsers with
cookie jars, consent URLs and application redirects as sets of messages that are
never consumed (so they can be replayed and reordered), the codes at Strava, and
the operator. A configuration is its clients, key ring and TTL.

Callback URLs are not messages of Strava's: `Callback` reads `state`, `code` and
`error` as three query parameters (`callback.go:47,106,117`), and only the state is
sealed. `Received` therefore lets any state that was ever handed to a browser come
back, in any browser, with any code that Strava has minted, whichever flow it was
minted in, or none, and with or without an error. A code that Strava has burnt
stands for those it never minted, which it refuses just the same. In place of the
state there may also be anything that does not open (`Garbage`); nothing beside it
is read. The `flow` of a callback is the flow of its state.

A request is two steps or more:

| action | code |
|---|---|
| `AuthorizeStart`, `CallbackStart`, `TokenStart` | arrival; `h.Cfg.Get()` at the top of each handler |
| `AuthorizeReject`, `AuthorizeRedirect` | `authorize`: the 400 page, or cookie and 302 |
| `CallbackRefuse`, `CallbackRedirect` | `Callback` and `finishRedirect`, with the cookie cleared as the code does |
| `TokenReject`, `TokenSend` | `Token` up to the upstream call |
| `TokenRelay`, `TokenFail` | `relay`: the answer copied through, or 502, 504 or a caller that left |
| `StravaApprove`, `StravaExchange`, `StravaLate` | Strava: consent, single-use exchange, an exchange executed after the proxy gave up |
| `Reload`, `Restart` | `Holder.Reload`; a crash and a new process, which alone may change the TTL (an environment variable) |
| `Tick` | the clock |

`delivered` says whether a response reaches its reader, `arrives` whether an
abandoned call reaches Strava. `flows`, `returned`, the `flow` fields, `to` and
`spent` are history: the program does not have them, and no guard of a handler
reads them.

**AuthGrant** models no code: it is the promise. An application asks; its user is
offered the choice; whoever approves mints a code. Once its user was offered the
choice, the application may be told a code or a refusal, at the place and with the
state it named. A code is spent once, and only if some application was told it; what
it is worth is delivered at most once, to an application that was told it. That the
code is the one minted for the application's own user is not promised, because the
callback does not check it (section 6, `code_rebound`). There are no envelopes,
cookies, keys, configurations, requests in progress or time. `OAuthFlowProperties`
maps `OAuthFlow` onto it: what an application was told is the raw code inside the
envelope it received, and an authorization is offered once a browser holds its
consent URL. `KeepsGrant` is that refinement.

**Relay**. Everything that leads to Strava, from the routing table on: the gates of
token and revoke, the call, the copy, the log and the counters.

| action | code |
|---|---|
| `Arrive` | `ServeMux`; `Cfg.Get()` |
| `Reject` | the faults of `token.go` and `revoke.go`, 404 and 405 of `ServeMux` |
| `Send` | the credentials substituted, `http.Client.Do` or `ReverseProxy` entered |
| `Redial` | `http.Transport` with a pooled connection that is dead: anything not yet written is sent again, and anything `net/http` holds replayable |
| `Execute`, `SpendElsewhere` | Strava, which may also answer 5xx, whether it has carried the call out or not; a code or refresh token used by someone else |
| `Headers`, `CopyChunk`, `CopyDone` | headers and body of the answer copied through |
| `CopyBreaks` | the body breaks off: `relay` returns, `ReverseProxy` panics with `ErrAbortHandler` |
| `GiveUp` | 502 or 504 of `relay` and of `errorHandler` |
| `Canceled` | `errorHandler` for a caller that left: nothing is written |
| `Stall`, `Resume`, `Leave` | the caller |
| `Reload` | `Holder.Reload` |

`Replayable` is the rule of `net/http`: a request without a body, by GET or with an
`Idempotency-Key` or `X-Idempotency-Key` header (`idem`). Only `/api/v3` forwards
callers' headers other than the few of `passthroughHeaders`, so only there can a
caller switch it on. `resp.from` says who decided on the status, the proxy or
Strava; it stays "none" if nothing is written, while the record of `AccessLog` then
has the 200 its recorder starts with (`Recorded`).

Where a request ends, that record and the counters are part of the same step.
Timeouts are not counted: they may pass wherever they are armed.

**KeyRotation**. Replicas, each with its own clock and published ring, an operator
who walks a plan of rings, and envelopes that any replica may open. A handler
keeps the ring it loaded for up to `HandlerMax` ticks.

**Lifecycle**. One process: `config.Load` source by source, files read again by
every reload and the environment frozen at exec, the SIGHUP channel of one place,
the drain with its grace period, and token requests with the upstream client's
timeout.

Definitions named `X_Something` with a comment "Fault:" are wrong variants of
`X`. No specification uses them; replacing `X` by one of them makes a property
fail, which shows that the property depends on that code.

## 3. Runs

All finish within two minutes.

| run | instance | properties |
|---|---|---|
| `flow_exchange` | 2 slots, 2 clients, 4 credentials (right, swapped, unknown), 2 flows, 1 code | `TypeOK`, `CodeBinding`, `NoSelfBurn`, `AppSeesItsOwn`, `HonestExchangeSent`, `KeepsGrant` |
| `flow_reload` | 1 slot, 5 configurations, 3 published, half-second ticks, TTL 2 or 3 ticks | `RedirectRegistered`, `HonestCallbackAccepted`, `HonestExchangeSent`, `AuthenticatedSend` |
| `flow_nonce` | 2 slots, 2 browsers, 2 flows, a client with the cookie | `NonceBinding`, `HonestCallbackAccepted` |
| `rotation_fleet` | 2 replicas one half-second tick apart, four rings (learn, sign, drop), TTL 2, wait 5, handlers 1 | `TypeOK`, `RotationSafe`, `DrainedBeforeDrop`, `NeverFuture` |
| `lifecycle` | a file and a variable, 2 requests, client timeout 3, grace 4 | `TypeOK`, `QuiescentIsCurrent`, `ServesValid`, `DrainSparesExchanges`, `HangupHandled` |
| `relay` | 1 request out of 14 (every route, right and wrong credentials and grants, with and without a body and an idempotency key), 2 reloads, bodies of up to 2 chunks, 503 and 504 from Strava | `TypeOK`, `CompleteIsWhole`, `AccessRecords`, `Accounted`, `OneAttempt`, `Substituted`, `TokensNotCacheable`, `RelayEnds` |
| `code_rebound`, `state_bit_exact`, `rotation_rolling`, `sighup_at_boot`, `relay_truncated`, `access_unrecorded` | violations, section 6 | one each |

**Why the bounds are enough.** A confusion between clients needs two clients, two
flows and a code in the wrong hands; a race needs two slots; tokens are delivered
twice, or burnt twice, on one code. `flow_reload` has one slot because a request
races the operator there, not another request: handlers share nothing but the
configuration, the browser's cookie (`flow_nonce`) and Strava's code
(`flow_exchange`). One code is enough for it to travel with the state of a flow it
was not minted in. Three published configurations let one be removed and come
back around a request, and one more than two rings lets a key be prepended and
dropped. The TTL is crossed in `flow_reload`, where restarts raise and lower it
besides; in `flow_nonce` cookies run out at its end. `flow_exchange` and `flow_nonce` have whole
seconds for ticks: the fraction that `iat` drops is met in `flow_reload` and
`rotation_fleet`, whose ticks are half a second, and the theorems hold for any
`Second`. In `rotation_fleet`, `RotationSafe` and `DrainedBeforeDrop` are checked
with a wait of one tick above TTL, handler time and the spread of the clocks. A
single process is the case of one replica, for which `RunbookSafe` is proved.
Client and server timeouts keep the code's order (15 s below 20 s).

`relay` has one request for the same reason: two requests on their way to Strava
share the configuration, which `Reload` changes at any point, and what is spent at
Strava, which `SpendElsewhere` changes at any point; whatever a second request
could do to the first, these two do. `RelayProofs` confirms it: its theorems are for
any number of requests at once. (TLC cannot: two requests are beyond 15 million
states.)
Three configurations let the one a request has loaded be replaced and come back.
One of the two `ServerErrors` is a status that the proxy gives itself (504), one is
not (503): a property that mistakes one for the other fails.
Two chunks give a body a beginning, where the caller has seen something, and an end.
Symmetry over slots and browsers is used in runs without temporal liveness only.

Every bound is a constant: `MaxTime`, `MaxConfigs`, `MaxFlows`, `MaxCodes`,
`MaxRedirects`, `MaxIssued`. `MaxRedirects` drops redirects above it, which is
also what a lost redirect looks like.

**Deadlock** is checked in every run but those of `Relay`, where all requests end,
reloads are bounded and the system then has nothing left to do.

**Fairness.** `Relay!FairSpec` is weakly fair to what the process does by itself
(`Forced`): net/http gives every request a goroutine, so a handler runs until it
waits for Strava or its caller; a deadline that is armed passes (15 s of the
client on the OAuth legs, the header timeout of the transport on `/api/v3`); and
the departure of the caller cancels the request's context. Nothing is assumed of
Strava, of a caller that stays, or of the operator. `RelayEnds` says accordingly
that a request ends unless its caller holds it, or it waits for the rest of a body
of `/api/v3`, which has no deadline in the code. `Lifecycle!FairSpec` schedules the
process: `Load`, the `select` loop of `serve`, and the drain. `OAuthFlow` and
`KeyRotation` state no liveness and assume no fairness: users, applications and
operators may stop at any point.

## 4. Proofs

`tlapm` checks eight modules for every value of the constants that satisfies the
named assumptions: durations are numbers (`ClockAssumption`), configurations are
valid (`ConfigsAssumption`), bounds are numbers (`BoundsAssumption`), queries are
queries (`QueriesAssumption`), absent values differ from present ones, "no code" and
"not an envelope" among them (`SentinelAssumption`), a rotation has replicas and a plan of valid rings
(`PlanAssumption`), sources and timeouts are numbers (`LifecycleAssumption`),
requests and configurations have their types (`RelayAssumption`).
Theorems with more than that state it in their `ASSUME`.

**Envelopes** (`EnvelopeProofs`).

- `OpenSound`, `DomainSeparation`: what opens is authentic for that domain; a
  state is never taken for a code.
- `SealThenOpen`: an envelope opens under every later valid ring that lists its
  key until one second (less a tick) before the TTL. The second is the fraction
  that `Unix` drops; the bound appears in `Fresh`, used by the completeness
  properties.

**The flow** (`OAuthFlowProofs`). `TypeCorrect`, `CodeBindingHolds`,
`NoSelfBurnHolds`. `CodeBinding` is not inductive: that a client exchanges only codes
it was told depends on every envelope in circulation. The inductive invariant `IInv`
adds: the states in consent URLs name the client that started their flow, and the
wrapped codes in redirects the client of theirs (`SealedInv`); an envelope of the code
domain names a client that was told its code (`GoodCode`, `Informed`); requests in
progress hold only such things (`RequestsInv`); and tokens on their way belong to one
request, for a code not delivered yet (`DeliveryInv`). The raw code beside a state
is any there is (`GoodURL`). `SendsTheTold` is the heart: a token request is sent only
if its envelope opened under the code domain, so it is a wrapped code, so it names a
client that was told it, and the handler has compared that name with the caller.
`Growth` and `RequestGrowth` carry all this across steps, since flows, codes,
redirects and configurations are only ever added to. `TypeStep` and `InvStep` have
one step per action.

`CodeOfItsFlowIfAsRedirected` delimits the finding `code_rebound`: if every callback
brings the state and the code of one flow, as the URLs that Strava redirects to do
(`AsRedirected`), every code is exchanged by, and its tokens are delivered to, the
client it was minted for. Its invariant is `OwnInv`: a redirect carries a code of
its own flow.

**The refinement** (`AuthGrantProofs`). `Refinement` is `Spec => KeepsGrant`. It needs
`GrantInv`, which is `IInv` and two more: a sealed state still says where its flow
was to end and with which state of the caller (`FaithInv`; else `Tell` would be told
to the wrong place); and the state of a callback was handed out before, and what
Strava still executes was told to someone (`BackedInv`; else `Tell` would answer what
nobody was offered, or `Spend` would spend a code nobody was told). One lemma per action
maps it to a step of `AuthGrant` or to none. From the same invariant follow
`AppSeesItsOwnHolds` and the action properties `AuthenticatedSendHolds` and
`RedirectRegisteredHolds`. `StateBitExactForUTF8` delimits the finding
`state_bit_exact`: if no caller's state is other than UTF-8, the state comes back
bit-exact.

**The cookie** (`NonceProofs`). `NonceBindingHolds`. The property compares a browser
with a flow, the handler a cookie with a sealed nonce; the two are the same because
a jar only ever holds a nonce drawn for its own browser (`JarInv`), a request
presents what a jar held (`PresentInv`), and a state carries the nonce of its own flow
or none (`CarryInv`).

**Completeness** (`CompletenessProofs`). `HonestExchangeSentHolds` and
`HonestCallbackAcceptedHolds`: what the proxy must not refuse. A refusal compares the
clock with an issue time inside an envelope, and a cookie with a nonce inside it; the
properties speak of the flow, so neither is inductive. `HonestInv` says that the two
agree:

- a state dates from the redirect of its flow (`DatedInv`), since a flow is
  redirected once (`PendingInv`) and a state cannot be altered;
- a wrapped code was sealed as a code, for the client of its flow, at an instant
  that has passed (`WrappedInv`): no envelope is refused as future-dated;
- a browser with one flow that has not come back yet has the cookie set with that
  flow's redirect (`CookieInv`), and its first callback presents it, unless it has
  outlived what some published TTL gives it (`BringsInv`). Another flow of the
  browser overwrites the cookie and a callback clears it, which is why
  `CookieUndisturbed` excludes just these two.

`KeptAlways` carries all this across steps: no step takes back a flow, a
configuration or time, or moves a redirect once its state has been handed out. The
rest is `OpensInTime`: `Open` answers "ok" for an envelope under a listed key whose `iat`
has passed, at most the TTL ago.

**The process** (`LifecycleProofs`). `QuiescentIsCurrentHolds` is about a process that
has finished its reload; `ReloadInv` says what has been read so far is what the
sources hold, unless an edit is unannounced or a signal is pending, and that none
is pending before `signal.Notify`. `ServesValidHolds` and `LifecycleTypes` are
inductive as they stand. `DrainSparesExchangesHolds` assumes
`ClientTimeout < ShutdownTimeout`, which the code satisfies with 15 s
(`transport.go`) and 20 s (`main.go`): `EarlyInv` keeps every call that began before
the drain ahead of the grace period. `RunbookWithFiles` says when the runbook of
`README.md` takes effect: where every source is a file (section 6).

**Rotation** (`KeyRotationProofs`). The runs try two plans; the theorems say which
plans and waits are safe on any number of replicas:

- `LongWait(spread)`: the clocks are ahead of true time by at most `spread`, and
  `Wait > StateTTL + HandlerMax + spread`;
- `ForwardPlan`: a ring opens what the one before it has sealed;
- `BackwardPlan`: a ring opens what the one after it will seal.

`RotationSafeHolds` assumes all three, `DrainedBeforeDropHolds` the first two,
`NeverFutureHolds` the first and `spread <= Skew`. The plan of the runbook, prepend
then drop, satisfies `ForwardPlan` only, which is what `rotation_rolling` shows from
the other side; the plan of `rotation_fleet` satisfies both. `RotationInv` says that
replicas are at the operator's stage or one behind, that a request of an earlier
stage began before the last reload, and that what was sealed two stages ago has
expired.

`RunbookSafe` says the runbook is safe on one replica, with `ForwardPlan` alone: the
ring of a single process only moves on, so whatever a request brings back was
sealed under its snapshot or before (`OrderInv`). `BackwardPlan` is about replicas
that lag behind others.

**The relay** (`RelayProofs`): the type invariant and all six safety properties of
`RelayProperties`, for any number of requests at once and of reloads.
`AccessRecordsHolds` also uses `RealPairUnknown`, that no caller presents the real
pair: on `/api/v3` it would be passed on without a name in the record. The
argument is local: `RInv(r)` relates call, response, log and counters of one
request by where its handler is, and two facts keep it when others move
(`UntouchedStays`): published configurations stay what they are, and nobody spends a
ticket in another's name. Inside, `CallInv` is the heart of `OneAttempt`: a call that
is not safe to replay is either pending or executed, once, since a redial after the
first byte needs one that is; and a token request that Strava refused has spent
nothing. `AnswerInv` and `CountInv` keep apart what the proxy answers and what it
relays (`from`), so `Accounted` holds whichever 5xx statuses Strava uses.
`Routing` decides the routing table once, for every request there can be, and shows
that every way to a token answer lies within `isOAuthSurface`.

**Only model-checked**: liveness (`RelayEnds`, `HangupHandled`), which is beyond the
prover, as are `ENABLED` and induction over data; no proof needs either of these. Every
invariant and every other action property of the passing runs is a theorem.

## 5. What the properties say

- `CodeBinding`, `NoSelfBurn`, `AuthenticatedSend`: at the token endpoint nobody
  exchanges a code that no callback of his own has been given, whichever envelope he
  presents: another client's wrapped code, a state, or a raw code are worth nothing
  there, and tokens are delivered at most once. No one is told "invalid" because of
  his own attempt. The real credentials are used only for valid virtual ones. That
  the code was also minted for that client is `CodeOfItsFlow`, which does not hold.
- `KeepsGrant`: all of the flow's steps together are an authorization, also when
  two callbacks of one flow run at the same time or bring codes of other flows.
- `RedirectRegistered`, `NonceBinding`, `AppSeesItsOwn`: safety of the callback,
  stated of the flow a state really belongs to and not of what it claims.
  `NonceBinding` is about browsers, which present the cookie their jar holds.
- `HonestCallbackAccepted`, `HonestExchangeSent`: completeness. Without them a
  proxy that refuses everything would satisfy the rest.
- `Substituted`: what Strava's token and revoke endpoints are sent.
- `OneAttempt`: how often Strava executes a call: once, unless it is one of `/api/v3`
  without a body, by GET or with an idempotency key. No header makes a call of the
  OAuth legs run twice.
- `CompleteIsWhole`, `TokensNotCacheable`: what the caller is sent.
- `AccessRecords`: a request leaves one record when it ends, unless the reverse proxy
  aborts its copy (`access_unrecorded`), and never two. The record has the status
  that was written. Where nothing was written it has the recorder's 200; the property
  says that this happens on `/api/v3` only and only to a caller who has left.
- `Accounted`: the counters agree with what happened. A failure is counted for each
  502 or 504 of the proxy's own and for none that Strava has sent.
- `RotationSafe`, `DrainedBeforeDrop`, `NeverFuture`: rotation.
- `QuiescentIsCurrent`, `ServesValid`, `DrainSparesExchanges`, `HangupHandled`,
  `RelayEnds`: the process and its requests.

## 6. Findings

- `code_rebound`: `callback.go:124-126`, `token.go:89-91` and `docs/DESIGN.md:288` say
  that a code is bound to the client whose flow minted it, also if it is phished. The
  callback wraps the code of one query parameter for the client of the state in
  another, and nothing says that the two are of one flow. What the code does give is
  `CodeBinding` and, for callbacks as Strava redirects them,
  `CodeOfItsFlowIfAsRedirected`.
- `state_bit_exact`: a `state` that is not UTF-8 comes back with U+FFFD in it;
  `seal.go:118` and `README.md` say bit-exact.
- `rotation_rolling`: prepend-then-drop is not safe for replicas reloaded one
  after the other: the first signs with a key the second does not list. A stage
  in which all replicas learn the key before any signs with it is
  (`rotation_fleet`).
- `sighup_at_boot`: SIGHUP between the start of the process and
  `signal.Notify(hup, ...)` kills it, also once the listeners serve.
- `relay_truncated`: when Strava declares no length and its body breaks off,
  `relay` returns as after a success, and the caller receives a well-formed, shorter
  response that is counted a success; `handler.go:182` says byte-for-byte. The
  reverse proxy aborts the connection in the same situation.
- `access_unrecorded`: `mid.go:113` says one record per request. `ReverseProxy` panics
  when a copy breaks off, and the lines that log come after `next.ServeHTTP` and are
  not deferred: the request leaves none.

Observed on the way, without a run:

- waiting `>= TTL` (`docs/DESIGN.md`) is too short by the lifetime of a handler that
  loaded its ring before the reload, by the spread of the clocks and by the second
  that `iat` drops;
- `callback.go:82` calls the nonce single-use, but two callbacks in flight at once
  both pass with it (`KeepsGrant` shows that this does no harm to the code);
- the runbook of `README.md:226-243` assigns `PROXY_STATE_KEYS` in a shell and sends
  SIGHUP; the running process cannot see that (`Lifecycle` keeps the environment of
  the exec), and it takes effect for sources that are files (`RunbookWithFiles`);
- an `/api/v3` request whose caller leaves early is logged with status 200, which was
  never sent (`AccessRecords` says that this is the only such case);
- a 5xx of Strava's own is relayed, and of the two counters
  `upstream_errors_total` does not see it, on any leg (`Accounted`);
- `upstream_errors_total` counts callers who left on the OAuth legs and not on
  `/api/v3`, where `proxy.go:59-61` explains why it should not;
- `transport.go:23-25` says at most one attempt; the transport still replays, on a
  dead pooled connection, a call of `/api/v3` without a body that is a GET or has an
  idempotency key. The OAuth legs never are (`OneAttempt`).

## 7. Abstractions and what is left out

- The two clock readings of `Callback` (open, seal) are one instant.
- A replica of `KeyRotation` serves one request at a time; it may hold it for as long
  as a handler may run, across reloads.
- Scope, error descriptions and other pass-through parameters; the rewriting of
  request and response headers, of which `Content-Length` and `no-store` are
  modelled; the wording of pages and faults, levels and paths of the log.
- `oauth_callbacks_total`, one increment for each verdict of `CallbackVerdict`.
- The internal-error branches (no randomness, a ring that cannot seal, a URL that
  does not parse), which a validated configuration rules out.
- `parseStateKeys`, `parseClients` and URL validation: pure functions of one
  text, tested as such by the repository. Models start from configurations that have
  validated; that `Load` may read its sources torn is in `Lifecycle`.
- What Strava does below `/api/v3`, where one good answer, one refusal and the 5xx
  statuses stand for all, and the tokens it issues after they are delivered.
  `ServerErrors` is any set of statuses from 500 to 599.
- Codes that Strava never minted: it refuses them like burnt ones, which callbacks
  and token requests do bring.
- Which of the two idempotency headers is there, and methods other than GET and POST.
- The health probe and the admin listener: constant answers without state. The
  recordings and knobs of `fakestrava`, which are test equipment.

## 8. Plan

Done: the flow with its abstract specification and the refinement; the process;
rotation; the relay with deauthorize, revoke, refresh, the reverse proxy, routing,
log and counters; the proofs of section 4.

Left:

1. The torn `Load` of several sources in the configurations of `OAuthFlow`: today the
   configurations there are whole, and `Lifecycle` shows the next SIGHUP repairs
   a torn one.
2. The parsers of `config` as pure operators against a reference definition.
