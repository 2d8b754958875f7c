----------------------------- MODULE OAuthFlow ------------------------------
(***************************************************************************)
(* The authorization-code flow through the proxy, end to end: callers'     *)
(* applications, users' browsers, the proxy's handlers running             *)
(* concurrently, Strava, and an operator who reloads and restarts.         *)
(*                                                                         *)
(* A handler is two steps or more.  The first is the arrival of the        *)
(* request, where it loads the configuration snapshot it keeps to the end  *)
(* (h.Cfg.Get()); the second reads the clock, decides and answers.  In     *)
(* between, other handlers run, time passes and the configuration may be   *)
(* swapped.                                                                *)
(*                                                                         *)
(* URLs that have been handed to a browser or an application stay in a     *)
(* set: they may be followed late, twice, in another browser, or never.    *)
(* /oauth/callback trusts nothing about its URL but the sealed state, so   *)
(* any state that was handed out may come back with any code and error.    *)
(***************************************************************************)
EXTENDS Handlers, FiniteSets

CONSTANTS
    Slots,        \* requests the proxy serves at the same time
    Browsers,
    Configs,      \* the valid configurations the operator may publish
    Queries,      \* the authorize requests applications may start: [cid, ru, st]
    Credentials,  \* what callers present at the token endpoint: [cid, secret]
    \* bounds of the model
    MaxTime, MaxConfigs, MaxFlows, MaxCodes,
    MaxRedirects  \* redirects beyond these are lost on the way

ASSUME ConfigsAssumption ==
    \A cfg \in Configs : DOMAIN cfg = {"clients", "ring", "ttl"} /\ ValidConfig(cfg)

ASSUME BoundsAssumption == {MaxTime, MaxFlows, MaxCodes} \subseteq Nat

ASSUME QueriesAssumption ==
    /\ Queries \subseteq [cid : ClientIds, ru : URIs, st : CallerStates]
    /\ Credentials \subseteq [cid : ClientIds, secret : Secrets]

VARIABLES
    configs,    \* every configuration published, in order; the last is live
    now,        \* the proxy's clock, in ticks
    req,        \* slot -> the request in progress
    flows,      \* authorize requests so far; the index doubles as the nonce
    jar,        \* browser -> the nonce cookie it holds
    returned,   \* browsers that have come back to /oauth/callback (history)
    consents,   \* authorize URLs handed to browsers
    apps,       \* redirects that reached the applications
    codes,      \* Strava's codes: the flow each was minted in, whether it is
                \* burnt, and the clients its tokens were delivered to
    orphans     \* codes of exchanges the proxy gave up on and Strava may
                \* still execute

proxyVars   == <<configs, req>>
browserVars == <<flows, jar, returned, consents, apps>>
stravaVars  == <<codes, orphans>>
vars        == <<proxyVars, now, browserVars, stravaVars>>

-----------------------------------------------------------------------------
(* Types *)

Nonces == (1..MaxFlows) \cup {NoNonce}
StateBody == [cid : ClientIds, ru : URIs, st : CallerStates,
              nonce : Nonces, iat : Nat]
CodeBody  == [cid : ClientIds, sc : 1..MaxCodes, iat : Nat]
StateEnvelope == EnvelopeOf(StateBody)
CodeEnvelope  == EnvelopeOf(CodeBody)

Flow    == [br : Browsers, q : Queries, at : Nat]
Cookie  == [nonce : Nonces, exp : Nat]
Consent == [flow : 1..MaxFlows, state : StateEnvelope]
\* flow is history: the flow that the state is of.
CallbackURL == [flow  : 1..MaxFlows,
                state : StateEnvelope \cup {Garbage},
                code  : (1..MaxCodes) \cup {NoCode},
                error : {NoError, "access_denied"}]
AppRedirect == [flow  : 1..MaxFlows, ru : URIs, st : CallerStates,
                code  : CodeEnvelope \cup {NoCode},
                error : {NoError, "access_denied"}]
Form == [cid : ClientIds, secret : Secrets, grant : {"authorization_code"},
         code : CodeEnvelope \cup StateEnvelope \cup {Garbage}]
StravaCode == [flow : 1..MaxFlows, used : BOOLEAN, to : Seq(ClientIds)]

ASSUME SentinelAssumption ==
    /\ NoState \in CallerStates /\ Replaced \in CallerStates
    /\ NoNonce \notin Nat /\ NoCode \notin Nat
    /\ Garbage \notin StateEnvelope /\ Garbage \notin CodeEnvelope
    /\ Garbage \notin Form /\ NoCode # Garbage
    /\ NoCode \notin CodeEnvelope /\ NoCode \notin StateEnvelope
    /\ NoError # "access_denied"

Idle == [pc |-> "idle"]

AuthorizeRequest == [pc : {"authorize"}, snap : Nat, flow : 1..MaxFlows]
CallbackRequest  == [pc : {"callback"}, snap : Nat, br : Browsers,
                     url : CallbackURL, cookie : Nonces, first : BOOLEAN]
TokenRequest     == [pc : {"token"}, snap : Nat, form : Form \cup {Garbage}]
\* spent is history: this request's own attempt burnt the code.
ExchangeRequest  == [pc : {"sent", "answered"}, cid : ClientIds,
                     code : 1..MaxCodes, ans : {"none", "tokens", "invalid"},
                     spent : BOOLEAN]

TypeOK ==
    /\ configs \in Seq(Configs) /\ Len(configs) > 0
    /\ now \in Nat
    /\ req \in [Slots -> {Idle} \cup AuthorizeRequest \cup CallbackRequest
                           \cup TokenRequest \cup ExchangeRequest]
    /\ flows \in Seq(Flow)
    /\ jar \in [Browsers -> Cookie]
    /\ returned \subseteq Browsers
    /\ consents \subseteq Consent
    /\ apps \subseteq AppRedirect
    /\ codes \in Seq(StravaCode)
    /\ orphans \subseteq 1..MaxCodes

NoCookie == [nonce |-> NoNonce, exp |-> 0]

Init ==
    /\ \E cfg \in Configs : configs = <<cfg>>
    /\ now = 0
    /\ req = [s \in Slots |-> Idle]
    /\ flows = <<>>
    /\ jar = [b \in Browsers |-> NoCookie]
    /\ returned = {}
    /\ consents = {}
    /\ apps = {}
    /\ codes = <<>>
    /\ orphans = {}

-----------------------------------------------------------------------------
(* /oauth/authorize *)

Free(s) == req[s].pc = "idle"
\* Fault: the configuration of the boot is used for ever.
Snapshot_AtBoot(s) == configs[1]

Snapshot(s) == configs[req[s].snap]

\* An application sends its user's browser b to the proxy with query q.
AuthorizeStart(s, b, q) ==
    /\ Free(s)
    /\ Len(flows) < MaxFlows
    /\ flows' = Append(flows, [br |-> b, q |-> q, at |-> 0])
    /\ req' = [req EXCEPT ![s] = [pc   |-> "authorize",
                                  snap |-> Len(configs),
                                  flow |-> Len(flows) + 1]]
    /\ UNCHANGED <<configs, now, jar, returned, consents, apps, stravaVars>>

\* The cookie lives as many whole seconds as the state does.  A Max-Age of
\* zero is not sent: the cookie lasts for the browser's session.
NonceCookie(cfg, nonce) ==
    [nonce |-> nonce,
     exp   |-> IF cfg.ttl < Second THEN MaxTime + 1
                                   ELSE now + (cfg.ttl \div Second) * Second]

AuthorizeReject(s) ==
    /\ req[s].pc = "authorize"
    /\ AuthorizeVerdict(Snapshot(s), flows[req[s].flow].q) = "bad_request"
    /\ req' = [req EXCEPT ![s] = Idle]
    /\ UNCHANGED <<configs, now, browserVars, stravaVars>>

\* The 302 to Strava, which may be lost on its way to the browser.
AuthorizeRedirect(s, delivered) ==
    /\ req[s].pc = "authorize"
    /\ LET cfg == Snapshot(s)
           f   == req[s].flow
           q   == flows[f].q
       IN  /\ AuthorizeVerdict(cfg, q) = "consent"
           /\ flows' = [flows EXCEPT ![f].at = now]
           /\ consents' = IF delivered
                THEN consents \cup
                       {[flow |-> f, state |-> SealState(cfg, q, f, now)]}
                ELSE consents
           /\ jar' = IF delivered /\ cfg.clients[q.cid].nonce
                THEN [jar EXCEPT ![flows[f].br] = NonceCookie(cfg, f)]
                ELSE jar
    /\ req' = [req EXCEPT ![s] = Idle]
    /\ UNCHANGED <<configs, now, returned, apps, stravaVars>>

-----------------------------------------------------------------------------
(* Strava's consent page *)

\* The user approves: a fresh single-use code.
StravaApprove(u) ==
    /\ Len(codes) < MaxCodes
    /\ codes' = Append(codes, [flow |-> u.flow, used |-> FALSE, to |-> <<>>])
    /\ UNCHANGED <<proxyVars, now, browserVars, orphans>>

-----------------------------------------------------------------------------
(* /oauth/callback *)

(***************************************************************************)
(* A callback URL as the proxy may receive it.  Strava echoes the state of *)
(* consent u beside the code it has minted or the user's refusal, but      *)
(* nothing ties the parameters together: the state may come with any code  *)
(* of Strava's and any error.  A code that Strava has burnt stands for     *)
(* those it never minted; it refuses both.  Any other string in the place  *)
(* of the state is Garbage, a wrapped code too (see DomainSeparation), and *)
(* nothing beside it is read.                                              *)
(***************************************************************************)
Received(u) ==
    [flow  : {u.flow},
     state : {u.state},
     code  : (1..Len(codes)) \cup {NoCode},
     error : {NoError, "access_denied"}]
    \cup {[flow |-> u.flow, state |-> Garbage, code |-> NoCode, error |-> NoError]}

Presented(b) == IF now < jar[b].exp THEN jar[b].nonce ELSE NoNonce

\* Browser b opens a callback URL: usually the browser that began the flow.
CallbackStart(s, b, u) ==
    /\ Free(s)
    /\ req' = [req EXCEPT ![s] = [pc     |-> "callback",
                                  snap   |-> Len(configs),
                                  br     |-> b,
                                  url    |-> u,
                                  cookie |-> Presented(b),
                                  first  |-> b \notin returned]]
    /\ returned' = returned \cup {b}
    /\ UNCHANGED <<configs, now, flows, jar, consents, apps, stravaVars>>

Verdict(s) == CallbackVerdict(Snapshot(s), req[s].url, req[s].cookie, now)

\* The Set-Cookie of a response that reached browser b.
CookiesAfter(s, delivered) ==
    IF delivered /\ ClearsCookie(Snapshot(s), req[s].url, Verdict(s))
      THEN [jar EXCEPT ![req[s].br] = NoCookie]
      ELSE jar

CallbackRefuse(s, delivered) ==
    /\ req[s].pc = "callback"
    /\ Verdict(s) \notin Redirects
    /\ jar' = CookiesAfter(s, delivered)
    /\ req' = [req EXCEPT ![s] = Idle]
    /\ UNCHANGED <<configs, now, flows, returned, consents, apps, stravaVars>>

\* Fault: a redirect that reports an error carries an empty code besides.
RedirectToApp_EmptyCode(cfg, u, verdict) ==
    [flow  |-> u.flow,
     ru    |-> u.state.body.ru,
     st    |-> u.state.body.st,
     code  |-> IF verdict = "success" THEN SealCode(cfg, u, now) ELSE Garbage,
     error |-> u.error]

\* finishRedirect: the sealed redirect URI, the caller's state if it sent one,
\* and either Strava's error or the wrapped code.
RedirectToApp(cfg, u, verdict) ==
    [flow  |-> u.flow,
     ru    |-> u.state.body.ru,
     st    |-> u.state.body.st,
     code  |-> IF verdict = "success" THEN SealCode(cfg, u, now) ELSE NoCode,
     error |-> u.error]

CallbackRedirect(s, delivered) ==
    /\ req[s].pc = "callback"
    /\ Verdict(s) \in Redirects
    /\ apps' = IF delivered
                 THEN apps \cup {RedirectToApp(Snapshot(s), req[s].url, Verdict(s))}
                 ELSE apps
    /\ Cardinality(apps') <= MaxRedirects
    /\ jar' = CookiesAfter(s, delivered)
    /\ req' = [req EXCEPT ![s] = Idle]
    /\ UNCHANGED <<configs, now, flows, returned, consents, stravaVars>>

-----------------------------------------------------------------------------
(* /oauth/token *)

\* Everything sealed that callers may have seen and can present as a code.
SeenEnvelopes == {m.code : m \in {a \in apps : a.code # NoCode}}
                   \cup {u.state : u \in consents} \cup {Garbage}

TokenForm(cred, code) ==
    [cid |-> cred.cid, secret |-> cred.secret,
     grant |-> "authorization_code", code |-> code]

\* form = Garbage is a body that does not parse.
TokenStart(s, form) ==
    /\ Free(s)
    /\ req' = [req EXCEPT ![s] = [pc |-> "token", snap |-> Len(configs),
                                  form |-> form]]
    /\ UNCHANGED <<configs, now, browserVars, stravaVars>>

TokenReject(s) ==
    /\ req[s].pc = "token"
    /\ TokenVerdict(Snapshot(s), req[s].form, now) # "send"
    /\ req' = [req EXCEPT ![s] = Idle]
    /\ UNCHANGED <<configs, now, browserVars, stravaVars>>

\* The one upstream attempt, with the real credentials and the raw code.
TokenSend(s) ==
    /\ req[s].pc = "token"
    /\ TokenVerdict(Snapshot(s), req[s].form, now) = "send"
    /\ req' = [req EXCEPT ![s] = [pc    |-> "sent",
                                  cid   |-> req[s].form.cid,
                                  code  |-> req[s].form.code.body.sc,
                                  ans   |-> "none",
                                  spent |-> FALSE]]
    /\ UNCHANGED <<configs, now, browserVars, stravaVars>>

\* Strava burns a fresh code and issues tokens, or refuses a burnt one.
StravaExchange(s) ==
    /\ req[s].pc = "sent"
    /\ LET c == req[s].code
       IN  IF codes[c].used
             THEN /\ req' = [req EXCEPT ![s].pc = "answered",
                                        ![s].ans = "invalid"]
                  /\ UNCHANGED codes
             ELSE /\ req' = [req EXCEPT ![s].pc = "answered",
                                        ![s].ans = "tokens",
                                        ![s].spent = TRUE]
                  /\ codes' = [codes EXCEPT ![c].used = TRUE]
    /\ UNCHANGED <<configs, now, browserVars, orphans>>

\* An exchange the proxy gave up on is executed after all.
StravaLate(c) ==
    /\ orphans' = orphans \ {c}
    /\ codes' = [codes EXCEPT ![c].used = TRUE]
    /\ UNCHANGED <<proxyVars, now, browserVars>>

\* relay: Strava's answer goes to the caller as it is, if the caller is there.
TokenRelay(s, delivered) ==
    /\ req[s].pc = "answered"
    /\ LET tokens == req[s].ans = "tokens"
       IN  codes' = IF tokens /\ delivered
                THEN [codes EXCEPT ![req[s].code].to = Append(@, req[s].cid)]
                ELSE codes
    /\ req' = [req EXCEPT ![s] = Idle]
    /\ UNCHANGED <<configs, now, browserVars, orphans>>

\* Fault: an attempt that failed is made again.
TokenFail_Retries(s, arrives) ==
    /\ req[s].pc \in {"sent", "answered"}
    /\ req' = [req EXCEPT ![s].pc = "sent", ![s].ans = "none"]
    /\ UNCHANGED <<configs, now, browserVars, stravaVars>>

(***************************************************************************)
(* relay fails: the client's timeout (504), a connection error (502) or a  *)
(* caller that went away.  The call may have reached Strava or may still   *)
(* reach it; the proxy cannot tell, and does not try again.                *)
(***************************************************************************)
TokenFail(s, arrives) ==
    /\ req[s].pc \in {"sent", "answered"}
    /\ req' = [req EXCEPT ![s] = Idle]
    /\ orphans' = IF arrives /\ req[s].pc = "sent"
                    THEN orphans \cup {req[s].code} ELSE orphans
    /\ UNCHANGED <<configs, now, browserVars, codes>>

-----------------------------------------------------------------------------
(* The operator, the process and time *)

Live == configs[Len(configs)]

\* Publishing what is live already changes nothing a request can tell.
Publish(cfg) ==
    /\ configs' = IF cfg = Live THEN configs ELSE Append(configs, cfg)
    /\ Len(configs') <= MaxConfigs

\* SIGHUP: Holder.Reload swaps in a configuration that has validated.  The TTL
\* is read from the environment, which the process keeps.
Reload(cfg) ==
    /\ cfg.ttl = Live.ttl
    /\ Publish(cfg)
    /\ UNCHANGED <<now, req, browserVars, stravaVars>>

\* A crash or a forced stop drops what is in progress; the process comes back
\* with what its environment and files now say.
Restart(cfg, arrives) ==
    /\ Publish(cfg)
    /\ req' = [s \in Slots |-> Idle]
    /\ orphans' = IF arrives
         THEN orphans \cup {req[s].code : s \in {t \in Slots : req[t].pc = "sent"}}
         ELSE orphans
    /\ UNCHANGED <<now, browserVars, codes>>

Tick ==
    /\ now < MaxTime
    /\ now' = now + 1
    /\ UNCHANGED <<proxyVars, browserVars, stravaVars>>

-----------------------------------------------------------------------------

Handler(s) ==
    \/ AuthorizeReject(s)
    \/ \E delivered \in BOOLEAN : \/ AuthorizeRedirect(s, delivered)
                                  \/ CallbackRefuse(s, delivered)
                                  \/ CallbackRedirect(s, delivered)
                                  \/ TokenRelay(s, delivered)
    \/ TokenReject(s)
    \/ TokenSend(s)
    \/ \E arrives \in BOOLEAN : TokenFail(s, arrives)

Arrival(s) ==
    \/ \E b \in Browsers, q \in Queries : AuthorizeStart(s, b, q)
    \/ \E b \in Browsers, u \in consents :
           \E v \in Received(u) : CallbackStart(s, b, v)
    \/ \E cred \in Credentials :
           \/ \E e \in SeenEnvelopes : TokenStart(s, TokenForm(cred, e))
           \/ TokenStart(s, Garbage)

Strava ==
    \/ \E u \in consents : StravaApprove(u)
    \/ \E s \in Slots : StravaExchange(s)
    \/ \E c \in orphans : StravaLate(c)

Operator ==
    \E cfg \in Configs : \/ Reload(cfg)
                         \/ \E arrives \in BOOLEAN : Restart(cfg, arrives)

Next ==
    \/ \E s \in Slots : Handler(s) \/ Arrival(s)
    \/ Strava
    \/ Operator
    \/ Tick

Spec == Init /\ [][Next]_vars
=============================================================================
