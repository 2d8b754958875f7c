------------------------- MODULE CompletenessProofs --------------------------
(***************************************************************************)
(* What the proxy must not refuse: an application that exchanges its code  *)
(* in time, and a user who comes back in time in the browser that started  *)
(* the flow, over any number of flows, browsers, reloads and restarts.     *)
(*                                                                         *)
(* A refusal compares the clock with an issue time in an envelope, and a   *)
(* cookie with a nonce in it; the properties speak of the flow.  The       *)
(* invariant says that the two agree: a state dates from the redirect of   *)
(* its flow, a wrapped code from the past, and a browser that has started  *)
(* one flow and not come back yet still holds the cookie set with it, or   *)
(* has held it for as long as some configuration lets it.                  *)
(***************************************************************************)
EXTENDS NonceProofs

\* For how long a browser keeps a cookie set under cfg; zero stands for a cookie
\* that lasts as long as the browser's session.
Life(cfg) == (cfg.ttl \div Second) * Second

\* Browser b has started another flow than f.
Beside(f, b, fs) == \E g \in 1..Len(fs) : fs[g].br = b /\ g # f

\* Flow f has come to Strava's consent page longer ago than some published
\* configuration lets its cookie live.
Outlasted(f, fs, cfgs, t) ==
    \E i \in 1..Len(cfgs) : t - fs[f].at >= Life(cfgs[i])

\* The state of a consent dates from the time its flow was redirected at.
Dated(u, fs, t) ==
    u.state.body.iat = Unix(fs[u.flow].at) /\ fs[u.flow].at <= t

\* c is the cookie that was set with the redirect of flow f.
SetWith(c, f, fs, cfgs) ==
    /\ c.nonce = f
    /\ \E i \in 1..Len(cfgs) :
          Life(cfgs[i]) = 0 \/ c.exp = fs[f].at + Life(cfgs[i])

\* The wrapped code of m was sealed as a code, for the client of its flow, at an
\* instant that has passed.
Wrapped(m, fs, t) ==
    /\ m.code.mac.domain = DomainCode
    /\ m.flow \in 1..Len(fs)
    /\ m.code.body.cid = fs[m.flow].q.cid
    /\ m.code.body.iat \in Nat /\ m.code.body.iat * Second <= t

\* The callback r brings the state of a consent; if its browser, the one of the
\* flow, had not come back before, it presents that flow's cookie, unless the
\* browser has another flow or the cookie is over.
Brings(r, us, fs, cfgs, t) ==
    \E u \in us :
        /\ r.url.flow = u.flow /\ r.url.state = u.state
        /\ r.first /\ r.br = fs[u.flow].br /\ u.state.body.nonce # NoNonce
           => \/ Beside(u.flow, r.br, fs)
              \/ r.cookie = u.flow
              \/ Outlasted(u.flow, fs, cfgs, t)

\* A flow that waits to be redirected is in one request, and nothing has been
\* handed out for it: its time of redirection is still free.
PendingInv ==
    \A s \in Slots : req[s].pc = "authorize" =>
        /\ \A u \in consents : u.flow # req[s].flow
        /\ \A t \in Slots : req[t].pc = "authorize" /\ req[t].flow = req[s].flow
                                => t = s

DatedInv == \A u \in consents : Dated(u, flows, now)

WrappedInv == \A m \in apps : m.code # NoCode => Wrapped(m, flows, now)

ReturnedInv == \A s \in Slots : req[s].pc = "callback" => req[s].br \in returned

\* Until its first callback, a browser with a single flow keeps its cookie.
CookieInv ==
    \A u \in consents : u.state.body.nonce # NoNonce =>
        LET b == flows[u.flow].br
        IN  b \in returned \/ Beside(u.flow, b, flows)
              \/ SetWith(jar[b], u.flow, flows, configs)

BringsInv ==
    \A s \in Slots : req[s].pc = "callback" /\ req[s].url.state # Garbage =>
        Brings(req[s], consents, flows, configs, now)

HonestInv == /\ PendingInv /\ DatedInv /\ WrappedInv
             /\ ReturnedInv /\ CookieInv /\ BringsInv

-----------------------------------------------------------------------------
(* Steps *)

\* Nothing is written but configurations, Strava's codes, the clock and requests
\* that carry neither a flow to redirect nor a callback.
Aside ==
    /\ UNCHANGED <<flows, jar, returned, consents, apps>>
    /\ \A t \in Slots : \/ req'[t] = req[t]
                         \/ req'[t].pc \notin {"authorize", "callback"}

(***************************************************************************)
(* The steps that write what the invariant is about.                       *)
(***************************************************************************)
LEMMA Steps ==
    ASSUME IInv, [Next]_vars
    PROVE  \/ \E s \in Slots, b \in Browsers, q \in Queries : AuthorizeStart(s, b, q)
           \/ \E s \in Slots, d \in BOOLEAN : AuthorizeRedirect(s, d)
           \/ \E s \in Slots, b \in Browsers, u \in consents :
                  \E v \in Received(u) : CallbackStart(s, b, v)
           \/ \E s \in Slots, d \in BOOLEAN :
                  CallbackRefuse(s, d) \/ CallbackRedirect(s, d)
           \/ Aside
  <1> USE DEF proxyVars, browserVars, stravaVars
  <1> TypeOK
    BY DEF IInv
  <1>0. ASSUME NEW s \in Slots, NEW r, r.pc \notin {"authorize", "callback"},
               req' = [req EXCEPT ![s] = r],
               UNCHANGED <<flows, jar, returned, consents, apps>>
        PROVE  Aside
    BY <1>0 DEF Aside, TypeOK
  <1>1. Idle.pc \notin {"authorize", "callback"}
    BY DEF Idle
  <1>2. ASSUME NEW s \in Slots, AuthorizeReject(s) \/ TokenReject(s)
        PROVE  Aside
    BY <1>0, <1>1, <1>2 DEF AuthorizeReject, TokenReject
  <1>3. ASSUME NEW s \in Slots, NEW d \in BOOLEAN, TokenRelay(s, d) \/ TokenFail(s, d)
        PROVE  Aside
    BY <1>0, <1>1, <1>3 DEF TokenRelay, TokenFail
  <1>4. ASSUME NEW s \in Slots, TokenSend(s)
        PROVE  Aside
    BY <1>0, <1>4 DEF TokenSend
  <1>5. ASSUME NEW s \in Slots, NEW form, TokenStart(s, form)
        PROVE  Aside
    BY <1>0, <1>5 DEF TokenStart
  <1>6. ASSUME NEW s \in Slots, StravaExchange(s)
        PROVE  Aside
    <2>1. \A t \in Slots : t # s => req'[t] = req[t]
      BY <1>6 DEF StravaExchange, TypeOK
    <2>2. req[s] \in ExchangeRequest
      BY <1>6, RequestTypes DEF StravaExchange
    <2>3. req'[s].pc = "answered"
      BY <1>6, <2>2 DEF StravaExchange, TypeOK, ExchangeRequest
    <2>4. UNCHANGED <<flows, jar, returned, consents, apps>>
      BY <1>6 DEF StravaExchange
    <2> QED
      BY <2>1, <2>3, <2>4 DEF Aside
  <1>7. ASSUME NEW c, StravaLate(c)
        PROVE  Aside
    BY <1>7 DEF StravaLate, Aside
  <1>8. ASSUME NEW cfg \in Configs, Reload(cfg)
        PROVE  Aside
    BY <1>8 DEF Reload, Aside
  <1>9. ASSUME NEW u, StravaApprove(u)
        PROVE  Aside
    BY <1>9 DEF StravaApprove, Aside
  <1>10. ASSUME NEW cfg \in Configs, NEW arrives \in BOOLEAN, Restart(cfg, arrives)
        PROVE  Aside
    BY <1>1, <1>10 DEF Restart, Aside
  <1>11. CASE Tick \/ UNCHANGED vars
    BY <1>11 DEF Tick, vars, Aside
  <1>12. ASSUME NEW s \in Slots, Handler(s)
         PROVE  \/ \E d \in BOOLEAN : AuthorizeRedirect(s, d)
                \/ \E d \in BOOLEAN : CallbackRefuse(s, d) \/ CallbackRedirect(s, d)
                \/ Aside
    BY <1>2, <1>3, <1>4, <1>12 DEF Handler
  <1>13. ASSUME NEW s \in Slots, Arrival(s)
         PROVE  \/ \E b \in Browsers, q \in Queries : AuthorizeStart(s, b, q)
                \/ \E b \in Browsers, u \in consents :
                       \E v \in Received(u) : CallbackStart(s, b, v)
                \/ Aside
    BY <1>5, <1>13 DEF Arrival
  <1>14. CASE Strava
    BY <1>6, <1>7, <1>9, <1>14 DEF Strava
  <1>15. CASE Operator
    BY <1>8, <1>10, <1>15 DEF Operator
  <1> QED
    BY <1>11, <1>12, <1>13, <1>14, <1>15 DEF Next

\* Configurations are only ever appended.
ConfigsKept(cfgs, cfgs2) ==
    /\ Len(cfgs) <= Len(cfgs2)
    /\ \A i \in 1..Len(cfgs) : cfgs2[i] = cfgs[i]

\* No step takes a flow, a browser, a configuration or time back, or moves the
\* redirection of a flow whose state has been handed out.
Kept ==
    /\ FlowsGrow(flows, flows') /\ BrowsersKept(flows, flows')
    /\ \A u \in consents : flows'[u.flow].at = flows[u.flow].at
    /\ ConfigsKept(configs, configs') /\ now <= now'

(***************************************************************************)
(* Configurations are published and never withdrawn, and the clock of the  *)
(* proxy does not run backwards (Holder.Reload, time.Now).                 *)
(***************************************************************************)
LEMMA ConfigsStay ==
    ASSUME IInv, [Next]_vars
    PROVE  ConfigsKept(configs, configs') /\ now <= now'
  <1>0. configs \in Seq(Configs) /\ Len(configs) \in Nat /\ now \in Nat
    BY LenProperties DEF IInv, TypeOK
  <1>1. ASSUME configs' = configs, now' = now
        PROVE  ConfigsKept(configs, configs') /\ now <= now'
    BY <1>0, <1>1 DEF ConfigsKept
  <1>2. ASSUME NEW cfg \in Configs, Publish(cfg), now' = now
        PROVE  ConfigsKept(configs, configs') /\ now <= now'
    <2>1. CASE configs' = configs
      BY <1>0, <1>2, <2>1 DEF ConfigsKept
    <2>2. CASE configs' = Append(configs, cfg)
      BY <1>0, <1>2, <2>2, AppendProperties DEF ConfigsKept
    <2> QED
      BY <1>2, <2>1, <2>2 DEF Publish
  <1>3. CASE Operator
    BY <1>2, <1>3 DEF Operator, Reload, Restart
  <1>4. CASE Tick
    BY <1>0, <1>4 DEF Tick, ConfigsKept, proxyVars
  <1>5. ASSUME NEW s \in Slots, Handler(s)
        PROVE  configs' = configs /\ now' = now
    BY <1>5, Zenon
       DEF Handler, AuthorizeReject, AuthorizeRedirect, CallbackRefuse,
           CallbackRedirect, TokenRelay, TokenReject, TokenSend, TokenFail
  <1>6. ASSUME NEW s \in Slots, Arrival(s)
        PROVE  configs' = configs /\ now' = now
    <2>1. ASSUME NEW b, NEW q, AuthorizeStart(s, b, q)
          PROVE  configs' = configs /\ now' = now
      BY <2>1, Zenon DEF AuthorizeStart
    <2>2. ASSUME NEW b, NEW u, CallbackStart(s, b, u)
          PROVE  configs' = configs /\ now' = now
      BY <2>2, Zenon DEF CallbackStart
    <2>3. ASSUME NEW form, TokenStart(s, form)
          PROVE  configs' = configs /\ now' = now
      BY <2>3 DEF TokenStart
    <2> QED
      BY <1>6, <2>1, <2>2, <2>3, Zenon DEF Arrival
  <1>7. ASSUME Strava \/ UNCHANGED vars
        PROVE  configs' = configs /\ now' = now
    BY <1>7
       DEF Strava, StravaApprove, StravaExchange, StravaLate, vars,
           proxyVars
  <1> QED
    BY <1>1, <1>3, <1>4, <1>5, <1>6, <1>7 DEF Next

(***************************************************************************)
(* A redirect changes one flow, and only the time of its redirection.      *)
(***************************************************************************)
LEMMA RedirectsOne ==
    ASSUME IInv, NEW s \in Slots, NEW d \in BOOLEAN, AuthorizeRedirect(s, d)
    PROVE  LET f == req[s].flow
           IN  /\ f \in 1..Len(flows) /\ Len(flows') = Len(flows)
               /\ flows'[f] = [flows[f] EXCEPT !.at = now]
               /\ flows'[f].at = now
               /\ \A g \in 1..Len(flows) : g # f => flows'[g] = flows[g]
  <1> DEFINE f == req[s].flow
             x == [flows[f] EXCEPT !.at = now]
  <1>0. flows \in Seq(Flow)
    BY DEF IInv, TypeOK
  <1>1. f \in 1..Len(flows)
    BY DEF IInv, RequestsInv, RequestInv, AuthorizeRedirect
  <1>2. flows[f] \in Flow
    BY <1>0, <1>1, ElementOfSeq
  <1>3. x \in Flow /\ x.at = now
    BY <1>2 DEF Flow, IInv, TypeOK
  <1>4. flows' = [flows EXCEPT ![f] = x]
    BY DEF AuthorizeRedirect
  <1> HIDE DEF x
  <1>5. /\ Len(flows') = Len(flows)
        /\ \A g \in 1..Len(flows) : flows'[g] = IF g = f THEN x ELSE flows[g]
    BY <1>0, <1>1, <1>3, <1>4, ExceptSeq
  <1> QED
    BY <1>1, <1>3, <1>5 DEF x

(***************************************************************************)
(* No step takes anything back that an envelope or a cookie relies on.     *)
(***************************************************************************)
LEMMA KeptAlways ==
    ASSUME IInv, PendingInv, [Next]_vars
    PROVE  Kept
  <1>0. flows \in Seq(Flow) /\ \A u \in consents : u.flow \in 1..Len(flows)
    BY DEF IInv, TypeOK, SealedInv, StateOf
  <1>1. ASSUME NEW s \in Slots, NEW b \in Browsers, NEW q \in Queries,
               AuthorizeStart(s, b, q), NEW u \in consents
        PROVE  flows'[u.flow] = flows[u.flow]
    <2>1. [br |-> b, q |-> q, at |-> 0] \in Flow
      BY QueriesAssumption DEF Flow
    <2> QED
      BY <1>0, <1>1, <2>1, AppendProperties DEF AuthorizeStart
  <1>2. ASSUME NEW s \in Slots, NEW d \in BOOLEAN, AuthorizeRedirect(s, d),
               NEW u \in consents
        PROVE  flows'[u.flow] = flows[u.flow]
    <2>1. u.flow # req[s].flow
      BY <1>2 DEF PendingInv, AuthorizeRedirect
    <2> QED
      BY <1>0, <1>2, <2>1, RedirectsOne
  <1>3. ASSUME flows' = flows
        PROVE  \A u \in consents : flows'[u.flow] = flows[u.flow]
    BY <1>3
  <1>4. \A u \in consents : flows'[u.flow] = flows[u.flow]
    BY <1>1, <1>2, <1>3, Steps
       DEF CallbackStart, CallbackRefuse, CallbackRedirect, browserVars,
           Aside
  <1> QED
    BY <1>4, OnlyAdded, BrowsersStay, ConfigsStay DEF Kept

-----------------------------------------------------------------------------
(* What stays true *)

(***************************************************************************)
(* A configuration keeps a cookie for a number of seconds, possibly none.  *)
(***************************************************************************)
LEMMA Lives ==
    ASSUME IInv, NEW i \in 1..Len(configs)
    PROVE  /\ configs[i].ttl \in Nat /\ Life(configs[i]) \in Nat
           /\ configs[i].ttl < Second => Life(configs[i]) = 0
  <1> DEFINE ttl == configs[i].ttl
  <1>1. configs[i] \in Configs
    BY ElementOfSeq DEF IInv, TypeOK
  <1>2. ttl \in Nat
    BY <1>1, ConfigsAssumption DEF ValidConfig
  <1>3. /\ ttl \div Second \in Nat
        /\ (ttl \div Second) * Second <= ttl
        /\ ttl < Second => ttl \div Second = 0
    BY <1>2, ClockAssumption
  <1>4. Life(configs[i]) \in Nat
    BY <1>3, ClockAssumption DEF Life
  <1>5. ttl < Second => Life(configs[i]) = 0
    BY <1>3, ClockAssumption DEF Life
  <1> QED
    BY <1>2, <1>4, <1>5

(***************************************************************************)
(* What the invariant says of a flow that has been handed out stays true.  *)
(***************************************************************************)
LEMMA FlowGrowth ==
    ASSUME IInv, IInv', Kept, NEW u \in consents
    PROVE  /\ u.flow \in 1..Len(flows) /\ u.flow \in 1..Len(flows')
           /\ flows'[u.flow].at = flows[u.flow].at
           /\ flows'[u.flow].br = flows[u.flow].br
           /\ Dated(u, flows, now) => Dated(u, flows', now')
           /\ \A b : Beside(u.flow, b, flows) => Beside(u.flow, b, flows')
           /\ \A c : SetWith(c, u.flow, flows, configs)
                        => SetWith(c, u.flow, flows', configs')
           /\ Outlasted(u.flow, flows, configs, now)
                => Outlasted(u.flow, flows', configs', now')
  <1>0. /\ Len(flows) \in Nat /\ Len(flows') \in Nat
        /\ Len(configs) \in Nat /\ Len(configs') \in Nat
        /\ now \in Nat /\ now' \in Nat
    BY LenProperties DEF IInv, TypeOK
  <1>1. u.flow \in 1..Len(flows)
    BY DEF IInv, SealedInv, StateOf
  <1>2. /\ flows'[u.flow].at = flows[u.flow].at
        /\ flows'[u.flow].br = flows[u.flow].br
        /\ u.flow \in 1..Len(flows')
    BY <1>0, <1>1 DEF Kept, BrowsersKept
  <1>3. flows[u.flow].at \in Nat
    <2>1. flows[u.flow] \in Flow
      BY <1>1, ElementOfSeq DEF IInv, TypeOK
    <2> QED
      BY <2>1 DEF Flow
  <1>4. Dated(u, flows, now) => Dated(u, flows', now')
    BY <1>0, <1>2, <1>3 DEF Dated, Kept
  <1>5. ASSUME NEW b, Beside(u.flow, b, flows)
        PROVE  Beside(u.flow, b, flows')
    <2>1. PICK g \in 1..Len(flows) : flows[g].br = b /\ g # u.flow
      BY <1>5 DEF Beside
    <2>2. g \in 1..Len(flows') /\ flows'[g].br = b
      BY <1>0, <2>1 DEF Kept, BrowsersKept
    <2> QED
      BY <2>1, <2>2 DEF Beside
  <1>6. ASSUME NEW i \in 1..Len(configs)
        PROVE  i \in 1..Len(configs') /\ configs'[i] = configs[i]
    BY <1>0, <1>6 DEF Kept, ConfigsKept
  <1>7. ASSUME NEW c, SetWith(c, u.flow, flows, configs)
        PROVE  SetWith(c, u.flow, flows', configs')
    BY <1>2, <1>6, <1>7 DEF SetWith
  <1>8. ASSUME Outlasted(u.flow, flows, configs, now)
        PROVE  Outlasted(u.flow, flows', configs', now')
    <2>1. PICK i \in 1..Len(configs) : now - flows[u.flow].at >= Life(configs[i])
      BY <1>8 DEF Outlasted
    <2>2. Life(configs[i]) \in Nat
      BY Lives
    <2>3. now' - flows[u.flow].at >= Life(configs[i])
      <3>1. now <= now'
        BY DEF Kept
      <3>2. \A t, t2, a, l \in Nat : t <= t2 /\ t - a >= l => t2 - a >= l
        OBVIOUS
      <3> QED
        BY <1>0, <1>3, <2>1, <2>2, <3>1, <3>2, Zenon
    <2> QED
      BY <1>2, <1>6, <2>3 DEF Outlasted
  <1> QED
    BY <1>1, <1>2, <1>4, <1>5, <1>7, <1>8

\* What a callback brings stays what it brings.
LEMMA BringsGrowth ==
    ASSUME IInv, IInv', Kept, consents \subseteq consents',
           NEW r, Brings(r, consents, flows, configs, now)
    PROVE  Brings(r, consents', flows', configs', now')
  <1>1. PICK u \in consents :
              /\ r.url.flow = u.flow /\ r.url.state = u.state
              /\ r.first /\ r.br = flows[u.flow].br /\ u.state.body.nonce # NoNonce
                 => \/ Beside(u.flow, r.br, flows)
                    \/ r.cookie = u.flow
                    \/ Outlasted(u.flow, flows, configs, now)
    BY DEF Brings
  <1>2. /\ flows'[u.flow].br = flows[u.flow].br
        /\ Beside(u.flow, r.br, flows) => Beside(u.flow, r.br, flows')
        /\ Outlasted(u.flow, flows, configs, now)
             => Outlasted(u.flow, flows', configs', now')
    BY FlowGrowth
  <1> QED
    BY <1>1, <1>2 DEF Brings

\* A wrapped code stays one.
LEMMA WrappedGrowth ==
    ASSUME IInv, IInv', Kept, NEW m, Wrapped(m, flows, now)
    PROVE  Wrapped(m, flows', now')
  <1>1. /\ Len(flows) \in Nat /\ Len(flows') \in Nat
        /\ now \in Nat /\ now' \in Nat /\ now <= now'
    BY LenProperties DEF IInv, TypeOK, Kept
  <1>2. m.flow \in 1..Len(flows)
    BY DEF Wrapped
  <1>3. m.flow \in 1..Len(flows') /\ flows'[m.flow].q = flows[m.flow].q
    BY <1>1, <1>2 DEF Kept, FlowsGrow
  <1>4. m.code.body.iat * Second \in Nat
    BY ClockAssumption DEF Wrapped
  <1>5. m.code.body.iat * Second <= now'
    BY <1>1, <1>4 DEF Wrapped
  <1> QED
    BY <1>3, <1>5 DEF Wrapped

-----------------------------------------------------------------------------
(* Init and every step *)

\* The initial states satisfy the invariant.
LEMMA HonestInvInit ==
    ASSUME Init
    PROVE  HonestInv
  BY DEF Init, Idle, HonestInv, PendingInv, DatedInv, WrappedInv,
         ReturnedInv, CookieInv, BringsInv

\* A flow is redirected once: it is new when its request arrives, and no longer
\* waiting when its state has been handed out.
LEMMA PendingStep ==
    ASSUME IInv, PendingInv, [Next]_vars
    PROVE  PendingInv'
  <1> TypeOK /\ RequestsInv
    BY DEF IInv
  <1>0. Len(flows) \in Nat /\ \A u \in consents : u.flow \in 1..Len(flows)
    BY LenProperties DEF IInv, TypeOK, SealedInv, StateOf
  <1>1. ASSUME NEW s \in Slots, NEW b \in Browsers, NEW q \in Queries,
               AuthorizeStart(s, b, q)
        PROVE  PendingInv'
    <2>1. /\ req'[s].flow = Len(flows) + 1 /\ consents' = consents
          /\ \A t \in Slots : t # s => req'[t] = req[t]
      BY <1>1 DEF AuthorizeStart, TypeOK
    <2>2. \A t \in Slots : req[t].pc = "authorize" => req[t].flow \in 1..Len(flows)
      BY DEF RequestsInv, RequestInv
    <2>3. /\ \A u \in consents : u.flow # req'[s].flow
          /\ \A t \in Slots : req[t].pc = "authorize" => req[t].flow # req'[s].flow
      BY <1>0, <2>1, <2>2
    <2> QED
      BY <2>1, <2>3 DEF PendingInv
  <1>2. ASSUME NEW s \in Slots, NEW d \in BOOLEAN, AuthorizeRedirect(s, d)
        PROVE  PendingInv'
    <2>1. /\ req'[s].pc # "authorize" /\ req[s].pc = "authorize"
          /\ \A t \in Slots : t # s => req'[t] = req[t]
      BY <1>2 DEF AuthorizeRedirect, TypeOK, Idle
    <2>2. \A u \in consents' : u \in consents \/ u.flow = req[s].flow
      BY <1>2 DEF AuthorizeRedirect
    <2> QED
      BY <2>1, <2>2 DEF PendingInv
  <1>3. ASSUME consents' = consents,
               \A t \in Slots : req'[t] = req[t] \/ req'[t].pc # "authorize"
        PROVE  PendingInv'
    BY <1>3 DEF PendingInv
  <1>4. ASSUME NEW s \in Slots, NEW b \in Browsers, NEW u, CallbackStart(s, b, u)
        PROVE  PendingInv'
    BY <1>3, <1>4 DEF CallbackStart, TypeOK
  <1>5. ASSUME NEW s \in Slots, NEW d \in BOOLEAN,
               CallbackRefuse(s, d) \/ CallbackRedirect(s, d)
        PROVE  PendingInv'
    BY <1>3, <1>5 DEF CallbackRefuse, CallbackRedirect, TypeOK, Idle
  <1>6. CASE Aside
    BY <1>3, <1>6 DEF Aside
  <1> QED
    BY <1>1, <1>2, <1>4, <1>5, <1>6, Steps

\* A state dates from the redirect of its flow.
LEMMA DatedStep ==
    ASSUME IInv, PendingInv, DatedInv, [Next]_vars
    PROVE  DatedInv'
  <1>0. IInv' /\ Kept
    BY InvStep, KeptAlways
  <1>1. \A u \in consents : Dated(u, flows', now')
    BY <1>0, FlowGrowth DEF DatedInv
  <1>2. ASSUME NEW s \in Slots, NEW d \in BOOLEAN, AuthorizeRedirect(s, d)
        PROVE  DatedInv'
    <2> DEFINE f == req[s].flow
               x == [flow |-> f, state |-> SealState(Snapshot(s), flows[f].q, f, now)]
    <2>1. \A u \in consents' : u \in consents \/ u = x
      BY <1>2 DEF AuthorizeRedirect
    <2>2. flows'[f].at = now
      BY <1>2, RedirectsOne, Zenon
    <2>6. now' = now
      BY <1>2 DEF AuthorizeRedirect
    <2>3. x.flow = f /\ x.state.body.iat = Unix(now)
      BY DEF SealState, Seal, StatePayload
    <2>4. now \in Nat
      BY DEF IInv, TypeOK
    <2>5. Dated(x, flows', now')
      BY <2>2, <2>3, <2>4, <2>6 DEF Dated
    <2> QED
      BY <1>1, <2>1, <2>5 DEF DatedInv
  <1>3. ASSUME consents' = consents
        PROVE  DatedInv'
    BY <1>1, <1>3 DEF DatedInv
  <1> QED
    BY <1>2, <1>3, Steps
       DEF AuthorizeStart, CallbackStart, CallbackRefuse, CallbackRedirect,
           Aside, browserVars

\* A wrapped code is sealed as a code, for the client of its flow.
LEMMA WrappedStep ==
    ASSUME GrantInv, PendingInv, WrappedInv, [Next]_vars
    PROVE  WrappedInv'
  <1>0. IInv /\ IInv' /\ Kept
    BY InvStep, KeptAlways DEF GrantInv
  <1>1. \A m \in apps : m.code # NoCode => Wrapped(m, flows', now')
    BY <1>0, WrappedGrowth DEF WrappedInv
  <1>2. ASSUME NEW s \in Slots, NEW d \in BOOLEAN, CallbackRedirect(s, d)
        PROVE  WrappedInv'
    <2> DEFINE u == req[s].url
               m == RedirectToApp(Snapshot(s), u, Verdict(s))
    <2>1. \A n \in apps' : n \in apps \/ n = m
      BY <1>2 DEF CallbackRedirect
    <2>2. u.flow \in 1..Len(flows) /\ u.state.body.cid = flows[u.flow].q.cid
      BY <1>2, RedirectsFaithfully DEF CallbackRedirect
    <2>3. m.flow = u.flow
      BY DEF RedirectToApp
    <2>4. m.code # NoCode => m.code = SealCode(Snapshot(s), u, now)
      BY DEF RedirectToApp
    <2>5. LET e == SealCode(Snapshot(s), u, now)
          IN  /\ e.mac.domain = DomainCode /\ e.body.cid = u.state.body.cid
              /\ e.body.iat = Unix(now)
      BY DEF SealCode, Seal
    <2>6. Unix(now) \in Nat /\ Unix(now) * Second <= now
      BY <1>0, UnixBounds DEF IInv, TypeOK
    <2> HIDE DEF m
    <2>7. m.code # NoCode => Wrapped(m, flows, now)
      BY <2>2, <2>3, <2>4, <2>5, <2>6 DEF Wrapped
    <2>8. m.code # NoCode => Wrapped(m, flows', now')
      BY <1>0, <2>7, WrappedGrowth
    <2> QED
      BY <1>1, <2>1, <2>8 DEF WrappedInv
  <1>3. ASSUME apps' = apps
        PROVE  WrappedInv'
    BY <1>1, <1>3 DEF WrappedInv
  <1> QED
    BY <1>0, <1>2, <1>3, Steps
       DEF AuthorizeStart, AuthorizeRedirect, CallbackStart, CallbackRefuse,
           Aside, browserVars

\* A callback under way comes from a browser that has returned.
LEMMA ReturnedStep ==
    ASSUME IInv, ReturnedInv, [Next]_vars
    PROVE  ReturnedInv'
  <1> TypeOK
    BY DEF IInv
  <1>1. ASSUME NEW s \in Slots, NEW b \in Browsers, NEW u, CallbackStart(s, b, u)
        PROVE  ReturnedInv'
    <2>1. /\ req'[s].br = b /\ returned' = returned \cup {b}
          /\ \A t \in Slots : t # s => req'[t] = req[t]
      BY <1>1 DEF CallbackStart, TypeOK
    <2> QED
      BY <2>1 DEF ReturnedInv
  <1>2. ASSUME returned' = returned,
               \A t \in Slots : req'[t] = req[t] \/ req'[t].pc # "callback"
        PROVE  ReturnedInv'
    BY <1>2 DEF ReturnedInv
  <1>3. ASSUME NEW s \in Slots, NEW r, r.pc # "callback",
               req' = [req EXCEPT ![s] = r], returned' = returned
        PROVE  ReturnedInv'
    BY <1>2, <1>3 DEF TypeOK
  <1>4. Idle.pc # "callback"
    BY DEF Idle
  <1>5. CASE Aside
    BY <1>2, <1>5 DEF Aside
  <1>6. ASSUME NEW s \in Slots, NEW d \in BOOLEAN,
               AuthorizeRedirect(s, d) \/ CallbackRefuse(s, d) \/ CallbackRedirect(s, d)
        PROVE  ReturnedInv'
    BY <1>3, <1>4, <1>6 DEF AuthorizeRedirect, CallbackRefuse, CallbackRedirect
  <1>7. ASSUME NEW s \in Slots, NEW b \in Browsers, NEW q \in Queries,
               AuthorizeStart(s, b, q)
        PROVE  ReturnedInv'
    BY <1>3, <1>7 DEF AuthorizeStart
  <1> QED
    BY <1>1, <1>5, <1>6, <1>7, Steps

\* The cookie that is set with a redirect is the one of its flow.
LEMMA CookieSet ==
    ASSUME IInv, IInv', Kept, NEW s \in Slots, AuthorizeRedirect(s, TRUE),
           Snapshot(s).clients[flows[req[s].flow].q.cid].nonce
    PROVE  LET f == req[s].flow
           IN  SetWith(jar'[flows'[f].br], f, flows', configs')
  <1> DEFINE f   == req[s].flow
             cfg == Snapshot(s)
             c   == NonceCookie(cfg, f)
  <1>0. /\ flows[f].br \in Browsers /\ flows'[f].br = flows[f].br
        /\ flows'[f].at = now
    <2>1. f \in 1..Len(flows)
      BY RedirectsOne
    <2>2. flows[f] \in Flow
      BY <2>1, ElementOfSeq DEF IInv, TypeOK
    <2>3. flows'[f].br = flows[f].br
      BY <2>1 DEF Kept, BrowsersKept
    <2>4. flows'[f].at = now
      BY RedirectsOne, Zenon
    <2> QED
      BY <2>2, <2>3, <2>4 DEF Flow
  <1>1. jar' = [jar EXCEPT ![flows[f].br] = c]
    BY DEF AuthorizeRedirect
  <1>2. jar'[flows'[f].br] = c
    BY <1>0, <1>1 DEF IInv, TypeOK
  <1>3. req[s].snap \in 1..Len(configs)
    BY DEF IInv, RequestsInv, RequestInv, AuthorizeRedirect
  <1>4. req[s].snap \in 1..Len(configs') /\ configs'[req[s].snap] = cfg
    <2>1. Len(configs) \in Nat /\ Len(configs') \in Nat
      BY LenProperties DEF IInv, TypeOK
    <2>2. /\ Len(configs) <= Len(configs')
          /\ configs'[req[s].snap] = configs[req[s].snap]
      BY <1>3 DEF Kept, ConfigsKept
    <2>3. req[s].snap \in 1..Len(configs')
      BY <1>3, <2>1, <2>2
    <2>4. configs'[req[s].snap] = cfg
      BY <2>2 DEF Snapshot
    <2> QED
      BY <2>3, <2>4
  <1>5. c.nonce = f
    BY DEF NonceCookie
  <1>6. Life(cfg) = 0 \/ c.exp = now + Life(cfg)
    BY <1>3, Lives DEF NonceCookie, Life, Snapshot
  <1> HIDE DEF c, cfg
  <1> QED
    BY <1>0, <1>2, <1>4, <1>5, <1>6 DEF SetWith

\* A jar changes by the Set-Cookie of a redirect or of a callback, and a browser
\* with a single flow keeps its cookie until it comes back.
LEMMA CookieStep ==
    ASSUME IInv, PendingInv, ReturnedInv, CookieInv, [Next]_vars
    PROVE  CookieInv'
  <1> TypeOK /\ IInv' /\ Kept
    BY InvStep, KeptAlways DEF IInv
  <1> DEFINE Safe(u, c) ==
        u.state.body.nonce # NoNonce =>
           \/ flows[u.flow].br \in returned
           \/ Beside(u.flow, flows[u.flow].br, flows)
           \/ SetWith(c, u.flow, flows, configs)
  <1>0. \A u \in consents : Safe(u, jar[flows[u.flow].br])
    BY DEF CookieInv
  <1>1. ASSUME consents' = consents, returned \subseteq returned',
               \A u \in consents : \/ jar'[flows[u.flow].br] = jar[flows[u.flow].br]
                                   \/ flows[u.flow].br \in returned
        PROVE  CookieInv'
    <2> SUFFICES ASSUME NEW u \in consents, u.state.body.nonce # NoNonce
                 PROVE  LET b == flows'[u.flow].br
                        IN  \/ b \in returned' \/ Beside(u.flow, b, flows')
                            \/ SetWith(jar'[b], u.flow, flows', configs')
      BY <1>1 DEF CookieInv
    <2>1. flows'[u.flow].br = flows[u.flow].br
      BY FlowGrowth
    <2>2. Safe(u, jar[flows[u.flow].br])
      BY <1>0
    <2> QED
      BY <1>1, <2>1, <2>2, FlowGrowth
  <1>2. ASSUME NEW s \in Slots, NEW d \in BOOLEAN, AuthorizeRedirect(s, d)
        PROVE  CookieInv'
    <2> DEFINE f == req[s].flow
               q == flows[f].q
               x == [flow |-> f, state |-> SealState(Snapshot(s), q, f, now)]
    <2> SUFFICES ASSUME NEW u \in consents', u.state.body.nonce # NoNonce
                 PROVE  LET b == flows'[u.flow].br
                        IN  \/ b \in returned' \/ Beside(u.flow, b, flows')
                            \/ SetWith(jar'[b], u.flow, flows', configs')
      BY DEF CookieInv
    <2>1. u \in consents \/ (d /\ u = x)
      BY <1>2 DEF AuthorizeRedirect
    <2>2. CASE u \in consents
      <3> DEFINE b == flows[u.flow].br
      <3>1. flows'[u.flow].br = b /\ returned' = returned
        BY <1>2, <2>2, FlowGrowth DEF AuthorizeRedirect
      <3>2. Safe(u, jar[b])
        BY <1>0, <2>2
      <3>3. CASE b = flows[f].br
        <4>1. f # u.flow
          BY <1>2, <2>2 DEF PendingInv, AuthorizeRedirect
        <4>2. f \in 1..Len(flows)
          BY <1>2, RedirectsOne
        <4>3. Beside(u.flow, b, flows)
          BY <3>3, <4>1, <4>2 DEF Beside
        <4> QED
          BY <2>2, <3>1, <4>3, FlowGrowth
      <3>4. CASE b # flows[f].br
        <4>1. jar'[b] = jar[b]
          BY <1>2, <3>4 DEF AuthorizeRedirect, TypeOK
        <4> QED
          BY <2>2, <3>1, <3>2, <4>1, FlowGrowth
      <3> QED
        BY <3>3, <3>4
    <2>3. CASE d /\ u = x
      <3>1. u.flow = f
        BY <2>3
      <3>2. Snapshot(s).clients[q.cid].nonce
        BY <2>3 DEF SealState, Seal, StatePayload
      <3>3. AuthorizeRedirect(s, TRUE)
        BY <1>2, <2>3
      <3> HIDE DEF x
      <3> QED
        BY <3>1, <3>2, <3>3, CookieSet
    <2> QED
      BY <2>1, <2>2, <2>3
  <1>3. ASSUME NEW s \in Slots, NEW d \in BOOLEAN,
               CallbackRefuse(s, d) \/ CallbackRedirect(s, d)
        PROVE  CookieInv'
    <2>1. req[s].br \in returned
      BY <1>3 DEF ReturnedInv, CallbackRefuse, CallbackRedirect
    <2>2. consents' = consents /\ returned' = returned
      BY <1>3 DEF CallbackRefuse, CallbackRedirect
    <2>3. jar' = jar \/ jar' = [jar EXCEPT ![req[s].br] = NoCookie]
      BY <1>3 DEF CallbackRefuse, CallbackRedirect, CookiesAfter
    <2>4. ASSUME NEW u \in consents
          PROVE  \/ jar'[flows[u.flow].br] = jar[flows[u.flow].br]
                 \/ flows[u.flow].br \in returned
      <3>1. flows[u.flow].br \in Browsers
        <4>1. flows[u.flow] \in Flow
          BY FlowGrowth, ElementOfSeq DEF TypeOK
        <4> QED
          BY <4>1 DEF Flow
      <3> DEFINE b == flows[u.flow].br
      <3> HIDE DEF b
      <3>2. ASSUME b # req[s].br
            PROVE  jar'[b] = jar[b]
        BY <2>3, <3>1, <3>2 DEF TypeOK, b
      <3> QED
        BY <2>1, <3>2 DEF b
    <2> QED
      BY <1>1, <2>2, <2>4
  <1>4. ASSUME consents' = consents, jar' = jar, returned \subseteq returned'
        PROVE  CookieInv'
    BY <1>1, <1>4
  <1>5. ASSUME NEW s \in Slots, NEW b \in Browsers, NEW u, CallbackStart(s, b, u)
        PROVE  CookieInv'
    BY <1>4, <1>5 DEF CallbackStart
  <1>6. ASSUME NEW s \in Slots, NEW b \in Browsers, NEW q \in Queries,
               AuthorizeStart(s, b, q)
        PROVE  CookieInv'
    BY <1>4, <1>6 DEF AuthorizeStart
  <1>7. CASE Aside
    BY <1>4, <1>7 DEF Aside
  <1> QED
    BY <1>2, <1>3, <1>5, <1>6, <1>7, Steps

\* A browser that comes back for the first time presents the cookie of its only
\* flow, as long as every configuration lets it live.
LEMMA PresentsItsOwn ==
    ASSUME IInv, DatedInv, CookieInv, NEW u \in consents,
           u.state.body.nonce # NoNonce, flows[u.flow].br \notin returned
    PROVE  LET b == flows[u.flow].br
           IN  \/ Beside(u.flow, b, flows)
               \/ Presented(b) = u.flow
               \/ Outlasted(u.flow, flows, configs, now)
  <1> DEFINE b == flows[u.flow].br
             a == flows[u.flow].at
  <1>1. b \in Browsers /\ a \in Nat
    <2>1. flows[u.flow] \in Flow
      BY ElementOfSeq DEF IInv, TypeOK, SealedInv, StateOf
    <2> QED
      BY <2>1 DEF Flow
  <1>2. jar[b].exp \in Nat /\ now \in Nat
    BY <1>1 DEF IInv, TypeOK, Cookie
  <1>3. a <= now
    BY DEF DatedInv, Dated
  <1>4. Beside(u.flow, b, flows) \/ SetWith(jar[b], u.flow, flows, configs)
    BY DEF CookieInv
  <1>5. ASSUME SetWith(jar[b], u.flow, flows, configs), ~(now < jar[b].exp)
        PROVE  Outlasted(u.flow, flows, configs, now)
    <2>1. PICK i \in 1..Len(configs) :
             Life(configs[i]) = 0 \/ jar[b].exp = a + Life(configs[i])
      BY <1>5 DEF SetWith
    <2>2. Life(configs[i]) \in Nat
      BY Lives
    <2>3. \A n, x, t, l \in Nat :
              t <= n /\ ~(n < x) /\ (l = 0 \/ x = t + l) => n - t >= l
      OBVIOUS
    <2>4. now - a >= Life(configs[i])
      <3> HIDE DEF a, b
      <3> QED
        BY <1>1, <1>2, <1>3, <1>5, <2>1, <2>2, <2>3, Zenon
    <2> QED
      BY <2>4 DEF Outlasted
  <1>6. ASSUME SetWith(jar[b], u.flow, flows, configs), now < jar[b].exp
        PROVE  Presented(b) = u.flow
    BY <1>6 DEF SetWith, Presented
  <1> QED
    BY <1>4, <1>5, <1>6

\* A callback brings the state of a consent, and the cookie that goes with it.
LEMMA BringsStep ==
    ASSUME GrantInv, HonestInv, [Next]_vars
    PROVE  BringsInv'
  <1> IInv /\ IInv' /\ Kept /\ TypeOK /\ BringsInv
    BY InvStep, KeptAlways DEF GrantInv, HonestInv, IInv
  <1>0. consents \subseteq consents'
    BY OnlyAdded
  <1>1. ASSUME \A t \in Slots : req'[t] = req[t] \/ req'[t].pc # "callback"
        PROVE  BringsInv'
    BY <1>0, <1>1, BringsGrowth DEF BringsInv
  <1>2. ASSUME NEW s \in Slots, NEW b \in Browsers, NEW u \in consents,
               NEW v \in Received(u), CallbackStart(s, b, v)
        PROVE  BringsInv'
    <2>1. /\ req'[s].url = v /\ req'[s].br = b /\ req'[s].cookie = Presented(b)
          /\ req'[s].first = (b \notin returned)
          /\ \A t \in Slots : t # s => req'[t] = req[t]
      BY <1>2 DEF CallbackStart, TypeOK
    <2>2. ASSUME v.state # Garbage
          PROVE  Brings(req'[s], consents, flows, configs, now)
      <3>1. v.flow = u.flow /\ v.state = u.state
        BY <2>2 DEF Received
      <3>2. ASSUME req'[s].first, b = flows[u.flow].br, u.state.body.nonce # NoNonce
            PROVE  \/ Beside(u.flow, b, flows)
                   \/ Presented(b) = u.flow
                   \/ Outlasted(u.flow, flows, configs, now)
        BY <2>1, <3>2, PresentsItsOwn DEF HonestInv
      <3> QED
        BY <2>1, <3>1, <3>2 DEF Brings
    <2>3. ASSUME NEW t \in Slots, req'[t].pc = "callback", req'[t].url.state # Garbage
          PROVE  Brings(req'[t], consents', flows', configs', now')
      <3>1. Brings(req'[t], consents, flows, configs, now)
        <4>1. CASE t = s
          BY <2>1, <2>2, <2>3, <4>1
        <4>2. CASE t # s
          BY <2>1, <2>3, <4>2 DEF BringsInv
        <4> QED
          BY <4>1, <4>2
      <3> QED
        BY <1>0, <3>1, BringsGrowth
    <2> QED
      BY <2>3 DEF BringsInv
  <1>3. ASSUME NEW s \in Slots, NEW r, r.pc # "callback", req' = [req EXCEPT ![s] = r]
        PROVE  BringsInv'
    BY <1>1, <1>3 DEF TypeOK
  <1>4. Idle.pc # "callback"
    BY DEF Idle
  <1>5. ASSUME NEW s \in Slots, NEW d \in BOOLEAN,
               AuthorizeRedirect(s, d) \/ CallbackRefuse(s, d) \/ CallbackRedirect(s, d)
        PROVE  BringsInv'
    BY <1>3, <1>4, <1>5 DEF AuthorizeRedirect, CallbackRefuse, CallbackRedirect
  <1>6. ASSUME NEW s \in Slots, NEW b \in Browsers, NEW q \in Queries,
               AuthorizeStart(s, b, q)
        PROVE  BringsInv'
    BY <1>3, <1>6 DEF AuthorizeStart
  <1>7. CASE Aside
    BY <1>1, <1>7 DEF Aside
  <1> QED
    BY <1>2, <1>5, <1>6, <1>7, Steps

\* Every reachable state satisfies the invariant.
LEMMA HonestInvariance == Spec => []HonestInv
  <1>1. Init => HonestInv
    BY HonestInvInit
  <1>2. GrantInv /\ HonestInv /\ [Next]_vars => HonestInv'
    <2> SUFFICES ASSUME GrantInv, HonestInv, [Next]_vars
                 PROVE  HonestInv'
      OBVIOUS
    <2> IInv
      BY DEF GrantInv
    <2>1. PendingInv' /\ ReturnedInv'
      BY PendingStep, ReturnedStep DEF HonestInv
    <2>2. DatedInv' /\ WrappedInv' /\ CookieInv'
      BY DatedStep, WrappedStep, CookieStep DEF HonestInv
    <2>3. BringsInv'
      BY BringsStep
    <2> QED
      BY <2>1, <2>2, <2>3 DEF HonestInv
  <1> QED
    BY <1>1, <1>2, GrantInvariance, PTL DEF Spec

-----------------------------------------------------------------------------
(* The theorems *)

\* What a listed key has sealed for a domain opens, from its issue time on and
\* until its TTL is over.
LEMMA OpensInTime ==
    ASSUME NEW cfg \in Configs, NEW domain, NEW e, e # Garbage,
           SignedBy(cfg.ring, e), e.mac = [mat |-> e.mac.mat, domain |-> domain],
           NEW t \in Nat, e.body.iat \in Nat, e.body.iat * Second <= t,
           t - e.body.iat * Second <= cfg.ttl
    PROVE  Open(cfg.ring, domain, e, cfg.ttl, t) = "ok"
  <1>1. ValidRing(cfg.ring) /\ cfg.ttl \in Nat
    BY ConfigsAssumption DEF ValidConfig
  <1>2. PICK i \in 1..Len(cfg.ring) : cfg.ring[i] = [kid |-> e.kid, mat |-> e.mac.mat]
    BY DEF SignedBy
  <1>3. cfg.ring[i].kid = e.kid /\ cfg.ring[i].mat = e.mac.mat
    BY <1>2
  <1>4. Listed(cfg.ring, e.kid) # {} /\ MaterialOf(cfg.ring, e.kid) = e.mac.mat
    <2>1. /\ Listed(cfg.ring, cfg.ring[i].kid) = {i}
          /\ MaterialOf(cfg.ring, cfg.ring[i].kid) = cfg.ring[i].mat
      BY <1>1, MaterialListed
    <2> QED
      BY <1>3, <2>1
  <1>5. Authentic(cfg.ring, domain, e)
    BY <1>4 DEF Authentic
  <1>6. e.body.iat * Second \in Nat
    BY ClockAssumption
  <1>7. ~Future(e, t) /\ ~Stale(e, cfg.ttl, t)
    <2>1. \A n, l \in Nat : n <= t /\ t - n <= l => ~(n - t > Skew) /\ ~(t - n > l)
      BY ClockAssumption
    <2> QED
      BY <1>1, <1>6, <2>1 DEF Future, Stale
  <1>8. Len(cfg.ring) # 0
    BY <1>1 DEF ValidRing
  <1> QED
    BY <1>4, <1>5, <1>7, <1>8, Zenon DEF Open

(***************************************************************************)
(* HonestExchangeSent holds: an application that presents its credentials  *)
(* and its own wrapped code, in time and under a key still listed, is      *)
(* never turned away before Strava has been asked (token.go:65-105).       *)
(***************************************************************************)
THEOREM HonestExchangeSentHolds == Spec => HonestExchangeSent
  <1>1. ASSUME IInv, WrappedInv, NEW s \in Slots,
               req[s].pc = "token", req[s].form # Garbage,
               HasSecret(Snapshot(s), req[s].form.cid, req[s].form.secret),
               NEW m \in apps, m.code = req[s].form.code,
               QueryOf(m.flow).cid = req[s].form.cid,
               Fresh(m.code.body.iat * Second, Snapshot(s).ttl),
               SignedBy(Snapshot(s).ring, m.code)
        PROVE  TokenVerdict(Snapshot(s), req[s].form, now) = "send"
    <2> DEFINE cfg  == Snapshot(s)
               form == req[s].form
               e    == form.code
    <2>0. TypeOK /\ RequestsInv
      BY <1>1 DEF IInv
    <2>1. cfg \in Configs
      BY <1>1, <2>0, ElementOfSeq DEF RequestsInv, RequestInv, Snapshot, TypeOK
    <2>2. form \in Form
      BY <1>1, <2>0, RequestTypes DEF TokenRequest
    <2>3. e \in CodeEnvelope /\ e # NoCode /\ e # Garbage
      <3>1. e \in CodeEnvelope \cup StateEnvelope \cup {Garbage}
        BY <2>2 DEF Form
      <3>2. e \in CodeEnvelope \cup {NoCode}
        BY <1>1, <2>0 DEF TypeOK, AppRedirect
      <3> QED
        BY <3>1, <3>2, SentinelAssumption
    <2>4. Wrapped(m, flows, now) /\ m.code = e
      BY <1>1, <2>3 DEF WrappedInv
    <2>5. /\ e.mac.domain = DomainCode /\ e.body.cid = form.cid
          /\ e.body.iat \in Nat /\ e.body.iat * Second <= now
      BY <1>1, <2>4 DEF Wrapped, QueryOf
    <2>6. e.mac = [mat |-> e.mac.mat, domain |-> DomainCode]
      BY <2>3, <2>5 DEF CodeEnvelope, EnvelopeOf
    <2>7. now - e.body.iat * Second <= cfg.ttl
      <3>1. cfg.ttl \in Nat /\ now \in Nat
        BY <2>0, <2>1, ConfigsAssumption DEF ValidConfig, TypeOK
      <3>4. e.body.iat * Second \in Nat
        <4>1. \A i \in Nat : i * Second \in Nat
          BY ClockAssumption
        <4> QED
          BY <2>5, <4>1, Zenon
      <3>2. now - e.body.iat * Second <= cfg.ttl - (Second - 1)
        BY <1>1 DEF Fresh
      <3>3. \A n, i, l \in Nat : n - i <= l - (Second - 1) => n - i <= l
        BY ClockAssumption
      <3> QED
        BY <3>1, <3>2, <3>3, <3>4, Zenon
    <2>8. Open(cfg.ring, DomainCode, e, cfg.ttl, now) = "ok"
      BY <1>1, <2>0, <2>1, <2>3, <2>5, <2>6, <2>7, OpensInTime DEF TypeOK
    <2>9. /\ Registered(cfg, form.cid) /\ VerifySecret(cfg, form.cid, form.secret)
          /\ form.grant = "authorization_code"
      BY <1>1, <2>2 DEF HasSecret, Registered, VerifySecret, Form
    <2> HIDE DEF cfg, form, e
    <2>10. TokenVerdict(cfg, form, now) = "send"
      BY <1>1, <2>5, <2>8, <2>9, Zenon DEF TokenVerdict, form, e
    <2> QED
      BY <2>10 DEF cfg, form
  <1>2. IInv /\ WrappedInv /\ [Next]_vars =>
          [\A s \in Slots :
             /\ TokenReject(s)
             /\ req[s].form # Garbage
             => LET form == req[s].form
                    cfg  == Snapshot(s)
                IN  ~(/\ HasSecret(cfg, form.cid, form.secret)
                      /\ \E m \in apps :
                            /\ m.code = form.code
                            /\ QueryOf(m.flow).cid = form.cid
                            /\ Fresh(m.code.body.iat * Second, cfg.ttl)
                            /\ SignedBy(cfg.ring, m.code))]_vars
    BY <1>1 DEF TokenReject
  <1>3. HonestInv => WrappedInv
    BY DEF HonestInv
  <1> QED
    BY <1>2, <1>3, Invariance, HonestInvariance, PTL DEF Spec, HonestExchangeSent

(***************************************************************************)
(* HonestCallbackAccepted holds: a user who comes back in time, in the     *)
(* browser that started the flow and without another flow beside it, is    *)
(* never refused, over any number of reloads and restarts, as long as the  *)
(* snapshot registers the client and its URI and lists the key             *)
(* (callback.go:44-90).                                                    *)
(***************************************************************************)
THEOREM HonestCallbackAcceptedHolds == Spec => HonestCallbackAccepted
  <1>1. ASSUME GrantInv, NonceInv, HonestInv, NEW s \in Slots,
               req[s].pc = "callback", req[s].url.state # Garbage,
               Fresh(flows[req[s].url.flow].at, Snapshot(s).ttl),
               SignedBy(Snapshot(s).ring, req[s].url.state),
               Registers(Snapshot(s), QueryOf(req[s].url.flow).cid,
                         QueryOf(req[s].url.flow).ru),
               Snapshot(s).clients[QueryOf(req[s].url.flow).cid].nonce
                   => CookieUndisturbed(s)
        PROVE  Verdict(s) \notin Refusals
    <2> DEFINE cfg == Snapshot(s)
               u   == req[s].url
               e   == u.state
               f   == u.flow
               a   == flows[f].at
    <2>0. /\ IInv /\ TypeOK /\ RequestsInv /\ SealedInv /\ FaithInv
          /\ DatedInv /\ BringsInv /\ CarryInv
      BY <1>1 DEF GrantInv, IInv, NonceInv, HonestInv
    <2>1. cfg \in Configs
      BY <1>1, <2>0, ElementOfSeq DEF RequestsInv, RequestInv, Snapshot, TypeOK
    <2>2. PICK w \in consents :
             /\ f = w.flow /\ e = w.state
             /\ req[s].first /\ req[s].br = flows[f].br /\ e.body.nonce # NoNonce
                => \/ Beside(f, req[s].br, flows)
                   \/ req[s].cookie = f
                   \/ Outlasted(f, flows, configs, now)
      BY <1>1, <2>0 DEF BringsInv, Brings
    <2>3. e \in StateEnvelope /\ StateOf(e, f, flows) /\ Faithful(e, f, flows)
      BY <2>0, <2>2 DEF TypeOK, Consent, SealedInv, FaithInv
    <2>4. e.body.iat = Unix(a) /\ a <= now
      BY <2>0, <2>2 DEF DatedInv, Dated
    <2>5. a \in Nat /\ now \in Nat
      <3>1. flows[f] \in Flow
        BY <2>0, <2>3, ElementOfSeq DEF StateOf, TypeOK
      <3> QED
        BY <2>0, <3>1 DEF Flow, TypeOK
    <2>6. Open(cfg.ring, DomainState, e, cfg.ttl, now) = "ok"
      <3>1. /\ Unix(a) \in Nat /\ Unix(a) * Second <= a
            /\ a < Unix(a) * Second + Second
        BY <2>5, UnixBounds
      <3>2. cfg.ttl \in Nat
        BY <2>1, ConfigsAssumption DEF ValidConfig
      <3>3. now - a <= cfg.ttl - (Second - 1)
        BY <1>1 DEF Fresh
      <3>4. \A n, t, i, l \in Nat :
               /\ i <= t /\ t < i + Second /\ t <= n /\ n - t <= l - (Second - 1)
               => i <= n /\ n - i <= l
        BY ClockAssumption
      <3>5. Unix(a) * Second \in Nat
        <4>1. \A i \in Nat : i * Second \in Nat
          BY ClockAssumption
        <4> QED
          BY <3>1, <4>1, Zenon
      <3>6. Unix(a) * Second <= now /\ now - Unix(a) * Second <= cfg.ttl
        <4> HIDE DEF a, cfg
        <4> QED
          BY <2>4, <2>5, <3>1, <3>2, <3>3, <3>4, <3>5, Zenon
      <3>7. e.mac = [mat |-> e.mac.mat, domain |-> DomainState]
        BY <2>3 DEF StateEnvelope, EnvelopeOf, StateOf
      <3> QED
        BY <1>1, <2>1, <2>4, <2>5, <3>1, <3>6, <3>7, OpensInTime
    <2>7. Registered(cfg, e.body.cid) /\ AllowsRedirectURI(cfg, e.body.cid, e.body.ru)
      BY <1>1, <2>3
         DEF Registers, QueryOf, StateOf, Faithful, Registered, AllowsRedirectURI
    <2>8. ASSUME cfg.clients[e.body.cid].nonce
          PROVE  NonceAccepted(req[s].cookie, e.body)
      <3>1. CookieUndisturbed(s)
        BY <1>1, <2>3, <2>8 DEF StateOf, QueryOf
      <3>2. /\ req[s].br = flows[f].br /\ req[s].first /\ e.body.nonce # NoNonce
            /\ \A g \in 1..Len(flows) : flows[g].br = req[s].br => g = f
            /\ \A i \in 1..Len(configs) : now - a < Life(configs[i])
        BY <3>1 DEF CookieUndisturbed, Life
      <3>3. ~Beside(f, req[s].br, flows)
        BY <3>2 DEF Beside
      <3>4. ~Outlasted(f, flows, configs, now)
        <4>1. ASSUME NEW i \in 1..Len(configs)
              PROVE  ~(now - a >= Life(configs[i]))
          <5>1. Life(configs[i]) \in Nat
            BY <2>0, Lives
          <5> QED
            BY <2>5, <3>2, <5>1
        <4> QED
          BY <4>1 DEF Outlasted
      <3>5. req[s].cookie = f
        BY <2>2, <3>2, <3>3, <3>4
      <3>6. e.body.nonce = f
        BY <2>0, <2>2, <3>2 DEF CarryInv, OwnNonce
      <3> QED
        BY <3>2, <3>5, <3>6 DEF NonceAccepted
    <2>9. Verdict(s) \in Redirects \cup {"missing_code"}
      <3> HIDE DEF cfg, e
      <3>1. CallbackVerdict(cfg, u, req[s].cookie, now)
              \in {"upstream_error", "missing_code", "success"}
        BY <2>6, <2>7, <2>8 DEF CallbackVerdict, e
      <3> QED
        BY <3>1 DEF Verdict, Redirects, cfg
    <2> QED
      BY <2>9 DEF Redirects, Refusals
  <1>2. GrantInv /\ NonceInv /\ HonestInv /\ [Next]_vars =>
          [\A s \in Slots : CallbackEnds(s, Refusals) =>
             LET u   == req[s].url
                 q   == QueryOf(u.flow)
                 cfg == Snapshot(s)
             IN  ~(/\ u.state # Garbage
                   /\ Fresh(flows[u.flow].at, cfg.ttl)
                   /\ SignedBy(cfg.ring, u.state)
                   /\ Registers(cfg, q.cid, q.ru)
                   /\ cfg.clients[q.cid].nonce => CookieUndisturbed(s))]_vars
    BY <1>1 DEF CallbackEnds
  <1> QED
    BY <1>2, GrantInvariance, NonceInvariance, HonestInvariance, PTL
       DEF Spec, HonestCallbackAccepted
=============================================================================
