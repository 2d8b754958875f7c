---------------------------- MODULE NonceProofs -----------------------------
(***************************************************************************)
(* The browser binding of the nonce cookie, for any number of browsers     *)
(* that run any number of flows at the same time.                          *)
(*                                                                         *)
(* NonceBinding compares a browser with a flow; the handler compares a     *)
(* cookie with a sealed nonce.  What makes the two the same is that a jar  *)
(* only ever holds a nonce drawn for its own browser, that a request       *)
(* presents what a jar held, and that a state carries the nonce of its own *)
(* flow or none at all.                                                    *)
(***************************************************************************)
EXTENDS AuthGrantProofs

\* The nonce n, if it is one, was drawn for a flow of browser b.
DrawnFor(n, b, fs) ==
    n # NoNonce => n \in 1..Len(fs) /\ fs[n].br = b

\* A sealed state carries the nonce of its flow, or none.
OwnNonce(u) == u.state.body.nonce \in {u.flow, NoNonce}

\* No flow changes its browser.
BrowsersKept(fs, fs2) ==
    /\ Len(fs) <= Len(fs2)
    /\ \A f \in 1..Len(fs) : fs2[f].br = fs[f].br

JarInv     == \A b \in Browsers : DrawnFor(jar[b].nonce, b, flows)
PresentInv == \A s \in Slots : req[s].pc = "callback" =>
                  DrawnFor(req[s].cookie, req[s].br, flows)
CarryInv   == \A u \in consents : OwnNonce(u)

NonceInv == JarInv /\ PresentInv /\ CarryInv

-----------------------------------------------------------------------------

(***************************************************************************)
(* No flow ever changes its browser.                                       *)
(***************************************************************************)
LEMMA BrowsersStay ==
    ASSUME IInv, [Next]_vars
    PROVE  BrowsersKept(flows, flows')
  <1> flows \in Seq(Flow) /\ Len(flows) \in Nat
    BY LenProperties DEF IInv, TypeOK
  <1>1. ASSUME NEW s \in Slots, NEW c \in Browsers, NEW q \in Queries,
               AuthorizeStart(s, c, q)
        PROVE  BrowsersKept(flows, flows')
    <2>1. [br |-> c, q |-> q, at |-> 0] \in Flow
      BY QueriesAssumption DEF Flow
    <2> QED
      BY <1>1, <2>1, AppendProperties DEF AuthorizeStart, BrowsersKept
  <1>2. ASSUME NEW s \in Slots, NEW delivered \in BOOLEAN,
               AuthorizeRedirect(s, delivered)
        PROVE  BrowsersKept(flows, flows')
    <2> DEFINE f == req[s].flow
    <2>1. f \in 1..Len(flows)
      BY <1>2 DEF IInv, RequestsInv, RequestInv, AuthorizeRedirect
    <2>2. flows[f] \in Flow
      BY <2>1, ElementOfSeq
    <2>3. /\ [flows[f] EXCEPT !.at = now] \in Flow
          /\ [flows[f] EXCEPT !.at = now].br = flows[f].br
      BY <2>2 DEF Flow, IInv, TypeOK
    <2>4. flows' = [flows EXCEPT ![f] = [flows[f] EXCEPT !.at = now]]
      BY <1>2 DEF AuthorizeRedirect
    <2> QED
      BY <2>1, <2>3, <2>4, ExceptSeq DEF BrowsersKept
  <1>3. ASSUME flows' = flows
        PROVE  BrowsersKept(flows, flows')
    BY <1>3 DEF BrowsersKept
  <1>4. ASSUME NEW s \in Slots, Handler(s)
        PROVE  BrowsersKept(flows, flows')
    BY <1>2, <1>3, <1>4
       DEF Handler, AuthorizeReject, CallbackRefuse, CallbackRedirect, TokenRelay,
           TokenReject, TokenSend, TokenFail, browserVars
  <1>5. ASSUME NEW s \in Slots, Arrival(s)
        PROVE  BrowsersKept(flows, flows')
    BY <1>1, <1>3, <1>5 DEF Arrival, CallbackStart, TokenStart, browserVars
  <1>6. ASSUME Strava \/ Operator \/ Tick \/ UNCHANGED vars
        PROVE  flows' = flows
    BY <1>6
       DEF Strava, StravaApprove, StravaExchange, StravaLate,
           Operator, Reload, Restart, Tick, vars, browserVars
  <1> QED
    BY <1>3, <1>4, <1>5, <1>6 DEF Next

(***************************************************************************)
(* What was drawn for a browser stays so.                                  *)
(***************************************************************************)
LEMMA DrawnStays ==
    ASSUME IInv, [Next]_vars, NEW n, NEW b, DrawnFor(n, b, flows)
    PROVE  DrawnFor(n, b, flows')
  BY BrowsersStay, LenProperties DEF DrawnFor, BrowsersKept, IInv, TypeOK

(***************************************************************************)
(* The initial states satisfy the invariant.                               *)
(***************************************************************************)
LEMMA NonceInvInit ==
    ASSUME Init
    PROVE  NonceInv
  BY DEF Init, NonceInv, JarInv, PresentInv, CarryInv, DrawnFor, NoCookie, Idle

(***************************************************************************)
(* Every step keeps what the jars hold: a jar changes by a Set-Cookie with *)
(* a nonce drawn for its browser, or by one that clears it.                *)
(***************************************************************************)
LEMMA JarStep ==
    ASSUME IInv, JarInv, [Next]_vars
    PROVE  JarInv'
  <1> USE DEF proxyVars, browserVars, stravaVars
  <1> TypeOK /\ RequestsInv
    BY DEF IInv
  <1>0. \A b \in Browsers : DrawnFor(jar[b].nonce, b, flows')
    BY DrawnStays DEF JarInv
  <1>1. CASE jar' = jar
    BY <1>0, <1>1 DEF JarInv
  <1>2. ASSUME NEW s \in Slots, NEW delivered \in BOOLEAN,
               AuthorizeRedirect(s, delivered)
        PROVE  JarInv'
    <2> DEFINE f == req[s].flow
               c == NonceCookie(Snapshot(s), f)
    <2>1. f \in 1..Len(flows) /\ c.nonce = f
      BY <1>2 DEF RequestsInv, RequestInv, AuthorizeRedirect, NonceCookie
    <2>2. DrawnFor(f, flows[f].br, flows)
      BY <2>1 DEF DrawnFor
    <2>3. DrawnFor(f, flows[f].br, flows')
      BY <2>2, DrawnStays
    <2>4. jar' = jar \/ jar' = [jar EXCEPT ![flows[f].br] = c]
      BY <1>2 DEF AuthorizeRedirect
    <2> HIDE DEF c, f
    <2> QED
      BY <1>0, <1>1, <2>1, <2>3, <2>4 DEF JarInv, TypeOK
  <1>3. ASSUME NEW s \in Slots, NEW delivered \in BOOLEAN,
               CallbackRefuse(s, delivered) \/ CallbackRedirect(s, delivered)
        PROVE  JarInv'
    <2>1. jar' = jar \/ jar' = [jar EXCEPT ![req[s].br] = NoCookie]
      BY <1>3 DEF CallbackRefuse, CallbackRedirect, CookiesAfter
    <2>2. \A b \in Browsers : DrawnFor(NoCookie.nonce, b, flows')
      BY DEF DrawnFor, NoCookie
    <2> QED
      BY <1>0, <1>1, <2>1, <2>2 DEF JarInv, TypeOK
  <1> QED
    BY <1>1, <1>2, <1>3
       DEF Next, Handler, Arrival, Strava, Operator, AuthorizeReject, TokenRelay,
           TokenReject, TokenSend, TokenFail, AuthorizeStart, CallbackStart,
           TokenStart, StravaApprove, StravaExchange, StravaLate,
           Reload, Restart, Tick, vars

(***************************************************************************)
(* Every step keeps what the callbacks under way present: what their       *)
(* browser's jar held when they were sent.                                 *)
(***************************************************************************)
LEMMA PresentStep ==
    ASSUME IInv, JarInv, PresentInv, [Next]_vars
    PROVE  PresentInv'
  <1> USE DEF proxyVars, browserVars, stravaVars
  <1> TypeOK
    BY DEF IInv
  <1>0. ASSUME NEW s \in Slots, req[s].pc = "callback"
        PROVE  DrawnFor(req[s].cookie, req[s].br, flows')
    BY <1>0, DrawnStays DEF PresentInv
  <1>1. ASSUME \A s \in Slots : req'[s] = req[s] \/ req'[s].pc # "callback"
        PROVE  PresentInv'
    BY <1>0, <1>1 DEF PresentInv
  <1>2. ASSUME NEW s \in Slots, NEW b \in Browsers, NEW u, CallbackStart(s, b, u)
        PROVE  PresentInv'
    <2>1. DrawnFor(Presented(b), b, flows)
      BY DEF JarInv, Presented, DrawnFor
    <2>2. DrawnFor(Presented(b), b, flows')
      BY <2>1, DrawnStays
    <2>3. /\ req'[s].cookie = Presented(b) /\ req'[s].br = b
          /\ \A t \in Slots : t # s => req'[t] = req[t]
      BY <1>2 DEF CallbackStart, TypeOK
    <2> QED
      BY <1>0, <2>2, <2>3 DEF PresentInv
  <1>3. ASSUME NEW s \in Slots, NEW r, r.pc # "callback",
               req' = [req EXCEPT ![s] = r]
        PROVE  PresentInv'
    BY <1>1, <1>3 DEF TypeOK
  <1>4. ASSUME NEW s \in Slots, StravaExchange(s)
        PROVE  PresentInv'
    <2>1. \A t \in Slots : t # s => req'[t] = req[t]
      BY <1>4 DEF StravaExchange, TypeOK
    <2>2. req[s] \in ExchangeRequest
      BY <1>4, RequestTypes DEF StravaExchange
    <2>3. req'[s].pc = "answered"
      BY <1>4, <2>2 DEF StravaExchange, TypeOK, ExchangeRequest
    <2> QED
      BY <1>1, <2>1, <2>3
  <1>5. ASSUME NEW s \in Slots, Handler(s)
        PROVE  PresentInv'
    <2>1. Idle.pc # "callback"
      BY DEF Idle
    <2>2. ASSUME TokenSend(s)
          PROVE  PresentInv'
      BY <1>3, <2>2 DEF TokenSend
    <2> QED
      BY <1>3, <1>5, <2>1, <2>2
         DEF Handler, AuthorizeReject, AuthorizeRedirect, CallbackRefuse,
             CallbackRedirect, TokenRelay, TokenReject, TokenFail
  <1>6. ASSUME NEW s \in Slots, Arrival(s)
        PROVE  PresentInv'
    BY <1>2, <1>3, <1>6 DEF Arrival, AuthorizeStart, TokenStart
  <1>7. ASSUME NEW cfg \in Configs, NEW arrives \in BOOLEAN, Restart(cfg, arrives)
        PROVE  PresentInv'
    BY <1>7 DEF Restart, Idle, PresentInv
  <1>8. CASE req' = req
    BY <1>1, <1>8
  <1>9. ASSUME Strava \/ Operator \/ Tick \/ UNCHANGED vars
        PROVE  PresentInv'
    BY <1>4, <1>7, <1>8, <1>9
       DEF Strava, StravaApprove, StravaLate, Operator, Reload, Tick, vars
  <1> QED
    BY <1>5, <1>6, <1>9 DEF Next

(***************************************************************************)
(* Every step keeps what the states in circulation carry.                  *)
(***************************************************************************)
LEMMA CarryStep ==
    ASSUME IInv, CarryInv, [Next]_vars
    PROVE  CarryInv'
  <1> USE DEF proxyVars, browserVars, stravaVars
  <1>1. ASSUME NEW s \in Slots, NEW delivered \in BOOLEAN,
               AuthorizeRedirect(s, delivered)
        PROVE  CarryInv'
    <2> DEFINE f == req[s].flow
               u == [flow |-> f, state |-> SealState(Snapshot(s), flows[f].q, f, now)]
    <2>1. OwnNonce(u)
      BY DEF OwnNonce, SealState, Seal, StatePayload
    <2>2. consents' \subseteq consents \cup {u}
      BY <1>1 DEF AuthorizeRedirect
    <2> QED
      BY <2>1, <2>2 DEF CarryInv
  <1>2. CASE UNCHANGED consents
    BY <1>2 DEF CarryInv
  <1> QED
    BY <1>1, <1>2
       DEF Next, Handler, Arrival, Strava, Operator, AuthorizeReject, CallbackRefuse,
           CallbackRedirect, TokenRelay, TokenReject, TokenSend, TokenFail,
           AuthorizeStart, CallbackStart, TokenStart, StravaApprove, StravaExchange,
           StravaLate, Reload, Restart, Tick, vars

(***************************************************************************)
(* Every reachable state satisfies the invariant.                          *)
(***************************************************************************)
LEMMA NonceInvariance == Spec => []NonceInv
  <1>1. Init => NonceInv
    BY NonceInvInit
  <1>2. IInv /\ NonceInv /\ [Next]_vars => NonceInv'
    BY JarStep, PresentStep, CarryStep DEF NonceInv
  <1> QED
    BY <1>1, <1>2, Invariance, PTL DEF Spec

(***************************************************************************)
(* NonceBinding holds: where the nonce cookie is required, a callback gets *)
(* past the check only in the browser whose very flow it completes         *)
(* (callback.go:77-90).                                                    *)
(***************************************************************************)
THEOREM NonceBindingHolds == Spec => NonceBinding
  <1>1. ASSUME GrantInv, NonceInv, NEW s \in Slots,
               CallbackEnds(s, Redirects \cup {"missing_code"}),
               Snapshot(s).clients[QueryOf(req[s].url.flow).cid].nonce
        PROVE  /\ req[s].br = flows[req[s].url.flow].br
               /\ req[s].cookie = req[s].url.flow
    <2> DEFINE u   == req[s].url
               cfg == Snapshot(s)
    <2>0. IInv /\ TypeOK /\ RequestsInv /\ FaithInv /\ BackedInv
      BY <1>1 DEF GrantInv, IInv
    <2>1. req[s].pc = "callback" /\ Verdict(s) \in Redirects \cup {"missing_code"}
      BY <1>1 DEF CallbackEnds
    <2>2. /\ Open(cfg.ring, DomainState, u.state, cfg.ttl, now) = "ok"
          /\ cfg.clients[u.state.body.cid].nonce => NonceAccepted(req[s].cookie, u.state.body)
      BY <2>1 DEF Verdict, CallbackVerdict, Redirects
    <2>3. u.state # Garbage
      BY <2>2, OpenSound
    <2>4. u.state.body.cid = flows[u.flow].q.cid
      BY <2>0, <2>1, <2>3 DEF RequestsInv, RequestInv, GoodURL, StateOf
    <2>5. OwnNonce(u)
      <3>1. PICK v \in consents : v.flow = u.flow /\ v.state = u.state
        BY <2>0, <2>1, <2>3 DEF BackedInv, Backed
      <3> QED
        BY <1>1, <3>1 DEF NonceInv, CarryInv, OwnNonce
    <2>6. req[s].cookie = u.state.body.nonce /\ u.state.body.nonce # NoNonce
      BY <1>1, <2>2, <2>4 DEF NonceAccepted, QueryOf
    <2>7. req[s].cookie = u.flow
      BY <2>5, <2>6 DEF OwnNonce
    <2>8. DrawnFor(req[s].cookie, req[s].br, flows)
      BY <1>1, <2>1 DEF NonceInv, PresentInv
    <2> QED
      BY <2>6, <2>7, <2>8 DEF DrawnFor
  <1>2. GrantInv /\ NonceInv /\ [Next]_vars =>
          [\A s \in Slots :
             /\ CallbackEnds(s, Redirects \cup {"missing_code"})
             /\ Snapshot(s).clients[QueryOf(req[s].url.flow).cid].nonce
             => /\ req[s].br = flows[req[s].url.flow].br
                /\ req[s].cookie = req[s].url.flow]_vars
    BY <1>1
  <1> QED
    BY <1>2, GrantInvariance, NonceInvariance, PTL DEF Spec, NonceBinding
=============================================================================
