-------------------------- MODULE AuthGrantProofs ---------------------------
(***************************************************************************)
(* OAuthFlow implements AuthGrant, for any number of concurrent requests,  *)
(* clients, browsers, flows, codes, configurations and reloads; and what   *)
(* follows from the invariant this takes.                                  *)
(*                                                                         *)
(* IInv says whose every message is.  The refinement needs more: that a    *)
(* sealed state still says where its flow was to end and with which state  *)
(* of the caller, that the state of a callback under way was once handed   *)
(* out, and that a code which is spent was once told to an application.    *)
(***************************************************************************)
EXTENDS OAuthFlowProofs

\* The envelope e says what flow f asked for.
Faithful(e, f, fs) ==
    e.body.ru = fs[f].q.ru /\ e.body.st = Marshalled(fs[f].q.st)

\* The redirect m says what its flow asked for.
FaithfulRedirect(m, fs) ==
    /\ m.flow \in 1..Len(fs)
    /\ m.ru = fs[m.flow].q.ru
    /\ m.st = Marshalled(fs[m.flow].q.st)

FaithInv ==
    /\ \A u \in consents : Faithful(u.state, u.flow, flows)
    /\ \A m \in apps     : FaithfulRedirect(m, flows)

\* Some application was told the raw code c.
Known(c, as) == \E m \in as : m.code # NoCode /\ m.code.body.sc = c

\* The state that the request brought back was handed out before.
Backed(r, cns) ==
    r.pc = "callback" /\ r.url.state # Garbage =>
        \E u \in cns : u.flow = r.url.flow /\ u.state = r.url.state

BackedInv ==
    /\ \A s \in Slots : Backed(req[s], consents)
    /\ \A c \in orphans : Known(c, apps)

GrantInv == IInv /\ FaithInv /\ BackedInv

-----------------------------------------------------------------------------
(* Messages and flows are only ever added *)

(***************************************************************************)
(* No step takes a message, a redirect or a flow back, or changes what a   *)
(* flow asked for.                                                         *)
(***************************************************************************)
LEMMA OnlyAdded ==
    ASSUME IInv, [Next]_vars
    PROVE  /\ FlowsGrow(flows, flows')
           /\ consents \subseteq consents'
           /\ apps \subseteq apps'
  <1> USE DEF proxyVars, browserVars, stravaVars
  <1> flows \in Seq(Flow) /\ Len(flows) \in Nat
    BY LenProperties DEF IInv, TypeOK
  <1>0. FlowsGrow(flows, flows)
    BY DEF FlowsGrow
  <1>1. ASSUME NEW s \in Slots, NEW b \in Browsers, NEW q \in Queries,
               AuthorizeStart(s, b, q)
        PROVE  FlowsGrow(flows, flows')
    <2>1. [br |-> b, q |-> q, at |-> 0] \in Flow
      BY QueriesAssumption DEF Flow
    <2> QED
      BY <1>1, <2>1, AppendProperties DEF AuthorizeStart, FlowsGrow
  <1>2. ASSUME NEW s \in Slots, NEW delivered \in BOOLEAN,
               AuthorizeRedirect(s, delivered)
        PROVE  FlowsGrow(flows, flows')
    <2> DEFINE f == req[s].flow
    <2>1. f \in 1..Len(flows)
      BY <1>2 DEF IInv, RequestsInv, RequestInv, AuthorizeRedirect
    <2>2. flows[f] \in Flow
      BY <2>1, ElementOfSeq
    <2>3. /\ [flows[f] EXCEPT !.at = now] \in Flow
          /\ [flows[f] EXCEPT !.at = now].q = flows[f].q
      BY <2>2 DEF Flow, IInv, TypeOK
    <2>4. flows' = [flows EXCEPT ![f] = [flows[f] EXCEPT !.at = now]]
      BY <1>2 DEF AuthorizeRedirect
    <2> QED
      BY <2>1, <2>3, <2>4, ExceptSeq DEF FlowsGrow
  <1>3. CASE UNCHANGED vars
    BY <1>0, <1>3 DEF vars
  <1>4. ASSUME NEW s \in Slots, Handler(s)
        PROVE  /\ FlowsGrow(flows, flows')
               /\ consents \subseteq consents' /\ apps \subseteq apps'
    BY <1>0, <1>2, <1>4
       DEF Handler, AuthorizeReject, AuthorizeRedirect, CallbackRefuse,
           CallbackRedirect, TokenRelay, TokenReject, TokenSend, TokenFail
  <1>5. ASSUME NEW s \in Slots, Arrival(s)
        PROVE  /\ FlowsGrow(flows, flows')
               /\ consents \subseteq consents' /\ apps \subseteq apps'
    BY <1>0, <1>1, <1>5
       DEF Arrival, AuthorizeStart, CallbackStart, TokenStart
  <1>6. ASSUME Strava \/ Operator \/ Tick
        PROVE  /\ FlowsGrow(flows, flows')
               /\ consents \subseteq consents' /\ apps \subseteq apps'
    BY <1>0, <1>6
       DEF Strava, StravaApprove, StravaExchange, StravaLate, Operator,
           Reload, Restart, Tick
  <1> QED
    BY <1>3, <1>4, <1>5, <1>6 DEF Next

(***************************************************************************)
(* What was faithful stays faithful as flows are added.                    *)
(***************************************************************************)
LEMMA FaithGrowth ==
    ASSUME NEW fs \in Seq(Flow), NEW fs2 \in Seq(Flow), FlowsGrow(fs, fs2)
    PROVE  /\ \A e : \A f \in 1..Len(fs) : Faithful(e, f, fs) => Faithful(e, f, fs2)
           /\ \A m : FaithfulRedirect(m, fs) => FaithfulRedirect(m, fs2)
  BY LenProperties DEF FlowsGrow, Faithful, FaithfulRedirect

(***************************************************************************)
(* Who was told a code makes it known.                                     *)
(***************************************************************************)
LEMMA InformedKnown ==
    ASSUME NEW cid, NEW c, NEW fs, NEW ms, Informed(cid, c, fs, ms)
    PROVE  Known(c, ms)
  BY DEF Informed, Known

(***************************************************************************)
(* Slots may be given requests whose state was handed out, and calls given *)
(* up on, without breaking BackedInv.                                      *)
(***************************************************************************)
LEMMA BackedStep ==
    ASSUME BackedInv, consents \subseteq consents', apps \subseteq apps',
           \A t \in Slots : \/ req'[t] = req[t]
                            \/ req'[t].pc # "callback"
                            \/ Backed(req'[t], consents),
           \A c \in orphans' : c \in orphans \/ Known(c, apps)
    PROVE  BackedInv'
  <1>1. \A t \in Slots : Backed(req'[t], consents')
    BY DEF BackedInv, Backed
  <1>2. \A c : Known(c, apps) => Known(c, apps')
    BY DEF Known
  <1> QED
    BY <1>1, <1>2 DEF BackedInv

-----------------------------------------------------------------------------
(* The invariant *)

(***************************************************************************)
(* The initial states satisfy it.                                          *)
(***************************************************************************)
LEMMA GrantInvInit ==
    ASSUME Init
    PROVE  GrantInv
  <1>1. FaithInv
    BY DEF Init, FaithInv
  <1>2. BackedInv
    BY DEF Init, BackedInv, Backed, Idle
  <1> QED
    BY <1>1, <1>2, InvInit DEF GrantInv

(***************************************************************************)
(* A callback that redirects carries a state that says what its flow asked *)
(* for, because it was once handed out in a consent URL.                   *)
(***************************************************************************)
LEMMA RedirectsFaithfully ==
    ASSUME GrantInv, NEW s \in Slots,
           req[s].pc = "callback", Verdict(s) \in Redirects
    PROVE  LET u == req[s].url
           IN  /\ u.flow \in 1..Len(flows)
               /\ u.state.body.cid = flows[u.flow].q.cid
               /\ Faithful(u.state, u.flow, flows)
               /\ u.flow \in Offers
  <1> DEFINE u == req[s].url
  <1>0. TypeOK /\ RequestsInv
    BY DEF GrantInv, IInv
  <1>1. u.state \in StateEnvelope /\ StateOf(u.state, u.flow, flows)
    BY <1>0, RedirectsTheSealed
  <1>2. u.state # Garbage
    BY <1>1, SentinelAssumption
  <1>3. PICK v \in consents : v.flow = u.flow /\ v.state = u.state
    BY <1>2 DEF GrantInv, BackedInv, Backed
  <1>4. Faithful(u.state, u.flow, flows)
    BY <1>3 DEF GrantInv, FaithInv
  <1>5. u.flow \in Offers
    BY <1>3 DEF Offers
  <1> QED
    BY <1>1, <1>4, <1>5 DEF StateOf

(***************************************************************************)
(* Every step keeps FaithInv.                                              *)
(***************************************************************************)
LEMMA FaithStep ==
    ASSUME GrantInv, [Next]_vars
    PROVE  FaithInv'
  <1> USE DEF proxyVars, browserVars, stravaVars
  <1> IInv /\ FaithInv /\ IInv'
    BY InvStep DEF GrantInv
  <1> TypeOK /\ SealedInv /\ RequestsInv /\ TypeOK' /\ SealedInv'
    BY DEF IInv
  <1>0. /\ flows \in Seq(Flow) /\ flows' \in Seq(Flow)
        /\ FlowsGrow(flows, flows')
    BY OnlyAdded DEF TypeOK
  <1>1. /\ \A u \in consents : Faithful(u.state, u.flow, flows')
        /\ \A m \in apps     : FaithfulRedirect(m, flows')
    BY <1>0, FaithGrowth DEF FaithInv, SealedInv, StateOf
  \* What is added is faithful as well.
  <1>2. ASSUME NEW s \in Slots, NEW delivered \in BOOLEAN,
               AuthorizeRedirect(s, delivered)
        PROVE  FaithInv'
    <2> DEFINE f == req[s].flow
               e == SealState(Snapshot(s), flows[f].q, f, now)
    <2>1. f \in 1..Len(flows)
      BY <1>2 DEF RequestsInv, RequestInv, AuthorizeRedirect
    <2>2. Faithful(e, f, flows)
      BY DEF Faithful, SealState, Seal, StatePayload
    <2>3. Faithful(e, f, flows')
      BY <1>0, <2>1, <2>2, FaithGrowth
    <2>4. /\ consents' \subseteq consents \cup {[flow |-> f, state |-> e]}
          /\ apps' = apps
      BY <1>2 DEF AuthorizeRedirect
    <2> HIDE DEF e, f
    <2>5. \A u \in consents' : Faithful(u.state, u.flow, flows')
      BY <1>1, <2>3, <2>4
    <2> QED
      BY <1>1, <2>4, <2>5 DEF FaithInv
  <1>3. ASSUME NEW s \in Slots, NEW delivered \in BOOLEAN,
               CallbackRedirect(s, delivered)
        PROVE  FaithInv'
    <2> DEFINE u == req[s].url
               m == RedirectToApp(Snapshot(s), u, Verdict(s))
    <2>1. u.flow \in 1..Len(flows) /\ Faithful(u.state, u.flow, flows)
      BY <1>3, RedirectsFaithfully DEF CallbackRedirect
    <2>2. FaithfulRedirect(m, flows')
      BY <1>3, <2>1 DEF CallbackRedirect, RedirectToApp, Faithful, FaithfulRedirect
    <2> QED
      BY <1>1, <1>3, <2>2 DEF CallbackRedirect, FaithInv
  <1>4. ASSUME UNCHANGED <<consents, apps>>
        PROVE  FaithInv'
    BY <1>1, <1>4 DEF FaithInv
  <1>5. ASSUME NEW s \in Slots, Handler(s)
        PROVE  FaithInv'
    BY <1>2, <1>3, <1>4, <1>5
       DEF Handler, AuthorizeReject, CallbackRefuse, TokenRelay, TokenReject,
           TokenSend, TokenFail
  <1>6. ASSUME NEW s \in Slots, Arrival(s)
        PROVE  FaithInv'
    BY <1>4, <1>6 DEF Arrival, AuthorizeStart, CallbackStart, TokenStart
  <1>7. ASSUME Strava \/ Operator \/ Tick \/ UNCHANGED vars
        PROVE  FaithInv'
    BY <1>4, <1>7
       DEF Strava, StravaApprove, StravaExchange, StravaLate, Operator, Reload,
           Restart, Tick, vars
  <1> QED
    BY <1>5, <1>6, <1>7 DEF Next

(***************************************************************************)
(* Every step keeps BackedInv.                                             *)
(***************************************************************************)
LEMMA BackedInvStep ==
    ASSUME GrantInv, [Next]_vars
    PROVE  BackedInv'
  <1> USE DEF proxyVars, browserVars, stravaVars
  <1> IInv /\ BackedInv
    BY DEF GrantInv
  <1> TypeOK /\ RequestsInv
    BY DEF IInv
  <1>0. consents \subseteq consents' /\ apps \subseteq apps'
    BY OnlyAdded
  <1>1. \A s \in Slots : req[s].pc \in {"sent", "answered"} => Known(req[s].code, apps)
    BY InformedKnown DEF RequestsInv, RequestInv
  <1>2. ASSUME orphans' = orphans, UNCHANGED req
        PROVE  BackedInv'
    BY <1>0, <1>2, BackedStep
  <1>3. ASSUME NEW s \in Slots, NEW r, req' = [req EXCEPT ![s] = r],
               r.pc # "callback" \/ Backed(r, consents), orphans' = orphans
        PROVE  BackedInv'
    <2>1. \A t \in Slots : req'[t] = req[t] \/ req'[t] = r
      BY <1>3 DEF TypeOK
    <2> QED
      BY <1>0, <1>3, <2>1, BackedStep
  <1>4. ASSUME NEW s \in Slots, NEW b \in Browsers, NEW u \in consents,
               NEW v \in Received(u), CallbackStart(s, b, v)
        PROVE  BackedInv'
    <2> DEFINE r == [pc |-> "callback", snap |-> Len(configs), br |-> b, url |-> v,
                     cookie |-> Presented(b), first |-> b \notin returned]
    <2>1. v.state # Garbage => v.flow = u.flow /\ v.state = u.state
      BY DEF Received
    <2>2. Backed(r, consents)
      BY <2>1 DEF Backed
    <2>3. req' = [req EXCEPT ![s] = r] /\ orphans' = orphans
      BY <1>4 DEF CallbackStart
    <2> HIDE DEF r
    <2> QED
      BY <1>3, <2>2, <2>3
  <1>5. ASSUME NEW s \in Slots, NEW form, TokenStart(s, form)
        PROVE  BackedInv'
    BY <1>3, <1>5 DEF TokenStart
  <1>6. ASSUME NEW s \in Slots, NEW b \in Browsers, NEW q \in Queries,
               AuthorizeStart(s, b, q)
        PROVE  BackedInv'
    BY <1>3, <1>6 DEF AuthorizeStart
  <1>7. ASSUME NEW s \in Slots, TokenSend(s)
        PROVE  BackedInv'
    BY <1>3, <1>7 DEF TokenSend
  <1>8. ASSUME NEW s \in Slots, StravaExchange(s)
        PROVE  BackedInv'
    <2>1. \A t \in Slots : req'[t] = req[t] \/ req'[t].pc = "answered"
      <3>1. req[s] \in ExchangeRequest
        BY <1>8, RequestTypes DEF StravaExchange
      <3> QED
        BY <1>8, <3>1 DEF StravaExchange, ExchangeRequest, TypeOK
    <2> QED
      BY <1>0, <1>8, <2>1, BackedStep DEF StravaExchange
  <1>9. ASSUME NEW c \in orphans, StravaLate(c)
        PROVE  BackedInv'
    BY <1>0, <1>9, BackedStep DEF StravaLate
  <1>10. ASSUME NEW s \in Slots, NEW arrives \in BOOLEAN, TokenFail(s, arrives)
         PROVE  BackedInv'
    <2>1. \A c \in orphans' : c \in orphans \/ Known(c, apps)
      BY <1>1, <1>10 DEF TokenFail
    <2>2. \A t \in Slots : req'[t] = req[t] \/ req'[t].pc # "callback"
      BY <1>10 DEF TokenFail, TypeOK, Idle
    <2>3. UNCHANGED <<consents, apps>>
      BY <1>10 DEF TokenFail
    <2> QED
      BY <1>0, <2>1, <2>2, BackedStep
  <1>11. ASSUME NEW cfg \in Configs, NEW arrives \in BOOLEAN, Restart(cfg, arrives)
         PROVE  BackedInv'
    <2>1. \A c \in orphans' : c \in orphans \/ Known(c, apps)
      BY <1>1, <1>11 DEF Restart
    <2>2. \A t \in Slots : req'[t].pc # "callback"
      BY <1>11 DEF Restart, Idle
    <2> QED
      BY <1>0, <2>1, <2>2, BackedStep
  <1>12. ASSUME NEW s \in Slots, Handler(s)
         PROVE  BackedInv'
    <2>1. ASSUME req' = [req EXCEPT ![s] = Idle], orphans' = orphans
          PROVE  BackedInv'
      BY <1>3, <2>1 DEF Idle
    <2> QED
      BY <1>7, <1>10, <1>12, <2>1
         DEF Handler, AuthorizeReject, AuthorizeRedirect, CallbackRefuse,
             CallbackRedirect, TokenRelay, TokenReject
  <1>13. ASSUME NEW s \in Slots, Arrival(s)
         PROVE  BackedInv'
    BY <1>4, <1>5, <1>6, <1>13 DEF Arrival
  <1>14. ASSUME Strava \/ Operator \/ Tick \/ UNCHANGED vars
         PROVE  BackedInv'
    BY <1>2, <1>8, <1>9, <1>11, <1>14
       DEF Strava, StravaApprove, Operator, Reload, Tick, vars
  <1> QED
    BY <1>12, <1>13, <1>14 DEF Next

(***************************************************************************)
(* Every reachable state satisfies it.                                     *)
(***************************************************************************)
LEMMA GrantInvariance == Spec => []GrantInv
  <1>1. Init => GrantInv
    BY GrantInvInit
  <1>2. GrantInv /\ [Next]_vars => GrantInv'
    BY InvStep, FaithStep, BackedInvStep DEF GrantInv
  <1> QED
    BY <1>1, <1>2, PTL DEF Spec

-----------------------------------------------------------------------------
(* The refinement *)

AskedIn(fs) == [f \in 1..Len(fs) |-> Carried(fs[f].q)]

(***************************************************************************)
(* What the flows fs asked for is a sequence of what may be asked.         *)
(***************************************************************************)
LEMMA AskedType ==
    ASSUME NEW fs \in Seq(Flow)
    PROVE  /\ AskedIn(fs) \in Seq({Carried(q) : q \in Queries})
           /\ Len(AskedIn(fs)) = Len(fs)
           /\ \A f \in 1..Len(fs) : AskedIn(fs)[f] = Carried(fs[f].q)
  <1>1. Len(fs) \in Nat
    BY LenProperties
  <1>2. \A f \in 1..Len(fs) : fs[f].q \in Queries
    <2>1. ASSUME NEW f \in 1..Len(fs)
          PROVE  fs[f] \in Flow
      BY ElementOfSeq
    <2> QED
      BY <2>1 DEF Flow
  <1>3. AskedIn(fs) \in [1..Len(fs) -> {Carried(q) : q \in Queries}]
    BY <1>2 DEF AskedIn
  <1>4. AskedIn(fs) \in Seq({Carried(q) : q \in Queries})
    BY <1>1, <1>3, SeqDef
  <1>5. DOMAIN AskedIn(fs) = 1..Len(fs)
    BY DEF AskedIn
  <1>6. Len(AskedIn(fs)) = Len(fs)
    BY <1>1, <1>4, <1>5, LenProperties
  <1> QED
    BY <1>4, <1>6 DEF AskedIn

(***************************************************************************)
(* The initial states map to the initial state of AuthGrant.               *)
(***************************************************************************)
LEMMA GrantInit ==
    ASSUME Init
    PROVE  Grant!Init
  <1>1. flows \in Seq(Flow) /\ Len(flows) = 0
    BY EmptySeq DEF Init
  <1>2. AskedFor = <<>>
    BY <1>1, AskedType, EmptySeq DEF AskedFor, AskedIn
  <1> QED
    BY <1>2 DEF Init, Grant!Init, Offers, WhatAppsKnow

(***************************************************************************)
(* Every step maps to a step of AuthGrant, or changes nothing of it.       *)
(***************************************************************************)
LEMMA GrantStep ==
    ASSUME GrantInv, [Next]_vars
    PROVE  Grant!Next \/ UNCHANGED Grant!vars
  <1> USE DEF proxyVars, browserVars, stravaVars
  <1> IInv /\ FaithInv /\ BackedInv
    BY DEF GrantInv
  <1> TypeOK /\ BoundsInv /\ SealedInv /\ RequestsInv /\ DeliveryInv
    BY DEF IInv
  <1>t. /\ flows \in Seq(Flow) /\ codes \in Seq(StravaCode)
        /\ Len(flows) \in Nat /\ Len(codes) \in Nat
    BY LenProperties DEF TypeOK
  <1>0. /\ AskedFor = AskedIn(flows) /\ AskedFor' = AskedIn(flows')
        /\ Len(AskedFor) = Len(flows)
        /\ \A f \in 1..Len(flows) : AskedFor[f] = Carried(flows[f].q)
    BY <1>t, AskedType DEF AskedFor, AskedIn
  <1>1. ASSUME UNCHANGED <<AskedFor, consents, apps, codes>>
        PROVE  UNCHANGED Grant!vars
    BY <1>1 DEF Grant!vars, Offers, WhatAppsKnow
  <1>2. ASSUME UNCHANGED <<flows, consents, apps, codes>>
        PROVE  UNCHANGED Grant!vars
    BY <1>1, <1>2 DEF AskedFor
  \* Applications and users.
  <1>3. ASSUME NEW s \in Slots, NEW b \in Browsers, NEW q \in Queries,
               AuthorizeStart(s, b, q)
        PROVE  Grant!Next
    <2>1. [br |-> b, q |-> q, at |-> 0] \in Flow
      BY QueriesAssumption DEF Flow
    <2>2. /\ flows' \in Seq(Flow) /\ Len(flows') = Len(flows) + 1
          /\ \A f \in 1..Len(flows) : flows'[f] = flows[f]
          /\ flows'[Len(flows) + 1].q = q
      BY <1>3, <1>t, <2>1, AppendProperties DEF AuthorizeStart
    <2> DEFINE S == {Carried(p) : p \in Queries}
               grown == Append(AskedFor, Carried(q))
    <2>3. AskedFor \in Seq(S) /\ Carried(q) \in S
      BY <1>0, <1>t, AskedType
    <2>4. /\ grown \in Seq(S) /\ Len(grown) = Len(flows) + 1
          /\ \A f \in 1..Len(flows) : grown[f] = AskedFor[f]
          /\ grown[Len(flows) + 1] = Carried(q)
      BY <1>0, <2>3, AppendProperties
    <2>5. /\ AskedFor' \in Seq(S) /\ Len(AskedFor') = Len(flows) + 1
          /\ \A f \in 1..(Len(flows) + 1) : AskedFor'[f] = Carried(flows'[f].q)
      BY <1>0, <2>2, AskedType
    <2> HIDE DEF S, grown
    <2>6. \A f \in 1..(Len(flows) + 1) : AskedFor'[f] = grown[f]
      BY <1>0, <1>t, <2>2, <2>4, <2>5
    <2>7. AskedFor' = grown
      BY <2>4, <2>5, <2>6, SeqEqual
    <2>8. Grant!Ask(Carried(q))
      BY <1>3, <2>7 DEF AuthorizeStart, Grant!Ask, Offers, WhatAppsKnow, grown
    <2> QED
      BY <2>8 DEF Grant!Next
  <1>4. ASSUME NEW s \in Slots, NEW delivered \in BOOLEAN,
               AuthorizeRedirect(s, delivered)
        PROVE  Grant!Next \/ UNCHANGED Grant!vars
    <2> DEFINE f == req[s].flow
               u == [flow |-> f, state |-> SealState(Snapshot(s), flows[f].q, f, now)]
    <2>1. f \in 1..Len(flows) /\ flows[f] \in Flow
      BY <1>4, <1>t, ElementOfSeq DEF RequestsInv, RequestInv, AuthorizeRedirect
    <2>2. /\ [flows[f] EXCEPT !.at = now] \in Flow
          /\ [flows[f] EXCEPT !.at = now].q = flows[f].q
      BY <2>1 DEF Flow, TypeOK
    <2>3. flows' = [flows EXCEPT ![f] = [flows[f] EXCEPT !.at = now]]
      BY <1>4 DEF AuthorizeRedirect
    <2>4. /\ Len(flows') = Len(flows)
          /\ \A g \in 1..Len(flows) : flows'[g].q = flows[g].q
      BY <1>t, <2>1, <2>2, <2>3, ExceptSeq
    <2>5. AskedFor' = AskedFor
      BY <2>4 DEF AskedFor
    <2>6. /\ UNCHANGED <<apps, codes>>
          /\ consents' = consents \/ consents' = consents \cup {u}
      BY <1>4 DEF AuthorizeRedirect
    <2>7. Offers' = Offers \/ Offers' = Offers \cup {f}
      BY <2>6 DEF Offers
    <2>8. Grant!Offer(f) \/ UNCHANGED Grant!vars
      BY <2>5, <2>6, <2>7 DEF Grant!Offer, Grant!vars, WhatAppsKnow
    <2> QED
      BY <1>0, <2>1, <2>8 DEF Grant!Next
  <1>5. ASSUME NEW u \in consents, StravaApprove(u)
        PROVE  Grant!Next
    <2>1. u.flow \in 1..Len(flows) /\ u.flow \in Offers
      BY DEF SealedInv, StateOf, Offers
    <2>2. Grant!Approve(u.flow)
      BY <1>5, <2>1
         DEF StravaApprove, Grant!Approve, AskedFor, Offers, WhatAppsKnow
    <2> QED
      BY <1>0, <2>1, <2>2 DEF Grant!Next
  \* The callback tells the application.
  <1>7. ASSUME NEW s \in Slots, NEW delivered \in BOOLEAN,
               CallbackRedirect(s, delivered)
        PROVE  Grant!Next \/ UNCHANGED Grant!vars
    <2> DEFINE u == req[s].url
               f == u.flow
               m == RedirectToApp(Snapshot(s), u, Verdict(s))
    <2>0. req[s].pc = "callback" /\ Verdict(s) \in Redirects
      BY <1>7 DEF CallbackRedirect
    <2>1. /\ f \in 1..Len(flows) /\ Faithful(u.state, f, flows)
          /\ f \in Offers
      BY <2>0, RedirectsFaithfully
    <2>2. /\ GoodURL(u, flows, codes)
          /\ req[s].snap \in 1..Len(configs)
          /\ u.state \in StateEnvelope
          /\ Verdict(s) = "success" => u.code \in 1..MaxCodes
      BY <2>0, RedirectsTheSealed
    <2>3. /\ m.flow = f /\ m.ru = u.state.body.ru /\ m.st = u.state.body.st
          /\ m.error = u.error
          /\ m.code = IF Verdict(s) = "success" THEN SealCode(Snapshot(s), u, now)
                                                ELSE NoCode
      BY DEF RedirectToApp
    <2>4. m.ru = AskedFor[f].ru /\ m.st = AskedFor[f].st
      <3>1. flows[f].q \in Queries
        <4>1. flows[f] \in Flow
          BY <1>t, <2>1, ElementOfSeq
        <4> QED
          BY <4>1 DEF Flow
      <3>2. /\ AskedFor[f].ru = flows[f].q.ru
            /\ AskedFor[f].st = Marshalled(flows[f].q.st)
        BY <1>0, <2>1, <3>1, QueriesAssumption DEF Carried
      <3> QED
        BY <2>1, <2>3, <3>2 DEF Faithful
    <2>5. ASSUME Verdict(s) = "success"
          PROVE  /\ TheCode(m) # Refusal
                 /\ TheCode(m) \in 1..Len(codes)
      <3>1. u.code \in 1..Len(codes)
        <4>1. u.code # NoCode
          BY <2>2, <2>5, SentinelAssumption
        <4> QED
          BY <2>2, <4>1 DEF GoodURL
      <3>2. m.code \in CodeEnvelope /\ m.code.body.sc = u.code
        <4>1. u.state.body.cid \in ClientIds
          BY <2>2 DEF StateEnvelope, EnvelopeOf, StateBody
        <4>2. Unix(now) \in Nat
          BY UnixBounds DEF TypeOK
        <4>3. [cid |-> u.state.body.cid, sc |-> u.code, iat |-> Unix(now)] \in CodeBody
          BY <2>2, <2>5, <4>1, <4>2 DEF CodeBody
        <4>4. m.code = SealCode(Snapshot(s), u, now)
          BY <2>3, <2>5
        <4>5. m.code \in CodeEnvelope
          BY <2>2, <4>3, <4>4, SealType DEF SealCode, CodeEnvelope, Snapshot, Domains
        <4>6. m.code.body.sc = u.code
          BY <4>4 DEF SealCode, Seal
        <4> QED
          BY <4>5, <4>6
      <3>3. TheCode(m) = u.code
        BY <3>2, SentinelAssumption DEF TheCode
      <3>4. u.code # Refusal
        BY <3>1, <1>t DEF Refusal
      <3> QED
        BY <3>1, <3>3, <3>4
    <2>6. ASSUME Verdict(s) = "upstream_error"
          PROVE  TheCode(m) = Refusal
      <3>1. u.error # NoError
        BY <2>6 DEF Verdict, CallbackVerdict
      <3> QED
        BY <2>3, <2>6, <3>1 DEF TheCode
    <2>7. TheCode(m) \in {Refusal} \cup (1..Len(codes))
      BY <2>0, <2>5, <2>6 DEF Redirects
    <2>8. Told(m) = [flow |-> f, ru |-> AskedFor[f].ru, st |-> AskedFor[f].st,
                     code |-> TheCode(m)]
      BY <2>3, <2>4 DEF Told
    <2>9. /\ UNCHANGED <<flows, consents, codes>>
          /\ apps' = apps \/ apps' = apps \cup {m}
      BY <1>7 DEF CallbackRedirect
    <2> HIDE DEF m
    <2>10. CASE apps' = apps
      BY <1>2, <2>9, <2>10
    <2>11. CASE apps' = apps \cup {m}
      <3>1. WhatAppsKnow' = WhatAppsKnow \cup {Told(m)}
        BY <2>11 DEF WhatAppsKnow
      <3>2. UNCHANGED <<AskedFor, Offers, codes>>
        BY <2>9 DEF AskedFor, Offers
      <3>3. Grant!Tell(f, TheCode(m))
        BY <2>1, <2>8, <3>1, <3>2 DEF Grant!Tell
      <3> QED
        BY <1>0, <2>1, <2>7, <3>3 DEF Grant!Next
    <2> QED
      BY <2>9, <2>10, <2>11
  \* Strava burns the code, at once or late.
  <1>8. ASSUME NEW c \in 1..Len(codes), Known(c, apps),
               UNCHANGED <<flows, consents, apps>>,
               codes' = [codes EXCEPT ![c].used = TRUE]
        PROVE  Grant!Next \/ UNCHANGED Grant!vars
    <2>1. codes[c] \in StravaCode
      BY <1>t, ElementOfSeq
    <2>2. UNCHANGED <<AskedFor, Offers, WhatAppsKnow>>
      BY <1>8 DEF AskedFor, Offers, WhatAppsKnow
    <2>3. \E m \in WhatAppsKnow : m.code = c
      <3>1. PICK m \in apps : m.code # NoCode /\ m.code.body.sc = c
        BY <1>8 DEF Known
      <3>2. Told(m) \in WhatAppsKnow
        BY DEF WhatAppsKnow
      <3>3. Told(m).code = c
        BY <3>1 DEF Told, TheCode
      <3> QED
        BY <3>2, <3>3
    <2>4. CASE codes[c].used
      <3>1. [codes[c] EXCEPT !.used = TRUE] = codes[c]
        BY <2>1, <2>4 DEF StravaCode
      <3>2. codes' = [codes EXCEPT ![c] = codes[c]]
        BY <1>8, <3>1
      <3>3. codes' = codes
        BY <1>t, <3>2, LenProperties
      <3> QED
        BY <1>2, <1>8, <3>3
    <2>5. CASE ~codes[c].used
      <3>1. Grant!Spend(c)
        BY <1>8, <2>2, <2>3, <2>5 DEF Grant!Spend
      <3> QED
        BY <3>1 DEF Grant!Next
    <2> QED
      BY <2>4, <2>5
  <1>9. ASSUME NEW s \in Slots, StravaExchange(s)
        PROVE  Grant!Next \/ UNCHANGED Grant!vars
    <2>1. req[s].code \in 1..Len(codes) /\ Known(req[s].code, apps)
      BY <1>9, InformedKnown DEF StravaExchange, RequestsInv, RequestInv
    <2> QED
      BY <1>2, <1>8, <1>9, <2>1 DEF StravaExchange
  <1>10. ASSUME NEW c \in orphans, StravaLate(c)
         PROVE  Grant!Next \/ UNCHANGED Grant!vars
    <2>1. c \in 1..Len(codes) /\ Known(c, apps)
      BY DEF DeliveryInv, BackedInv
    <2> QED
      BY <1>8, <1>10, <2>1 DEF StravaLate
  \* The tokens go to the caller.
  <1>11. ASSUME NEW s \in Slots, NEW delivered \in BOOLEAN, TokenRelay(s, delivered)
         PROVE  Grant!Next \/ UNCHANGED Grant!vars
    <2> DEFINE c == req[s].code
    <2>1. /\ req[s] \in ExchangeRequest
          /\ c \in 1..Len(codes) /\ Informed(req[s].cid, c, flows, apps)
      BY <1>11, RequestTypes DEF TokenRelay, RequestsInv, RequestInv
    <2>2. UNCHANGED <<flows, consents, apps>>
      BY <1>11 DEF TokenRelay
    <2>3. CASE ~(delivered /\ req[s].ans = "tokens")
      <3>1. codes' = codes
        BY <1>11, <2>3 DEF TokenRelay
      <3> QED
        BY <1>2, <2>2, <3>1
    <2>4. CASE delivered /\ req[s].ans = "tokens"
      <3>1. codes[c].used /\ codes[c].to = <<>>
        BY <1>11, <2>4 DEF TokenRelay, DeliveryInv, HasTokens
      <3>2. codes' = [codes EXCEPT ![c].to = Append(codes[c].to, req[s].cid)]
        BY <1>11, <2>4 DEF TokenRelay
      <3>3. codes' = [codes EXCEPT ![c].to = <<req[s].cid>>]
        BY <3>1, <3>2
      <3>4. PICK m \in apps : /\ m.flow \in 1..Len(flows)
                             /\ m.code # NoCode /\ m.code.body.sc = c
                             /\ flows[m.flow].q.cid = req[s].cid
        BY <2>1 DEF Informed
      <3>5. AskedFor[m.flow].cid = req[s].cid
        <4>1. flows[m.flow].q \in Queries
          <5>1. flows[m.flow] \in Flow
            BY <1>t, <3>4, ElementOfSeq
          <5> QED
            BY <5>1 DEF Flow
        <4> QED
          BY <1>0, <3>4, <4>1, QueriesAssumption DEF Carried
      <3>6. Told(m) \in WhatAppsKnow /\ Told(m).code = c /\ Told(m).flow = m.flow
        BY <3>4 DEF WhatAppsKnow, Told, TheCode
      <3>7. UNCHANGED <<AskedFor, Offers, WhatAppsKnow>>
        BY <2>2 DEF AskedFor, Offers, WhatAppsKnow
      <3>8. Grant!Deliver(c, m.flow)
        BY <3>1, <3>3, <3>5, <3>6, <3>7 DEF Grant!Deliver
      <3> QED
        BY <1>0, <2>1, <3>4, <3>8 DEF Grant!Next
    <2> QED
      BY <2>3, <2>4
  \* The rest is invisible.
  <1>12. ASSUME NEW s \in Slots, Handler(s)
         PROVE  Grant!Next \/ UNCHANGED Grant!vars
    BY <1>2, <1>4, <1>7, <1>11, <1>12
       DEF Handler, AuthorizeReject, CallbackRefuse, TokenReject, TokenSend, TokenFail
  <1>13. ASSUME NEW s \in Slots, Arrival(s)
         PROVE  Grant!Next \/ UNCHANGED Grant!vars
    BY <1>2, <1>3, <1>13 DEF Arrival, CallbackStart, TokenStart
  <1>14. ASSUME Strava
         PROVE  Grant!Next \/ UNCHANGED Grant!vars
    BY <1>5, <1>9, <1>10, <1>14 DEF Strava
  <1>15. ASSUME Operator \/ Tick \/ UNCHANGED vars
         PROVE  UNCHANGED Grant!vars
    BY <1>2, <1>15 DEF Operator, Reload, Restart, Tick, vars
  <1> QED
    BY <1>12, <1>13, <1>14, <1>15 DEF Next

-----------------------------------------------------------------------------
(* The theorems *)

(***************************************************************************)
(* The flow implements AuthGrant: an application is told of a code or of a *)
(* refusal where it asked and with the state it sent, once its user was    *)
(* offered the choice; a code is spent once, and only if some application  *)
(* was told it; and what it is worth is delivered at most once, to an      *)
(* application that was told it.  So do the handlers of internal/oauth     *)
(* whatever is replayed, put together from several flows, late, reloaded   *)
(* or restarted (authorize.go, callback.go, token.go).                     *)
(***************************************************************************)
THEOREM Refinement == Spec => KeepsGrant
  <1>1. Init => Grant!Init
    BY GrantInit
  <1>2. GrantInv /\ [Next]_vars => [Grant!Next]_(Grant!vars)
    BY GrantStep
  <1> QED
    BY <1>1, <1>2, GrantInvariance, PTL DEF Spec, KeepsGrant, Grant!Spec

(***************************************************************************)
(* AppSeesItsOwn holds always: an application is answered at the redirect  *)
(* URI of its own flow, with the state it sent (finishRedirect).           *)
(***************************************************************************)
THEOREM AppSeesItsOwnHolds == Spec => []AppSeesItsOwn
  <1>1. GrantInv => AppSeesItsOwn
    BY DEF GrantInv, FaithInv, FaithfulRedirect, AppSeesItsOwn, QueryOf, Marshalled
  <1> QED
    BY <1>1, GrantInvariance, PTL

(***************************************************************************)
(* StateBitExact holds if no caller sends a state that is not UTF-8: the   *)
(* JSON of the envelope (seal.go:118) is the only thing that alters one.   *)
(***************************************************************************)
THEOREM StateBitExactForUTF8 ==
    ASSUME \A q \in Queries : q.st # NotUTF8
    PROVE  Spec => []StateBitExact
  <1>1. ASSUME GrantInv, NEW m \in apps
        PROVE  QueryOf(m.flow).st # NotUTF8
    <2>1. m.flow \in 1..Len(flows)
      BY <1>1 DEF GrantInv, FaithInv, FaithfulRedirect
    <2>2. flows[m.flow] \in Flow
      BY <1>1, <2>1, ElementOfSeq DEF GrantInv, IInv, TypeOK
    <2> QED
      BY <2>2 DEF Flow, QueryOf
  <1>2. GrantInv /\ AppSeesItsOwn => StateBitExact
    BY <1>1 DEF AppSeesItsOwn, StateBitExact
  <1> QED
    BY <1>2, GrantInvariance, AppSeesItsOwnHolds, PTL

(***************************************************************************)
(* AuthenticatedSend holds: nothing is sent to Strava but for a caller     *)
(* whose credentials are in a configuration that was live while its        *)
(* request ran (token.go:102-105).                                         *)
(***************************************************************************)
THEOREM AuthenticatedSendHolds == Spec => AuthenticatedSend
  <1>1. ASSUME IInv, NEW s \in Slots, TokenSend(s)
        PROVE  \E cfg \in LiveDuring(s) :
                   HasSecret(cfg, req[s].form.cid, req[s].form.secret)
    <2>1. req[s].snap \in 1..Len(configs) /\ Len(configs) \in Nat
      BY <1>1, LenProperties
         DEF TokenSend, IInv, TypeOK, RequestsInv, RequestInv
    <2>2. Snapshot(s) \in LiveDuring(s)
      BY <2>1 DEF Snapshot, LiveDuring
    <2>3. HasSecret(Snapshot(s), req[s].form.cid, req[s].form.secret)
      BY <1>1 DEF TokenSend, TokenVerdict, Registered, VerifySecret, HasSecret
    <2> QED
      BY <2>2, <2>3
  <1>2. IInv /\ [Next]_vars =>
          [\A s \in Slots : TokenSend(s) =>
             LET form == req[s].form
             IN  \E cfg \in LiveDuring(s) :
                     HasSecret(cfg, form.cid, form.secret)]_vars
    BY <1>1
  <1> QED
    BY <1>2, Invariance, PTL DEF Spec, AuthenticatedSend

(***************************************************************************)
(* RedirectRegistered holds: a callback completes only for a client and a  *)
(* redirect URI of a configuration that was live while it ran              *)
(* (callback.go:63-74).                                                    *)
(***************************************************************************)
THEOREM RedirectRegisteredHolds == Spec => RedirectRegistered
  <1>1. ASSUME GrantInv, NEW s \in Slots, CallbackEnds(s, Redirects)
        PROVE  LET q == QueryOf(req[s].url.flow)
               IN  \E cfg \in LiveDuring(s) : Registers(cfg, q.cid, q.ru)
    <2>0. req[s].pc = "callback" /\ Verdict(s) \in Redirects
      BY <1>1 DEF CallbackEnds
    <2> DEFINE u == req[s].url
    <2>1. /\ u.state.body.cid = flows[u.flow].q.cid
          /\ u.state.body.ru = flows[u.flow].q.ru
      BY <1>1, <2>0, RedirectsFaithfully DEF Faithful
    <2>2. req[s].snap \in 1..Len(configs) /\ Len(configs) \in Nat
      BY <1>1, <2>0, LenProperties
         DEF GrantInv, IInv, TypeOK, RequestsInv, RequestInv
    <2>3. Snapshot(s) \in LiveDuring(s)
      BY <2>2 DEF Snapshot, LiveDuring
    <2>4. Registers(Snapshot(s), u.state.body.cid, u.state.body.ru)
      BY <2>0 DEF Verdict, CallbackVerdict, Redirects, Registered,
                  AllowsRedirectURI, Registers
    <2> QED
      BY <2>1, <2>3, <2>4 DEF QueryOf
  <1>2. GrantInv /\ [Next]_vars =>
          [\A s \in Slots : CallbackEnds(s, Redirects) =>
             LET q == QueryOf(req[s].url.flow)
             IN  \E cfg \in LiveDuring(s) : Registers(cfg, q.cid, q.ru)]_vars
    BY <1>1
  <1> QED
    BY <1>2, GrantInvariance, PTL DEF Spec, RedirectRegistered
=============================================================================
