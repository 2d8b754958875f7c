-------------------------- MODULE OAuthFlowProofs ---------------------------
(***************************************************************************)
(* Type correctness of OAuthFlow, and the binding of every authorization   *)
(* code to the clients that a callback of theirs has told it, for any      *)
(* number of concurrent requests, clients, browsers, flows, codes,         *)
(* configurations and reloads.                                             *)
(*                                                                         *)
(* CodeBinding is not inductive: that a client exchanges only codes it was *)
(* told rests on what the envelopes in circulation say, which rests on     *)
(* what every handler seals, and on nothing else being able to seal.       *)
(***************************************************************************)
EXTENDS OAuthFlowProperties, EnvelopeProofs, SequenceTheorems

(***************************************************************************)
(* The predicates on messages take the flows fs, the codes cs and the      *)
(* redirects ms they are read against, so that a message can be carried    *)
(* from one state to the next.                                             *)
(***************************************************************************)

\* A redirect has told client cid the code c.
Informed(cid, c, fs, ms) ==
    \E m \in ms : /\ m.flow \in 1..Len(fs)
                  /\ m.code # NoCode
                  /\ m.code.body.sc = c
                  /\ fs[m.flow].q.cid = cid

\* e is a state sealed for flow f.
StateOf(e, f, fs) ==
    /\ f \in 1..Len(fs)
    /\ e.mac.domain = DomainState
    /\ e.body.cid = fs[f].q.cid

\* The state of a callback URL is of its flow; its code is any there is.
GoodURL(u, fs, cs) ==
    /\ u.flow \in 1..Len(fs)
    /\ u.state # Garbage => StateOf(u.state, u.flow, fs)
    /\ u.code # NoCode => u.code \in 1..Len(cs)

\* The code in a redirect was wrapped for the client of its flow.
GoodApp(m, fs, cs) ==
    /\ m.flow \in 1..Len(fs)
    /\ m.code # NoCode => /\ m.code.body.sc \in 1..Len(cs)
                         /\ m.code.body.cid = fs[m.flow].q.cid

\* If e was sealed as a code, it names a client that was told it.
GoodCode(e, fs, cs, ms) ==
    e.mac.domain = DomainCode =>
        /\ e.body.sc \in 1..Len(cs)
        /\ Informed(e.body.cid, e.body.sc, fs, ms)

\* What a request brought was sealed by a handler; its snapshot is one of the
\* n published; who exchanges a code was told it, and the code it burnt was good.
RequestInv(r, n, fs, cs, ms) ==
    /\ r.pc \in {"authorize", "callback", "token"} => r.snap \in 1..n
    /\ r.pc = "authorize" => r.flow \in 1..Len(fs)
    /\ r.pc = "callback"  => GoodURL(r.url, fs, cs)
    /\ r.pc = "token" /\ r.form # Garbage /\ r.form.code # Garbage
         => GoodCode(r.form.code, fs, cs, ms)
    /\ r.pc \in {"sent", "answered"} =>
         /\ r.code \in 1..Len(cs)
         /\ Informed(r.cid, r.code, fs, ms)
         /\ r.pc = "sent" => ~r.spent
         /\ r.ans = "invalid" => ~r.spent

\* The flows that codes mention exist.
BoundsInv ==
    /\ Len(flows) <= MaxFlows
    /\ Len(codes) <= MaxCodes
    /\ \A c \in 1..Len(codes) : codes[c].flow \in 1..Len(flows)

\* Everything in circulation was sealed by a handler, for the right client.
SealedInv ==
    /\ \A u \in consents : StateOf(u.state, u.flow, flows)
    /\ \A m \in apps     : GoodApp(m, flows, codes)

RequestsInv == \A s \in Slots : RequestInv(req[s], Len(configs), flows, codes, apps)

\* The request holds tokens that its caller has not received yet.
HasTokens(r) == r.pc = "answered" /\ r.ans = "tokens"

\* The tokens of a code are on their way to one caller at most, and only as
\* long as they have not been delivered.
DeliveryInv ==
    /\ orphans \subseteq 1..Len(codes)
    /\ \A c \in 1..Len(codes) :
         /\ ~codes[c].used => codes[c].to = <<>>
         /\ Len(codes[c].to) <= 1
         /\ \A i \in 1..Len(codes[c].to) :
                Informed(codes[c].to[i], c, flows, apps)
    /\ \A s \in Slots : HasTokens(req[s]) =>
         /\ codes[req[s].code].used
         /\ codes[req[s].code].to = <<>>
         /\ \A t \in Slots :
                HasTokens(req[t]) /\ req[t].code = req[s].code => t = s

IInv == TypeOK /\ BoundsInv /\ SealedInv /\ RequestsInv /\ DeliveryInv

-----------------------------------------------------------------------------
(* Types *)

(***************************************************************************)
(* A request is of the type its program counter says.                      *)
(***************************************************************************)
LEMMA RequestTypes ==
    ASSUME TypeOK, NEW s \in Slots
    PROVE  /\ req[s].pc = "authorize" => req[s] \in AuthorizeRequest
           /\ req[s].pc = "callback" => req[s] \in CallbackRequest
           /\ req[s].pc = "token" => req[s] \in TokenRequest
           /\ req[s].pc \in {"sent", "answered"} => req[s] \in ExchangeRequest
  <1>1. req[s] \in {Idle} \cup AuthorizeRequest \cup CallbackRequest
                      \cup TokenRequest \cup ExchangeRequest
    BY DEF TypeOK
  <1>2. /\ Idle.pc = "idle"
        /\ \A r \in AuthorizeRequest : r.pc = "authorize"
        /\ \A r \in CallbackRequest : r.pc = "callback"
        /\ \A r \in TokenRequest : r.pc = "token"
        /\ \A r \in ExchangeRequest : r.pc \in {"sent", "answered"}
    BY DEF Idle, AuthorizeRequest, CallbackRequest, TokenRequest, ExchangeRequest
  <1> QED
    BY <1>1, <1>2

(***************************************************************************)
(* A slot may be freed, or given a request, without breaking the type.     *)
(***************************************************************************)
LEMMA RequestsType ==
    ASSUME TypeOK, NEW s \in Slots,
           NEW r, r \in {Idle} \cup AuthorizeRequest \cup CallbackRequest
                            \cup TokenRequest \cup ExchangeRequest,
           req' = [req EXCEPT ![s] = r]
    PROVE  req' \in [Slots -> {Idle} \cup AuthorizeRequest \cup CallbackRequest
                              \cup TokenRequest \cup ExchangeRequest]
  BY DEF TypeOK

(***************************************************************************)
(* A published configuration is valid, and its newest key seals envelopes. *)
(***************************************************************************)
LEMMA SealType ==
    ASSUME TypeOK, NEW i \in 1..Len(configs),
           NEW domain \in Domains, NEW Bodies, NEW body \in Bodies
    PROVE  Seal(configs[i].ring, domain, body) \in EnvelopeOf(Bodies)
  <1>1. configs[i] \in Configs
    BY ElementOfSeq DEF TypeOK
  <1>2. /\ configs[i].ring \in Seq(Key)
        /\ Len(configs[i].ring) > 0
    BY <1>1, ConfigsAssumption DEF ValidConfig, ValidRing
  <1>3. configs[i].ring[1] \in Key
    BY <1>2, ElementOfSeq
  <1> QED
    BY <1>3 DEF Seal, EnvelopeOf, Key

(***************************************************************************)
(* The whole seconds of a duration are a duration.                         *)
(***************************************************************************)
LEMMA CookieType ==
    ASSUME TypeOK, NEW cfg \in Configs, NEW f \in 1..MaxFlows
    PROVE  NonceCookie(cfg, f) \in Cookie
  <1>0. cfg.ttl \in Nat
    BY ConfigsAssumption DEF ValidConfig
  <1>1. cfg.ttl \div Second \in Nat
    BY <1>0, UnixBounds DEF Unix
  <1>2. (cfg.ttl \div Second) * Second \in Nat
    BY <1>1, ClockAssumption
  <1>3. now + (cfg.ttl \div Second) * Second \in Nat
    BY <1>2 DEF TypeOK
  <1>4. MaxTime + 1 \in Nat
    BY BoundsAssumption
  <1> QED
    BY <1>3, <1>4 DEF NonceCookie, Cookie, Nonces

(***************************************************************************)
(* What a token request sends upstream is a code that exists, and that its *)
(* client was told.                                                        *)
(***************************************************************************)
LEMMA SendsTheTold ==
    ASSUME TypeOK, BoundsInv, RequestsInv, NEW s \in Slots,
           req[s].pc = "token",
           TokenVerdict(Snapshot(s), req[s].form, now) = "send"
    PROVE  /\ req[s].form \in Form
           /\ req[s].form.code.body.sc \in 1..Len(codes)
           /\ req[s].form.code.body.sc \in 1..MaxCodes
           /\ Informed(req[s].form.cid, req[s].form.code.body.sc, flows, apps)
  <1> DEFINE form == req[s].form
  <1>1. form \in Form \cup {Garbage}
    BY RequestTypes DEF TokenRequest
  <1>2. /\ form # Garbage
        /\ form.grant # "authorization_code" \/
             /\ Open(Snapshot(s).ring, DomainCode, form.code, Snapshot(s).ttl, now) = "ok"
             /\ form.code.body.cid = form.cid
    BY DEF TokenVerdict
  <1>3. form \in Form /\ form.grant = "authorization_code"
    BY <1>1, <1>2 DEF Form
  <1>4. form.code # Garbage /\ form.code.mac.domain = DomainCode
    BY <1>2, <1>3, OpenSound
  <1>5. RequestInv(req[s], Len(configs), flows, codes, apps)
    BY DEF RequestsInv
  <1>6. GoodCode(form.code, flows, codes, apps)
    BY <1>2, <1>4, <1>5 DEF RequestInv
  <1>7. /\ form.code.body.sc \in 1..Len(codes)
        /\ Informed(form.code.body.cid, form.code.body.sc, flows, apps)
    BY <1>4, <1>6 DEF GoodCode
  <1>8. Len(codes) \in Nat /\ MaxCodes \in Nat /\ Len(codes) <= MaxCodes
    BY BoundsAssumption, LenProperties DEF TypeOK, BoundsInv
  <1>9. form.code.body.sc \in 1..MaxCodes
    BY <1>7, <1>8
  <1> QED
    BY <1>2, <1>3, <1>7, <1>9

(***************************************************************************)
(* A callback that redirects carries a whole state, from a published       *)
(* snapshot, and Strava's code or its error.                               *)
(***************************************************************************)
LEMMA RedirectsTheSealed ==
    ASSUME TypeOK, RequestsInv, NEW s \in Slots,
           req[s].pc = "callback", Verdict(s) \in Redirects
    PROVE  /\ req[s] \in CallbackRequest
           /\ req[s].snap \in 1..Len(configs)
           /\ GoodURL(req[s].url, flows, codes)
           /\ req[s].url.state \in StateEnvelope
           /\ StateOf(req[s].url.state, req[s].url.flow, flows)
           /\ Verdict(s) = "success" => req[s].url.code \in 1..MaxCodes
  <1> DEFINE u == req[s].url
  <1>1. req[s] \in CallbackRequest /\ u \in CallbackURL
    BY RequestTypes DEF CallbackRequest
  <1>2. Open(Snapshot(s).ring, DomainState, u.state, Snapshot(s).ttl, now) = "ok"
    BY DEF Verdict, CallbackVerdict, Redirects
  <1>3. u.state # Garbage
    BY <1>2, OpenSound
  <1>4. u.state \in StateEnvelope
    BY <1>1, <1>3 DEF CallbackURL
  <1>5. Verdict(s) = "success" => u.code # NoCode
    BY DEF Verdict, CallbackVerdict
  <1>6. Verdict(s) = "success" => u.code \in 1..MaxCodes
    BY <1>1, <1>5 DEF CallbackURL
  <1>7. RequestInv(req[s], Len(configs), flows, codes, apps)
    BY DEF RequestsInv
  <1>8. req[s].snap \in 1..Len(configs) /\ GoodURL(u, flows, codes)
    BY <1>7 DEF RequestInv
  <1>9. StateOf(u.state, u.flow, flows)
    BY <1>3, <1>8 DEF GoodURL
  <1> QED
    BY <1>1, <1>4, <1>6, <1>8, <1>9

(***************************************************************************)
(* The type is kept by every step from a state that satisfies the          *)
(* invariant.                                                              *)
(***************************************************************************)
LEMMA TypeStep ==
    ASSUME IInv, [Next]_vars
    PROVE  TypeOK'
  <1> USE DEF proxyVars, browserVars, stravaVars
  <1> TypeOK /\ BoundsInv /\ RequestsInv
    BY DEF IInv
  <1> /\ Len(flows) \in Nat /\ Len(codes) \in Nat /\ Len(configs) \in Nat
      /\ MaxFlows \in Nat /\ MaxCodes \in Nat
    BY BoundsAssumption, LenProperties DEF TypeOK
  <1>1. ASSUME NEW s \in Slots, req' = [req EXCEPT ![s] = Idle],
               UNCHANGED <<configs, now, browserVars, stravaVars>>
        PROVE  TypeOK'
    BY <1>1, RequestsType DEF TypeOK
  <1>2. ASSUME NEW s \in Slots, NEW b \in Browsers, NEW q \in Queries,
               AuthorizeStart(s, b, q)
        PROVE  TypeOK'
    <2> DEFINE r == [pc |-> "authorize", snap |-> Len(configs),
                     flow |-> Len(flows) + 1]
    <2>1. r \in AuthorizeRequest
      BY <1>2 DEF AuthorizeStart, AuthorizeRequest
    <2>2. req' \in [Slots -> {Idle} \cup AuthorizeRequest \cup CallbackRequest
                           \cup TokenRequest \cup ExchangeRequest]
      BY <1>2, <2>1, RequestsType DEF AuthorizeStart
    <2>3. [br |-> b, q |-> q, at |-> 0] \in Flow
      BY QueriesAssumption DEF Flow
    <2>4. flows' \in Seq(Flow)
      BY <1>2, <2>3, AppendProperties DEF AuthorizeStart, TypeOK
    <2> QED
      BY <1>2, <2>2, <2>4 DEF AuthorizeStart, TypeOK
  <1>3. ASSUME NEW s \in Slots, NEW delivered \in BOOLEAN,
               AuthorizeRedirect(s, delivered)
        PROVE  TypeOK'
    <2> DEFINE cfg == Snapshot(s)
               f   == req[s].flow
               q   == flows[f].q
               body == StatePayload(cfg, q, f, now)
    <2>1. /\ req[s] \in AuthorizeRequest
          /\ req[s].snap \in 1..Len(configs)
          /\ f \in 1..Len(flows)
      BY <1>3, RequestTypes DEF AuthorizeRedirect, RequestsInv, RequestInv
    <2>2. f \in 1..MaxFlows
      BY <2>1 DEF AuthorizeRequest
    <2>3. flows[f] \in Flow /\ q \in [cid : ClientIds, ru : URIs, st : CallerStates]
      <3>1. flows \in Seq(Flow)
        BY DEF TypeOK
      <3>2. flows[f] \in Flow
        BY <2>1, <3>1, ElementOfSeq
      <3> QED
        BY <3>2, QueriesAssumption DEF Flow
    <2>4. body \in StateBody
      <3>1. Unix(now) \in Nat
        BY UnixBounds DEF TypeOK
      <3>2. Marshalled(q.st) \in CallerStates
        BY <2>3, SentinelAssumption DEF Marshalled
      <3> QED
        BY <2>2, <2>3, <3>1, <3>2 DEF StatePayload, StateBody, Nonces
    <2>5. SealState(cfg, q, f, now) \in StateEnvelope
      BY <2>1, <2>4, SealType DEF SealState, StateEnvelope, Snapshot, Domains
    <2>6. consents' \subseteq Consent
      BY <1>3, <2>2, <2>5 DEF AuthorizeRedirect, Consent, TypeOK
    <2>7. flows' \in Seq(Flow)
      <3>1. [flows[f] EXCEPT !.at = now] \in Flow
        BY <2>3 DEF Flow, TypeOK
      <3>2. flows' = [flows EXCEPT ![f] = [flows[f] EXCEPT !.at = now]]
        BY <1>3 DEF AuthorizeRedirect
      <3> QED
        BY <2>1, <3>1, <3>2, ExceptSeq DEF TypeOK
    <2>8. jar' \in [Browsers -> Cookie]
      <3>1. cfg \in Configs
        BY <2>1, ElementOfSeq DEF Snapshot, TypeOK
      <3>2. NonceCookie(cfg, f) \in Cookie
        BY <2>2, <3>1, CookieType
      <3> QED
        BY <1>3, <3>2 DEF AuthorizeRedirect, TypeOK
    <2>9. req' \in [Slots -> {Idle} \cup AuthorizeRequest \cup CallbackRequest
                           \cup TokenRequest \cup ExchangeRequest]
      BY <1>3, RequestsType DEF AuthorizeRedirect
    <2> QED
      BY <1>3, <2>6, <2>7, <2>8, <2>9 DEF AuthorizeRedirect, TypeOK
  <1>4. ASSUME NEW u \in consents, StravaApprove(u)
        PROVE  TypeOK'
    <2>1. u \in Consent
      BY DEF TypeOK
    <2>2. [flow |-> u.flow, used |-> FALSE, to |-> <<>>] \in StravaCode
      BY <2>1 DEF Consent, StravaCode
    <2>3. codes' \in Seq(StravaCode)
      BY <1>4, <2>2, AppendProperties DEF StravaApprove, TypeOK
    <2> QED
      BY <1>4, <2>3 DEF StravaApprove, TypeOK
  <1>5. ASSUME NEW u \in consents, NEW v \in Received(u)
        PROVE  v \in CallbackURL
    <2>1. u \in Consent
      BY DEF TypeOK
    <2>2. Len(codes) <= MaxCodes
      BY DEF BoundsInv
    <2> QED
      BY <2>1, <2>2 DEF Received, CallbackURL, Consent
  <1>6. ASSUME NEW s \in Slots, NEW b \in Browsers, NEW u \in consents,
               NEW v \in Received(u), CallbackStart(s, b, v)
        PROVE  TypeOK'
    <2> DEFINE r == [pc |-> "callback", snap |-> Len(configs), br |-> b, url |-> v,
                     cookie |-> Presented(b), first |-> b \notin returned]
    <2>1. v \in CallbackURL
      BY <1>5
    <2>2. Presented(b) \in Nonces
      BY DEF TypeOK, Presented, Cookie, Nonces
    <2>3. r \in CallbackRequest
      BY <2>1, <2>2 DEF CallbackRequest
    <2>4. req' \in [Slots -> {Idle} \cup AuthorizeRequest \cup CallbackRequest
                           \cup TokenRequest \cup ExchangeRequest]
      BY <1>6, <2>3, RequestsType DEF CallbackStart
    <2> QED
      BY <1>6, <2>4 DEF CallbackStart, TypeOK
  <1>7. ASSUME NEW s \in Slots, NEW delivered \in BOOLEAN, req[s].pc = "callback"
        PROVE  CookiesAfter(s, delivered) \in [Browsers -> Cookie]
    <2>1. NoCookie \in Cookie
      BY DEF NoCookie, Cookie, Nonces
    <2> QED
      BY <2>1 DEF TypeOK, CookiesAfter
  <1>8. ASSUME NEW s \in Slots, NEW delivered \in BOOLEAN,
               CallbackRefuse(s, delivered)
        PROVE  TypeOK'
    BY <1>7, <1>8, RequestsType DEF CallbackRefuse, TypeOK
  <1>9. ASSUME NEW s \in Slots, NEW delivered \in BOOLEAN,
               CallbackRedirect(s, delivered)
        PROVE  TypeOK'
    <2> DEFINE u == req[s].url
               cfg == Snapshot(s)
               m == RedirectToApp(cfg, u, Verdict(s))
    <2>1. /\ u \in CallbackURL
          /\ u.state \in StateEnvelope
          /\ req[s].snap \in 1..Len(configs)
          /\ Verdict(s) = "success" => u.code \in 1..MaxCodes
      BY <1>9, RedirectsTheSealed DEF CallbackRedirect, CallbackRequest
    <2>2. u.state.body \in StateBody
      BY <2>1 DEF StateEnvelope, EnvelopeOf
    <2>3. Verdict(s) = "success" => SealCode(cfg, u, now) \in CodeEnvelope
      <3> SUFFICES ASSUME Verdict(s) = "success"
                   PROVE  SealCode(cfg, u, now) \in CodeEnvelope
        OBVIOUS
      <3>1. [cid |-> u.state.body.cid, sc |-> u.code, iat |-> Unix(now)] \in CodeBody
        BY <2>1, <2>2, UnixBounds DEF StateBody, CodeBody, TypeOK
      <3> QED
        BY <2>1, <3>1, SealType DEF SealCode, CodeEnvelope, Snapshot, Domains
    <2>4. m \in AppRedirect
      BY <2>1, <2>2, <2>3 DEF RedirectToApp, AppRedirect, StateBody, CallbackURL
    <2>5. apps' \subseteq AppRedirect
      BY <1>9, <2>4 DEF CallbackRedirect, TypeOK
    <2>6. req' \in [Slots -> {Idle} \cup AuthorizeRequest \cup CallbackRequest
                           \cup TokenRequest \cup ExchangeRequest]
      BY <1>9, RequestsType DEF CallbackRedirect
    <2> QED
      BY <1>7, <1>9, <2>5, <2>6 DEF CallbackRedirect, TypeOK
  <1>10. ASSUME NEW s \in Slots, NEW form \in Form \cup {Garbage},
                TokenStart(s, form)
         PROVE  TypeOK'
    <2>1. [pc |-> "token", snap |-> Len(configs), form |-> form] \in TokenRequest
      BY DEF TokenRequest
    <2>2. req' \in [Slots -> {Idle} \cup AuthorizeRequest \cup CallbackRequest
                           \cup TokenRequest \cup ExchangeRequest]
      BY <1>10, <2>1, RequestsType DEF TokenStart
    <2> QED
      BY <1>10, <2>2 DEF TokenStart, TypeOK
  <1>11. ASSUME NEW cred \in Credentials, NEW e \in SeenEnvelopes
         PROVE  TokenForm(cred, e) \in Form
    <2>1. e \in CodeEnvelope \cup StateEnvelope \cup {Garbage}
      BY DEF SeenEnvelopes, TypeOK, AppRedirect, Consent
    <2> QED
      BY <2>1, QueriesAssumption DEF TokenForm, Form
  <1>12. ASSUME NEW s \in Slots, TokenSend(s)
         PROVE  TypeOK'
    <2> DEFINE r == [pc |-> "sent", cid |-> req[s].form.cid,
                     code |-> req[s].form.code.body.sc,
                     ans |-> "none", spent |-> FALSE]
    <2>1. r \in ExchangeRequest
      BY <1>12, SendsTheTold DEF TokenSend, Form, ExchangeRequest
    <2>2. req' \in [Slots -> {Idle} \cup AuthorizeRequest \cup CallbackRequest
                           \cup TokenRequest \cup ExchangeRequest]
      BY <1>12, <2>1, RequestsType DEF TokenSend
    <2> QED
      BY <1>12, <2>2 DEF TokenSend, TypeOK
  <1>13. ASSUME NEW c \in 1..Len(codes),
                codes' = [codes EXCEPT ![c].used = TRUE]
         PROVE  codes' \in Seq(StravaCode)
    <2>1. codes \in Seq(StravaCode)
      BY DEF TypeOK
    <2>2. codes[c] \in StravaCode
      BY <2>1, ElementOfSeq
    <2>3. [codes[c] EXCEPT !.used = TRUE] \in StravaCode
      BY <2>2 DEF StravaCode
    <2> QED
      BY <1>13, <2>1, <2>3, ExceptSeq
  <1>14. ASSUME NEW s \in Slots, req[s].pc \in {"sent", "answered"}
         PROVE  /\ req[s] \in ExchangeRequest
                /\ req[s].code \in 1..Len(codes)
    BY <1>14, RequestTypes DEF RequestsInv, RequestInv
  <1>15. ASSUME NEW s \in Slots, StravaExchange(s)
         PROVE  TypeOK'
    <2>1. req[s] \in ExchangeRequest /\ req[s].code \in 1..Len(codes)
      BY <1>14, <1>15 DEF StravaExchange
    <2>2. codes' \in Seq(StravaCode)
      BY <1>13, <1>15, <2>1 DEF StravaExchange, TypeOK
    <2>3. PICK r \in ExchangeRequest : req' = [req EXCEPT ![s] = r]
      <3>1. CASE codes[req[s].code].used
        <4> DEFINE r1 == [req[s] EXCEPT !.pc = "answered", !.ans = "invalid"]
        <4>1. r1 \in ExchangeRequest
          BY <2>1 DEF ExchangeRequest
        <4>2. req' = [req EXCEPT ![s] = r1]
          BY <1>15, <3>1 DEF StravaExchange
        <4> QED
          BY <4>1, <4>2
      <3>2. CASE ~codes[req[s].code].used
        <4> DEFINE r2 == [req[s] EXCEPT !.pc = "answered", !.ans = "tokens",
                                        !.spent = TRUE]
        <4>1. r2 \in ExchangeRequest
          BY <2>1 DEF ExchangeRequest
        <4>2. req' = [req EXCEPT ![s] = r2]
          BY <1>15, <3>2 DEF StravaExchange
        <4> QED
          BY <4>1, <4>2
      <3> QED
        BY <3>1, <3>2
    <2>4. req' \in [Slots -> {Idle} \cup AuthorizeRequest \cup CallbackRequest
                           \cup TokenRequest \cup ExchangeRequest]
      BY <2>3, RequestsType
    <2> QED
      BY <1>15, <2>2, <2>4 DEF StravaExchange, TypeOK
  <1>16. ASSUME NEW c \in orphans, StravaLate(c)
         PROVE  TypeOK'
    <2>1. c \in 1..Len(codes)
      BY DEF IInv, DeliveryInv
    <2>2. codes' \in Seq(StravaCode)
      BY <1>13, <1>16, <2>1 DEF StravaLate
    <2> QED
      BY <1>16, <2>2 DEF StravaLate, TypeOK
  <1>17. ASSUME NEW s \in Slots, NEW delivered \in BOOLEAN,
                TokenRelay(s, delivered)
         PROVE  TypeOK'
    <2> DEFINE c == req[s].code
               rec == [codes[c] EXCEPT !.to = Append(codes[c].to, req[s].cid)]
    <2>1. req[s] \in ExchangeRequest /\ c \in 1..Len(codes)
      BY <1>14, <1>17 DEF TokenRelay
    <2>2. codes[c] \in StravaCode
      BY <2>1, ElementOfSeq DEF TypeOK
    <2>3. Append(codes[c].to, req[s].cid) \in Seq(ClientIds)
      BY <2>1, <2>2, AppendProperties DEF StravaCode, ExchangeRequest
    <2>4. rec \in StravaCode
      BY <2>2, <2>3 DEF StravaCode
    <2>5. [codes EXCEPT ![c] = rec] \in Seq(StravaCode)
      BY <2>1, <2>4, ExceptSeq DEF TypeOK
    <2>6. codes' = codes \/ codes' = [codes EXCEPT ![c] = rec]
      BY <1>17 DEF TokenRelay
    <2>7. req' \in [Slots -> {Idle} \cup AuthorizeRequest \cup CallbackRequest
                           \cup TokenRequest \cup ExchangeRequest]
      BY <1>17, RequestsType DEF TokenRelay
    <2> QED
      BY <1>17, <2>5, <2>6, <2>7 DEF TokenRelay, TypeOK
  <1>18. ASSUME NEW s \in Slots, NEW arrives \in BOOLEAN, TokenFail(s, arrives)
         PROVE  TypeOK'
    <2>1. req[s].code \in 1..MaxCodes
      BY <1>14, <1>18 DEF TokenFail, ExchangeRequest
    <2>2. req' \in [Slots -> {Idle} \cup AuthorizeRequest \cup CallbackRequest
                           \cup TokenRequest \cup ExchangeRequest]
      BY <1>18, RequestsType DEF TokenFail
    <2> QED
      BY <1>18, <2>1, <2>2 DEF TokenFail, TypeOK
  <1>19. ASSUME NEW cfg \in Configs, Publish(cfg)
         PROVE  configs' \in Seq(Configs) /\ Len(configs') > 0
    BY <1>19, AppendProperties DEF Publish, TypeOK
  <1>20. ASSUME NEW cfg \in Configs, Reload(cfg)
         PROVE  TypeOK'
    BY <1>19, <1>20 DEF Reload, TypeOK
  <1>21. ASSUME NEW cfg \in Configs, NEW arrives \in BOOLEAN, Restart(cfg, arrives)
         PROVE  TypeOK'
    <2>1. \A s \in Slots : req[s].pc = "sent" => req[s].code \in 1..MaxCodes
      BY <1>14 DEF ExchangeRequest
    <2>2. orphans' \subseteq 1..MaxCodes
      BY <1>21, <2>1 DEF Restart, TypeOK
    <2> QED
      BY <1>19, <1>21, <2>2 DEF Restart, TypeOK
  <1>22. ASSUME Tick PROVE TypeOK'
    BY <1>22 DEF Tick, TypeOK
  <1>23. ASSUME UNCHANGED vars PROVE TypeOK'
    BY <1>23 DEF vars, TypeOK
  <1>24. ASSUME NEW s \in Slots, AuthorizeReject(s) \/ TokenReject(s)
         PROVE  TypeOK'
    BY <1>1, <1>24 DEF AuthorizeReject, TokenReject
  <1>25. ASSUME NEW s \in Slots, Handler(s) \/ Arrival(s)
         PROVE  TypeOK'
    BY <1>2, <1>3, <1>6, <1>8, <1>9, <1>10, <1>11, <1>12, <1>17, <1>18, <1>24,
       <1>25
       DEF Handler, Arrival
  <1> QED
    BY <1>4, <1>15, <1>16, <1>20, <1>21, <1>22, <1>23, <1>25
       DEF Next, Strava, Operator

-----------------------------------------------------------------------------
(* The invariant *)

\* Nothing recorded is ever changed in what the messages refer to.
FlowsGrow(fs, fs2) ==
    /\ Len(fs) <= Len(fs2)
    /\ \A f \in 1..Len(fs) : fs2[f].q = fs[f].q

CodesGrow(cs, cs2) ==
    /\ Len(cs) <= Len(cs2)
    /\ \A c \in 1..Len(cs) : cs2[c].flow = cs[c].flow

(***************************************************************************)
(* What was true of a message stays true as flows, codes and redirects are *)
(* added.                                                                  *)
(***************************************************************************)
LEMMA Growth ==
    ASSUME NEW fs \in Seq(Flow), NEW fs2 \in Seq(Flow), FlowsGrow(fs, fs2),
           NEW cs \in Seq(StravaCode), NEW cs2 \in Seq(StravaCode), CodesGrow(cs, cs2),
           NEW ms, NEW ms2, ms \subseteq ms2
    PROVE  /\ \A x, c : Informed(x, c, fs, ms) => Informed(x, c, fs2, ms2)
           /\ \A e, f : StateOf(e, f, fs) => StateOf(e, f, fs2)
           /\ \A u : GoodURL(u, fs, cs) => GoodURL(u, fs2, cs2)
           /\ \A m : GoodApp(m, fs, cs) => GoodApp(m, fs2, cs2)
           /\ \A e : GoodCode(e, fs, cs, ms) => GoodCode(e, fs2, cs2, ms2)
  <1>0. /\ Len(fs) \in Nat /\ Len(fs2) \in Nat
        /\ Len(cs) \in Nat /\ Len(cs2) \in Nat
    BY LenProperties
  <1>1. \A f \in 1..Len(fs) : f \in 1..Len(fs2) /\ fs2[f].q = fs[f].q
    BY <1>0 DEF FlowsGrow
  <1>2. \A c \in 1..Len(cs) : c \in 1..Len(cs2)
    BY <1>0 DEF CodesGrow
  <1>3. \A x, c : Informed(x, c, fs, ms) => Informed(x, c, fs2, ms2)
    BY <1>1, Zenon DEF Informed
  <1>4. \A e, f : StateOf(e, f, fs) => StateOf(e, f, fs2)
    BY <1>1, Zenon DEF StateOf
  <1>5. \A u : GoodURL(u, fs, cs) => GoodURL(u, fs2, cs2)
    BY <1>1, <1>2, <1>4 DEF GoodURL
  <1>6. \A m : GoodApp(m, fs, cs) => GoodApp(m, fs2, cs2)
    BY <1>1, <1>2 DEF GoodApp
  <1>7. \A e : GoodCode(e, fs, cs, ms) => GoodCode(e, fs2, cs2, ms2)
    BY <1>2, <1>3 DEF GoodCode
  <1> QED
    BY <1>3, <1>4, <1>5, <1>6, <1>7

(***************************************************************************)
(* So does what is good in the hands of a request, when reloads add        *)
(* configurations besides.                                                 *)
(***************************************************************************)
LEMMA RequestGrowth ==
    ASSUME NEW fs \in Seq(Flow), NEW fs2 \in Seq(Flow), FlowsGrow(fs, fs2),
           NEW cs \in Seq(StravaCode), NEW cs2 \in Seq(StravaCode), CodesGrow(cs, cs2),
           NEW ms, NEW ms2, ms \subseteq ms2,
           NEW n \in Nat, NEW n2 \in Nat, n <= n2,
           NEW r, RequestInv(r, n, fs, cs, ms)
    PROVE  RequestInv(r, n2, fs2, cs2, ms2)
  <1>0. /\ Len(fs) \in Nat /\ Len(fs2) \in Nat
        /\ Len(cs) \in Nat /\ Len(cs2) \in Nat
    BY LenProperties
  <1>1. r.pc \in {"authorize", "callback", "token"} => r.snap \in 1..n2
    BY DEF RequestInv
  <1>2. r.pc = "authorize" => r.flow \in 1..Len(fs2)
    BY <1>0 DEF RequestInv, FlowsGrow
  <1>3. r.pc = "callback" => GoodURL(r.url, fs2, cs2)
    BY Growth DEF RequestInv
  <1>4. r.pc = "token" /\ r.form # Garbage /\ r.form.code # Garbage
          => GoodCode(r.form.code, fs2, cs2, ms2)
    BY Growth DEF RequestInv
  <1>5. r.pc \in {"sent", "answered"} =>
           /\ r.code \in 1..Len(cs2)
           /\ Informed(r.cid, r.code, fs2, ms2)
    <2>1. \A x, c : Informed(x, c, fs, ms) => Informed(x, c, fs2, ms2)
      BY Growth
    <2> QED
      BY <1>0, <2>1 DEF RequestInv, CodesGrow
  <1> QED
    BY <1>1, <1>2, <1>3, <1>4, <1>5 DEF RequestInv

(***************************************************************************)
(* Slots may be freed, or given good requests, without breaking the        *)
(* invariant of the requests.                                              *)
(***************************************************************************)
LEMMA RequestsStep ==
    ASSUME IInv, TypeOK', Len(configs) <= Len(configs'),
           FlowsGrow(flows, flows'), CodesGrow(codes, codes'), apps \subseteq apps',
           \A t \in Slots :
               \/ req'[t] = req[t]
               \/ req'[t] = Idle
               \/ RequestInv(req'[t], Len(configs'), flows', codes', apps')
    PROVE  RequestsInv'
  <1>1. /\ Len(configs) \in Nat /\ Len(configs') \in Nat
        /\ flows \in Seq(Flow) /\ flows' \in Seq(Flow)
        /\ codes \in Seq(StravaCode) /\ codes' \in Seq(StravaCode)
    BY LenProperties DEF IInv, TypeOK
  <1>2. \A x : RequestInv(x, Len(configs), flows, codes, apps)
                 => RequestInv(x, Len(configs'), flows', codes', apps')
    BY <1>1, RequestGrowth
  <1>3. RequestInv(Idle, Len(configs'), flows', codes', apps')
    BY DEF RequestInv, Idle
  <1>4. ASSUME NEW t \in Slots
        PROVE  RequestInv(req'[t], Len(configs'), flows', codes', apps')
    <2>1. RequestInv(req[t], Len(configs), flows, codes, apps)
      BY DEF IInv, RequestsInv
    <2> QED
      BY <1>2, <1>3, <2>1
  <1> QED
    BY <1>4 DEF RequestsInv

(***************************************************************************)
(* A step that leaves the codes alone, and gives no request tokens, leaves *)
(* the deliveries alone.                                                   *)
(***************************************************************************)
LEMMA DeliveryStep ==
    ASSUME IInv, TypeOK', FlowsGrow(flows, flows'), codes' = codes,
           apps \subseteq apps', orphans' \subseteq 1..Len(codes),
           \A t \in Slots : HasTokens(req'[t]) => req'[t] = req[t]
    PROVE  DeliveryInv'
  <1>1. \A x, c : Informed(x, c, flows, apps) => Informed(x, c, flows', apps')
    <2>1. flows \in Seq(Flow) /\ flows' \in Seq(Flow) /\ codes \in Seq(StravaCode)
      BY DEF IInv, TypeOK
    <2>2. CodesGrow(codes, codes)
      BY <2>1, LenProperties DEF CodesGrow
    <2> QED
      BY <2>1, <2>2, Growth
  <1> QED
    BY <1>1 DEF IInv, DeliveryInv

(***************************************************************************)
(* The initial states satisfy the invariant.                               *)
(***************************************************************************)
LEMMA InvInit ==
    ASSUME Init
    PROVE  IInv
  <1>1. TypeOK
    <2>1. NoCookie \in Cookie
      BY DEF NoCookie, Cookie, Nonces
    <2>2. configs \in Seq(Configs) /\ Len(configs) > 0
      BY DEF Init
    <2> QED
      BY <2>1, <2>2 DEF Init, TypeOK
  <1>2. BoundsInv /\ SealedInv
    BY BoundsAssumption DEF Init, BoundsInv, SealedInv
  <1>3. RequestsInv
    BY DEF Init, RequestsInv, RequestInv, Idle
  <1>4. DeliveryInv
    BY DEF Init, DeliveryInv, HasTokens, Idle
  <1> QED
    BY <1>1, <1>2, <1>3, <1>4 DEF IInv

(***************************************************************************)
(* Every step of every actor keeps the invariant.                          *)
(***************************************************************************)
LEMMA InvStep ==
    ASSUME IInv, [Next]_vars
    PROVE  IInv'
  <1> USE DEF proxyVars, browserVars, stravaVars
  <1> TypeOK /\ BoundsInv /\ SealedInv /\ RequestsInv /\ DeliveryInv
    BY DEF IInv
  <1>t. TypeOK'
    BY TypeStep
  <1> /\ flows \in Seq(Flow) /\ codes \in Seq(StravaCode)
      /\ configs \in Seq(Configs)
      /\ Len(flows) \in Nat /\ Len(codes) \in Nat /\ Len(configs) \in Nat
      /\ MaxFlows \in Nat /\ MaxCodes \in Nat
    BY BoundsAssumption, LenProperties DEF TypeOK
  <1>0. FlowsGrow(flows, flows) /\ CodesGrow(codes, codes)
    BY DEF FlowsGrow, CodesGrow
  <1>a. UNCHANGED apps => apps \subseteq apps'
    OBVIOUS
  \* A request is answered and leaves everything else alone.
  <1>1. ASSUME NEW s \in Slots, req' = [req EXCEPT ![s] = Idle],
               UNCHANGED <<configs, flows, consents, apps, codes>>,
               orphans' \subseteq 1..Len(codes)
        PROVE  IInv'
    <2>1. BoundsInv' /\ SealedInv'
      BY <1>1 DEF BoundsInv, SealedInv
    <2>2. RequestsInv'
      <3>1. /\ Len(configs) <= Len(configs') /\ apps \subseteq apps'
            /\ FlowsGrow(flows, flows') /\ CodesGrow(codes, codes')
        BY <1>0, <1>1
      <3>2. \A t \in Slots : req'[t] = req[t] \/ req'[t] = Idle
        BY <1>1 DEF TypeOK
      <3> QED
        BY <1>t, <3>1, <3>2, RequestsStep
    <2>3. \A t \in Slots : HasTokens(req'[t]) => req'[t] = req[t]
      BY <1>1 DEF TypeOK, HasTokens, Idle
    <2>4. DeliveryInv'
      BY <1>0, <1>1, <1>t, <2>3, <1>a, DeliveryStep
    <2> QED
      BY <1>t, <2>1, <2>2, <2>4 DEF IInv
  \* A request arrives, or goes on, with something good in hand.
  <1>2. ASSUME NEW s \in Slots, NEW r, req' = [req EXCEPT ![s] = r],
               r \in AuthorizeRequest \cup CallbackRequest \cup TokenRequest
                       \/ r.pc = "sent",
               RequestInv(r, Len(configs'), flows', codes', apps'),
               UNCHANGED <<configs, consents, apps, codes, orphans>>,
               FlowsGrow(flows, flows'), Len(flows') <= MaxFlows
        PROVE  IInv'
    <2>1. /\ \A e, f : StateOf(e, f, flows) => StateOf(e, f, flows')
          /\ \A m : GoodApp(m, flows, codes) => GoodApp(m, flows', codes)
      <3>1. flows' \in Seq(Flow)
        BY <1>t DEF TypeOK
      <3>2. FlowsGrow(flows, flows') /\ CodesGrow(codes, codes)
        BY <1>0, <1>2
      <3> QED
        BY <3>1, <3>2, Growth
    <2>2. SealedInv'
      BY <1>2, <2>1 DEF SealedInv
    <2>3. BoundsInv'
      <3>1. Len(flows') \in Nat
        BY <1>t, LenProperties DEF TypeOK
      <3> QED
        BY <1>2, <3>1 DEF BoundsInv, FlowsGrow
    <2>4. RequestsInv'
      <3>1. /\ Len(configs) <= Len(configs') /\ apps \subseteq apps'
            /\ FlowsGrow(flows, flows') /\ CodesGrow(codes, codes')
        BY <1>0, <1>2
      <3>2. \A t \in Slots : req'[t] = req[t] \/ req'[t] = r
        BY <1>2 DEF TypeOK
      <3>3. RequestInv(r, Len(configs'), flows', codes', apps')
        BY <1>2
      <3> QED
        BY <1>t, <3>1, <3>2, <3>3, RequestsStep
    <2>5. ~HasTokens(r)
      BY <1>2 DEF HasTokens, AuthorizeRequest, CallbackRequest, TokenRequest
    <2>6. \A t \in Slots : HasTokens(req'[t]) => req'[t] = req[t]
      BY <1>2, <2>5 DEF TypeOK
    <2>7. orphans' \subseteq 1..Len(codes)
      BY <1>2 DEF DeliveryInv
    <2>8. DeliveryInv'
      BY <1>0, <1>2, <1>t, <2>6, <2>7, <1>a, DeliveryStep
    <2> QED
      BY <1>t, <2>2, <2>3, <2>4, <2>8 DEF IInv
  <1>3. ASSUME NEW s \in Slots,
               AuthorizeReject(s) \/ TokenReject(s)
                 \/ \E delivered \in BOOLEAN : CallbackRefuse(s, delivered)
        PROVE  IInv'
    <2>1. orphans \subseteq 1..Len(codes)
      BY DEF DeliveryInv
    <2> QED
      BY <1>1, <1>3, <2>1 DEF AuthorizeReject, TokenReject, CallbackRefuse
  <1>4. ASSUME NEW s \in Slots, NEW arrives \in BOOLEAN, TokenFail(s, arrives)
        PROVE  IInv'
    <2>1. req[s].code \in 1..Len(codes)
      BY <1>4 DEF TokenFail, RequestsInv, RequestInv
    <2>2. orphans' \subseteq 1..Len(codes)
      BY <1>4, <2>1 DEF TokenFail, DeliveryInv
    <2> QED
      BY <1>1, <1>4, <2>2 DEF TokenFail
  <1>5. ASSUME NEW s \in Slots, NEW b \in Browsers, NEW q \in Queries,
               AuthorizeStart(s, b, q)
        PROVE  IInv'
    <2> DEFINE fl == [br |-> b, q |-> q, at |-> 0]
               r  == [pc |-> "authorize", snap |-> Len(configs),
                      flow |-> Len(flows) + 1]
    <2>1. fl \in Flow
      BY QueriesAssumption DEF Flow
    <2>2. /\ Len(flows') = Len(flows) + 1
          /\ \A f \in 1..Len(flows) : flows'[f] = flows[f]
      BY <1>5, <2>1, AppendProperties DEF AuthorizeStart
    <2>3. FlowsGrow(flows, flows') /\ Len(flows') <= MaxFlows
      BY <1>5, <2>2 DEF FlowsGrow, AuthorizeStart
    <2>4. r \in AuthorizeRequest
      BY <1>5 DEF AuthorizeStart, AuthorizeRequest
    <2>5. RequestInv(r, Len(configs), flows', codes, apps)
      BY <2>2 DEF RequestInv, TypeOK
    <2>6. req' = [req EXCEPT ![s] = r]
      BY <1>5 DEF AuthorizeStart
    <2>7. UNCHANGED <<configs, consents, apps, codes, orphans>>
      BY <1>5 DEF AuthorizeStart
    <2> HIDE DEF r
    <2> QED
      BY <1>2, <2>3, <2>4, <2>5, <2>6, <2>7
  <1>6. ASSUME NEW s \in Slots, NEW delivered \in BOOLEAN,
               AuthorizeRedirect(s, delivered)
        PROVE  IInv'
    <2> DEFINE cfg == Snapshot(s)
               f   == req[s].flow
               q   == flows[f].q
               u   == [flow |-> f, state |-> SealState(cfg, q, f, now)]
    <2>1. f \in 1..Len(flows)
      BY <1>6 DEF AuthorizeRedirect, RequestsInv, RequestInv
    <2>2. flows[f] \in Flow
      BY <2>1, ElementOfSeq
    <2>3. [flows[f] EXCEPT !.at = now] \in Flow
      BY <2>2 DEF Flow, TypeOK
    <2>4. flows' = [flows EXCEPT ![f] = [flows[f] EXCEPT !.at = now]]
      BY <1>6 DEF AuthorizeRedirect
    <2>5. /\ Len(flows') = Len(flows)
          /\ \A g \in 1..Len(flows) : flows'[g].q = flows[g].q
      <3>1. /\ Len(flows') = Len(flows)
            /\ \A g \in 1..Len(flows) :
                 flows'[g] = IF g = f THEN [flows[f] EXCEPT !.at = now] ELSE flows[g]
        BY <2>1, <2>3, <2>4, ExceptSeq
      <3>2. [flows[f] EXCEPT !.at = now].q = flows[f].q
        BY <2>2 DEF Flow
      <3> QED
        BY <3>1, <3>2
    <2>6. FlowsGrow(flows, flows')
      BY <2>5 DEF FlowsGrow
    <2>7. /\ \A e, g : StateOf(e, g, flows) => StateOf(e, g, flows')
          /\ \A m : GoodApp(m, flows, codes) => GoodApp(m, flows', codes)
      <3>1. flows' \in Seq(Flow)
        BY <1>t DEF TypeOK
      <3> QED
        BY <1>0, <2>6, <3>1, Growth
    <2>8. StateOf(u.state, u.flow, flows)
      BY <2>1 DEF StateOf, SealState, Seal, StatePayload
    <2>9. SealedInv'
      <3>1. \A v \in consents' : v \in consents \/ v = u
        BY <1>6 DEF AuthorizeRedirect
      <3>2. \A v \in consents' : StateOf(v.state, v.flow, flows')
        BY <2>7, <2>8, <3>1 DEF SealedInv
      <3>3. UNCHANGED <<apps, codes>>
        BY <1>6 DEF AuthorizeRedirect
      <3> QED
        BY <2>7, <3>2, <3>3 DEF SealedInv
    <2>10. UNCHANGED <<configs, apps, codes, orphans>> /\ req' = [req EXCEPT ![s] = Idle]
      BY <1>6 DEF AuthorizeRedirect
    <2>11. BoundsInv'
      BY <2>5, <2>10 DEF BoundsInv
    <2>12. RequestsInv'
      <3>1. /\ Len(configs) <= Len(configs') /\ apps \subseteq apps'
            /\ FlowsGrow(flows, flows') /\ CodesGrow(codes, codes')
        BY <1>0, <2>6, <2>10
      <3>2. \A t \in Slots : req'[t] = req[t] \/ req'[t] = Idle
        BY <2>10 DEF TypeOK
      <3> QED
        BY <1>t, <3>1, <3>2, RequestsStep
    <2>13. DeliveryInv'
      <3>1. \A t \in Slots : HasTokens(req'[t]) => req'[t] = req[t]
        BY <2>10 DEF TypeOK, HasTokens, Idle
      <3>2. orphans' \subseteq 1..Len(codes)
        BY <2>10 DEF DeliveryInv
      <3> QED
        BY <1>t, <2>6, <2>10, <3>1, <3>2, <1>a, DeliveryStep
    <2> QED
      BY <1>t, <2>9, <2>11, <2>12, <2>13 DEF IInv
  <1>7. ASSUME NEW u \in consents, StravaApprove(u)
        PROVE  IInv'
    <2> DEFINE c   == Len(codes) + 1
               rec == [flow |-> u.flow, used |-> FALSE, to |-> <<>>]
    <2>1. u \in Consent /\ StateOf(u.state, u.flow, flows)
      BY DEF TypeOK, SealedInv
    <2>2. rec \in StravaCode
      BY <2>1 DEF Consent, StravaCode
    <2>3. codes' = Append(codes, rec)
      BY <1>7 DEF StravaApprove
    <2>4. /\ Len(codes') = c
          /\ \A i \in 1..Len(codes) : codes'[i] = codes[i]
          /\ codes'[c] = rec
      BY <2>2, <2>3, AppendProperties
    <2>5. CodesGrow(codes, codes')
      BY <2>4 DEF CodesGrow
    <2>6. UNCHANGED <<configs, flows, consents, apps, orphans, req>>
      BY <1>7 DEF StravaApprove
    <2>7. \A m : GoodApp(m, flows, codes) => GoodApp(m, flows, codes')
      <3>1. codes' \in Seq(StravaCode)
        BY <1>t DEF TypeOK
      <3> QED
        BY <1>0, <2>5, <3>1, Growth
    <2>8. u.flow \in 1..Len(flows)
      BY <2>1 DEF StateOf
    <2>9. BoundsInv'
      <3>1. Len(codes') <= MaxCodes
        BY <1>7, <2>4 DEF StravaApprove
      <3>2. ASSUME NEW i \in 1..Len(codes') PROVE codes'[i].flow \in 1..Len(flows)
        <4>1. CASE i \in 1..Len(codes)
          <5>1. codes[i].flow \in 1..Len(flows)
            BY <4>1 DEF BoundsInv
          <5> QED
            BY <2>4, <4>1, <5>1
        <4>2. CASE i = c
          BY <2>4, <2>8, <4>2
        <4> QED
          BY <2>4, <4>1, <4>2
      <3> QED
        BY <2>6, <3>1, <3>2 DEF BoundsInv
    <2>11. SealedInv'
      BY <2>6, <2>7 DEF SealedInv
    <2>12. RequestsInv'
      <3>1. /\ Len(configs) <= Len(configs') /\ apps \subseteq apps'
            /\ FlowsGrow(flows, flows')
        BY <1>0, <2>6
      <3> QED
        BY <1>t, <2>5, <2>6, <3>1, RequestsStep
    <2>13. DeliveryInv'
      <3>1. orphans' \subseteq 1..Len(codes')
        BY <2>4, <2>6 DEF DeliveryInv
      <3>2. ASSUME NEW i \in 1..Len(codes')
            PROVE  /\ ~codes'[i].used => codes'[i].to = <<>>
                   /\ Len(codes'[i].to) <= 1
                   /\ \A j \in 1..Len(codes'[i].to) :
                          Informed(codes'[i].to[j], i, flows, apps)
        <4>1. CASE i \in 1..Len(codes)
          BY <2>4, <4>1 DEF DeliveryInv
        <4>2. CASE i = c
          BY <2>4, <4>2
        <4> QED
          BY <2>4, <4>1, <4>2
      <3>3. ASSUME NEW s \in Slots, HasTokens(req[s])
            PROVE  /\ codes'[req[s].code].used
                   /\ codes'[req[s].code].to = <<>>
                   /\ \A t \in Slots :
                         HasTokens(req[t]) /\ req[t].code = req[s].code => t = s
        <4>1. req[s].code \in 1..Len(codes)
          BY <3>3 DEF RequestsInv, RequestInv, HasTokens
        <4> QED
          BY <2>4, <3>3, <4>1 DEF DeliveryInv
      <3> QED
        BY <2>6, <3>1, <3>2, <3>3 DEF DeliveryInv
    <2> QED
      BY <1>t, <2>9, <2>11, <2>12, <2>13 DEF IInv
  <1>9. ASSUME NEW s \in Slots, NEW b \in Browsers, NEW u \in consents,
               NEW v \in Received(u), CallbackStart(s, b, v)
        PROVE  IInv'
    <2> DEFINE r == [pc |-> "callback", snap |-> Len(configs), br |-> b, url |-> v,
                     cookie |-> Presented(b), first |-> b \notin returned]
    <2>1. u \in Consent /\ StateOf(u.state, u.flow, flows)
      BY DEF TypeOK, SealedInv
    <2>2. GoodURL(v, flows, codes)
      BY <2>1 DEF Received, GoodURL, StateOf
    <2>3. RequestInv(r, Len(configs), flows, codes, apps)
      BY <2>2 DEF RequestInv, TypeOK
    <2>4. v \in CallbackURL
      <3>1. Len(codes) <= MaxCodes
        BY DEF BoundsInv
      <3> QED
        BY <2>1, <3>1 DEF Received, CallbackURL, Consent
    <2>5. Presented(b) \in Nonces
      BY DEF TypeOK, Presented, Cookie, Nonces
    <2>6. r \in CallbackRequest
      BY <2>4, <2>5 DEF CallbackRequest
    <2>7. /\ req' = [req EXCEPT ![s] = r]
          /\ UNCHANGED <<configs, flows, consents, apps, codes, orphans>>
      BY <1>9 DEF CallbackStart
    <2>8. FlowsGrow(flows, flows') /\ Len(flows') <= MaxFlows
      BY <1>0, <2>7 DEF BoundsInv
    <2> HIDE DEF r
    <2> QED
      BY <1>2, <2>3, <2>6, <2>7, <2>8
  <1>10. ASSUME NEW s \in Slots, NEW delivered \in BOOLEAN,
                CallbackRedirect(s, delivered)
         PROVE  IInv'
    <2> DEFINE u   == req[s].url
               cfg == Snapshot(s)
               m   == RedirectToApp(cfg, u, Verdict(s))
    <2>1. /\ u \in CallbackURL
          /\ GoodURL(u, flows, codes)
          /\ StateOf(u.state, u.flow, flows)
          /\ Verdict(s) = "success" => u.code \in 1..MaxCodes
      BY <1>10, RedirectsTheSealed DEF CallbackRedirect, CallbackRequest
    <2>2. GoodApp(m, flows, codes)
      <3>1. m.flow \in 1..Len(flows)
        BY <2>1 DEF GoodURL, RedirectToApp
      <3> SUFFICES ASSUME m.code # NoCode
                   PROVE  /\ SealCode(cfg, u, now).body.sc \in 1..Len(codes)
                          /\ SealCode(cfg, u, now).body.cid = flows[u.flow].q.cid
        BY <3>1 DEF RedirectToApp, GoodApp
      <3>2. Verdict(s) = "success"
        BY DEF RedirectToApp
      <3>3. u.code # NoCode
        BY <2>1, <3>2, SentinelAssumption
      <3>4. u.code \in 1..Len(codes)
        BY <2>1, <3>3 DEF GoodURL
      <3> QED
        BY <2>1, <3>4 DEF StateOf, SealCode, Seal
    <2>3. \A n \in apps' : n \in apps \/ n = m
      BY <1>10 DEF CallbackRedirect
    <2>4. /\ req' = [req EXCEPT ![s] = Idle]
          /\ UNCHANGED <<configs, flows, consents, codes, orphans>>
      BY <1>10 DEF CallbackRedirect
    <2>5. SealedInv'
      BY <2>2, <2>3, <2>4 DEF SealedInv
    <2>6. BoundsInv'
      BY <2>4 DEF BoundsInv
    <2>7. RequestsInv'
      <3>1. /\ Len(configs) <= Len(configs') /\ apps \subseteq apps'
            /\ FlowsGrow(flows, flows') /\ CodesGrow(codes, codes')
        BY <1>0, <1>10, <2>4 DEF CallbackRedirect
      <3>2. \A t \in Slots : req'[t] = req[t] \/ req'[t] = Idle
        BY <2>4 DEF TypeOK
      <3> QED
        BY <1>t, <3>1, <3>2, RequestsStep
    <2>8. DeliveryInv'
      <3>1. \A t \in Slots : HasTokens(req'[t]) => req'[t] = req[t]
        BY <2>4 DEF TypeOK, HasTokens, Idle
      <3>2. orphans' \subseteq 1..Len(codes) /\ FlowsGrow(flows, flows')
        BY <1>0, <2>4 DEF DeliveryInv
      <3>3. apps \subseteq apps'
        BY <1>10 DEF CallbackRedirect
      <3> QED
        BY <1>t, <2>4, <3>1, <3>2, <3>3, DeliveryStep
    <2> QED
      BY <1>t, <2>5, <2>6, <2>7, <2>8 DEF IInv
  <1>11. ASSUME NEW s \in Slots, NEW cred \in Credentials,
                NEW form, form = Garbage \/
                  \E e \in SeenEnvelopes : form = TokenForm(cred, e),
                TokenStart(s, form)
         PROVE  IInv'
    <2> DEFINE r == [pc |-> "token", snap |-> Len(configs), form |-> form]
    <2>1. ASSUME NEW e \in SeenEnvelopes, e # Garbage
          PROVE  /\ e \in CodeEnvelope \cup StateEnvelope
                 /\ GoodCode(e, flows, codes, apps)
      <3>1. CASE \E m \in apps : m.code # NoCode /\ e = m.code
        <4>1. PICK m \in apps : m.code # NoCode /\ e = m.code
          BY <3>1
        <4>2. e \in CodeEnvelope
          BY <4>1 DEF TypeOK, AppRedirect
        <4>3. GoodApp(m, flows, codes)
          BY DEF SealedInv
        <4> QED
          BY <4>1, <4>2, <4>3 DEF GoodApp, GoodCode, Informed
      <3>2. CASE \E u \in consents : e = u.state
        <4>1. PICK u \in consents : e = u.state
          BY <3>2
        <4>2. StateOf(e, u.flow, flows) /\ e \in StateEnvelope
          BY <4>1 DEF SealedInv, TypeOK, Consent
        <4>3. DomainState # DomainCode
          BY DEF DomainState, DomainCode
        <4> QED
          BY <4>2, <4>3 DEF StateOf, GoodCode
      <3> QED
        BY <2>1, <3>1, <3>2 DEF SeenEnvelopes
    <2>2. form # Garbage /\ form.code # Garbage
            => GoodCode(form.code, flows, codes, apps)
      BY <1>11, <2>1 DEF TokenForm
    <2>3. form \in Form \cup {Garbage}
      <3>1. ASSUME NEW e \in SeenEnvelopes
            PROVE  TokenForm(cred, e) \in Form
        BY <2>1, QueriesAssumption DEF TokenForm, Form
      <3> QED
        BY <1>11, <3>1
    <2>4. r \in TokenRequest
      BY <2>3 DEF TokenRequest
    <2>5. RequestInv(r, Len(configs), flows, codes, apps)
      BY <2>2 DEF RequestInv, TypeOK
    <2>6. /\ req' = [req EXCEPT ![s] = r]
          /\ UNCHANGED <<configs, flows, consents, apps, codes, orphans>>
      BY <1>11 DEF TokenStart
    <2>7. FlowsGrow(flows, flows') /\ Len(flows') <= MaxFlows
      BY <1>0, <2>6 DEF BoundsInv
    <2> HIDE DEF r
    <2> QED
      BY <1>2, <2>4, <2>5, <2>6, <2>7
  <1>12. ASSUME NEW s \in Slots, TokenSend(s)
         PROVE  IInv'
    <2> DEFINE r == [pc |-> "sent", cid |-> req[s].form.cid,
                     code |-> req[s].form.code.body.sc,
                     ans |-> "none", spent |-> FALSE]
    <2>1. /\ r.code \in 1..Len(codes)
          /\ Informed(r.cid, r.code, flows, apps)
      BY <1>12, SendsTheTold DEF TokenSend
    <2>2. RequestInv(r, Len(configs), flows, codes, apps)
      BY <2>1 DEF RequestInv
    <2>3. /\ req' = [req EXCEPT ![s] = r]
          /\ UNCHANGED <<configs, flows, consents, apps, codes, orphans>>
      BY <1>12 DEF TokenSend
    <2>4. FlowsGrow(flows, flows') /\ Len(flows') <= MaxFlows
      BY <1>0, <2>3 DEF BoundsInv
    <2>5. r.pc = "sent"
      OBVIOUS
    <2> HIDE DEF r
    <2> QED
      BY <1>2, <2>2, <2>3, <2>4, <2>5
  \* One code is burnt or delivered.
  <1>13. ASSUME NEW c \in 1..Len(codes), NEW rec \in StravaCode,
                rec.flow = codes[c].flow,
                codes' = [codes EXCEPT ![c] = rec],
                UNCHANGED <<configs, flows, consents, apps>>
         PROVE  /\ Len(codes') = Len(codes)
                /\ \A i \in 1..Len(codes) : codes'[i] = IF i = c THEN rec ELSE codes[i]
                /\ CodesGrow(codes, codes')
                /\ BoundsInv' /\ SealedInv'
    <2>1. /\ Len(codes') = Len(codes)
          /\ \A i \in 1..Len(codes) : codes'[i] = IF i = c THEN rec ELSE codes[i]
      BY <1>13, ExceptSeq
    <2>2. CodesGrow(codes, codes')
      BY <1>13, <2>1 DEF CodesGrow
    <2>3. BoundsInv'
      BY <1>13, <2>1 DEF BoundsInv
    <2>4. \A m : GoodApp(m, flows, codes) => GoodApp(m, flows, codes')
      <3>1. codes' \in Seq(StravaCode)
        BY <1>t DEF TypeOK
      <3> QED
        BY <1>0, <2>2, <3>1, Growth
    <2>5. SealedInv'
      BY <1>13, <2>4 DEF SealedInv
    <2> QED
      BY <2>1, <2>2, <2>3, <2>4, <2>5
  <1>14. ASSUME NEW s \in Slots, req[s].pc \in {"sent", "answered"}
         PROVE  /\ req[s] \in ExchangeRequest
                /\ req[s].code \in 1..Len(codes)
                /\ codes[req[s].code] \in StravaCode
                /\ Informed(req[s].cid, req[s].code, flows, apps)
                /\ req[s].pc = "sent" => ~req[s].spent
    <2>1. /\ req[s] \in ExchangeRequest
          /\ req[s].code \in 1..Len(codes)
          /\ Informed(req[s].cid, req[s].code, flows, apps)
          /\ req[s].pc = "sent" => ~req[s].spent
      BY <1>14, RequestTypes DEF RequestsInv, RequestInv
    <2> QED
      BY <2>1, ElementOfSeq
  <1>15. ASSUME NEW s \in Slots, StravaExchange(s), codes[req[s].code].used
         PROVE  IInv'
    <2> DEFINE r == [req[s] EXCEPT !.pc = "answered", !.ans = "invalid"]
    <2>1. /\ req[s] \in ExchangeRequest
          /\ req[s].code \in 1..Len(codes)
          /\ Informed(req[s].cid, req[s].code, flows, apps)
          /\ ~req[s].spent
      BY <1>14, <1>15 DEF StravaExchange
    <2>2. /\ req' = [req EXCEPT ![s] = r]
          /\ UNCHANGED <<configs, flows, consents, apps, codes, orphans>>
      BY <1>15 DEF StravaExchange
    <2>3. RequestInv(r, Len(configs), flows, codes, apps) /\ ~HasTokens(r)
      BY <2>1 DEF RequestInv, HasTokens, ExchangeRequest
    <2> HIDE DEF r
    <2>4. BoundsInv' /\ SealedInv'
      BY <2>2 DEF BoundsInv, SealedInv
    <2>5. \A t \in Slots : req'[t] = req[t] \/ req'[t] = r
      BY <2>2 DEF TypeOK
    <2>6. RequestsInv'
      <3>1. /\ Len(configs) <= Len(configs') /\ apps \subseteq apps'
            /\ FlowsGrow(flows, flows') /\ CodesGrow(codes, codes')
        BY <1>0, <2>2
      <3>2. RequestInv(r, Len(configs'), flows', codes', apps')
        BY <2>2, <2>3
      <3> QED
        BY <1>t, <2>5, <3>1, <3>2, RequestsStep
    <2>7. DeliveryInv'
      <3>1. \A t \in Slots : HasTokens(req'[t]) => req'[t] = req[t]
        BY <2>3, <2>5
      <3>2. orphans' \subseteq 1..Len(codes) /\ FlowsGrow(flows, flows')
        BY <1>0, <2>2 DEF DeliveryInv
      <3> QED
        BY <1>t, <2>2, <3>1, <3>2, <1>a, DeliveryStep
    <2> QED
      BY <1>t, <2>4, <2>6, <2>7 DEF IInv
  <1>16. ASSUME NEW s \in Slots, StravaExchange(s), ~codes[req[s].code].used
         PROVE  IInv'
    <2> DEFINE c   == req[s].code
               r   == [req[s] EXCEPT !.pc = "answered", !.ans = "tokens",
                                     !.spent = TRUE]
               rec == [codes[c] EXCEPT !.used = TRUE]
    <2>1. /\ req[s] \in ExchangeRequest
          /\ c \in 1..Len(codes)
          /\ codes[c] \in StravaCode
          /\ Informed(req[s].cid, c, flows, apps)
      BY <1>14, <1>16 DEF StravaExchange
    <2>2. /\ req' = [req EXCEPT ![s] = r]
          /\ codes' = [codes EXCEPT ![c] = rec]
          /\ UNCHANGED <<configs, flows, consents, apps, orphans>>
      BY <1>16 DEF StravaExchange
    <2>3. /\ rec \in StravaCode
          /\ rec.flow = codes[c].flow /\ rec.used /\ rec.to = codes[c].to
      BY <2>1 DEF StravaCode
    <2>4. /\ r.pc = "answered" /\ r.ans = "tokens"
          /\ r.code = c /\ r.cid = req[s].cid
      BY <2>1 DEF ExchangeRequest
    <2> HIDE DEF r, rec
    <2>5. /\ Len(codes') = Len(codes)
          /\ \A i \in 1..Len(codes) : codes'[i] = IF i = c THEN rec ELSE codes[i]
          /\ CodesGrow(codes, codes')
          /\ BoundsInv' /\ SealedInv'
      BY <1>13, <2>1, <2>2, <2>3
    <2>6. RequestInv(r, Len(configs), flows, codes', apps)
      BY <2>1, <2>4, <2>5 DEF RequestInv
    <2>7. req'[s] = r /\ \A t \in Slots : t # s => req'[t] = req[t]
      BY <2>2 DEF TypeOK
    <2>8. RequestsInv'
      <3>1. /\ Len(configs) <= Len(configs') /\ apps \subseteq apps'
            /\ FlowsGrow(flows, flows')
        BY <1>0, <2>2
      <3>2. RequestInv(r, Len(configs'), flows', codes', apps')
        BY <2>2, <2>6
      <3> QED
        BY <1>t, <2>5, <2>7, <3>1, <3>2, RequestsStep
    <2>9. DeliveryInv'
      <3>1. orphans' \subseteq 1..Len(codes')
        BY <2>2, <2>5 DEF DeliveryInv
      <3>2. codes[c].to = <<>>
        BY <1>16, <2>1 DEF DeliveryInv
      <3>3. ASSUME NEW i \in 1..Len(codes')
            PROVE  /\ ~codes'[i].used => codes'[i].to = <<>>
                   /\ Len(codes'[i].to) <= 1
                   /\ \A j \in 1..Len(codes'[i].to) :
                          Informed(codes'[i].to[j], i, flows', apps')
        <4>1. codes'[i].to = codes[i].to
          BY <2>3, <2>5
        <4>2. ~codes'[i].used => ~codes[i].used
          BY <2>3, <2>5
        <4>3. UNCHANGED <<flows, apps>> /\ i \in 1..Len(codes)
          BY <2>2, <2>5
        <4> QED
          BY <4>1, <4>2, <4>3 DEF DeliveryInv
      <3>4. ASSUME NEW t \in Slots, t # s, HasTokens(req[t])
            PROVE  /\ req[t].code # c
                   /\ req[t].code \in 1..Len(codes)
                   /\ codes'[req[t].code] = codes[req[t].code]
        <4>1. codes[req[t].code].used
          BY <3>4 DEF DeliveryInv
        <4>2. req[t].code \in 1..Len(codes)
          BY <1>14, <3>4 DEF HasTokens
        <4> QED
          BY <1>16, <2>5, <4>1, <4>2
      <3>5. ASSUME NEW t \in Slots, HasTokens(req'[t])
            PROVE  /\ codes'[req'[t].code].used
                   /\ codes'[req'[t].code].to = <<>>
                   /\ \A w \in Slots :
                         HasTokens(req'[w]) /\ req'[w].code = req'[t].code => w = t
        <4>1. CASE t = s
          <5>1. req'[t].code = c /\ codes'[c] = rec
            BY <2>1, <2>4, <2>5, <2>7, <4>1
          <5>2. ASSUME NEW w \in Slots, HasTokens(req'[w]), req'[w].code = c
                PROVE  w = s
            BY <2>7, <3>4, <5>2
          <5> QED
            BY <2>3, <3>2, <4>1, <5>1, <5>2
        <4>2. CASE t # s
          BY <2>4, <2>7, <3>4, <3>5, <4>2 DEF DeliveryInv
        <4> QED
          BY <4>1, <4>2
      <3> QED
        BY <3>1, <3>3, <3>5 DEF DeliveryInv
    <2> QED
      BY <1>t, <2>5, <2>8, <2>9 DEF IInv
  <1>17. ASSUME NEW c \in orphans, StravaLate(c)
         PROVE  IInv'
    <2> DEFINE rec == [codes[c] EXCEPT !.used = TRUE]
    <2>1. c \in 1..Len(codes)
      BY DEF DeliveryInv
    <2>2. codes[c] \in StravaCode
      BY <2>1, ElementOfSeq
    <2>3. /\ codes' = [codes EXCEPT ![c] = rec]
          /\ UNCHANGED <<configs, flows, consents, apps, req>>
          /\ orphans' \subseteq orphans
      BY <1>17 DEF StravaLate
    <2>4. /\ rec \in StravaCode
          /\ rec.flow = codes[c].flow /\ rec.used /\ rec.to = codes[c].to
      BY <2>2 DEF StravaCode
    <2> HIDE DEF rec
    <2>5. /\ Len(codes') = Len(codes)
          /\ \A i \in 1..Len(codes) : codes'[i] = IF i = c THEN rec ELSE codes[i]
          /\ CodesGrow(codes, codes')
          /\ BoundsInv' /\ SealedInv'
      BY <1>13, <2>1, <2>3, <2>4
    <2>6. RequestsInv'
      <3>1. /\ Len(configs) <= Len(configs') /\ apps \subseteq apps'
            /\ FlowsGrow(flows, flows')
        BY <1>0, <2>3
      <3> QED
        BY <1>t, <2>3, <2>5, <3>1, RequestsStep
    <2>7. DeliveryInv'
      <3>1. orphans' \subseteq 1..Len(codes')
        BY <2>3, <2>5 DEF DeliveryInv
      <3>2. ASSUME NEW i \in 1..Len(codes)
            PROVE  /\ codes'[i].to = codes[i].to
                   /\ codes[i].used => codes'[i].used
                   /\ UNCHANGED <<flows, apps>>
        BY <2>3, <2>4, <2>5
      <3>3. ASSUME NEW i \in 1..Len(codes')
            PROVE  /\ ~codes'[i].used => codes'[i].to = <<>>
                   /\ Len(codes'[i].to) <= 1
                   /\ \A j \in 1..Len(codes'[i].to) :
                          Informed(codes'[i].to[j], i, flows', apps')
        <4>1. i \in 1..Len(codes)
          BY <2>5
        <4> QED
          BY <3>2, <4>1 DEF DeliveryInv
      <3>4. ASSUME NEW s \in Slots, HasTokens(req'[s])
            PROVE  /\ codes'[req'[s].code].used
                   /\ codes'[req'[s].code].to = <<>>
                   /\ \A w \in Slots :
                         HasTokens(req'[w]) /\ req'[w].code = req'[s].code => w = s
        <4>1. req' = req /\ req[s].code \in 1..Len(codes)
          BY <1>14, <2>3, <3>4 DEF HasTokens
        <4> QED
          BY <3>2, <3>4, <4>1 DEF DeliveryInv
      <3> QED
        BY <3>1, <3>3, <3>4 DEF DeliveryInv
    <2> QED
      BY <1>t, <2>5, <2>6, <2>7 DEF IInv
  <1>18. ASSUME NEW s \in Slots, NEW delivered \in BOOLEAN,
                TokenRelay(s, delivered), delivered /\ HasTokens(req[s])
         PROVE  IInv'
    <2> DEFINE c   == req[s].code
               rec == [codes[c] EXCEPT !.to = Append(codes[c].to, req[s].cid)]
    <2>1. /\ c \in 1..Len(codes)
          /\ codes[c] \in StravaCode
          /\ req[s].cid \in ClientIds
          /\ Informed(req[s].cid, c, flows, apps)
      BY <1>14, <1>18 DEF TokenRelay, ExchangeRequest
    <2>2. /\ req' = [req EXCEPT ![s] = Idle]
          /\ codes' = [codes EXCEPT ![c] = rec]
          /\ UNCHANGED <<configs, flows, consents, apps, orphans>>
      BY <1>18 DEF TokenRelay, HasTokens
    <2>3. codes[c].to = <<>> /\ codes[c].used
      BY <1>18 DEF DeliveryInv
    <2>4. /\ rec \in StravaCode
          /\ rec.flow = codes[c].flow /\ rec.used
          /\ Len(rec.to) = 1 /\ rec.to[1] = req[s].cid
      <3>1. /\ Append(codes[c].to, req[s].cid) \in Seq(ClientIds)
            /\ Len(Append(codes[c].to, req[s].cid)) = 1
            /\ Append(codes[c].to, req[s].cid)[1] = req[s].cid
        BY <2>1, <2>3
      <3> QED
        BY <2>1, <2>3, <3>1 DEF StravaCode
    <2> HIDE DEF rec
    <2>5. /\ Len(codes') = Len(codes)
          /\ \A i \in 1..Len(codes) : codes'[i] = IF i = c THEN rec ELSE codes[i]
          /\ CodesGrow(codes, codes')
          /\ BoundsInv' /\ SealedInv'
      BY <1>13, <2>1, <2>2, <2>4
    <2>6. req'[s] = Idle /\ \A t \in Slots : t # s => req'[t] = req[t]
      BY <2>2 DEF TypeOK
    <2>7. RequestsInv'
      <3>1. /\ Len(configs) <= Len(configs') /\ apps \subseteq apps'
            /\ FlowsGrow(flows, flows')
        BY <1>0, <2>2
      <3> QED
        BY <1>t, <2>5, <2>6, <3>1, RequestsStep
    <2>8. DeliveryInv'
      <3>1. orphans' \subseteq 1..Len(codes')
        BY <2>2, <2>5 DEF DeliveryInv
      <3>2. ASSUME NEW i \in 1..Len(codes')
            PROVE  /\ ~codes'[i].used => codes'[i].to = <<>>
                   /\ Len(codes'[i].to) <= 1
                   /\ \A j \in 1..Len(codes'[i].to) :
                          Informed(codes'[i].to[j], i, flows', apps')
        <4>0. i \in 1..Len(codes) /\ UNCHANGED <<flows, apps>>
          BY <2>2, <2>5
        <4>1. CASE i = c
          <5>1. codes'[i] = rec
            BY <2>5, <4>0, <4>1
          <5>2. \A j \in 1..Len(rec.to) : Informed(rec.to[j], i, flows', apps')
            BY <2>1, <2>4, <4>0, <4>1
          <5>3. codes'[i].used
            BY <2>4, <5>1
          <5>4. Len(codes'[i].to) <= 1
            <6>1. Len(codes'[i].to) = 1
              BY <2>4, <5>1, Zenon
            <6> QED
              BY <6>1
          <5> QED
            BY <5>1, <5>2, <5>3, <5>4
        <4>2. CASE i # c
          <5>1. codes'[i] = codes[i]
            BY <2>5, <4>0, <4>2
          <5> QED
            BY <4>0, <5>1 DEF DeliveryInv
        <4> QED
          BY <4>1, <4>2
      <3>3. ASSUME NEW t \in Slots, HasTokens(req'[t])
            PROVE  /\ t # s /\ req'[t] = req[t]
                   /\ HasTokens(req[t])
                   /\ codes'[req[t].code] = codes[req[t].code]
        <4>1. t # s
          BY <2>6, <3>3 DEF HasTokens, Idle
        <4>2. req'[t] = req[t] /\ HasTokens(req[t])
          BY <2>6, <3>3, <4>1
        <4>3. req[t].code # c
          BY <1>18, <4>1, <4>2 DEF DeliveryInv
        <4>4. req[t].code \in 1..Len(codes)
          BY <1>14, <4>2 DEF HasTokens
        <4> QED
          BY <2>5, <4>1, <4>2, <4>3, <4>4
      <3>4. ASSUME NEW t \in Slots, HasTokens(req'[t])
            PROVE  /\ codes'[req'[t].code].used
                   /\ codes'[req'[t].code].to = <<>>
                   /\ \A w \in Slots :
                         HasTokens(req'[w]) /\ req'[w].code = req'[t].code => w = t
        BY <3>3, <3>4 DEF DeliveryInv
      <3> QED
        BY <3>1, <3>2, <3>4 DEF DeliveryInv
    <2> QED
      BY <1>t, <2>5, <2>7, <2>8 DEF IInv
  <1>19. ASSUME NEW s \in Slots, NEW delivered \in BOOLEAN,
                TokenRelay(s, delivered), ~(delivered /\ HasTokens(req[s]))
         PROVE  IInv'
    <2>1. orphans \subseteq 1..Len(codes)
      BY DEF DeliveryInv
    <2> QED
      BY <1>1, <1>19, <2>1 DEF TokenRelay, HasTokens
  \* The operator: slots are freed, or not, under a longer history.
  <1>20. ASSUME NEW cfg \in Configs, Publish(cfg),
                UNCHANGED <<flows, consents, apps, codes>>,
                \A t \in Slots : req'[t] = req[t] \/ req'[t] = Idle,
                orphans' \subseteq 1..Len(codes)
         PROVE  IInv'
    <2>1. Len(configs) <= Len(configs')
      BY <1>20, AppendProperties DEF Publish
    <2>2. BoundsInv' /\ SealedInv'
      BY <1>20 DEF BoundsInv, SealedInv
    <2>3. FlowsGrow(flows, flows') /\ CodesGrow(codes, codes')
      BY <1>0, <1>20
    <2>4. RequestsInv'
      BY <1>20, <1>t, <2>1, <2>3, <1>a, RequestsStep
    <2>5. \A t \in Slots : HasTokens(req'[t]) => req'[t] = req[t]
      BY <1>20 DEF HasTokens, Idle
    <2>6. DeliveryInv'
      BY <1>20, <1>t, <2>3, <2>5, <1>a, DeliveryStep
    <2> QED
      BY <1>t, <2>2, <2>4, <2>6 DEF IInv
  <1>21. ASSUME NEW cfg \in Configs,
                Reload(cfg) \/ \E arrives \in BOOLEAN : Restart(cfg, arrives)
         PROVE  IInv'
    <2>1. orphans \subseteq 1..Len(codes)
      BY DEF DeliveryInv
    <2>2. \A s \in Slots : req[s].pc = "sent" => req[s].code \in 1..Len(codes)
      BY <1>14
    <2> QED
      BY <1>20, <1>21, <2>1, <2>2 DEF Reload, Restart
  <1>22. ASSUME Tick \/ UNCHANGED vars
         PROVE  IInv'
    <2>1. UNCHANGED <<configs, req, flows, consents, apps, codes, orphans>>
      BY <1>22 DEF Tick, vars
    <2> QED
      BY <1>t, <2>1 DEF IInv, BoundsInv, SealedInv, RequestsInv, DeliveryInv
  <1>23. ASSUME NEW s \in Slots, Handler(s)
         PROVE  IInv'
    BY <1>3, <1>4, <1>6, <1>10, <1>12, <1>18, <1>19, <1>23 DEF Handler
  <1>24. ASSUME NEW s \in Slots, Arrival(s)
         PROVE  IInv'
    BY <1>5, <1>9, <1>11, <1>24 DEF Arrival
  <1>25. ASSUME Strava
         PROVE  IInv'
    BY <1>7, <1>15, <1>16, <1>17, <1>25 DEF Strava
  <1>26. ASSUME Operator
         PROVE  IInv'
    BY <1>21, <1>26 DEF Operator
  <1> QED
    BY <1>22, <1>23, <1>24, <1>25, <1>26 DEF Next

-----------------------------------------------------------------------------
(* The theorems *)

(***************************************************************************)
(* Every reachable state satisfies the invariant.                          *)
(***************************************************************************)
LEMMA Invariance == Spec => []IInv
  <1>1. Init => IInv
    BY InvInit
  <1>2. IInv /\ [Next]_vars => IInv'
    BY InvStep
  <1> QED
    BY <1>1, <1>2, PTL DEF Spec

(***************************************************************************)
(* TypeOK holds always.                                                    *)
(***************************************************************************)
THEOREM TypeCorrect == Spec => []TypeOK
  <1>1. IInv => TypeOK
    BY DEF IInv
  <1> QED
    BY <1>1, Invariance, PTL

(***************************************************************************)
(* CodeBinding holds always, whatever callbacks are put together and       *)
(* whatever is presented as a code: a code is only ever exchanged for a    *)
(* client that a callback of its own has told it, and its tokens are       *)
(* delivered at most once, to such a client (token.go:89-99).              *)
(***************************************************************************)
THEOREM CodeBindingHolds == Spec => []CodeBinding
  <1>1. ASSUME NEW cid, NEW c, Informed(cid, c, flows, apps)
        PROVE  ToldTo(cid, c)
    BY <1>1 DEF Informed, ToldTo, QueryOf
  <1>2. IInv => CodeBinding
    BY <1>1 DEF IInv, RequestsInv, RequestInv, DeliveryInv, CodeBinding, Exchanging
  <1> QED
    BY <1>2, Invariance, PTL

\* What a redirect carries was minted in its own flow.
OwnInv == \A m \in apps : m.code # NoCode => codes[m.code.body.sc].flow = m.flow

(***************************************************************************)
(* A code once minted keeps its flow.                                      *)
(***************************************************************************)
LEMMA FlowsOfCodesStay ==
    ASSUME IInv, [Next]_vars
    PROVE  \A c \in 1..Len(codes) : codes'[c].flow = codes[c].flow
  <1> USE DEF proxyVars, browserVars, stravaVars
  <1>0. codes \in Seq(StravaCode) /\ \A c \in 1..Len(codes) : codes[c] \in StravaCode
    BY ElementOfSeq DEF IInv, TypeOK
  <1>1. ASSUME NEW u \in consents, StravaApprove(u)
        PROVE  \A c \in 1..Len(codes) : codes'[c] = codes[c]
    <2>1. u.flow \in 1..MaxFlows
      BY DEF IInv, TypeOK, Consent
    <2>2. [flow |-> u.flow, used |-> FALSE, to |-> <<>>] \in StravaCode
      BY <2>1 DEF StravaCode
    <2> QED
      BY <1>0, <1>1, <2>2, AppendProperties DEF StravaApprove
  <1>2. ASSUME NEW d, codes' = [codes EXCEPT ![d].used = TRUE]
        PROVE  \A c \in 1..Len(codes) : codes'[c].flow = codes[c].flow
    BY <1>0, <1>2 DEF StravaCode
  <1>3. ASSUME NEW s \in Slots, NEW delivered \in BOOLEAN, TokenRelay(s, delivered)
        PROVE  \A c \in 1..Len(codes) : codes'[c].flow = codes[c].flow
    BY <1>0, <1>3 DEF TokenRelay, StravaCode
  <1>4. ASSUME NEW s \in Slots, StravaExchange(s)
        PROVE  \A c \in 1..Len(codes) : codes'[c].flow = codes[c].flow
    BY <1>2, <1>4 DEF StravaExchange
  <1>5. CASE UNCHANGED codes
    BY <1>5
  <1>6. ASSUME NEW s \in Slots, Handler(s) \/ Arrival(s)
        PROVE  \A c \in 1..Len(codes) : codes'[c].flow = codes[c].flow
    BY <1>3, <1>5, <1>6
       DEF Handler, Arrival, AuthorizeStart, AuthorizeReject, AuthorizeRedirect,
           CallbackStart, CallbackRefuse, CallbackRedirect, TokenStart,
           TokenReject, TokenSend, TokenFail
  <1>7. ASSUME Strava
        PROVE  \A c \in 1..Len(codes) : codes'[c].flow = codes[c].flow
    BY <1>1, <1>2, <1>4, <1>7 DEF Strava, StravaLate
  <1>8. ASSUME Operator \/ Tick \/ UNCHANGED vars
        PROVE  UNCHANGED codes
    BY <1>8 DEF Operator, Reload, Restart, Tick, vars
  <1> QED
    BY <1>5, <1>6, <1>7, <1>8 DEF Next

(***************************************************************************)
(* Only a redirect adds to what applications have received.                *)
(***************************************************************************)
LEMMA OnlyRedirectsTell ==
    ASSUME [Next]_vars, apps' # apps
    PROVE  \E s \in Slots, delivered \in BOOLEAN : CallbackRedirect(s, delivered)
  <1> USE DEF proxyVars, browserVars, stravaVars
  <1>1. ASSUME NEW s \in Slots, Handler(s) \/ Arrival(s)
        PROVE  \E t \in Slots, delivered \in BOOLEAN : CallbackRedirect(t, delivered)
    BY <1>1
       DEF Handler, Arrival, AuthorizeStart, AuthorizeReject, AuthorizeRedirect,
           CallbackStart, CallbackRefuse, TokenStart, TokenReject, TokenSend,
           TokenRelay, TokenFail
  <1>2. ASSUME Strava \/ Operator \/ Tick \/ UNCHANGED vars
        PROVE  FALSE
    BY <1>2 DEF Strava, StravaApprove, StravaExchange, StravaLate, Operator,
                Reload, Restart, Tick, vars
  <1> QED
    BY <1>1, <1>2 DEF Next

(***************************************************************************)
(* Where every callback brings back the state and the code of one flow, as *)
(* Strava's redirects do, a code is exchanged, and its tokens are          *)
(* received, by the client whose flow it was minted in: callback.go:       *)
(* 124-126 without "phished".  The run code_rebound shows what is lost     *)
(* otherwise.                                                              *)
(***************************************************************************)
THEOREM CodeOfItsFlowIfAsRedirected == Spec /\ []AsRedirected => []CodeOfItsFlow
  <1>1. Init => OwnInv
    BY DEF Init, OwnInv
  <1>2. ASSUME IInv, AsRedirected, OwnInv, [Next]_vars
        PROVE  OwnInv'
    <2>1. ASSUME NEW m \in apps, m.code # NoCode
          PROVE  codes'[m.code.body.sc].flow = m.flow
      <3>1. m.code.body.sc \in 1..Len(codes)
        BY <1>2, <2>1 DEF IInv, SealedInv, GoodApp
      <3> QED
        BY <1>2, <2>1, <3>1, FlowsOfCodesStay DEF OwnInv
    <2>2. ASSUME NEW s \in Slots, NEW delivered \in BOOLEAN,
                 CallbackRedirect(s, delivered),
                 NEW m \in apps', m \notin apps, m.code # NoCode
          PROVE  codes'[m.code.body.sc].flow = m.flow
      <3> DEFINE u == req[s].url
      <3>1. /\ req[s].pc = "callback"
            /\ m = RedirectToApp(Snapshot(s), u, Verdict(s))
            /\ UNCHANGED codes
        BY <2>2 DEF CallbackRedirect, stravaVars
      <3>2. u.state \in StateEnvelope /\ u.code \in 1..MaxCodes
        <4>1. Verdict(s) = "success"
          BY <2>2, <3>1 DEF RedirectToApp
        <4> QED
          BY <1>2, <2>2, <4>1, RedirectsTheSealed DEF CallbackRedirect, IInv
      <3>3. u.state # Garbage /\ u.code # NoCode
        BY <3>2, SentinelAssumption
      <3>4. codes[u.code].flow = u.flow
        BY <1>2, <3>1, <3>3 DEF AsRedirected
      <3>5. m.flow = u.flow /\ m.code.body.sc = u.code
        BY <2>2, <3>1 DEF RedirectToApp, SealCode, Seal
      <3> QED
        BY <3>1, <3>4, <3>5
    <2>3. CASE apps' = apps
      BY <2>1, <2>3 DEF OwnInv
    <2>4. CASE apps' # apps
      BY <1>2, <2>1, <2>2, <2>4, OnlyRedirectsTell DEF OwnInv
    <2> QED
      BY <2>3, <2>4
  <1>3. ASSUME IInv, OwnInv
        PROVE  CodeOfItsFlow
    <2>1. ASSUME NEW cid, NEW c, Informed(cid, c, flows, apps)
          PROVE  OwnerOf(c) = cid
      BY <1>3, <2>1 DEF Informed, OwnInv, OwnerOf, QueryOf
    <2>2. \A s \in Slots : Exchanging(s) => Informed(req[s].cid, req[s].code, flows, apps)
      BY <1>3 DEF IInv, RequestsInv, RequestInv, Exchanging
    <2>3. \A c \in 1..Len(codes) : \A i \in 1..Len(codes[c].to) :
              Informed(codes[c].to[i], c, flows, apps)
      BY <1>3 DEF IInv, DeliveryInv
    <2> QED
      BY <2>1, <2>2, <2>3 DEF CodeOfItsFlow
  <1> QED
    BY <1>1, <1>2, <1>3, Invariance, PTL DEF Spec

(***************************************************************************)
(* NoSelfBurn holds always: no request is told that its code is invalid    *)
(* because of its own attempt (token.go:45-48).                            *)
(***************************************************************************)
THEOREM NoSelfBurnHolds == Spec => []NoSelfBurn
  <1>1. IInv => NoSelfBurn
    BY DEF IInv, RequestsInv, RequestInv, NoSelfBurn, Exchanging
  <1> QED
    BY <1>1, Invariance, PTL
=============================================================================
