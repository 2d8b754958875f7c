------------------------ MODULE OAuthFlowProperties -------------------------
(***************************************************************************)
(* What the authorization flow promises, stated about the flow a message   *)
(* really belongs to (the history carried by flows and by the flow fields) *)
(* and not about what the envelopes say.  The flow of a callback is that   *)
(* of its state.                                                           *)
(***************************************************************************)
EXTENDS OAuthFlow

QueryOf(f) == flows[f].q
OwnerOf(c) == QueryOf(codes[c].flow).cid

Exchanging(s) == req[s].pc \in {"sent", "answered"}

\* An application of client cid has received code c, wrapped.
ToldTo(cid, c) ==
    \E m \in apps : /\ m.code # NoCode
                    /\ m.code.body.sc = c
                    /\ QueryOf(m.flow).cid = cid

\* The callback in slot s ends with a verdict of Verdicts in this step.
CallbackEnds(s, Verdicts) ==
    /\ req[s].pc = "callback" /\ req'[s] = Idle
    /\ \E delivered \in BOOLEAN : \/ CallbackRefuse(s, delivered)
                                  \/ CallbackRedirect(s, delivered)
    /\ Verdict(s) \in Verdicts

\* The configurations that were live at some time since request s arrived.
LiveDuring(s) == {configs[i] : i \in req[s].snap..Len(configs)}

\* What a configuration file says of a client, whatever the handlers compare.
Registers(cfg, cid, ru) ==
    cid \in DOMAIN cfg.clients /\ ru \in cfg.clients[cid].uris
HasSecret(cfg, cid, secret) ==
    cid \in DOMAIN cfg.clients /\ cfg.clients[cid].secret = secret

-----------------------------------------------------------------------------

(***************************************************************************)
(* A code is only ever exchanged for a client that a callback of its own   *)
(* has told the code, whatever envelope any caller presents with whatever  *)
(* credentials (token.go:89-99): seeing another client's wrapped code, or  *)
(* Strava's own, is not enough at the token endpoint.  And its tokens are  *)
(* delivered at most once, to such a client.                               *)
(***************************************************************************)
CodeBinding ==
    /\ \A s \in Slots : Exchanging(s) => ToldTo(req[s].cid, req[s].code)
    /\ \A c \in 1..Len(codes) :
           /\ Len(codes[c].to) <= 1
           /\ \A i \in 1..Len(codes[c].to) : ToldTo(codes[c].to[i], c)

(***************************************************************************)
(* "The wrapper binds it to the virtual client that started the flow,      *)
(* which is what makes a code phished from client A's flow unusable by     *)
(* client B at the token endpoint" (callback.go:124-126): who exchanges a  *)
(* code, and receives its tokens, is the client it was minted for.  The    *)
(* code does less: Callback wraps the code it is given for the client of   *)
(* the state it is given (callback.go:47 and 117), and nothing says that   *)
(* the two are of one flow.                                                *)
(***************************************************************************)
CodeOfItsFlow ==
    /\ \A s \in Slots : Exchanging(s) => OwnerOf(req[s].code) = req[s].cid
    /\ \A c \in 1..Len(codes) :
           \A i \in 1..Len(codes[c].to) : codes[c].to[i] = OwnerOf(c)

\* Every callback under way has the state and the code of one flow, as in the
\* URLs that Strava redirects to.
AsRedirected ==
    \A s \in Slots :
        req[s].pc = "callback" /\ req[s].url.state # Garbage /\ req[s].url.code # NoCode
            => codes[req[s].url.code].flow = req[s].url.flow

(***************************************************************************)
(* A request is never told that its code is invalid because of its own     *)
(* attempt: one attempt is made, and an ambiguous failure is reported as   *)
(* such (token.go:45-48, relay).                                           *)
(***************************************************************************)
NoSelfBurn ==
    \A s \in Slots : Exchanging(s) /\ req[s].ans = "invalid" => ~req[s].spent

(***************************************************************************)
(* What an application receives is its own flow's answer: at the redirect  *)
(* URI that flow was started with, and with the very state the caller sent *)
(* (finishRedirect), no state at all if it sent none.                      *)
(***************************************************************************)
AppSeesItsOwn ==
    \A m \in apps :
        /\ m.ru = QueryOf(m.flow).ru
        /\ QueryOf(m.flow).st # NotUTF8 => m.st = QueryOf(m.flow).st

(***************************************************************************)
(* The caller's state is "round-tripped bit-exact" (seal.go:119), for any  *)
(* bytes it may hold.                                                      *)
(***************************************************************************)
StateBitExact == \A m \in apps : m.st = QueryOf(m.flow).st

(***************************************************************************)
(* A redirect to an application happens only if the client that started    *)
(* the flow and its redirect URI were registered in a configuration that   *)
(* was live while the callback ran: what was removed while the user was on *)
(* the consent page does not complete (callback.go:63-74).                 *)
(***************************************************************************)
RedirectRegistered ==
    [][\A s \in Slots : CallbackEnds(s, Redirects) =>
         LET q == QueryOf(req[s].url.flow)
         IN  \E cfg \in LiveDuring(s) : Registers(cfg, q.cid, q.ru)
      ]_vars

(***************************************************************************)
(* For a client that requires the nonce cookie, a callback gets past the   *)
(* check only in the browser that started that very flow                   *)
(* (callback.go:77-90).                                                    *)
(***************************************************************************)
NonceBinding ==
    [][\A s \in Slots :
         /\ CallbackEnds(s, Redirects \cup {"missing_code"})
         /\ Snapshot(s).clients[QueryOf(req[s].url.flow).cid].nonce
         => /\ req[s].br = flows[req[s].url.flow].br
            /\ req[s].cookie = req[s].url.flow
      ]_vars

-----------------------------------------------------------------------------
(* Completeness: what the proxy must not refuse *)

\* The age of an envelope, at most one second short of the truth.
Fresh(at, ttl) == now - at <= ttl - (Second - 1)

SignedBy(ring, e) ==
    \E i \in 1..Len(ring) : ring[i] = [kid |-> e.kid, mat |-> e.mac.mat]

\* No other flow of this browser and no earlier callback could have replaced
\* or cleared the cookie, and it has not expired under any TTL it may have
\* been set with.
CookieUndisturbed(s) ==
    LET f == req[s].url.flow
    IN  /\ req[s].br = flows[f].br
        /\ req[s].first
        /\ \A g \in 1..Len(flows) : flows[g].br = req[s].br => g = f
        /\ \A i \in 1..Len(configs) :
               now - flows[f].at < (configs[i].ttl \div Second) * Second
        /\ req[s].url.state.body.nonce # NoNonce

(***************************************************************************)
(* A user who comes back in time, in the browser that started the flow and *)
(* without another flow beside it, is never refused, across reloads and    *)
(* restarts, as long as the snapshot still registers the client and its    *)
(* URI and still lists the key that signed.                                *)
(***************************************************************************)
HonestCallbackAccepted ==
    [][\A s \in Slots : CallbackEnds(s, Refusals) =>
         LET u   == req[s].url
             q   == QueryOf(u.flow)
             cfg == Snapshot(s)
         IN  ~(/\ u.state # Garbage
               /\ Fresh(flows[u.flow].at, cfg.ttl)
               /\ SignedBy(cfg.ring, u.state)
               /\ Registers(cfg, q.cid, q.ru)
               /\ cfg.clients[q.cid].nonce => CookieUndisturbed(s))
      ]_vars

(***************************************************************************)
(* A client that presents its current credentials and a wrapped code of    *)
(* its own flow, in time and under a key still listed, is never turned     *)
(* away before Strava has been asked.                                      *)
(***************************************************************************)
HonestExchangeSent ==
    [][\A s \in Slots :
         /\ TokenReject(s)
         /\ req[s].form # Garbage
         => LET form == req[s].form
                cfg  == Snapshot(s)
            IN  ~(/\ HasSecret(cfg, form.cid, form.secret)
                  /\ \E m \in apps :
                        /\ m.code = form.code
                        /\ QueryOf(m.flow).cid = form.cid
                        /\ Fresh(m.code.body.iat * Second, cfg.ttl)
                        /\ SignedBy(cfg.ring, m.code))
      ]_vars

(***************************************************************************)
(* The real credentials are spent upstream only for a caller whose virtual *)
(* credentials were valid in a configuration live while the request ran    *)
(* (token.go:102-105): a secret rotated before the request arrived is      *)
(* worth nothing.                                                          *)
(***************************************************************************)
AuthenticatedSend ==
    [][\A s \in Slots : TokenSend(s) =>
         LET form == req[s].form
         IN  \E cfg \in LiveDuring(s) :
                 HasSecret(cfg, form.cid, form.secret)
      ]_vars

-----------------------------------------------------------------------------
(* The flow as an authorization.  The mapping forgets the envelopes: what  *)
(* an application was told is the raw code inside the one it received.  A  *)
(* caller's state is the one JSON can carry (StateBitExact is about the    *)
(* others).                                                                *)

Carried(q) == [q EXCEPT !.st = Marshalled(@)]

\* Codes are numbered from 1.
Refusal == 0

TheCode(m) ==
    IF      m.code # NoCode    THEN m.code.body.sc
    ELSE IF m.error # NoError  THEN Refusal
    ELSE NoCode

Told(m) == [flow |-> m.flow, ru |-> m.ru, st |-> m.st, code |-> TheCode(m)]

AskedFor  == [f \in 1..Len(flows) |-> Carried(flows[f].q)]
Offers    == {u.flow : u \in consents}
WhatAppsKnow == {Told(m) : m \in apps}

Grant == INSTANCE AuthGrant WITH
    Asks    <- {Carried(q) : q \in Queries},
    Refused <- Refusal,
    asked   <- AskedFor,
    offered <- Offers,
    told    <- WhatAppsKnow

(***************************************************************************)
(* The proxy keeps the promise of AuthGrant, across concurrent requests,   *)
(* reloads, restarts, callbacks that are replayed, cut, late or put        *)
(* together from several flows, and failed calls: every step is one of its *)
(* steps or changes nothing of it.                                         *)
(***************************************************************************)
KeepsGrant == Grant!Spec
=============================================================================
