------------------------------ MODULE Handlers ------------------------------
(***************************************************************************)
(* What each OAuth handler of internal/oauth decides, as a function of the *)
(* configuration snapshot it loaded, the request and the instant it reads  *)
(* the clock at.  The handlers keep nothing between requests, so these     *)
(* operators are their whole logic; what happens between loading the       *)
(* snapshot and acting on the decision is in the modules that use them.    *)
(*                                                                         *)
(* A configuration is a record [clients, ring, ttl]; clients is a function *)
(* from the registered client ids to [uris, secret, nonce], ttl is         *)
(* PROXY_STATE_TTL in ticks.                                               *)
(***************************************************************************)
EXTENDS Envelope

CONSTANTS
    ClientIds,     \* ids callers present, registered or not
    URIs,          \* redirect URIs callers present, registered or not
    Secrets,       \* client secrets
    CallerStates,  \* values of the caller's own state parameter
    NoState,       \* the caller sent no state parameter
    TooLong,       \* a caller state above MaxCallerStateLen
    NotUTF8,       \* a caller state that is not valid UTF-8 ...
    Replaced,      \* ... and what encoding/json turns it into
    NoNonce,       \* an absent nonce, in a payload or a cookie jar
    NoCode,        \* no code parameter
    NoError        \* no error parameter

Client == [uris : SUBSET URIs, secret : Secrets, nonce : BOOLEAN]

\* The part of config.validate the handlers rely on.
ValidConfig(cfg) ==
    /\ DOMAIN cfg.clients \in SUBSET ClientIds
    /\ cfg.clients \in [DOMAIN cfg.clients -> Client]
    /\ ValidRing(cfg.ring)
    /\ cfg.ttl \in Nat \ {0}

\* Fault: any secret of a registered client is accepted.
VerifySecret_Any(cfg, c, s) == c \in DOMAIN cfg.clients

\* Config.Client, Client.AllowsRedirectURI and Client.VerifySecret.
Registered(cfg, cid)         == cid \in DOMAIN cfg.clients
AllowsRedirectURI(cfg, c, u) == u \in cfg.clients[c].uris
VerifySecret(cfg, c, s)      == s = cfg.clients[c].secret

\* json.Marshal replaces what is not UTF-8 by U+FFFD.
Marshalled(st) == IF st = NotUTF8 THEN Replaced ELSE st

-----------------------------------------------------------------------------
(* GET /oauth/authorize and GET /oauth/mobile/authorize *)

\* q = [cid, ru, st]
AuthorizeVerdict(cfg, q) ==
    IF ~Registered(cfg, q.cid) \/ ~AllowsRedirectURI(cfg, q.cid, q.ru)
         \/ q.st = TooLong
      THEN "bad_request"
      ELSE "consent"

\* Fault: HasST is not sealed, an absent state comes back as an empty one.
StatePayload_NoHasST(cfg, q, fresh, now) ==
    [cid   |-> q.cid,
     ru    |-> q.ru,
     st    |-> IF q.st = NoState THEN "" ELSE Marshalled(q.st),
     nonce |-> IF cfg.clients[q.cid].nonce THEN fresh ELSE NoNonce,
     iat   |-> Unix(now)]

(***************************************************************************)
(* seal.StatePayload; the pair (HasST, ST) is one value, NoState standing  *)
(* for HasST = false.  A fresh nonce is drawn only for a client that asks  *)
(* for the cookie.                                                         *)
(***************************************************************************)
StatePayload(cfg, q, fresh, now) ==
    [cid   |-> q.cid,
     ru    |-> q.ru,
     st    |-> Marshalled(q.st),
     nonce |-> IF cfg.clients[q.cid].nonce THEN fresh ELSE NoNonce,
     iat   |-> Unix(now)]

SealState(cfg, q, fresh, now) ==
    Seal(cfg.ring, DomainState, StatePayload(cfg, q, fresh, now))

-----------------------------------------------------------------------------
(* GET /oauth/callback; q = [state, code, error] *)

\* Fault: the outcome of the comparison is read the wrong way round.
NonceAccepted_Inverted(cookie, st) == st.nonce # NoNonce /\ cookie # st.nonce

\* Fault: any cookie will do.
NonceAccepted_AnyCookie(cookie, st) == st.nonce # NoNonce /\ cookie # NoNonce

NonceAccepted(cookie, st) == st.nonce # NoNonce /\ cookie = st.nonce

\* Fault: a callback without a code is passed on like a refusal.
CallbackVerdict_CutIsRefusal(cfg, q, cookie, now) ==
    LET opened == Open(cfg.ring, DomainState, q.state, cfg.ttl, now)
        st     == q.state.body
    IN  IF      opened \in {"expired", "future"}        THEN "expired_state"
        ELSE IF opened # "ok"                           THEN "bad_state"
        ELSE IF ~Registered(cfg, st.cid)                THEN "unknown_client"
        ELSE IF ~AllowsRedirectURI(cfg, st.cid, st.ru)
                                              THEN "redirect_uri_revoked"
        ELSE IF /\ cfg.clients[st.cid].nonce
                /\ ~NonceAccepted(cookie, st)           THEN "nonce_mismatch"
        ELSE IF q.code = NoCode                         THEN "upstream_error"
        ELSE "success"

CallbackVerdict(cfg, q, cookie, now) ==
    LET opened == Open(cfg.ring, DomainState, q.state, cfg.ttl, now)
        st     == q.state.body
    IN  IF      opened \in {"expired", "future"}        THEN "expired_state"
        ELSE IF opened # "ok"                           THEN "bad_state"
        ELSE IF ~Registered(cfg, st.cid)                THEN "unknown_client"
        ELSE IF ~AllowsRedirectURI(cfg, st.cid, st.ru)
                                              THEN "redirect_uri_revoked"
        ELSE IF /\ cfg.clients[st.cid].nonce
                /\ ~NonceAccepted(cookie, st)           THEN "nonce_mismatch"
        ELSE IF q.error # NoError                       THEN "upstream_error"
        ELSE IF q.code = NoCode                         THEN "missing_code"
        ELSE "success"

Refusals  == {"expired_state", "bad_state", "unknown_client",
              "redirect_uri_revoked", "nonce_mismatch"}
Redirects == {"success", "upstream_error"}

\* The response clears the nonce cookie once the nonce check has been reached.
ClearsCookie(cfg, q, verdict) ==
    /\ verdict \notin Refusals \ {"nonce_mismatch"}
    /\ cfg.clients[q.state.body.cid].nonce

\* Fault: the code is sealed under the domain of the state.
SealCode_StateDomain(cfg, q, now) ==
    Seal(cfg.ring, DomainState,
         [cid |-> q.state.body.cid, sc |-> q.code, iat |-> Unix(now)])

\* seal.CodePayload around Strava's raw code, for the client of the state.
SealCode(cfg, q, now) ==
    Seal(cfg.ring, DomainCode,
         [cid |-> q.state.body.cid, sc |-> q.code, iat |-> Unix(now)])

-----------------------------------------------------------------------------
(* POST /oauth/token and POST /api/v3/oauth/token; form = [cid, secret,    *)
(* grant, code], or Garbage when ParseForm fails.                          *)

\* Fault: the code is not compared with the client that presents it.
TokenVerdict_AnyOwner(cfg, form, now) ==
    IF      form = Garbage                             THEN "malformed_request"
    ELSE IF ~Registered(cfg, form.cid)                 THEN "invalid_client_id"
    ELSE IF ~VerifySecret(cfg, form.cid, form.secret)  THEN "invalid_client_secret"
    ELSE IF Open(cfg.ring, DomainCode, form.code, cfg.ttl, now) # "ok"
                                                       THEN "invalid_code"
    ELSE "send"

TokenVerdict(cfg, form, now) ==
    IF      form = Garbage                             THEN "malformed_request"
    ELSE IF ~Registered(cfg, form.cid)                 THEN "invalid_client_id"
    ELSE IF ~VerifySecret(cfg, form.cid, form.secret)  THEN "invalid_client_secret"
    ELSE IF form.grant # "authorization_code"          THEN "send"
    ELSE IF \/ Open(cfg.ring, DomainCode, form.code, cfg.ttl, now) # "ok"
            \/ form.code.body.cid # form.cid           THEN "invalid_code"
    ELSE "send"
=============================================================================
