------------------------------- MODULE Relay --------------------------------
(***************************************************************************)
(* Everything the proxy sends to Strava on behalf of a caller: the routing *)
(* table, the credential gates of the token and revoke endpoints, the      *)
(* upstream call with its timeouts, its redials and its failures, the copy *)
(* of the answer, and what the access log and the counters say of it.      *)
(*                                                                         *)
(* Strava may answer late or never, callers may stop reading or leave at   *)
(* any point, and the operator reloads the configuration in between.       *)
(* Durations are not counted: a timeout is a step that may be taken        *)
(* wherever the deadline is armed, and that is taken in the end.           *)
(***************************************************************************)
EXTENDS Integers, SequencesExt

CONSTANTS
    Requests,   \* the requests callers make, all at once or one by one
    Inbound,    \* what a request may be: [method, path, id, secret, grant,
                \* ticket, owner, body, idem]; see InboundType
    ClientIds, Secrets,
    Grants,     \* values of grant_type
    Tickets,    \* Strava's codes and refresh tokens
    NoOne,      \* no client, no secret, no ticket, no request ...
    Elsewhere,  \* ... and a request that did not come through this process
    Configs,    \* the configurations the operator may publish: [clients, real]
    StravaApp,  \* the credentials of the real application at Strava
    ServerErrors, \* the statuses Strava answers with when it is in trouble
    MaxConfigs  \* bound of the model

Paths == {<<"oauth", "token">>, <<"api", "v3", "oauth", "token">>,
          <<"oauth", "revoke">>, <<"oauth", "deauthorize">>,
          <<"api", "v3", "athlete">>, <<"api", "v3", "uploads">>}

Credentials == [id : ClientIds \cup {NoOne}, secret : Secrets \cup {NoOne}]

\* owner is the client a wrapped code opens for, NoOne if it does not open;
\* idem says whether there is an Idempotency-Key or X-Idempotency-Key header.
InboundType ==
    [method : {"GET", "POST"}, path : Paths,
     id : ClientIds \cup {NoOne}, secret : Secrets \cup {NoOne},
     grant : Grants, ticket : Tickets \cup {NoOne},
     owner : ClientIds \cup {NoOne}, body : BOOLEAN, idem : BOOLEAN]

ASSUME RelayAssumption ==
    /\ Inbound \subseteq InboundType
    /\ StravaApp \in Credentials
    /\ ServerErrors \subseteq 500..599
    /\ \A cfg \in Configs :
           /\ cfg.real \in Credentials
           /\ DOMAIN cfg.clients \subseteq ClientIds
           /\ \A c \in DOMAIN cfg.clients : cfg.clients[c] \in Secrets
    /\ NoOne \notin ClientIds \cup Secrets \cup Tickets \cup Requests
    /\ Elsewhere \notin Requests \cup {NoOne}

VARIABLES
    configs,    \* every configuration published, in order; the last is live
    req,        \* request -> where its handler is, and its caller
    call,       \* request -> its upstream call
    resp,       \* request -> what was handed to net/http for the caller
    spentBy,    \* Strava: the request that used up a code or a token
    access,     \* request -> its records in the access log
    exchanges,  \* request -> what it added to token_exchanges_total ...
    failures    \* ... and to upstream_errors_total

tallies == <<access, exchanges, failures>>
vars    == <<configs, req, call, resp, spentBy, tallies>>

-----------------------------------------------------------------------------
(* Routing *)

Pattern(method, path, tree, to) ==
    [method |-> method, path |-> path, tree |-> tree, to |-> to]

OtherPatterns ==
    {Pattern("POST", <<"oauth", "token">>, FALSE, "token"),
     Pattern("POST", <<"oauth", "deauthorize">>, FALSE, "deauthorize"),
     Pattern("POST", <<"oauth", "revoke">>, FALSE, "revoke"),
     Pattern("any",  <<"api", "v3">>, TRUE, "api")}

\* Fault: the exact token route below /api/v3/ is missing.
Patterns_CatchAllOnly == OtherPatterns

\* Handler.Register and the catch-all of publicHandler, as far as they lead to
\* Strava.
Patterns ==
    OtherPatterns \cup
        {Pattern("POST", <<"api", "v3", "oauth", "token">>, FALSE, "token")}

OnPath(p, path) == IF p.tree THEN IsPrefix(p.path, path) ELSE p.path = path
Matching(q) == {p \in Patterns : p.method \in {"any", q.method} /\ OnPath(p, q.path)}

\* http.ServeMux: the most specific pattern that matches.
Route(q) ==
    IF Matching(q) = {}
      THEN IF \E p \in Patterns : OnPath(p, q.path) THEN "bad_method" ELSE "not_found"
      ELSE (CHOOSE p \in Matching(q) :
                \A o \in Matching(q) : IsPrefix(o.path, p.path)).to

OAuthLegs == {"token", "revoke", "deauthorize"}

\* Fault: the token endpoint below /api/v3/ is forgotten.
IsOAuthSurface_Prefix(path) == path[1] = "oauth"

\* isOAuthSurface: the responses that oauthSurfaceHeaders marks no-store.
IsOAuthSurface(path) ==
    path[1] = "oauth" \/ path = <<"api", "v3", "oauth", "token">>

-----------------------------------------------------------------------------
(* The gates *)

Authenticates(cfg, id, secret) ==
    id \in DOMAIN cfg.clients /\ cfg.clients[id] = secret

TokenVerdict(cfg, q, parses) ==
    IF      ~parses                                  THEN "malformed_request"
    ELSE IF q.id \notin DOMAIN cfg.clients           THEN "invalid_client_id"
    ELSE IF ~Authenticates(cfg, q.id, q.secret)      THEN "invalid_client_secret"
    ELSE IF /\ q.grant = "authorization_code"
            /\ q.owner # q.id                        THEN "invalid_code"
    ELSE "send"

RevokeVerdict(cfg, q) ==
    IF Authenticates(cfg, q.id, q.secret) THEN "send" ELSE "unauthorized"

Verdict(cfg, q, parses) ==
    CASE Route(q) = "token"                  -> TokenVerdict(cfg, q, parses)
      [] Route(q) = "revoke"                 -> RevokeVerdict(cfg, q)
      [] Route(q) \in {"deauthorize", "api"} -> "send"
      [] OTHER                               -> Route(q)

\* The statuses of package fault, and of ServeMux for what is not routed.
StatusOf(verdict) ==
    CASE verdict \in {"malformed_request", "invalid_client_id",
                      "invalid_code"}                            -> 400
      [] verdict \in {"invalid_client_secret", "unauthorized"}   -> 401
      [] verdict = "not_found"                                   -> 404
      [] verdict = "bad_method"                                  -> 405
      [] verdict = "unavailable"                                 -> 502
      [] verdict = "timeout"                                     -> 504

\* SetClientID: the client a handler has recognised.
ClientField(cfg, q, verdict) ==
    IF /\ Route(q) \in {"token", "revoke"}
       /\ verdict # "malformed_request"
       /\ q.id \in DOMAIN cfg.clients
      THEN q.id ELSE NoOne

\* What goes upstream: the real pair, or whatever the caller sent.
CredentialsFor(cfg, q) ==
    IF Route(q) \in {"token", "revoke"} THEN cfg.real
                                        ELSE [id |-> q.id, secret |-> q.secret]

\* The caller's body is streamed upstream while the call is under way.
Streamed(q) == q.body /\ Route(q) # "token"

\* Fault: the caller's grant_type becomes a metrics key as it is.
GrantLabel_Raw(grant) == IF grant = "" THEN "none" ELSE grant

\* key: grant types are folded to a small fixed set.
GrantLabel(grant) ==
    CASE grant \in {"authorization_code", "refresh_token"} -> grant
      [] grant = ""                                        -> "none"
      [] OTHER                                             -> "other"

StatusOutcome(status) ==
    IF status \in 200..299 THEN "success" ELSE "upstream_error"

-----------------------------------------------------------------------------
(* Types *)

None    == [pc |-> "none"]
NoCall  == [sent |-> FALSE]
NoReply == [status |-> 0, size |-> 0, declared |-> FALSE, tokens |-> FALSE]
Nothing == [from |-> "none", status |-> 0, chunks |-> 0, end |-> "none",
            noStore |-> FALSE]

Reply == [status : {0, 200, 400, 401, 429} \cup ServerErrors, size : 0..2,
          declared : BOOLEAN, tokens : BOOLEAN]
Call  == [sent : {TRUE}, creds : Credentials, pooled : BOOLEAN,
          pending : 0..2, runs : 0..2, reply : Reply]
Outcomes == {"malformed_request", "invalid_client_id", "invalid_client_secret",
             "invalid_code", "success", "upstream_error"}
Labels == {"authorization_code", "refresh_token", "none", "other"}

TypeOK ==
    /\ configs \in Seq(Configs) /\ Len(configs) > 0
    /\ req \in [Requests -> {None} \cup
                 [pc : {"gate", "calling", "copying", "ended"}, in : Inbound,
                  snap : Nat, caller : {"here", "stalled", "gone"}]]
    /\ call \in [Requests -> {NoCall} \cup Call]
    /\ resp \in [Requests -> [from : {"none", "proxy", "strava"}, status : Nat,
                              chunks : 0..2, end : {"none", "complete", "cut"},
                              noStore : BOOLEAN]]
    /\ spentBy \in [Tickets -> Requests \cup {NoOne, Elsewhere}]
    /\ access \in [Requests -> Seq([status : Nat, client : ClientIds \cup {NoOne}])]
    /\ exchanges \in [Requests -> Seq(Labels \X Outcomes)]
    /\ failures \in [Requests -> Seq({"timeout", "unavailable"})]

Init ==
    /\ \E cfg \in Configs : configs = <<cfg>>
    /\ req = [r \in Requests |-> None]
    /\ call = [r \in Requests |-> NoCall]
    /\ resp = [r \in Requests |-> Nothing]
    /\ spentBy = [t \in Tickets |-> NoOne]
    /\ access = [r \in Requests |-> <<>>]
    /\ exchanges = [r \in Requests |-> <<>>]
    /\ failures = [r \in Requests |-> <<>>]

Q(r)        == req[r].in
Snapshot(r) == configs[req[r].snap]
At(r, pc)   == req[r].pc = pc
InFlight(r) == req[r].pc \in {"gate", "calling", "copying"}
Gone(r)     == req[r].caller = "gone"
Stalled(r)  == req[r].caller = "stalled"
IsOAuth(r)  == Route(Q(r)) \in OAuthLegs
Left(r)     == call[r].reply.size - resp[r].chunks

-----------------------------------------------------------------------------
(* What a handler leaves behind when it returns *)

Ends(r, response) ==
    /\ req' = [req EXCEPT ![r].pc = "ended"]
    /\ resp' = [resp EXCEPT ![r] = response]

\* from tells who has decided on the status, the proxy or Strava.
Response(r, from, status, end) ==
    [from |-> from, status |-> status, chunks |-> 0, end |-> end,
     noStore |-> IsOAuthSurface(Q(r).path)]

\* The status a recorder has when its handler returns; it starts with 200.
Recorded(status) == IF status = 0 THEN 200 ELSE status

\* AccessLog, once next.ServeHTTP has returned.
Logs(r, status, verdict) ==
    access' = [access EXCEPT ![r] =
        Append(@, [status |-> Recorded(status),
                   client |-> ClientField(Snapshot(r), Q(r), verdict)])]

Counts(r, outcome) ==
    LET label == IF outcome = "malformed_request" THEN "none"
                                                  ELSE GrantLabel(Q(r).grant)
    IN  exchanges' = IF Route(Q(r)) = "token"
                       THEN [exchanges EXCEPT ![r] = Append(@, <<label, outcome>>)]
                       ELSE exchanges

-----------------------------------------------------------------------------
(* Up to the upstream call *)

\* h.Cfg.Get() is the first thing a handler does.
Arrive(r, q) ==
    /\ At(r, "none")
    /\ req' = [req EXCEPT ![r] = [pc |-> "gate", in |-> q, snap |-> Len(configs),
                                  caller |-> "here"]]
    /\ UNCHANGED <<configs, call, resp, spentBy, tallies>>

\* A local answer. parses is what ParseForm says of the body.
Reject(r, parses) ==
    LET verdict == Verdict(Snapshot(r), Q(r), parses)
    IN  /\ At(r, "gate")
        /\ verdict # "send"
        /\ ~Stalled(r)
        /\ Ends(r, Response(r, "proxy", StatusOf(verdict), "complete"))
        /\ Logs(r, StatusOf(verdict), verdict)
        /\ Counts(r, verdict)
        /\ UNCHANGED <<configs, call, spentBy, failures>>

\* The request leaves for Strava, on a pooled connection or a new one.
Send(r, pooled) ==
    /\ At(r, "gate")
    /\ Verdict(Snapshot(r), Q(r), TRUE) = "send"
    /\ ~Stalled(r)
    /\ req' = [req EXCEPT ![r].pc = "calling"]
    /\ call' = [call EXCEPT ![r] =
            [sent |-> TRUE, creds |-> CredentialsFor(Snapshot(r), Q(r)),
             pooled |-> pooled, pending |-> 1, runs |-> 0, reply |-> NoReply]]
    /\ UNCHANGED <<configs, resp, spentBy, tallies>>

\* Fault: whatever was sent on a stale connection is sent again.
Replayable_Any(q) == TRUE

\* Request.isReplayable of net/http.  Of the caller's two headers only the
\* reverse proxy forwards any: the OAuth legs build their own (passthroughHeaders).
Replayable(q) ==
    /\ Route(q) = "api"
    /\ ~q.body
    /\ q.method = "GET" \/ q.idem

(***************************************************************************)
(* http.Transport makes the call again on a new connection when the pooled *)
(* one turns out to be dead: before anything was written, or, for a        *)
(* request that counts as safe to replay, whatever was.                    *)
(***************************************************************************)
Redial(r) ==
    /\ At(r, "calling")
    /\ call[r].pooled
    /\ \/ /\ call[r].runs = 0
          /\ call' = [call EXCEPT ![r].pooled = FALSE]
       \/ /\ Replayable(Q(r))
          /\ call' = [call EXCEPT ![r].pooled = FALSE, ![r].pending = @ + 1,
                                  ![r].reply = NoReply]
    /\ UNCHANGED <<configs, req, resp, spentBy, tallies>>

-----------------------------------------------------------------------------
(* Strava *)

\* Whether a length is declared is Strava's choice.
Answer(status, size) ==
    {[status |-> status, size |-> size, declared |-> d, tokens |-> FALSE] :
        d \in BOOLEAN}
TokenAnswer ==
    {[status |-> 200, size |-> 2, declared |-> d, tokens |-> TRUE] : d \in BOOLEAN}

\* The replies Strava may give request r, each with what it spends.  Below
\* /api/v3 one error stands for all.
TokenReplies(r) ==
    LET t == Q(r).ticket
    IN  CASE call[r].creds.id # StravaApp.id -> Answer(400, 1) \X {{}}
          [] call[r].creds # StravaApp -> Answer(401, 1) \X {{}}
          [] Q(r).grant \notin {"authorization_code", "refresh_token"}
                                       -> Answer(400, 1) \X {{}}
          [] t = NoOne                 -> Answer(400, 1) \X {{}}
          [] spentBy[t] # NoOne        -> Answer(400, 1) \X {{}}
          [] Q(r).grant = "authorization_code"
                                       -> TokenAnswer \X {{t}}
          [] OTHER                     -> TokenAnswer \X {{}, {t}}

RevokeReplies(r) ==
    IF      call[r].creds # StravaApp THEN Answer(401, 1) \X {{}}
    ELSE IF Q(r).ticket = NoOne       THEN Answer(400, 1) \X {{}}
    ELSE Answer(200, 0) \X {{Q(r).ticket}}

OrderlyReplies(r) ==
    LET q == Q(r)
    IN  CASE q.method = "POST" /\ Last(q.path) = "token"  -> TokenReplies(r)
          [] q.method = "POST" /\ Last(q.path) = "revoke" -> RevokeReplies(r)
          [] Last(q.path) = "deauthorize" ->
                (Answer(200, 1) \cup Answer(401, 1)) \X {{}}
          [] OTHER ->
                (Answer(200, 2) \cup Answer(429, 1)) \X {{}}

\* In trouble, Strava answers a call it has not carried out, or has.
TroubledReplies(r) ==
    (UNION {Answer(status, 1) : status \in ServerErrors})
        \X ({{}} \cup {effect[2] : effect \in OrderlyReplies(r)})

Replies(r) == OrderlyReplies(r) \cup TroubledReplies(r)

\* Strava executes a call that has reached it whole, maybe after the proxy
\* has given up on it.
Execute(r) ==
    /\ call[r].sent
    /\ call[r].pending > 0
    /\ ~(Streamed(Q(r)) /\ Stalled(r))
    /\ \E effect \in Replies(r) :
           /\ call' = [call EXCEPT ![r].pending = @ - 1, ![r].runs = @ + 1,
                ![r].reply = IF At(r, "calling") THEN effect[1] ELSE @]
           /\ spentBy' = [t \in Tickets |->
                              IF t \in effect[2] THEN r ELSE spentBy[t]]
    /\ UNCHANGED <<configs, req, resp, tallies>>

\* Another replica's request, or a request made without a proxy, uses up a
\* code or a refresh token.
SpendElsewhere(t) ==
    /\ spentBy[t] = NoOne
    /\ spentBy' = [spentBy EXCEPT ![t] = Elsewhere]
    /\ UNCHANGED <<configs, req, call, resp, tallies>>

-----------------------------------------------------------------------------
(* The answer *)

\* Fault: the upstream Content-Length is not copied.
Declared_Dropped(r) == FALSE

\* Content-Length is copied when Strava has sent one.
Declared(r) == call[r].reply.declared

Headers(r) ==
    /\ At(r, "calling")
    /\ call[r].reply.status # 0
    /\ req' = [req EXCEPT ![r].pc = "copying"]
    /\ resp' = [resp EXCEPT ![r] = Response(r, "strava", call[r].reply.status, "none")]
    /\ UNCHANGED <<configs, call, spentBy, tallies>>

\* io.Copy; a caller whose buffers are full holds it.
CopyChunk(r) ==
    /\ At(r, "copying")
    /\ Left(r) > 0
    /\ req[r].caller = "here"
    /\ resp' = [resp EXCEPT ![r].chunks = @ + 1]
    /\ UNCHANGED <<configs, req, call, spentBy, tallies>>

CopyDone(r) ==
    /\ At(r, "copying")
    /\ Left(r) = 0
    /\ Ends(r, [resp[r] EXCEPT !.end = "complete"])
    /\ Logs(r, resp[r].status, "sent")
    /\ Counts(r, StatusOutcome(resp[r].status))
    /\ UNCHANGED <<configs, call, spentBy, failures>>

(***************************************************************************)
(* relay logs the failure and returns like after a success.  net/http cuts *)
(* the connection if fewer bytes were written than were declared; a body   *)
(* of undeclared length is terminated as if it were whole.                 *)
(***************************************************************************)
RelayBreaks(r) ==
    /\ IsOAuth(r)
    /\ Ends(r, [resp[r] EXCEPT !.end = IF Declared(r) THEN "cut" ELSE "complete"])
    /\ Logs(r, resp[r].status, "sent")
    /\ Counts(r, StatusOutcome(resp[r].status))

\* ReverseProxy panics with ErrAbortHandler: the connection is cut, and the
\* code of AccessLog below ServeHTTP does not run.
ProxyAborts(r) ==
    /\ ~IsOAuth(r)
    /\ Ends(r, [resp[r] EXCEPT !.end = "cut"])
    /\ UNCHANGED <<access, exchanges>>

\* The client's overall timeout covers the body too; the reverse proxy has
\* none once the headers are there.
CopyBreaks(r, cause) ==
    /\ At(r, "copying")
    /\ Left(r) > 0
    /\ ~Stalled(r)
    /\ cause = "timeout" => IsOAuth(r)
    /\ cause = "caller" => Gone(r)
    /\ RelayBreaks(r) \/ ProxyAborts(r)
    /\ UNCHANGED <<configs, call, spentBy, failures>>

-----------------------------------------------------------------------------
(* The call fails before its headers *)

\* Fault: no return after the fault has been written.
Tallies_Twice(r, kind) ==
    /\ failures' = [failures EXCEPT ![r] = Append(@, kind)]
    /\ exchanges' = IF Route(Q(r)) = "token"
         THEN [exchanges EXCEPT ![r] =
                 @ \o <<<<GrantLabel(Q(r).grant), "upstream_error">>,
                        <<GrantLabel(Q(r).grant), "upstream_error">>>>]
         ELSE exchanges

Tallies(r, kind) ==
    /\ failures' = [failures EXCEPT ![r] = Append(@, kind)]
    /\ Counts(r, "upstream_error")

\* Fault: the client has no overall timeout, only the one for headers.
Expires_HeadersOnly(r) == ~(Streamed(Q(r)) /\ Stalled(r)) /\ ~IsOAuth(r)

\* An OAuth leg runs against the clock as a whole, the reverse proxy's call
\* once the caller's body has been sent.
Expires(r) == IsOAuth(r) \/ ~(Streamed(Q(r)) /\ Stalled(r))

\* relay, or errorHandler of the reverse proxy: 504 or 502, whether or not
\* Strava has executed the call or will.
GiveUp(r, kind) ==
    /\ At(r, "calling")
    /\ kind = "timeout" => Expires(r)
    /\ IsOAuth(r) \/ ~Gone(r)
    /\ Ends(r, Response(r, "proxy", StatusOf(kind), "complete"))
    /\ Logs(r, StatusOf(kind), "sent")
    /\ Tallies(r, kind)
    /\ UNCHANGED <<configs, call, spentBy>>

\* Fault: errorHandler takes every failure for a caller's departure.
Canceled_Silent(r) ==
    /\ At(r, "calling")
    /\ ~IsOAuth(r)
    /\ Ends(r, Nothing)
    /\ Logs(r, Nothing.status, "sent")
    /\ UNCHANGED <<configs, call, spentBy, exchanges, failures>>

\* errorHandler of the reverse proxy when the caller is gone: it returns
\* without writing anything.
Canceled(r) ==
    /\ At(r, "calling")
    /\ ~IsOAuth(r)
    /\ Gone(r)
    /\ Ends(r, Nothing)
    /\ Logs(r, Nothing.status, "sent")
    /\ UNCHANGED <<configs, call, spentBy, exchanges, failures>>

-----------------------------------------------------------------------------
(* Callers and the operator *)

\* A caller stops sending its body, or stops reading the answer.
Stall(r) ==
    /\ InFlight(r)
    /\ req[r].caller = "here"
    /\ \/ At(r, "gate") /\ Route(Q(r)) = "token" /\ Q(r).body
       \/ At(r, "calling") /\ Streamed(Q(r)) /\ call[r].runs = 0
       \/ At(r, "copying") /\ Left(r) > 0
    /\ req' = [req EXCEPT ![r].caller = "stalled"]
    /\ UNCHANGED <<configs, call, resp, spentBy, tallies>>

Resume(r) ==
    /\ InFlight(r)
    /\ Stalled(r)
    /\ req' = [req EXCEPT ![r].caller = "here"]
    /\ UNCHANGED <<configs, call, resp, spentBy, tallies>>

Leave(r) ==
    /\ InFlight(r)
    /\ ~Gone(r)
    /\ req' = [req EXCEPT ![r].caller = "gone"]
    /\ UNCHANGED <<configs, call, resp, spentBy, tallies>>

Reload(cfg) ==
    /\ Len(configs) < MaxConfigs
    /\ cfg # Last(configs)
    /\ configs' = Append(configs, cfg)
    /\ UNCHANGED <<req, call, resp, spentBy, tallies>>

Next ==
    \/ \E r \in Requests :
           \/ \E q \in Inbound : Arrive(r, q)
           \/ \E b \in BOOLEAN : Reject(r, b) \/ Send(r, b)
           \/ Redial(r) \/ Execute(r) \/ Headers(r)
           \/ CopyChunk(r) \/ CopyDone(r) \/ Canceled(r)
           \/ \E cause \in {"timeout", "connection", "caller"} : CopyBreaks(r, cause)
           \/ \E kind \in {"timeout", "unavailable"} : GiveUp(r, kind)
           \/ Stall(r) \/ Resume(r) \/ Leave(r)
    \/ \E t \in Tickets : SpendElsewhere(t)
    \/ \E cfg \in Configs : Reload(cfg)

Spec == Init /\ [][Next]_vars

(***************************************************************************)
(* What the process does by itself: a handler runs until it waits, an      *)
(* armed deadline passes, and a caller's departure cancels the request.    *)
(* Nothing is assumed of Strava or of a caller that stays.                 *)
(***************************************************************************)
Forced(r) ==
    \/ \E b \in BOOLEAN : Reject(r, b) \/ Send(r, b)
    \/ Headers(r) \/ CopyDone(r) \/ Canceled(r)
    \/ GiveUp(r, "timeout")
    \/ GiveUp(r, "unavailable") /\ Gone(r)
    \/ \E cause \in {"timeout", "caller"} : CopyBreaks(r, cause)

FairSpec == Spec /\ \A r \in Requests : WF_vars(Forced(r))
=============================================================================
