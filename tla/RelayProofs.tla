---------------------------- MODULE RelayProofs -----------------------------
(***************************************************************************)
(* The safety properties of the relay, for any number of requests that run *)
(* side by side, any set of clients, configurations and tickets, and any   *)
(* number of reloads.                                                      *)
(*                                                                         *)
(* The argument is local to a request.  What it may rely on is the history *)
(* of configurations, which only grows, and the fact that no other request *)
(* spends a ticket in its name.  RInv(r) says how far the upstream call,   *)
(* the response and the records of r have come at each place of its        *)
(* handler; a step of another request leaves it alone (UntouchedStays), and *)
(* each step of r re-establishes it, the ones that end r through EndStep,  *)
(* the others through RunStep.                                             *)
(***************************************************************************)
EXTENDS RelayProperties, SequenceTheorems, TLAPS

\* /api/v3/oauth/token
TokenAPI == <<"api", "v3", "oauth", "token">>

\* Which of the patterns' paths are prefixes of which: "/api/v3/" is one of
\* everything below /api, and of the exact token route.
LEMMA PathPrefixes ==
    /\ \A a, b : IsPrefix(<<a, b>>, <<a, b>>)
    /\ \A a, b : IsPrefix(<<"api", "v3">>, <<a, b>>) => a = "api"
    /\ \A b : IsPrefix(<<"api", "v3">>, <<"api", "v3", b>>)
    /\ IsPrefix(<<"api", "v3">>, TokenAPI)
    /\ IsPrefix(TokenAPI, TokenAPI)
    /\ ~IsPrefix(TokenAPI, <<"api", "v3">>)
  <1>1. ASSUME NEW a, NEW b
        PROVE  /\ IsPrefix(<<a, b>>, <<a, b>>)
               /\ IsPrefix(<<"api", "v3">>, <<a, b>>) => a = "api"
               /\ IsPrefix(<<"api", "v3">>, <<"api", "v3", b>>)
    BY DEF IsPrefix
  <1>2. IsPrefix(<<"api", "v3">>, TokenAPI) /\ ~IsPrefix(TokenAPI, <<"api", "v3">>)
    BY DEF IsPrefix, TokenAPI
  <1>3. IsPrefix(TokenAPI, TokenAPI)
    BY DEF IsPrefix, TokenAPI
  <1> QED
    BY <1>1, <1>2, <1>3

\* ServeMux takes the pattern that all the other matching ones are shorter than.
LEMMA BestMatch ==
    ASSUME NEW q, NEW p \in Matching(q), IsPrefix(p.path, p.path),
           \A o \in Matching(q) :
               o = p \/ (IsPrefix(o.path, p.path) /\ ~IsPrefix(p.path, o.path))
    PROVE  Route(q) = p.to
  <1>1. p = CHOOSE x \in Matching(q) : \A o \in Matching(q) : IsPrefix(o.path, x.path)
    OBVIOUS
  <1> QED
    BY <1>1 DEF Route

\* What matches a request: the catch-all of /api/v3, the exact token route below
\* it, or the exact pattern of one of the three legs below /oauth (Handler.Register).
LEMMA Matches ==
    ASSUME NEW q \in InboundType, NEW p
    PROVE  p \in Matching(q) <=>
       \/ q.path[1] = "api" /\ p = Pattern("any",  <<"api", "v3">>, TRUE, "api")
       \/ q.method = "POST" /\ q.path = TokenAPI /\ p = Pattern("POST", TokenAPI, FALSE, "token")
       \/ /\ q.method = "POST" /\ q.path[1] = "oauth"
          /\ p = Pattern("POST", q.path, FALSE, q.path[2])
  <1>1. q.path \in Paths /\ q.method \in {"GET", "POST"}
    BY DEF InboundType
  <1>2. IsPrefix(<<"api", "v3">>, q.path) <=> q.path[1] = "api"
    BY <1>1, PathPrefixes DEF Paths, TokenAPI
  <1>3. p \in Matching(q) <=>
         \/ q.path[1] = "api" /\ p = Pattern("any", <<"api", "v3">>, TRUE, "api")
         \/ /\ q.method = "POST"
            /\ \/ /\ q.path = TokenAPI
                  /\ p = Pattern("POST", q.path, FALSE, "token")
               \/ \E last \in {"token", "revoke", "deauthorize"} :
                     /\ q.path = <<"oauth", last>>
                     /\ p = Pattern("POST", q.path, FALSE, last)
    BY <1>1, <1>2 DEF Matching, Patterns, OtherPatterns, Pattern, OnPath, TokenAPI
  <1>4. \A last \in {"token", "revoke", "deauthorize"} :
           q.path = <<"oauth", last>> <=> q.path[1] = "oauth" /\ q.path[2] = last
    BY <1>1 DEF Paths
  <1>5. q.path[1] = "oauth" => q.path[2] \in {"token", "revoke", "deauthorize"}
    BY <1>1 DEF Paths
  <1> QED
    BY <1>3, <1>4, <1>5, Zenon

\* Where a request is routed, and that the two lists agree: whatever asks a path
\* of the token endpoint is within isOAuthSurface (main.go:286-310).
LEMMA Routing ==
    ASSUME NEW q \in InboundType
    PROVE  /\ Route(q) \in OAuthLegs \cup {"api", "not_found", "bad_method"}
           /\ Route(q) = "token" <=> q.method = "POST" /\ Last(q.path) = "token"
           /\ Route(q) = "revoke" <=> q.method = "POST" /\ Last(q.path) = "revoke"
           /\ Last(q.path) = "token" => IsOAuthSurface(q.path)
  <1>1. q.path \in Paths /\ q.method \in {"GET", "POST"}
    BY DEF InboundType
  <1>2. CASE q.path[1] = "api" /\ ~(q.method = "POST" /\ q.path = TokenAPI)
    <2>1. Route(q) = "api"
      <3> DEFINE p == Pattern("any", <<"api", "v3">>, TRUE, "api")
      <3>1. p \in Matching(q) /\ \A o \in Matching(q) : o = p
        BY <1>2, Matches DEF TokenAPI
      <3>2. IsPrefix(p.path, p.path) /\ p.to = "api"
        BY PathPrefixes DEF Pattern
      <3> HIDE DEF p
      <3> QED
        BY <3>1, <3>2, BestMatch, Zenon
    <2> QED
      BY <1>1, <1>2, <2>1 DEF Paths, Last, OAuthLegs, IsOAuthSurface, TokenAPI
  <1>3. CASE q.method = "POST" /\ q.path = TokenAPI
    <2>1. Route(q) = "token"
      <3> DEFINE p == Pattern("POST", TokenAPI, FALSE, "token")
                 o == Pattern("any", <<"api", "v3">>, TRUE, "api")
      <3>1. p \in Matching(q) /\ \A x \in Matching(q) : x = p \/ x = o
        <4>1. q.path[1] = "api" /\ q.path[1] # "oauth"
          BY <1>3 DEF TokenAPI
        <4> QED
          BY <1>3, <4>1, Matches
      <3>2. /\ IsPrefix(p.path, p.path) /\ p.to = "token"
            /\ IsPrefix(o.path, p.path) /\ ~IsPrefix(p.path, o.path)
        BY PathPrefixes DEF Pattern
      <3> HIDE DEF p, o
      <3> QED
        BY <3>1, <3>2, BestMatch, Zenon
    <2> QED
      BY <1>3, <2>1 DEF Last, OAuthLegs, IsOAuthSurface, TokenAPI
  <1>4. CASE q.path[1] # "api" /\ q.method = "POST"
    <2>1. Route(q) = q.path[2]
      <3> DEFINE p == Pattern("POST", q.path, FALSE, q.path[2])
      <3>1. q.path \in {<<"oauth", "token">>, <<"oauth", "revoke">>,
                        <<"oauth", "deauthorize">>}
        BY <1>1, <1>4 DEF Paths
      <3>2. p \in Matching(q) /\ \A o \in Matching(q) : o = p
        <4>1. q.path[1] = "oauth" /\ q.path # TokenAPI
          BY <3>1 DEF TokenAPI
        <4> QED
          BY <1>4, <4>1, Matches
      <3>3. IsPrefix(p.path, p.path) /\ p.to = q.path[2]
        BY <3>1, PathPrefixes DEF Pattern
      <3> HIDE DEF p
      <3> QED
        BY <3>2, <3>3, BestMatch, Zenon
    <2> QED
      BY <1>1, <1>4, <2>1 DEF Paths, Last, OAuthLegs, IsOAuthSurface
  <1>5. CASE q.path[1] # "api" /\ q.method = "GET"
    <2>1. Route(q) \in {"not_found", "bad_method"}
      BY <1>5, Matches DEF Route
    <2> QED
      BY <1>1, <1>5, <2>1 DEF Paths, Last, OAuthLegs, IsOAuthSurface
  <1> QED
    BY <1>1, <1>2, <1>3, <1>4, <1>5

-----------------------------------------------------------------------------
\* The refusals of the token endpoint.
Faults == {"malformed_request", "invalid_client_id", "invalid_client_secret",
           "invalid_code"}

\* A request that goes upstream from the token or the revoke endpoint has the
\* credentials of a client, which SetClientID names; every local refusal has one
\* of the statuses of package fault or of ServeMux.
LEMMA Verdicts ==
    ASSUME NEW q \in InboundType, NEW cfg, NEW b \in BOOLEAN,
           NEW v, v = Verdict(cfg, q, b)
    PROVE  /\ v = "send" => Route(q) \in OAuthLegs \cup {"api"}
           /\ v = "send" /\ Route(q) \in {"token", "revoke"} =>
                  /\ Authenticates(cfg, q.id, q.secret)
                  /\ ClientField(cfg, q, "sent") = q.id
           /\ v # "send" =>
                  /\ StatusOf(v) \in {400, 401, 404, 405}
                  /\ Route(q) = "token" => v \in Faults
  <1>1. CASE Route(q) = "token"
    <2>1. v = TokenVerdict(cfg, q, b)
      BY <1>1 DEF Verdict
    <2>2. v \in Faults \cup {"send"}
      BY <2>1 DEF TokenVerdict, Faults
    <2>3. v = "send" => Authenticates(cfg, q.id, q.secret)
      BY <2>1 DEF TokenVerdict
    <2> QED
      BY <1>1, <2>2, <2>3 DEF ClientField, Authenticates, StatusOf, Faults, OAuthLegs
  <1>2. CASE Route(q) = "revoke"
    <2>1. v = RevokeVerdict(cfg, q)
      BY <1>2 DEF Verdict
    <2> QED
      BY <1>2, <2>1 DEF RevokeVerdict, ClientField, Authenticates, StatusOf, OAuthLegs
  <1>3. CASE Route(q) \in {"deauthorize", "api"}
    BY <1>3 DEF Verdict, OAuthLegs
  <1>4. CASE Route(q) \in {"not_found", "bad_method"}
    BY <1>4 DEF Verdict, StatusOf
  <1> QED
    BY <1>1, <1>2, <1>3, <1>4, Routing DEF OAuthLegs

\* What goes upstream from the token or the revoke endpoint is logged with the
\* client it was sent for.
LEMMA SendNames ==
    ASSUME NEW q \in InboundType, NEW cfg, Verdict(cfg, q, TRUE) = "send",
           Route(q) \in {"token", "revoke"}
    PROVE  Authenticates(cfg, q.id, q.secret) /\ ClientField(cfg, q, "sent") = q.id
  <1>1. Authenticates(cfg, q.id, q.secret)
    <2>1. CASE Route(q) = "token"
      BY <2>1 DEF Verdict, TokenVerdict
    <2>2. CASE Route(q) = "revoke"
      BY <2>2 DEF Verdict, RevokeVerdict
    <2> QED
      BY <2>1, <2>2
  <1>2. q.id \in DOMAIN cfg.clients
    BY <1>1 DEF Authenticates
  <1> QED
    BY <1>1, <1>2 DEF ClientField

\* What Answer builds is a reply without tokens.
LEMMA Answers ==
    ASSUME NEW status \in {200, 400, 401, 429} \cup ServerErrors, NEW size \in 0..2,
           NEW a \in Answer(status, size)
    PROVE  a \in Reply /\ a.status = status /\ ~a.tokens
  <1>1. PICK d \in BOOLEAN :
           a = [status |-> status, size |-> size, declared |-> d, tokens |-> FALSE]
    BY DEF Answer
  <1>2. a.status = status /\ ~a.tokens
    BY <1>1
  <1> QED
    BY <1>1, <1>2 DEF Reply

\* What Strava may reply when it is not in trouble.
LEMMA OrderlyTyped ==
    ASSUME NEW r \in Requests, Q(r) \in InboundType, NEW e \in OrderlyReplies(r)
    PROVE  /\ e[1] \in Reply /\ e[1].status # 0
           /\ e[2] \subseteq {Q(r).ticket}
           /\ e[1].tokens => Q(r).method = "POST" /\ Last(Q(r).path) = "token"
           /\ Route(Q(r)) = "token" /\ e[1].status = 400 => e[2] = {}
  <1>1. CASE Q(r).method = "POST" /\ Last(Q(r).path) = "token"
    <2>1. \/ e \in Answer(400, 1) \X {{}}
          \/ e \in Answer(401, 1) \X {{}}
          \/ e \in TokenAnswer \X {{}, {Q(r).ticket}}
      BY <1>1 DEF OrderlyReplies, TokenReplies
    <2>2. CASE e \in Answer(400, 1) \X {{}} \/ e \in Answer(401, 1) \X {{}}
      <3>1. e[1] \in Reply /\ e[1].status # 0 /\ e[2] = {}
        BY <2>2, Answers
      <3> QED
        BY <1>1, <3>1
    <2>3. CASE e \in TokenAnswer \X {{}, {Q(r).ticket}}
      <3>0. e[1] \in TokenAnswer /\ e[2] \in {{}, {Q(r).ticket}}
        BY <2>3
      <3>1. e[1] \in Reply /\ e[1].status = 200
        <4>1. PICK d \in BOOLEAN :
                 e[1] = [status |-> 200, size |-> 2, declared |-> d, tokens |-> TRUE]
          BY <3>0 DEF TokenAnswer
        <4> QED
          BY <4>1 DEF Reply
      <3>2. e[2] \subseteq {Q(r).ticket}
        BY <3>0
      <3> QED
        BY <1>1, <3>1, <3>2
    <2> QED
      BY <2>1, <2>2, <2>3
  <1>2. CASE ~(Q(r).method = "POST" /\ Last(Q(r).path) = "token")
    <2>1. Route(Q(r)) # "token"
      BY <1>2, Routing
    <2>2. \/ e \in Answer(400, 1) \X {{}} \/ e \in Answer(401, 1) \X {{}}
          \/ e \in Answer(200, 0) \X {{Q(r).ticket}}
          \/ e \in Answer(200, 1) \X {{}} \/ e \in Answer(200, 2) \X {{}}
          \/ e \in Answer(429, 1) \X {{}}
      BY <1>2 DEF OrderlyReplies, RevokeReplies
    <2>3. e[1] \in Reply /\ e[1].status # 0 /\ ~e[1].tokens
          /\ e[2] \subseteq {Q(r).ticket}
      BY <2>2, Answers
    <2> QED
      BY <2>1, <2>3
  <1> QED
    BY <1>1, <1>2

\* What Strava may reply: tokens only to a token request, at most the ticket it
\* was asked about is spent, and none by a token request it answers with 400.
LEMMA RepliesTyped ==
    ASSUME NEW r \in Requests, Q(r) \in InboundType, NEW e \in Replies(r)
    PROVE  /\ e[1] \in Reply /\ e[1].status # 0
           /\ e[2] \subseteq {Q(r).ticket}
           /\ e[1].tokens => Q(r).method = "POST" /\ Last(Q(r).path) = "token"
           /\ Route(Q(r)) = "token" /\ e[1].status = 400 => e[2] = {}
  <1>1. CASE e \in OrderlyReplies(r)
    BY <1>1, OrderlyTyped
  <1>2. CASE e \in TroubledReplies(r)
    <2>0. /\ e[1] \in UNION {Answer(status, 1) : status \in ServerErrors}
          /\ e[2] \in {{}} \cup {effect[2] : effect \in OrderlyReplies(r)}
      BY <1>2 DEF TroubledReplies
    <2>1. PICK status \in ServerErrors : e[1] \in Answer(status, 1)
      BY <2>0
    <2>2. e[1] \in Reply /\ e[1].status = status /\ ~e[1].tokens
      <3>1. status \in {200, 400, 401, 429} \cup ServerErrors /\ 1 \in 0..2
        BY <2>1
      <3> QED
        BY <2>1, <3>1, Answers
    <2>3. status \in 500..599
      BY <2>1, RelayAssumption
    <2>4. e[2] = {} \/ \E effect \in OrderlyReplies(r) : e[2] = effect[2]
      BY <2>0
    <2>5. e[2] \subseteq {Q(r).ticket}
      BY <2>4, OrderlyTyped
    <2> QED
      BY <2>2, <2>3, <2>5
  <1> QED
    BY <1>1, <1>2 DEF Replies

-----------------------------------------------------------------------------
(* The invariant of one request *)

AccessRecord == [status : Nat, client : ClientIds \cup {NoOne}]
Responses == [from : {"none", "proxy", "strava"}, status : Nat, chunks : 0..2,
              end : {"none", "complete", "cut"}, noStore : BOOLEAN]
Running == [pc : {"gate", "calling", "copying", "ended"}, in : Inbound,
            snap : Nat, caller : {"here", "stalled", "gone"}]

\* The upstream call c of request q under configuration cfg: one that is not safe
\* to replay, or is on a pooled connection, is pending or has been executed, and
\* not both.  Nothing is spent before an execution, nor by a token request that is
\* refused.
CallInv(r, q, cfg, c, sb) ==
    /\ c \in Call
    /\ c.creds = CredentialsFor(cfg, q)
    /\ Verdict(cfg, q, TRUE) = "send"
    /\ c.pending + c.runs <= 2
    /\ c.pooled \/ ~Replayable(q) => c.pending + c.runs = 1
    /\ c.reply.status # 0 => c.runs > 0
    /\ c.reply.tokens => q.method = "POST" /\ Last(q.path) = "token"
    /\ c.runs = 0 \/ (Route(q) = "token" /\ c.reply.status = 400)
         => \A t \in Tickets : sb[t] # r

\* The status that the record of response p should have.
Shown(p) == IF p.from = "none" THEN 200 ELSE p.status

\* The access-log records l of a request that has ended with response p.
RecordInv(q, c, p, l) ==
    IF Route(q) \notin OAuthLegs /\ p.end = "cut"
      THEN l = <<>>
      ELSE /\ Len(l) = 1 /\ l[1].status = Shown(p)
           /\ c.sent /\ Route(q) \in {"token", "revoke"} => l[1].client = q.id

\* What it has added to the two counters.
CountInv(q, c, p, caller, n, f) ==
    /\ IF Route(q) = "token"
         THEN /\ Len(n) = 1
              /\ n[1][2] = "success" =>
                     c.runs > 0 /\ p.from = "strava" /\ p.status \in 200..299
              /\ n[1][2] \notin {"success", "upstream_error"} => ~c.sent
         ELSE n = <<>>
    /\ IF p.from = "proxy" /\ p.status \in {502, 504} THEN Len(f) = 1 ELSE f = <<>>
    /\ Route(q) \notin OAuthLegs /\ caller = "gone" => f = <<>>

\* Where a complete response is the whole body.
WholeInv(q, c, p, caller, f) ==
    /\ c.sent /\ f = <<>> /\ caller # "gone" /\ p.end = "complete"
    /\ Route(q) \notin OAuthLegs \/ c.reply.declared
    => c.reply.size = p.chunks

\* Only a caller of /api/v3 who has left may have been written nothing at all.
AnswerInv(q, p, caller) ==
    /\ p.from = "none" => Route(q) \notin OAuthLegs /\ caller = "gone"
    /\ p = Nothing \/ p.noStore = IsOAuthSurface(q.path)

EndInv(q, c, p, caller, l, n, f) ==
    /\ RecordInv(q, c, p, l)
    /\ CountInv(q, c, p, caller, n, f)
    /\ WholeInv(q, c, p, caller, f)
    /\ AnswerInv(q, p, caller)

\* Everything about request r, by where its handler is.
RequestInv(r, x, c, p, l, n, f, cfgs, sb) ==
    /\ x.pc # "none" => x.snap \in 1..Len(cfgs)
    /\ x.pc \in {"none", "gate"} => c = NoCall /\ p = Nothing
    /\ x.pc \in {"calling", "copying"} => c # NoCall
    /\ IF c = NoCall THEN \A t \in Tickets : sb[t] # r
                     ELSE CallInv(r, x.in, cfgs[x.snap], c, sb)
    /\ x.pc # "ended" => l = <<>> /\ n = <<>> /\ f = <<>>
    /\ x.pc = "calling" => p = Nothing
    /\ x.pc = "copying" =>
          /\ c.reply.status # 0 /\ p.from = "strava" /\ p.status = c.reply.status
          /\ p.chunks <= c.reply.size /\ p.end = "none"
          /\ p.noStore = IsOAuthSurface(x.in.path)
    /\ x.pc = "ended" => EndInv(x.in, c, p, x.caller, l, n, f)

RInv(r) == RequestInv(r, req[r], call[r], resp[r], access[r], exchanges[r],
                      failures[r], configs, spentBy)

RelayInv == TypeOK /\ \A r \in Requests : RInv(r)

\* The step leaves the state of request o as it is.
Untouched(o) ==
    /\ req'[o] = req[o] /\ call'[o] = call[o] /\ resp'[o] = resp[o]
    /\ access'[o] = access[o] /\ exchanges'[o] = exchanges[o]
    /\ failures'[o] = failures[o]

\* No ticket is spent for o in this step.
NotSpending(o) == \A t \in Tickets : spentBy'[t] = o => spentBy[t] = o

\* A step that neither moves request o nor spends a ticket in its name preserves
\* its invariant, although the configuration may have been reloaded.
LEMMA UntouchedStays ==
    ASSUME TypeOK, NEW o \in Requests, RInv(o), Untouched(o), NotSpending(o),
           \/ configs' = configs
           \/ \E cfg \in Configs : configs' = Append(configs, cfg)
    PROVE  RInv(o)'
  <1>1. configs \in Seq(Configs) /\ Len(configs) \in Nat
    BY LenProperties DEF TypeOK
  <1>2. /\ Len(configs) <= Len(configs')
        /\ \A i \in 1..Len(configs) : configs'[i] = configs[i]
    BY <1>1, AppendProperties
  <1>3. req[o].pc # "none" => /\ req[o].snap \in 1..Len(configs')
                              /\ configs'[req[o].snap] = configs[req[o].snap]
    <2>1. Len(configs') \in Nat
      BY <1>1, AppendProperties, LenProperties
    <2> QED
      BY <1>1, <1>2, <2>1 DEF RInv, RequestInv
  <1>4. call[o] # NoCall =>
          CallInv(o, req[o].in, configs'[req[o].snap], call[o], spentBy')
    <2>1. call[o] # NoCall => req[o].pc # "none"
      BY DEF RInv, RequestInv
    <2>2. call[o] # NoCall =>
             CallInv(o, req[o].in, configs[req[o].snap], call[o], spentBy)
      BY DEF RInv, RequestInv
    <2> QED
      BY <1>3, <2>1, <2>2 DEF CallInv, NotSpending
  <1>5. RequestInv(o, req[o], call[o], resp[o], access[o], exchanges[o],
                   failures[o], configs', spentBy')
    BY <1>3, <1>4 DEF RInv, RequestInv, NotSpending
  <1> QED
    BY <1>5 DEF RInv, Untouched

\* A step that moves only request r preserves the invariant if it preserves r's.
LEMMA OneStep ==
    ASSUME RelayInv, TypeOK', NEW r \in Requests, RInv(r)',
           configs' = configs, \A o \in Requests \ {r} : Untouched(o) /\ NotSpending(o)
    PROVE  RelayInv'
  <1>1. ASSUME NEW o \in Requests
        PROVE  RInv(o)'
    BY UntouchedStays DEF RelayInv
  <1> QED
    BY <1>1 DEF RelayInv

-----------------------------------------------------------------------------
(* The end of a request *)

\* The record of a request that has arrived.
LEMMA RequestTyped ==
    ASSUME TypeOK, NEW r \in Requests, req[r].pc # "none"
    PROVE  /\ req[r] \in Running /\ Q(r) \in Inbound /\ Q(r) \in InboundType
           /\ req[r].caller \in {"here", "stalled", "gone"}
  <1>1. req[r] \in Running
    BY DEF TypeOK, None, Running
  <1> QED
    BY <1>1, RelayAssumption DEF Running, Q

\* A handler's snapshot is one of the configurations that have been published.
LEMMA SnapshotTyped ==
    ASSUME RelayInv, NEW r \in Requests, req[r].pc # "none"
    PROVE  Snapshot(r) \in Configs
  <1>1. req[r].snap \in 1..Len(configs) /\ configs \in Seq(Configs)
    BY DEF RelayInv, RInv, RequestInv, TypeOK
  <1> QED
    BY <1>1, ElementOfSeq DEF Snapshot

\* The handler of r returns with response p and leaves the access-log records l,
\* the counts n of token_exchanges_total and f of upstream_errors_total.
Records(r, l)  == l \in Seq(AccessRecord) /\ access' = [access EXCEPT ![r] = l]
Exchanged(r, n) ==
    n \in Seq(Labels \X Outcomes) /\ exchanges' = [exchanges EXCEPT ![r] = n]
Failed(r, f) ==
    f \in Seq({"timeout", "unavailable"}) /\ failures' = [failures EXCEPT ![r] = f]
CallKept == UNCHANGED <<configs, call, spentBy>>

\* A handler that returns preserves the invariant if what it leaves behind agrees.
LEMMA EndStep ==
    ASSUME RelayInv, NEW r \in Requests, InFlight(r),
           NEW p \in Responses, Ends(r, p), CallKept,
           NEW l, Records(r, l), NEW n, Exchanged(r, n), NEW f, Failed(r, f),
           EndInv(Q(r), call[r], p, req[r].caller, l, n, f)
    PROVE  RelayInv'
  <1> TypeOK /\ RInv(r)
    BY DEF RelayInv
  <1> req[r].pc \in {"gate", "calling", "copying"}
    BY DEF InFlight
  <1>0. /\ l \in Seq(AccessRecord) /\ access' = [access EXCEPT ![r] = l]
        /\ n \in Seq(Labels \X Outcomes) /\ exchanges' = [exchanges EXCEPT ![r] = n]
        /\ f \in Seq({"timeout", "unavailable"})
        /\ failures' = [failures EXCEPT ![r] = f]
        /\ UNCHANGED <<configs, call, spentBy>>
    BY DEF Records, Exchanged, Failed, CallKept
  <1>1. req' = [req EXCEPT ![r].pc = "ended"] /\ resp' = [resp EXCEPT ![r] = p]
    BY DEF Ends
  <1>2. req[r] \in Running /\ [req[r] EXCEPT !.pc = "ended"] \in Running
    BY RequestTyped DEF Running
  <1>3. TypeOK'
    <2>1. req' \in [Requests -> {None} \cup Running]
      BY <1>1, <1>2 DEF TypeOK, Running
    <2>2. resp' \in [Requests -> Responses] /\ access' \in [Requests -> Seq(AccessRecord)]
      BY <1>0, <1>1 DEF TypeOK, Responses, AccessRecord
    <2>3. exchanges' \in [Requests -> Seq(Labels \X Outcomes)]
          /\ failures' \in [Requests -> Seq({"timeout", "unavailable"})]
      BY <1>0 DEF TypeOK
    <2> QED
      BY <1>0, <2>1, <2>2, <2>3 DEF TypeOK, Running, Responses, AccessRecord
  <1>4. /\ req'[r].pc = "ended" /\ req'[r].in = req[r].in /\ req'[r].snap = req[r].snap
        /\ req'[r].caller = req[r].caller
        /\ resp'[r] = p /\ access'[r] = l /\ exchanges'[r] = n /\ failures'[r] = f
        /\ call'[r] = call[r] /\ configs' = configs /\ spentBy' = spentBy
    BY <1>0, <1>1, <1>2 DEF TypeOK, Running
  <1>5. RequestInv(r, req'[r], call[r], p, l, n, f, configs, spentBy)
    BY <1>4 DEF RInv, RequestInv, Q
  <1>6. RInv(r)'
    BY <1>4, <1>5 DEF RInv
  <1>7. \A o \in Requests \ {r} : Untouched(o) /\ NotSpending(o)
    BY <1>0, <1>1 DEF Untouched, NotSpending, TypeOK
  <1> QED
    BY <1>3, <1>4, <1>6, <1>7, OneStep

\* l is the one record of request r.
OneRecord(r, l, status, verdict) ==
    /\ Len(l) = 1 /\ l[1].status = status
    /\ l[1].client = ClientField(Snapshot(r), Q(r), verdict)

\* n is one count, if r is a token request.
OneCount(r, n, outcome) ==
    IF Route(Q(r)) = "token" THEN Len(n) = 1 /\ n[1][2] = outcome ELSE n = <<>>

\* The access log has exactly one record of a request once Logs has run.
LEMMA Logged ==
    ASSUME RelayInv, NEW r \in Requests, InFlight(r),
           NEW status \in Nat, NEW verdict, Logs(r, status, verdict)
    PROVE  \E l : Records(r, l) /\ OneRecord(r, l, Recorded(status), verdict)
  <1> req[r].pc \in {"gate", "calling", "copying"}
    BY DEF InFlight
  <1> DEFINE rec == [status |-> Recorded(status),
                     client |-> ClientField(Snapshot(r), Q(r), verdict)]
  <1>1. access[r] = <<>>
    BY DEF RelayInv, RInv, RequestInv
  <1>2. Q(r).id \in ClientIds \cup {NoOne}
    BY RequestTyped DEF RelayInv, InboundType
  <1>3. rec \in AccessRecord
    BY <1>2 DEF ClientField, AccessRecord, Recorded
  <1>4. access' = [access EXCEPT ![r] = <<rec>>]
    BY <1>1 DEF Logs
  <1>5. <<rec>> \in Seq(AccessRecord) /\ Len(<<rec>>) = 1 /\ <<rec>>[1] = rec
    BY <1>3
  <1>6. /\ rec.status = Recorded(status)
        /\ rec.client = ClientField(Snapshot(r), Q(r), verdict)
    OBVIOUS
  <1> HIDE DEF rec
  <1> QED
    BY <1>4, <1>5, <1>6 DEF Records, OneRecord

\* token_exchanges_total counts a request once if it is a token request.
LEMMA Counted ==
    ASSUME RelayInv, NEW r \in Requests, InFlight(r),
           NEW outcome, Route(Q(r)) = "token" => outcome \in Outcomes,
           Counts(r, outcome)
    PROVE  \E n : Exchanged(r, n) /\ OneCount(r, n, outcome)
  <1> req[r].pc \in {"gate", "calling", "copying"}
    BY DEF InFlight
  <1>1. exchanges[r] = <<>> /\ exchanges \in [Requests -> Seq(Labels \X Outcomes)]
    BY DEF RelayInv, RInv, RequestInv, TypeOK
  <1> DEFINE label == IF outcome = "malformed_request" THEN "none"
                                                      ELSE GrantLabel(Q(r).grant)
             rec   == <<label, outcome>>
  <1>2. rec[2] = outcome /\ (outcome \in Outcomes => rec \in Labels \X Outcomes)
    <2>1. label \in Labels
      BY DEF GrantLabel, Labels
    <2> HIDE DEF label
    <2> QED
      BY <2>1
  <1>3. exchanges' = IF Route(Q(r)) = "token"
                       THEN [exchanges EXCEPT ![r] = Append(@, rec)]
                       ELSE exchanges
    BY DEF Counts
  <1> HIDE DEF rec
  <1>4. CASE Route(Q(r)) = "token"
    <2>1. exchanges' = [exchanges EXCEPT ![r] = <<rec>>]
      BY <1>1, <1>3, <1>4
    <2>2. <<rec>> \in Seq(Labels \X Outcomes) /\ Len(<<rec>>) = 1 /\ <<rec>>[1] = rec
      BY <1>2, <1>4
    <2> QED
      BY <1>2, <1>4, <2>1, <2>2 DEF Exchanged, OneCount
  <1>5. CASE Route(Q(r)) # "token"
    <2>1. exchanges' = [exchanges EXCEPT ![r] = <<>>]
      BY <1>1, <1>3, <1>5
    <2>2. <<>> \in Seq(Labels \X Outcomes)
      OBVIOUS
    <2> QED
      BY <1>5, <2>1, <2>2 DEF Exchanged, OneCount
  <1> QED
    BY <1>4, <1>5

\* The fields of a response.
LEMMA ResponseTyped ==
    ASSUME NEW r \in Requests, NEW from \in {"none", "proxy", "strava"},
           NEW status \in Nat, NEW end \in {"none", "complete", "cut"}
    PROVE  LET p == Response(r, from, status, end)
           IN  /\ p \in Responses /\ p.from = from /\ p.status = status
               /\ p.chunks = 0 /\ p.end = end
               /\ p.noStore = IsOAuthSurface(Q(r).path)
  BY DEF Response, Responses, IsOAuthSurface

\* A handler that leaves the counters alone has counted nothing.
LEMMA ExchangedNever ==
    ASSUME RelayInv, NEW r \in Requests, req[r].pc # "ended", exchanges' = exchanges
    PROVE  Exchanged(r, <<>>)
  <1>1. exchanges[r] = <<>> /\ exchanges \in [Requests -> Seq(Labels \X Outcomes)]
    BY DEF RelayInv, RInv, RequestInv, TypeOK
  <1>2. <<>> \in Seq(Labels \X Outcomes)
    OBVIOUS
  <1> QED
    BY <1>1, <1>2 DEF Exchanged

\* A request that has not ended has counted no upstream failure.
LEMMA FailedNever ==
    ASSUME RelayInv, NEW r \in Requests, req[r].pc # "ended", failures' = failures
    PROVE  Failed(r, <<>>)
  <1>1. failures[r] = <<>> /\ failures \in [Requests -> Seq({"timeout", "unavailable"})]
    BY DEF RelayInv, RInv, RequestInv, TypeOK
  <1>2. <<>> \in Seq({"timeout", "unavailable"})
    OBVIOUS
  <1> QED
    BY <1>1, <1>2 DEF Failed

\* A call that was sent for a client is logged with its name.
NamesSent(r, verdict) ==
    call[r].sent /\ Route(Q(r)) \in {"token", "revoke"} =>
        ClientField(Snapshot(r), Q(r), verdict) = Q(r).id

\* A call that came to nothing has failed, or its caller has left.
Accountable(r, f) == call[r].sent => f # <<>> \/ req[r].caller = "gone"

\* A request that ends before any header of Strava's answer: a refusal, a call
\* that failed, or a caller that left.
LEMMA LocalEnd ==
    ASSUME RelayInv, NEW r \in Requests, InFlight(r),
           NEW p \in Responses, Ends(r, p), p.end # "cut",
           Recorded(p.status) = Shown(p), AnswerInv(Q(r), p, req[r].caller),
           NEW verdict, Logs(r, p.status, verdict), NamesSent(r, verdict), CallKept,
           NEW n, Exchanged(r, n), NEW f, Failed(r, f), Accountable(r, f),
           CountInv(Q(r), call[r], p, req[r].caller, n, f)
    PROVE  RelayInv'
  <1>1. p.status \in Nat
    BY DEF Responses
  <1>2. PICK l : Records(r, l) /\ OneRecord(r, l, Recorded(p.status), verdict)
    BY <1>1, Logged
  <1>3. RecordInv(Q(r), call[r], p, l)
    BY <1>2 DEF RecordInv, OneRecord, NamesSent
  <1>4. WholeInv(Q(r), call[r], p, req[r].caller, f)
    BY DEF WholeInv, Accountable
  <1>5. EndInv(Q(r), call[r], p, req[r].caller, l, n, f)
    BY <1>3, <1>4 DEF EndInv
  <1> QED
    BY <1>2, <1>5, EndStep

\* The same for a response of the proxy's own.
LEMMA ProxyEnd ==
    ASSUME RelayInv, NEW r \in Requests, InFlight(r), NEW status \in Nat, status # 0,
           Ends(r, Response(r, "proxy", status, "complete")), CallKept,
           NEW verdict, Logs(r, status, verdict), NamesSent(r, verdict),
           NEW n, Exchanged(r, n), NEW f, Failed(r, f), Accountable(r, f),
           CountInv(Q(r), call[r], Response(r, "proxy", status, "complete"),
                    req[r].caller, n, f)
    PROVE  RelayInv'
  <1>1. PICK p : p = Response(r, "proxy", status, "complete")
    OBVIOUS
  <1>2. /\ p \in Responses /\ p.from = "proxy" /\ p.status = status
        /\ p.end = "complete" /\ p.noStore = IsOAuthSurface(Q(r).path)
    BY <1>1, ResponseTyped
  <1>3. AnswerInv(Q(r), p, req[r].caller)
    BY <1>2 DEF AnswerInv
  <1>4. Recorded(p.status) = Shown(p)
    BY <1>2 DEF Recorded, Shown
  <1>5. /\ Ends(r, p) /\ Logs(r, p.status, verdict)
        /\ CountInv(Q(r), call[r], p, req[r].caller, n, f)
    BY <1>1, <1>2
  <1> QED
    BY <1>2, <1>3, <1>4, <1>5, LocalEnd

\* A local refusal preserves the invariant.
LEMMA RejectStep ==
    ASSUME RelayInv, NEW r \in Requests, NEW b \in BOOLEAN, Reject(r, b)
    PROVE  RelayInv'
  <1>1. PICK v : v = Verdict(Snapshot(r), Q(r), b)
    OBVIOUS
  <1>2. /\ req[r].pc = "gate" /\ v # "send"
        /\ Ends(r, Response(r, "proxy", StatusOf(v), "complete"))
        /\ Logs(r, StatusOf(v), v) /\ Counts(r, v)
        /\ failures' = failures
        /\ InFlight(r) /\ CallKept
    BY <1>1 DEF Reject, At, InFlight, CallKept
  <1>3. Q(r) \in InboundType
    BY <1>2, RequestTyped DEF RelayInv
  <1>4. /\ StatusOf(v) \in {400, 401, 404, 405}
        /\ Route(Q(r)) = "token" => v \in Faults
    BY <1>1, <1>2, <1>3, Verdicts
  <1>5. call[r] = NoCall /\ ~call[r].sent
    BY <1>2 DEF RelayInv, RInv, RequestInv, NoCall
  <1>6. Failed(r, <<>>)
    BY <1>2, FailedNever
  <1>7. PICK n : Exchanged(r, n) /\ OneCount(r, n, v)
    BY <1>2, <1>4, Counted DEF Faults, Outcomes
  <1>8. CountInv(Q(r), call[r], Response(r, "proxy", StatusOf(v), "complete"),
                 req[r].caller, n, <<>>)
    <2>1. Response(r, "proxy", StatusOf(v), "complete").status \notin {502, 504}
      BY <1>2, <1>4 DEF Response
    <2>2. Route(Q(r)) = "token" => Len(n) = 1 /\ n[1][2] \in Faults
      BY <1>2, <1>4, <1>7 DEF OneCount
    <2>3. Route(Q(r)) # "token" => n = <<>>
      BY <1>7 DEF OneCount
    <2>4. ~call[r].sent /\ "success" \notin Faults
      BY <1>5 DEF Faults
    <2> QED
      BY <2>1, <2>2, <2>3, <2>4 DEF CountInv
  <1>9. StatusOf(v) \in Nat /\ StatusOf(v) # 0
    BY <1>2, <1>4
  <1>10. NamesSent(r, v) /\ Accountable(r, <<>>)
    BY <1>5 DEF NamesSent, Accountable
  <1> QED
    BY <1>2, <1>6, <1>7, <1>8, <1>9, <1>10, ProxyEnd

\* A 502 or a 504 preserves the invariant, whether or not Strava executes the call.
LEMMA GiveUpStep ==
    ASSUME RelayInv, NEW r \in Requests, NEW kind \in {"timeout", "unavailable"},
           GiveUp(r, kind)
    PROVE  RelayInv'
  <1>1. /\ req[r].pc = "calling"
        /\ IsOAuth(r) \/ ~Gone(r)
        /\ Ends(r, Response(r, "proxy", StatusOf(kind), "complete"))
        /\ Logs(r, StatusOf(kind), "sent") /\ Tallies(r, kind)
        /\ InFlight(r) /\ CallKept
    BY DEF GiveUp, At, InFlight, CallKept
  <1>2. StatusOf(kind) \in {502, 504}
    BY DEF StatusOf
  <1>3. Q(r) \in InboundType
    BY <1>1, RequestTyped DEF RelayInv
  <1>4. NamesSent(r, "sent")
    <2>1. Verdict(Snapshot(r), Q(r), TRUE) = "send"
      BY <1>1 DEF RelayInv, RInv, RequestInv, CallInv, Q, Snapshot
    <2> QED
      BY <1>3, <2>1, SendNames DEF NamesSent
  <1>5. Failed(r, <<kind>>)
    <2>1. failures[r] = <<>>
      BY <1>1 DEF RelayInv, RInv, RequestInv
    <2>2. failures' = [failures EXCEPT ![r] = Append(@, kind)]
      BY <1>1 DEF Tallies
    <2>3. failures' = [failures EXCEPT ![r] = <<kind>>]
      BY <2>1, <2>2
    <2> QED
      BY <2>3 DEF Failed
  <1>6. PICK n : Exchanged(r, n) /\ OneCount(r, n, "upstream_error")
    BY <1>1, Counted DEF Tallies, Outcomes
  <1>7. Len(<<kind>>) = 1 /\ <<kind>> # <<>>
    OBVIOUS
  <1>8. CountInv(Q(r), call[r], Response(r, "proxy", StatusOf(kind), "complete"),
                 req[r].caller, n, <<kind>>)
    <2>1. /\ Response(r, "proxy", StatusOf(kind), "complete").status = StatusOf(kind)
          /\ Response(r, "proxy", StatusOf(kind), "complete").from = "proxy"
      BY DEF Response
    <2>2. IF Route(Q(r)) = "token"
            THEN Len(n) = 1 /\ n[1][2] = "upstream_error" ELSE n = <<>>
      BY <1>6 DEF OneCount
    <2>3. ~(Route(Q(r)) \notin OAuthLegs /\ req[r].caller = "gone")
      BY <1>1 DEF IsOAuth, Gone
    <2> HIDE DEF OAuthLegs
    <2> QED
      BY <1>2, <1>7, <2>1, <2>2, <2>3 DEF CountInv
  <1>9. StatusOf(kind) \in Nat /\ StatusOf(kind) # 0
    BY <1>2
  <1>10. Accountable(r, <<kind>>)
    BY <1>7 DEF Accountable
  <1> QED
    BY <1>1, <1>4, <1>5, <1>6, <1>8, <1>9, <1>10, ProxyEnd

\* The reverse proxy's silent end, when the caller has left, preserves it.
LEMMA CanceledStep ==
    ASSUME RelayInv, NEW r \in Requests, Canceled(r)
    PROVE  RelayInv'
  <1>1. /\ req[r].pc = "calling" /\ ~IsOAuth(r) /\ req[r].caller = "gone"
        /\ Ends(r, Nothing) /\ Logs(r, Nothing.status, "sent")
        /\ exchanges' = exchanges /\ failures' = failures
        /\ InFlight(r) /\ CallKept
    BY DEF Canceled, At, Gone, InFlight, CallKept
  <1>2. Route(Q(r)) \notin {"token", "revoke"} /\ Route(Q(r)) \notin OAuthLegs
    BY <1>1 DEF IsOAuth, OAuthLegs
  <1>3. Exchanged(r, <<>>) /\ Failed(r, <<>>)
    BY <1>1, ExchangedNever, FailedNever
  <1>4. PICK p : p = Nothing
    OBVIOUS
  <1>5. p \in Responses /\ p.from = "none" /\ p.status = 0 /\ p.end = "none"
    BY <1>4 DEF Nothing, Responses
  <1>6. CountInv(Q(r), call[r], p, req[r].caller, <<>>, <<>>)
    BY <1>2, <1>5 DEF CountInv
  <1>7. AnswerInv(Q(r), p, req[r].caller) /\ Recorded(p.status) = Shown(p)
    BY <1>1, <1>2, <1>4, <1>5 DEF AnswerInv, Recorded, Shown
  <1>8. NamesSent(r, "sent") /\ Accountable(r, <<>>)
    BY <1>1, <1>2 DEF NamesSent, Accountable
  <1>9. Ends(r, p) /\ Logs(r, p.status, "sent")
    BY <1>1, <1>4
  <1> QED
    BY <1>1, <1>3, <1>5, <1>6, <1>7, <1>8, <1>9, LocalEnd

-----------------------------------------------------------------------------
(* The copy *)

\* What is known of an upstream call, wherever its request has come to.
LEMMA CallHolds ==
    ASSUME RelayInv, NEW r \in Requests, call[r] # NoCall
    PROVE  /\ CallInv(r, Q(r), Snapshot(r), call[r], spentBy)
           /\ call[r] \in Call /\ call[r].sent
           /\ Q(r) \in InboundType
           /\ NamesSent(r, "sent")
  <1>1. CallInv(r, Q(r), Snapshot(r), call[r], spentBy)
    BY DEF RelayInv, RInv, RequestInv, Q, Snapshot
  <1>2. call[r] \in Call /\ Verdict(Snapshot(r), Q(r), TRUE) = "send"
    BY <1>1 DEF CallInv
  <1>3. call[r].sent
    BY <1>2 DEF Call
  <1>4. req[r].pc # "none"
    BY DEF RelayInv, RInv, RequestInv
  <1>5. Q(r) \in InboundType
    BY <1>4, RequestTyped DEF RelayInv
  <1>6. NamesSent(r, "sent")
    BY <1>2, <1>5, SendNames DEF NamesSent
  <1> QED
    BY <1>1, <1>2, <1>3, <1>5, <1>6

\* A request with an upstream call has passed its gate.
LEMMA CallAt ==
    ASSUME RelayInv, NEW r \in Requests, call[r] # NoCall
    PROVE  req[r].pc \in {"calling", "copying", "ended"}
  <1>1. req[r].pc \in {"none", "gate", "calling", "copying", "ended"}
    BY DEF RelayInv, TypeOK, None
  <1>2. req[r].pc \notin {"none", "gate"}
    BY DEF RelayInv, RInv, RequestInv
  <1> QED
    BY <1>1, <1>2

\* What is known of its answer.
LEMMA ReplyHolds ==
    ASSUME RelayInv, NEW r \in Requests, call[r] # NoCall
    PROVE  /\ call[r].reply \in Reply
           /\ call[r].reply.status \in Nat
           /\ call[r].reply.status # 0 => call[r].runs > 0
  <1>1. call[r] \in Call /\ CallInv(r, Q(r), Snapshot(r), call[r], spentBy)
    BY CallHolds
  <1>2. call[r].reply \in Reply
    BY <1>1 DEF Call
  <1>3. call[r].reply.status \in Nat
    <2>1. call[r].reply.status \in {0, 200, 400, 401, 429} \cup ServerErrors
      BY <1>2 DEF Reply
    <2>2. PICK status : status = call[r].reply.status
      OBVIOUS
    <2>3. CASE status \in {0, 200, 400, 401, 429}
      BY <2>2, <2>3
    <2>4. CASE status \in ServerErrors
      <3>1. status \in 500..599
        BY <2>4, RelayAssumption
      <3> QED
        BY <2>2, <3>1
    <2> QED
      BY <2>1, <2>2, <2>3, <2>4
  <1>4. call[r].reply.status # 0 => call[r].runs > 0
    BY <1>1 DEF CallInv
  <1> QED
    BY <1>2, <1>3, <1>4

\* The end of a copy that is logged and counted: the whole body, or what relay
\* treats like it after a failure.
LEMMA CopyEnd ==
    ASSUME RelayInv, NEW r \in Requests, req[r].pc = "copying",
           NEW e \in {"complete", "cut"},
           Ends(r, [resp[r] EXCEPT !.end = e]),
           Logs(r, resp[r].status, "sent"),
           Counts(r, StatusOutcome(resp[r].status)),
           CallKept, failures' = failures,
           e = "cut" => IsOAuth(r),
           e = "complete" /\ (~IsOAuth(r) \/ call[r].reply.declared)
               => call[r].reply.size = resp[r].chunks
    PROVE  RelayInv'
  <1>1. call[r] # NoCall /\ failures[r] = <<>> /\ resp[r].status = call[r].reply.status
        /\ call[r].reply.status # 0 /\ resp[r].noStore = IsOAuthSurface(Q(r).path)
        /\ resp[r].from = "strava"
    BY DEF RelayInv, RInv, RequestInv, Q
  <1>2. resp[r].status \in Nat \ {0} /\ call[r].runs > 0
    BY <1>1, ReplyHolds
  <1>3. PICK p : p = [resp[r] EXCEPT !.end = e]
    OBVIOUS
  <1>4. resp[r] \in Responses
    BY DEF RelayInv, TypeOK, Responses
  <1>5. /\ p \in Responses /\ p.status = resp[r].status /\ p.end = e
        /\ p.chunks = resp[r].chunks /\ p.noStore = IsOAuthSurface(Q(r).path)
        /\ p.from = "strava"
    BY <1>1, <1>3, <1>4 DEF Responses
  <1>0. InFlight(r)
    BY DEF InFlight
  <1>6. PICK l : Records(r, l) /\ OneRecord(r, l, Recorded(resp[r].status), "sent")
    <2>1. resp[r].status \in Nat
      BY <1>2
    <2> QED
      BY <1>0, <2>1, Logged
  <1>7. StatusOutcome(resp[r].status) \in {"success", "upstream_error"}
        /\ (StatusOutcome(resp[r].status) = "success" => resp[r].status \in 200..299)
    BY DEF StatusOutcome
  <1>8. PICK n : Exchanged(r, n) /\ OneCount(r, n, StatusOutcome(resp[r].status))
    <2>1. StatusOutcome(resp[r].status) \in Outcomes
      BY <1>7 DEF Outcomes
    <2> QED
      BY <1>0, <2>1, Counted
  <1>9. RecordInv(Q(r), call[r], p, l)
    <2>1. Recorded(resp[r].status) = Shown(p)
      BY <1>2, <1>5 DEF Recorded, Shown
    <2> QED
      BY <1>1, <1>5, <1>6, <2>1, CallHolds DEF RecordInv, OneRecord, IsOAuth, NamesSent
  <1>10. CountInv(Q(r), call[r], p, req[r].caller, n, <<>>)
    <2>1. p.from = "strava"
      BY <1>5
    <2>2. Route(Q(r)) = "token" =>
              /\ Len(n) = 1 /\ n[1][2] \in {"success", "upstream_error"}
              /\ n[1][2] = "success" => call[r].runs > 0 /\ p.status \in 200..299
      BY <1>2, <1>5, <1>7, <1>8 DEF OneCount
    <2>3. Route(Q(r)) # "token" => n = <<>>
      BY <1>8 DEF OneCount
    <2> QED
      BY <2>1, <2>2, <2>3 DEF CountInv
  <1>11. WholeInv(Q(r), call[r], p, req[r].caller, <<>>)
    BY <1>5 DEF WholeInv, IsOAuth
  <1>12. EndInv(Q(r), call[r], p, req[r].caller, l, n, <<>>)
    BY <1>5, <1>9, <1>10, <1>11 DEF EndInv, AnswerInv
  <1>13. Failed(r, <<>>)
    BY FailedNever
  <1>14. Ends(r, p)
    BY <1>3
  <1> QED
    BY <1>0, <1>5, <1>6, <1>8, <1>12, <1>13, <1>14, EndStep

\* The end of a complete copy preserves the invariant.
LEMMA CopyDoneStep ==
    ASSUME RelayInv, NEW r \in Requests, CopyDone(r)
    PROVE  RelayInv'
  <1>1. call[r].reply.size = resp[r].chunks
    <2>1. call[r] # NoCall
      BY DEF CopyDone, At, RelayInv, RInv, RequestInv
    <2>2. call[r].reply.size \in 0..2
      BY <2>1, ReplyHolds DEF Reply
    <2>3. resp[r].chunks \in 0..2
      BY DEF RelayInv, TypeOK
    <2> QED
      BY <2>2, <2>3 DEF CopyDone, Left
  <1> QED
    BY <1>1, CopyEnd DEF CopyDone, At, CallKept

\* A copy that breaks preserves the invariant: relay returns as after a success,
\* the reverse proxy aborts and leaves no record.
LEMMA CopyBreaksStep ==
    ASSUME RelayInv, NEW r \in Requests, NEW cause, CopyBreaks(r, cause)
    PROVE  RelayInv'
  <1>1. req[r].pc = "copying" /\ InFlight(r) /\ CallKept /\ failures' = failures
    BY DEF CopyBreaks, At, InFlight, CallKept
  <1>2. CASE RelayBreaks(r)
    <2>1. PICK e : e = IF Declared(r) THEN "cut" ELSE "complete"
      OBVIOUS
    <2>2. /\ Ends(r, [resp[r] EXCEPT !.end = e]) /\ IsOAuth(r)
          /\ Logs(r, resp[r].status, "sent")
          /\ Counts(r, StatusOutcome(resp[r].status))
      BY <1>2, <2>1 DEF RelayBreaks
    <2>3. e \in {"complete", "cut"} /\ (e = "complete" => ~call[r].reply.declared)
      BY <2>1 DEF Declared
    <2> QED
      BY <1>1, <2>2, <2>3, CopyEnd
  <1>3. CASE ProxyAborts(r)
    <2>1. PICK p : p = [resp[r] EXCEPT !.end = "cut"]
      OBVIOUS
    <2>2. /\ Ends(r, p) /\ Route(Q(r)) \notin OAuthLegs
          /\ UNCHANGED <<access, exchanges>>
      BY <1>3, <2>1 DEF ProxyAborts, IsOAuth
    <2>3. /\ resp[r].noStore = IsOAuthSurface(Q(r).path)
          /\ resp[r].from = "strava"
          /\ call[r] # NoCall
          /\ access[r] = <<>> /\ exchanges[r] = <<>> /\ failures[r] = <<>>
      BY <1>1 DEF RelayInv, RInv, RequestInv, Q
    <2>4. resp[r] \in Responses
      BY DEF RelayInv, TypeOK, Responses
    <2>5. /\ p \in Responses /\ p.from = "strava" /\ p.end = "cut"
          /\ p.noStore = IsOAuthSurface(Q(r).path)
      BY <2>1, <2>3, <2>4 DEF Responses
    <2>6. EndInv(Q(r), call[r], p, req[r].caller, <<>>, <<>>, <<>>)
      BY <2>2, <2>5 DEF EndInv, RecordInv, CountInv, WholeInv, AnswerInv, OAuthLegs
    <2>7. Records(r, <<>>)
      <3>1. access' = [access EXCEPT ![r] = <<>>] /\ <<>> \in Seq(AccessRecord)
        BY <2>2, <2>3 DEF RelayInv, TypeOK
      <3> QED
        BY <3>1 DEF Records
    <2>8. Exchanged(r, <<>>) /\ Failed(r, <<>>)
      BY <1>1, <2>2, ExchangedNever, FailedNever
    <2> QED
      BY <1>1, <2>2, <2>5, <2>6, <2>7, <2>8, EndStep
  <1> QED
    BY <1>2, <1>3 DEF CopyBreaks

-----------------------------------------------------------------------------
(* The steps that leave the request running *)

\* A step of request r after which its handler still runs.
LEMMA RunStep ==
    ASSUME RelayInv, NEW r \in Requests,
           NEW x \in Running, req' = [req EXCEPT ![r] = x],
           NEW c \in {NoCall} \cup Call, call' = [call EXCEPT ![r] = c],
           NEW p \in Responses, resp' = [resp EXCEPT ![r] = p],
           spentBy' \in [Tickets -> Requests \cup {NoOne, Elsewhere}],
           \A o \in Requests \ {r} : NotSpending(o),
           UNCHANGED <<configs, tallies>>,
           RequestInv(r, x, c, p, access[r], exchanges[r], failures[r], configs,
                      spentBy')
    PROVE  RelayInv'
  <1> TypeOK
    BY DEF RelayInv
  <1>1. TypeOK'
    <2>1. req' \in [Requests -> {None} \cup Running]
      BY DEF TypeOK, Running
    <2>2. call' \in [Requests -> {NoCall} \cup Call] /\ resp' \in [Requests -> Responses]
      BY DEF TypeOK, Responses
    <2> QED
      BY <2>1, <2>2 DEF TypeOK, Running, Responses, tallies
  <1>2. /\ req'[r] = x /\ call'[r] = c /\ resp'[r] = p /\ configs' = configs
        /\ access' = access /\ exchanges' = exchanges /\ failures' = failures
    BY DEF TypeOK, tallies
  <1>3. RInv(r)'
    BY <1>2 DEF RInv
  <1>4. \A o \in Requests \ {r} : Untouched(o)
    BY <1>2 DEF Untouched, TypeOK
  <1> QED
    BY <1>1, <1>2, <1>3, <1>4, OneStep

\* A step in which Strava does nothing spends nothing.
LEMMA Quiet ==
    ASSUME TypeOK, spentBy' = spentBy
    PROVE  /\ spentBy' \in [Tickets -> Requests \cup {NoOne, Elsewhere}]
           /\ \A o \in Requests : NotSpending(o)
  BY DEF TypeOK, NotSpending

\* The types of one request's state.
LEMMA StateOf ==
    ASSUME TypeOK, NEW r \in Requests
    PROVE  /\ req[r] \in {None} \cup Running /\ req = [req EXCEPT ![r] = req[r]]
           /\ call[r] \in {NoCall} \cup Call /\ call = [call EXCEPT ![r] = call[r]]
           /\ resp[r] \in Responses /\ resp = [resp EXCEPT ![r] = resp[r]]
  <1>1. /\ req \in [Requests -> {None} \cup Running]
        /\ call \in [Requests -> {NoCall} \cup Call]
        /\ resp \in [Requests -> Responses]
    BY DEF TypeOK, Running, Responses
  <1> QED
    BY <1>1

\* The arrival of a request preserves the invariant.
LEMMA ArriveStep ==
    ASSUME RelayInv, NEW r \in Requests, NEW q \in Inbound, Arrive(r, q)
    PROVE  RelayInv'
  <1> TypeOK /\ RInv(r)
    BY DEF RelayInv
  <1> DEFINE x == [pc |-> "gate", in |-> q, snap |-> Len(configs), caller |-> "here"]
  <1>1. Len(configs) \in Nat /\ Len(configs) \in 1..Len(configs)
    BY LenProperties DEF TypeOK
  <1>2. x \in Running
    BY <1>1 DEF Running
  <1>3. /\ req' = [req EXCEPT ![r] = x] /\ req[r].pc = "none"
        /\ UNCHANGED <<configs, call, resp, spentBy, tallies>>
    BY DEF Arrive, At
  <1>4. RequestInv(r, x, call[r], resp[r], access[r], exchanges[r], failures[r],
                   configs, spentBy)
    BY <1>1, <1>3 DEF RInv, RequestInv
  <1> HIDE DEF x
  <1> QED
    BY <1>2, <1>3, <1>4, RunStep, Quiet, StateOf

\* A caller that stalls, resumes or leaves preserves it.
LEMMA CallerStep ==
    ASSUME RelayInv, NEW r \in Requests, InFlight(r),
           NEW w \in {"here", "stalled", "gone"}, req' = [req EXCEPT ![r].caller = w],
           UNCHANGED <<configs, call, resp, spentBy, tallies>>
    PROVE  RelayInv'
  <1> TypeOK /\ RInv(r)
    BY DEF RelayInv
  <1> DEFINE x == [req[r] EXCEPT !.caller = w]
  <1>1. req[r].pc \in {"gate", "calling", "copying"} /\ req[r] \in Running
    BY RequestTyped DEF InFlight
  <1>2. x \in Running /\ x.pc = req[r].pc /\ x.in = req[r].in /\ x.snap = req[r].snap
    BY <1>1 DEF Running
  <1>3. req' = [req EXCEPT ![r] = x]
    OBVIOUS
  <1> HIDE DEF x
  <1>4. RequestInv(r, x, call[r], resp[r], access[r], exchanges[r], failures[r],
                   configs, spentBy)
    BY <1>1, <1>2 DEF RInv, RequestInv
  <1> QED
    BY <1>2, <1>3, <1>4, RunStep, Quiet, StateOf

\* Sending the upstream call preserves it.
LEMMA SendStep ==
    ASSUME RelayInv, NEW r \in Requests, NEW pooled \in BOOLEAN, Send(r, pooled)
    PROVE  RelayInv'
  <1> TypeOK /\ RInv(r)
    BY DEF RelayInv
  <1> DEFINE x == [req[r] EXCEPT !.pc = "calling"]
             c == [sent |-> TRUE, creds |-> CredentialsFor(Snapshot(r), Q(r)),
                   pooled |-> pooled, pending |-> 1, runs |-> 0, reply |-> NoReply]
  <1>1. /\ req[r].pc = "gate" /\ Verdict(Snapshot(r), Q(r), TRUE) = "send"
        /\ req' = [req EXCEPT ![r] = x] /\ call' = [call EXCEPT ![r] = c]
        /\ UNCHANGED <<configs, resp, spentBy, tallies>>
    BY DEF Send, At
  <1>2. req[r] \in Running /\ Q(r) \in InboundType
    BY <1>1, RequestTyped
  <1>3. /\ x \in Running /\ x.pc = "calling" /\ x.in = req[r].in
        /\ x.snap = req[r].snap
    BY <1>2 DEF Running
  <1>4. Snapshot(r) \in Configs
    BY <1>1, SnapshotTyped
  <1>5. CredentialsFor(Snapshot(r), Q(r)) \in Credentials
    BY <1>2, <1>4, RelayAssumption DEF CredentialsFor, Credentials, InboundType
  <1>6. NoReply \in Reply /\ NoReply.status = 0 /\ ~NoReply.tokens
    BY DEF NoReply, Reply
  <1>7. c \in Call /\ c # NoCall
    BY <1>5, <1>6 DEF Call, NoCall
  <1>8. call[r] = NoCall /\ resp[r] = Nothing
    BY <1>1 DEF RInv, RequestInv
  <1>9. CallInv(r, Q(r), Snapshot(r), c, spentBy)
    <2>1. \A t \in Tickets : spentBy[t] # r
      BY <1>8 DEF RInv, RequestInv
    <2>2. c.pending + c.runs = 1 /\ c.reply = NoReply
      OBVIOUS
    <2>3. c.creds = CredentialsFor(Snapshot(r), Q(r))
      OBVIOUS
    <2> HIDE DEF c
    <2>4. c.pending + c.runs <= 2 /\ c.reply.status = 0 /\ c.reply.tokens = FALSE
      BY <2>2 DEF NoReply
    <2> QED
      BY <1>1, <1>7, <2>1, <2>2, <2>3, <2>4 DEF CallInv
  <1> HIDE DEF x, c
  <1>10. RequestInv(r, x, c, resp[r], access[r], exchanges[r], failures[r],
                    configs, spentBy)
    BY <1>1, <1>3, <1>7, <1>8, <1>9 DEF RInv, RequestInv, Q, Snapshot
  <1> QED
    BY <1>1, <1>3, <1>7, <1>10, RunStep, Quiet, StateOf

\* Receiving Strava's headers preserves it.
LEMMA HeadersStep ==
    ASSUME RelayInv, NEW r \in Requests, Headers(r)
    PROVE  RelayInv'
  <1> TypeOK /\ RInv(r)
    BY DEF RelayInv
  <1> DEFINE x == [req[r] EXCEPT !.pc = "copying"]
  <1>1. /\ req[r].pc = "calling" /\ call[r].reply.status # 0
        /\ req' = [req EXCEPT ![r] = x]
        /\ resp' = [resp EXCEPT ![r] = Response(r, "strava", call[r].reply.status, "none")]
        /\ UNCHANGED <<configs, call, spentBy, tallies>>
    BY DEF Headers, At
  <1>2. call[r] # NoCall /\ req[r] \in Running
    BY <1>1, RequestTyped DEF RInv, RequestInv
  <1>3. /\ x \in Running /\ x.pc = "copying" /\ x.in = req[r].in
        /\ x.snap = req[r].snap
    BY <1>2 DEF Running
  <1>4. call[r].reply.status \in Nat /\ call[r].reply.size \in 0..2
    BY <1>2, ReplyHolds DEF Reply
  <1>5. PICK p : p = Response(r, "strava", call[r].reply.status, "none")
    OBVIOUS
  <1>6. /\ p \in Responses /\ p.status = call[r].reply.status /\ p.chunks = 0
        /\ p.from = "strava" /\ p.end = "none"
        /\ p.noStore = IsOAuthSurface(Q(r).path)
    BY <1>4, <1>5, ResponseTyped
  <1> HIDE DEF x
  <1>7. RequestInv(r, x, call[r], p, access[r], exchanges[r], failures[r],
                   configs, spentBy)
    BY <1>1, <1>2, <1>3, <1>4, <1>6 DEF RInv, RequestInv, Q
  <1> QED
    BY <1>1, <1>3, <1>5, <1>6, <1>7, RunStep, Quiet, StateOf

\* Copying a chunk of the body preserves it.
LEMMA CopyChunkStep ==
    ASSUME RelayInv, NEW r \in Requests, CopyChunk(r)
    PROVE  RelayInv'
  <1> TypeOK /\ RInv(r)
    BY DEF RelayInv
  <1> DEFINE p == [resp[r] EXCEPT !.chunks = @ + 1]
  <1>1. /\ req[r].pc = "copying" /\ call[r].reply.size - resp[r].chunks > 0
        /\ resp' = [resp EXCEPT ![r] = p]
        /\ UNCHANGED <<configs, req, call, spentBy, tallies>>
    BY DEF CopyChunk, At, Left
  <1>2. call[r] # NoCall /\ req[r] \in Running
    BY <1>1, RequestTyped DEF RInv, RequestInv
  <1>3. call[r].reply.size \in 0..2 /\ resp[r] \in Responses
    BY <1>2, ReplyHolds, StateOf DEF Reply
  <1>4. resp[r].chunks \in 0..2 /\ resp[r].chunks + 1 \in 0..2
        /\ resp[r].chunks + 1 <= call[r].reply.size
    BY <1>1, <1>3 DEF Responses
  <1>5. /\ p \in Responses /\ p.status = resp[r].status /\ p.end = resp[r].end
        /\ p.from = resp[r].from /\ p.noStore = resp[r].noStore /\ p.chunks <= call[r].reply.size
    BY <1>3, <1>4 DEF Responses
  <1> HIDE DEF p
  <1>6. RequestInv(r, req[r], call[r], p, access[r], exchanges[r], failures[r],
                   configs, spentBy)
    BY <1>1, <1>2, <1>5 DEF RInv, RequestInv
  <1> QED
    BY <1>1, <1>2, <1>5, <1>6, RunStep, Quiet, StateOf

\* A redial preserves it: a call that is not safe to replay still has one execution
\* at most in front of or behind it.
LEMMA RedialStep ==
    ASSUME RelayInv, NEW r \in Requests, Redial(r)
    PROVE  RelayInv'
  <1> TypeOK /\ RInv(r)
    BY DEF RelayInv
  <1>1. /\ req[r].pc = "calling" /\ call[r].pooled
        /\ UNCHANGED <<configs, req, resp, spentBy, tallies>>
    BY DEF Redial, At
  <1>2. /\ call[r] # NoCall /\ call[r] \in Call /\ req[r] \in Running
        /\ CallInv(r, Q(r), Snapshot(r), call[r], spentBy)
        /\ Q(r) \in InboundType
    BY <1>1, CallHolds, RequestTyped DEF RInv, RequestInv
  <1>3. /\ call[r].pending \in 0..2 /\ call[r].runs \in 0..2
        /\ call[r].pending + call[r].runs = 1
    BY <1>1, <1>2 DEF CallInv, Call
  <1>4. NoReply \in Reply /\ NoReply.status = 0 /\ NoReply.tokens = FALSE
    BY DEF NoReply, Reply
  <1>5. PICK c \in Call :
              /\ call' = [call EXCEPT ![r] = c]
              /\ CallInv(r, Q(r), Snapshot(r), c, spentBy)
    <2>1. CASE /\ call[r].runs = 0
               /\ call' = [call EXCEPT ![r].pooled = FALSE]
      <3> DEFINE c == [call[r] EXCEPT !.pooled = FALSE]
      <3>1. /\ c \in Call /\ c.creds = call[r].creds /\ c.pending = call[r].pending
            /\ c.runs = call[r].runs /\ c.reply = call[r].reply /\ c.pooled = FALSE
        BY <1>2 DEF Call
      <3>2. call' = [call EXCEPT ![r] = c]
        BY <2>1
      <3> HIDE DEF c
      <3>4. c.pooled \/ ~Replayable(Q(r)) => c.pending + c.runs = 1
        BY <1>3, <3>1
      <3>5. c.pending + c.runs <= 2
        BY <1>3, <3>1
      <3>3. CallInv(r, Q(r), Snapshot(r), c, spentBy)
        <4>1. /\ c.creds = CredentialsFor(Snapshot(r), Q(r))
              /\ Verdict(Snapshot(r), Q(r), TRUE) = "send"
              /\ c.reply.status # 0 => c.runs > 0
          BY <1>2, <3>1 DEF CallInv
        <4>2. c.reply.tokens => Q(r).method = "POST" /\ Last(Q(r).path) = "token"
          BY <1>2, <3>1 DEF CallInv
        <4>3. c.runs = 0 \/ (Route(Q(r)) = "token" /\ c.reply.status = 400)
                  => \A t \in Tickets : spentBy[t] # r
          BY <1>2, <3>1 DEF CallInv
        <4> QED
          BY <3>1, <3>4, <3>5, <4>1, <4>2, <4>3 DEF CallInv
      <3> QED
        BY <3>1, <3>2, <3>3
    <2>2. CASE /\ Replayable(Q(r))
               /\ call' = [call EXCEPT ![r].pooled = FALSE, ![r].pending = @ + 1,
                                       ![r].reply = NoReply]
      <3> DEFINE c == [call[r] EXCEPT !.pooled = FALSE, !.pending = @ + 1,
                                      !.reply = NoReply]
      <3>1. call[r].pending + 1 \in 0..2
        BY <1>3
      <3>2. /\ c \in Call /\ c.creds = call[r].creds /\ c.pending = call[r].pending + 1
            /\ c.runs = call[r].runs /\ c.reply = NoReply /\ c.pooled = FALSE
        BY <1>2, <1>4, <3>1 DEF Call
      <3>3. call' = [call EXCEPT ![r] = c]
        BY <2>2
      <3> HIDE DEF c
      <3>4. Replayable(Q(r)) /\ Route(Q(r)) # "token"
        BY <2>2 DEF Replayable
      <3>5. c.reply.status = 0 /\ c.reply.tokens = FALSE
        BY <1>4, <3>2
      <3>6. c.pending + c.runs <= 2 /\ c.pooled = FALSE
        BY <1>3, <3>2
      <3>7. /\ c.creds = CredentialsFor(Snapshot(r), Q(r))
            /\ Verdict(Snapshot(r), Q(r), TRUE) = "send"
            /\ c.runs = 0 => \A t \in Tickets : spentBy[t] # r
        BY <1>2, <3>2 DEF CallInv
      <3>9. /\ ~(c.pooled \/ ~Replayable(Q(r)))
            /\ ~(c.reply.status # 0) /\ ~(c.reply.tokens)
            /\ ~(Route(Q(r)) = "token" /\ c.reply.status = 400)
        BY <3>4, <3>5, <3>6
      <3>8. CallInv(r, Q(r), Snapshot(r), c, spentBy)
        <4>1. /\ c \in Call /\ c.pending + c.runs <= 2
              /\ c.creds = CredentialsFor(Snapshot(r), Q(r))
          BY <3>2, <3>6, <3>7
        <4>2. /\ c.runs = 0 \/ (Route(Q(r)) = "token" /\ c.reply.status = 400)
                     => \A t \in Tickets : spentBy[t] # r
              /\ c.pooled \/ ~Replayable(Q(r)) => c.pending + c.runs = 1
          BY <3>7, <3>9
        <4> QED
          BY <3>7, <3>9, <4>1, <4>2 DEF CallInv
      <3> QED
        BY <3>2, <3>3, <3>8
    <2> QED
      BY <2>1, <2>2 DEF Redial
  <1>6. c # NoCall
    BY DEF Call, NoCall
  <1>7. RequestInv(r, req[r], c, resp[r], access[r], exchanges[r], failures[r],
                   configs, spentBy)
    BY <1>1, <1>2, <1>5, <1>6 DEF RInv, RequestInv, Q, Snapshot
  <1> QED
    BY <1>1, <1>2, <1>5, <1>7, RunStep, Quiet, StateOf

\* An execution by Strava preserves it, also after the proxy has given up.
LEMMA ExecuteStep ==
    ASSUME RelayInv, NEW r \in Requests, Execute(r)
    PROVE  RelayInv'
  <1> TypeOK /\ RInv(r)
    BY DEF RelayInv
  <1>1. PICK e \in Replies(r) :
           /\ call' = [call EXCEPT ![r].pending = @ - 1, ![r].runs = @ + 1,
                ![r].reply = IF At(r, "calling") THEN e[1] ELSE @]
           /\ spentBy' = [t \in Tickets |-> IF t \in e[2] THEN r ELSE spentBy[t]]
    BY DEF Execute
  <1>2. /\ call[r].sent /\ call[r].pending > 0
        /\ UNCHANGED <<configs, req, resp, tallies>>
    BY DEF Execute
  <1>3. call[r] # NoCall
    BY <1>2 DEF NoCall
  <1>4. /\ CallInv(r, Q(r), Snapshot(r), call[r], spentBy) /\ call[r] \in Call
        /\ req[r].pc \in {"calling", "copying", "ended"} /\ Q(r) \in InboundType
        /\ call[r].reply \in Reply
    BY <1>3, CallHolds, CallAt, ReplyHolds
  <1>5. /\ e[1] \in Reply /\ e[1].status # 0
        /\ e[1].tokens => Q(r).method = "POST" /\ Last(Q(r).path) = "token"
        /\ Route(Q(r)) = "token" /\ e[1].status = 400 => e[2] = {}
    BY <1>4, RepliesTyped
  <1>6. PICK a : a = IF At(r, "calling") THEN e[1] ELSE call[r].reply
    OBVIOUS
  <1>7. /\ a \in Reply
        /\ a.tokens => Q(r).method = "POST" /\ Last(Q(r).path) = "token"
    <2>1. call[r].reply.tokens =>
              Q(r).method = "POST" /\ Last(Q(r).path) = "token"
      BY <1>4 DEF CallInv
    <2> QED
      BY <1>4, <1>5, <1>6, <2>1
  <1>8. /\ call[r].pending \in 1..2 /\ call[r].runs \in 0..2
        /\ call[r].pending + call[r].runs <= 2
    <2>1. call[r].pending \in 0..2 /\ call[r].runs \in 0..2
      BY <1>4 DEF Call
    <2>2. call[r].pending + call[r].runs <= 2
      BY <1>4 DEF CallInv
    <2> QED
      BY <1>2, <2>1, <2>2
  <1>9. call[r].pending - 1 \in 0..2 /\ call[r].runs + 1 \in 1..2
    BY <1>8
  <1>19. PICK c : c = [call[r] EXCEPT !.pending = @ - 1, !.runs = @ + 1, !.reply = a]
    OBVIOUS
  <1>10. /\ c \in Call /\ c.creds = call[r].creds /\ c.pooled = call[r].pooled
         /\ c.sent = call[r].sent /\ c.pending = call[r].pending - 1
         /\ c.runs = call[r].runs + 1 /\ c.reply = a
    <2>1. PICK m, n : m = call[r].pending - 1 /\ n = call[r].runs + 1
      OBVIOUS
    <2>2. PICK d : d = call[r]
      OBVIOUS
    <2>3. m \in 0..2 /\ n \in 0..2 /\ d \in Call /\ a \in Reply
      BY <1>4, <1>7, <1>9, <2>1, <2>2
    <2>4. c = [d EXCEPT !.pending = m, !.runs = n, !.reply = a]
      BY <1>19, <2>1, <2>2
    <2>5. /\ c \in Call /\ c.creds = d.creds /\ c.pooled = d.pooled
          /\ c.sent = d.sent /\ c.pending = m /\ c.runs = n /\ c.reply = a
      BY <2>3, <2>4 DEF Call
    <2> QED
      BY <2>1, <2>2, <2>5
  <1>11. call' = [call EXCEPT ![r] = c]
    BY <1>1, <1>6, <1>19
  <1>12. Route(Q(r)) = "token" /\ a.status = 400 => \A t \in Tickets : spentBy'[t] # r
    <2>1. ASSUME Route(Q(r)) = "token", a.status = 400
          PROVE  \A t \in Tickets : spentBy'[t] # r
      <3>0. ~Replayable(Q(r))
        BY <2>1 DEF Replayable
      <3>1. call[r].pending + call[r].runs = 1
        BY <1>4, <3>0 DEF CallInv
      <3>2. call[r].runs = 0
        BY <1>8, <3>1
      <3>3. (\A t \in Tickets : spentBy[t] # r) /\ call[r].reply.status = 0
        <4>1. \A t \in Tickets : spentBy[t] # r
          BY <1>4, <3>2 DEF CallInv
        <4>2. ~(call[r].reply.status # 0)
          BY <1>4, <3>2 DEF CallInv
        <4> QED
          BY <4>1, <4>2
      <3>4. At(r, "calling") /\ a = e[1]
        BY <1>6, <2>1, <3>3
      <3> QED
        BY <1>1, <1>5, <2>1, <3>3, <3>4
    <2> QED
      BY <2>1
  <1>13. CallInv(r, Q(r), Snapshot(r), c, spentBy')
    <2>1. c.runs > 0 /\ c.runs # 0
      BY <1>9, <1>10
    <2>2. c.pending + c.runs = call[r].pending + call[r].runs
      BY <1>8, <1>10
    <2> QED
      BY <1>4, <1>7, <1>10, <1>12, <2>1, <2>2 DEF CallInv
  <1>14. c # NoCall /\ req[r].pc # "none" /\ req[r] \in Running
    <2>1. c # NoCall
      BY <1>10 DEF Call, NoCall
    <2> QED
      BY <1>4, <2>1, RequestTyped
  <1>15. req[r].pc # "calling" => c.reply = call[r].reply
    BY <1>6, <1>10 DEF At
  <1>16. req[r].pc = "ended" => EndInv(Q(r), c, resp[r], req[r].caller, access[r],
                                      exchanges[r], failures[r])
    <2>1. ASSUME req[r].pc = "ended"
          PROVE  EndInv(Q(r), c, resp[r], req[r].caller, access[r], exchanges[r],
                        failures[r])
      <3>1. EndInv(Q(r), call[r], resp[r], req[r].caller, access[r], exchanges[r],
                   failures[r])
        BY <2>1 DEF RInv, RequestInv, Q
      <3>2. c.runs > 0 /\ c.sent = call[r].sent /\ c.reply = call[r].reply
        BY <1>9, <1>10, <1>15, <2>1
      <3>3. RecordInv(Q(r), c, resp[r], access[r])
        BY <3>1, <3>2 DEF EndInv, RecordInv
      <3>4. CountInv(Q(r), c, resp[r], req[r].caller, exchanges[r], failures[r])
        BY <3>1, <3>2 DEF EndInv, CountInv
      <3>5. WholeInv(Q(r), c, resp[r], req[r].caller, failures[r])
        BY <3>1, <3>2 DEF EndInv, WholeInv
      <3> QED
        BY <3>1, <3>3, <3>4, <3>5 DEF EndInv
    <2> QED
      BY <2>1
  <1>17. RequestInv(r, req[r], c, resp[r], access[r], exchanges[r], failures[r],
                    configs, spentBy')
    BY <1>4, <1>13, <1>14, <1>15, <1>16 DEF RInv, RequestInv, Q, Snapshot
  <1>18. /\ spentBy' \in [Tickets -> Requests \cup {NoOne, Elsewhere}]
         /\ \A o \in Requests \ {r} : NotSpending(o)
    BY <1>1 DEF TypeOK, NotSpending
  <1> QED
    BY <1>2, <1>10, <1>11, <1>14, <1>17, <1>18, RunStep, StateOf

-----------------------------------------------------------------------------
(* The steps of nobody's request *)

\* A ticket that is spent elsewhere is not spent in the name of a request here.
LEMMA ElsewhereStep ==
    ASSUME RelayInv, NEW t \in Tickets, SpendElsewhere(t)
    PROVE  RelayInv'
  <1>1. /\ spentBy' = [spentBy EXCEPT ![t] = Elsewhere]
        /\ UNCHANGED <<configs, req, call, resp, tallies>>
    BY DEF SpendElsewhere
  <1>2. TypeOK'
    BY <1>1 DEF RelayInv, TypeOK, tallies
  <1>3. \A o \in Requests : Untouched(o) /\ NotSpending(o)
    BY <1>1, RelayAssumption DEF RelayInv, TypeOK, Untouched, NotSpending, tallies
  <1> QED
    BY <1>1, <1>2, <1>3, UntouchedStays DEF RelayInv

\* A reload preserves it: the snapshots of the running handlers stay.
LEMMA ReloadStep ==
    ASSUME RelayInv, NEW cfg \in Configs, Reload(cfg)
    PROVE  RelayInv'
  <1>1. /\ configs' = Append(configs, cfg)
        /\ UNCHANGED <<req, call, resp, spentBy, tallies>>
    BY DEF Reload
  <1>2. configs' \in Seq(Configs) /\ Len(configs') > 0
    BY <1>1, AppendProperties, LenProperties DEF RelayInv, TypeOK
  <1>3. TypeOK'
    BY <1>1, <1>2 DEF RelayInv, TypeOK, tallies
  <1>4. \A o \in Requests : Untouched(o) /\ NotSpending(o)
    BY <1>1 DEF Untouched, NotSpending, tallies
  <1> QED
    BY <1>1, <1>3, <1>4, UntouchedStays DEF RelayInv

\* The invariant holds when nothing has arrived.
LEMMA RelayInit == Init => RelayInv
  <1> SUFFICES ASSUME Init
               PROVE  RelayInv
    OBVIOUS
  <1>1. PICK cfg \in Configs : configs = <<cfg>>
    BY DEF Init
  <1>2. TypeOK
    <2>1. Nothing \in Responses
      BY DEF Nothing, Responses
    <2> QED
      BY <1>1, <2>1 DEF Init, TypeOK, Responses
  <1>3. ASSUME NEW r \in Requests
        PROVE  RInv(r)
    <2>1. \A t \in Tickets : spentBy[t] # r
      BY RelayAssumption DEF Init
    <2>2. req[r].pc = "none" /\ call[r] = NoCall /\ resp[r] = Nothing
          /\ access[r] = <<>> /\ exchanges[r] = <<>> /\ failures[r] = <<>>
      BY DEF Init, None
    <2> QED
      BY <2>1, <2>2 DEF RInv, RequestInv
  <1> QED
    BY <1>2, <1>3 DEF RelayInv

\* Every step preserves the invariant.
LEMMA RelayStep == RelayInv /\ [Next]_vars => RelayInv'
  <1> SUFFICES ASSUME RelayInv, [Next]_vars
               PROVE  RelayInv'
    OBVIOUS
  <1>1. ASSUME NEW r \in Requests, NEW q \in Inbound, Arrive(r, q)
        PROVE  RelayInv'
    BY <1>1, ArriveStep
  <1>2. ASSUME NEW r \in Requests, NEW b \in BOOLEAN, Reject(r, b) \/ Send(r, b)
        PROVE  RelayInv'
    BY <1>2, RejectStep, SendStep
  <1>3. ASSUME NEW r \in Requests, Redial(r) \/ Execute(r) \/ Headers(r)
        PROVE  RelayInv'
    BY <1>3, RedialStep, ExecuteStep, HeadersStep
  <1>4. ASSUME NEW r \in Requests, CopyChunk(r) \/ CopyDone(r) \/ Canceled(r)
        PROVE  RelayInv'
    BY <1>4, CopyChunkStep, CopyDoneStep, CanceledStep
  <1>5. ASSUME NEW r \in Requests, NEW cause, CopyBreaks(r, cause)
        PROVE  RelayInv'
    BY <1>5, CopyBreaksStep
  <1>6. ASSUME NEW r \in Requests, NEW kind \in {"timeout", "unavailable"},
               GiveUp(r, kind)
        PROVE  RelayInv'
    BY <1>6, GiveUpStep
  <1>7. ASSUME NEW r \in Requests, Stall(r) \/ Resume(r) \/ Leave(r)
        PROVE  RelayInv'
    <2>1. InFlight(r) /\ UNCHANGED <<configs, call, resp, spentBy, tallies>>
      BY <1>7 DEF Stall, Resume, Leave
    <2>2. PICK w \in {"here", "stalled", "gone"} :
             req' = [req EXCEPT ![r].caller = w]
      BY <1>7 DEF Stall, Resume, Leave
    <2> QED
      BY <2>1, <2>2, CallerStep
  <1>8. ASSUME NEW t \in Tickets, SpendElsewhere(t)
        PROVE  RelayInv'
    BY <1>8, ElsewhereStep
  <1>9. ASSUME NEW cfg \in Configs, Reload(cfg)
        PROVE  RelayInv'
    BY <1>9, ReloadStep
  <1>10. CASE UNCHANGED vars
    BY <1>10 DEF vars, tallies, RelayInv, TypeOK, RInv
  <1> QED
    BY <1>1, <1>2, <1>3, <1>4, <1>5, <1>6, <1>7, <1>8, <1>9, <1>10 DEF Next

\* The invariant of all requests holds throughout.
THEOREM RelayInvariant == Spec => []RelayInv
  BY RelayInit, RelayStep, PTL DEF Spec

-----------------------------------------------------------------------------
(* The properties *)

\* Every variable of the relay has its type throughout.
THEOREM RelayTypes == Spec => []TypeOK
  <1>1. RelayInv => TypeOK
    BY DEF RelayInv
  <1> QED
    BY <1>1, RelayInvariant, PTL

\* What is known of a request that has ended.
LEMMA EndedFacts ==
    ASSUME RelayInv, NEW r \in Requests, Ended(r)
    PROVE  /\ EndInv(Q(r), call[r], resp[r], req[r].caller, access[r], exchanges[r],
                     failures[r])
           /\ Q(r) \in InboundType
           /\ Sent(r) => call[r] # NoCall
  <1>1. req[r].pc = "ended"
    BY DEF Ended, At
  <1> QED
    BY <1>1, RequestTyped DEF RelayInv, RInv, RequestInv, Q, Sent, NoCall

\* A complete response is Strava's whole body, on /api/v3 and, where a length was
\* declared, on the OAuth legs (proxy.go, handler.go:208-217).
THEOREM CompleteIsWholeHolds == Spec => []CompleteIsWhole
  <1>1. RelayInv => CompleteIsWhole
    <2> SUFFICES ASSUME RelayInv, NEW r \in Requests, WellTerminated(r),
                        ~IsOAuth(r) \/ call[r].reply.declared
                 PROVE  Left(r) = 0
      BY DEF CompleteIsWhole
    <2>1. Ended(r) /\ Sent(r) /\ failures[r] = <<>> /\ req[r].caller # "gone"
          /\ resp[r].end = "complete"
      BY DEF WellTerminated, GaveUp, Gone
    <2>2. call[r].reply.size = resp[r].chunks
      BY <2>1, EndedFacts DEF EndInv, WholeInv, Sent, IsOAuth
    <2>3. resp[r].chunks \in 0..2
      BY StateOf DEF RelayInv, Responses
    <2> QED
      BY <2>2, <2>3 DEF Left
  <1> QED
    BY <1>1, RelayInvariant, PTL

\* Counters and outcomes agree, however the upstream call ends, and whatever error
\* Strava itself may have answered (token.go, handler.go:190-218, proxy.go:101-122).
THEOREM AccountedHolds == Spec => []Accounted
  <1>1. RelayInv => Accounted
    <2> SUFFICES ASSUME RelayInv, NEW r \in Requests, Ended(r)
                 PROVE
        /\ Len(exchanges[r]) = IF Route(Q(r)) = "token" THEN 1 ELSE 0
        /\ exchanges[r] # <<>> =>
             LET outcome == exchanges[r][1][2]
             IN  /\ outcome = "success" =>
                        /\ call[r].runs > 0
                        /\ resp[r].from = "strava" /\ resp[r].status \in 200..299
                 /\ outcome \notin {"success", "upstream_error"} => ~Sent(r)
        /\ Len(failures[r]) =
               IF resp[r].from = "proxy" /\ resp[r].status \in {502, 504}
                 THEN 1 ELSE 0
        /\ ~IsOAuth(r) /\ Gone(r) => ~GaveUp(r)
      BY DEF Accounted
    <2>1. CountInv(Q(r), call[r], resp[r], req[r].caller, exchanges[r], failures[r])
      BY EndedFacts DEF EndInv
    <2>2. Len(<<>>) = 0
      OBVIOUS
    <2>3. Route(Q(r)) = "token" =>
            /\ Len(exchanges[r]) = 1
            /\ exchanges[r][1][2] = "success" =>
                   /\ call[r].runs > 0
                   /\ resp[r].from = "strava" /\ resp[r].status \in 200..299
            /\ exchanges[r][1][2] \notin {"success", "upstream_error"} => ~Sent(r)
      BY <2>1 DEF CountInv, Sent
    <2>4. Route(Q(r)) # "token" => exchanges[r] = <<>>
      BY <2>1 DEF CountInv
    <2>5. Len(exchanges[r]) = IF Route(Q(r)) = "token" THEN 1 ELSE 0
      BY <2>2, <2>3, <2>4
    <2>6. exchanges[r] # <<>> =>
             LET outcome == exchanges[r][1][2]
             IN  /\ outcome = "success" =>
                        /\ call[r].runs > 0
                        /\ resp[r].from = "strava" /\ resp[r].status \in 200..299
                 /\ outcome \notin {"success", "upstream_error"} => ~Sent(r)
      BY <2>3, <2>4
    <2>7. Len(failures[r]) =
             IF resp[r].from = "proxy" /\ resp[r].status \in {502, 504} THEN 1 ELSE 0
      <3>1. IF resp[r].from = "proxy" /\ resp[r].status \in {502, 504}
              THEN Len(failures[r]) = 1 ELSE failures[r] = <<>>
        BY <2>1, Zenon DEF CountInv
      <3>2. CASE resp[r].from = "proxy" /\ resp[r].status \in {502, 504}
        BY <3>1, <3>2
      <3>3. CASE ~(resp[r].from = "proxy" /\ resp[r].status \in {502, 504})
        BY <2>2, <3>1, <3>3
      <3> QED
        BY <3>2, <3>3
    <2>8. ~IsOAuth(r) /\ Gone(r) => ~GaveUp(r)
      <3>1. Route(Q(r)) \notin OAuthLegs /\ req[r].caller = "gone" =>
                failures[r] = <<>>
        <4> HIDE DEF OAuthLegs
        <4> QED
          BY <2>1 DEF CountInv
      <3> QED
        BY <3>1 DEF IsOAuth, Gone, GaveUp
    <2> QED
      BY <2>5, <2>6, <2>7, <2>8
  <1> QED
    BY <1>1, RelayInvariant, PTL

\* Strava executes a call at most once, unless it is one of /api/v3 that counts as
\* safe to repeat, so that no grant is refused because the proxy's own call had
\* spent it (transport.go:23-25).
THEOREM OneAttemptHolds == Spec => []OneAttempt
  <1>1. RelayInv => OneAttempt
    <2> SUFFICES ASSUME RelayInv, NEW r \in Requests, req[r].pc # "none", Sent(r)
                 PROVE  /\ call[r].runs > 1 =>
                               /\ ~IsOAuth(r) /\ ~Q(r).body
                               /\ Q(r).method = "GET" \/ Q(r).idem
                        /\ Route(Q(r)) = "token" /\ call[r].reply.status = 400 =>
                               \A t \in Tickets : spentBy[t] # r
      BY DEF OneAttempt
    <2>1. call[r] # NoCall
      BY DEF Sent, NoCall
    <2>2. CallInv(r, Q(r), Snapshot(r), call[r], spentBy) /\ call[r] \in Call
      BY <2>1, CallHolds
    <2>3. call[r].pending \in 0..2 /\ call[r].runs \in 0..2
      BY <2>2 DEF Call
    <2>4. call[r].runs > 1 => Replayable(Q(r))
      BY <2>2, <2>3 DEF CallInv
    <2>5. Replayable(Q(r)) => /\ ~IsOAuth(r) /\ ~Q(r).body
                              /\ Q(r).method = "GET" \/ Q(r).idem
      BY DEF Replayable, IsOAuth, OAuthLegs
    <2>6. Route(Q(r)) = "token" /\ call[r].reply.status = 400 =>
              \A t \in Tickets : spentBy[t] # r
      BY <2>2 DEF CallInv
    <2> QED
      BY <2>4, <2>5, <2>6
  <1> QED
    BY <1>1, RelayInvariant, PTL

\* The token and revoke endpoints of Strava receive the real pair of the
\* configuration in which the caller's credentials were valid, whatever is
\* reloaded meanwhile (token.go:101-105, revoke.go:66-105).
THEOREM SubstitutedHolds == Spec => []Substituted
  <1>1. RelayInv => Substituted
    <2> SUFFICES ASSUME RelayInv, NEW r \in Requests, req[r].pc # "none", Sent(r),
                        Q(r).method = "POST", Last(Q(r).path) \in {"token", "revoke"}
                 PROVE  \E cfg \in LiveSince(r) :
                            /\ call[r].creds = cfg.real
                            /\ Authenticates(cfg, Q(r).id, Q(r).secret)
      BY DEF Substituted
    <2>1. call[r] # NoCall
      BY DEF Sent, NoCall
    <2>2. CallInv(r, Q(r), Snapshot(r), call[r], spentBy) /\ Q(r) \in InboundType
      BY <2>1, CallHolds
    <2>3. Route(Q(r)) \in {"token", "revoke"}
      BY <2>2, Routing
    <2>4. call[r].creds = Snapshot(r).real
      BY <2>2, <2>3 DEF CallInv, CredentialsFor
    <2>5. Verdict(Snapshot(r), Q(r), TRUE) = "send"
      BY <2>2 DEF CallInv
    <2>7. Authenticates(Snapshot(r), Q(r).id, Q(r).secret)
      BY <2>2, <2>3, <2>5, SendNames
    <2>6. Snapshot(r) \in LiveSince(r)
      <3>1. req[r].snap \in 1..Len(configs) /\ Len(configs) \in Nat
        BY LenProperties DEF RelayInv, RInv, RequestInv, TypeOK
      <3> QED
        BY <3>1 DEF Snapshot, LiveSince
    <2> QED
      BY <2>4, <2>7, <2>6
  <1> QED
    BY <1>1, RelayInvariant, PTL

\* A response with tokens is marked no-store, whichever way it was routed
\* (main.go:286-310).
THEOREM TokensNotCacheableHolds == Spec => []TokensNotCacheable
  <1>1. RelayInv => TokensNotCacheable
    <2> SUFFICES ASSUME RelayInv, NEW r \in Requests, req[r].pc # "none", Sent(r),
                        call[r].reply.tokens, resp[r].chunks > 0
                 PROVE  resp[r].noStore
      BY DEF TokensNotCacheable
    <2>1. call[r] # NoCall
      BY DEF Sent, NoCall
    <2>2. /\ CallInv(r, Q(r), Snapshot(r), call[r], spentBy) /\ Q(r) \in InboundType
          /\ req[r].pc \in {"calling", "copying", "ended"}
      BY <2>1, CallHolds, CallAt
    <2>3. IsOAuthSurface(Q(r).path)
      BY <2>2, Routing DEF CallInv
    <2>4. resp[r] # Nothing
      BY DEF Nothing
    <2>5. resp[r].noStore = IsOAuthSurface(Q(r).path)
      BY <2>2, <2>4 DEF RelayInv, RInv, RequestInv, EndInv, AnswerInv, Q
    <2> QED
      BY <2>3, <2>5
  <1> QED
    BY <1>1, RelayInvariant, PTL

\* A request leaves one access-log record at most, when it ends, and the record
\* tells what was written to its caller (mid.go:113-165, proxy.go:101-109).
THEOREM AccessRecordsHolds == Spec => []AccessRecords
  <1>1. RelayInv => AccessRecords
    <2> SUFFICES ASSUME RelayInv, NEW r \in Requests
                 PROVE
        /\ Len(access[r]) <= 1
        /\ access[r] # <<>> => Ended(r)
        /\ Ended(r) /\ ~Aborted(r) => access[r] # <<>>
        /\ Ended(r) /\ resp[r].from = "none" => ~IsOAuth(r) /\ Gone(r)
        /\ \A i \in DOMAIN access[r] :
               /\ access[r][i].status =
                      IF resp[r].from = "none" THEN 200 ELSE resp[r].status
               /\ Sent(r) /\ call[r].creds = Snapshot(r).real
                    => access[r][i].client = Q(r).id
      BY DEF AccessRecords
    <2>0. Len(<<>>) = 0 /\ DOMAIN <<>> = {}
      OBVIOUS
    <2>1. CASE ~Ended(r)
      <3>1. access[r] = <<>>
        BY <2>1 DEF RelayInv, RInv, RequestInv, Ended, At
      <3> QED
        BY <2>0, <2>1, <3>1
    <2>2. CASE Ended(r)
      <3>1. /\ RecordInv(Q(r), call[r], resp[r], access[r])
            /\ AnswerInv(Q(r), resp[r], req[r].caller)
        BY <2>2, EndedFacts DEF EndInv
      <3>2. resp[r].from = "none" => ~IsOAuth(r) /\ Gone(r)
        BY <3>1 DEF AnswerInv, IsOAuth, Gone
      <3>3. CASE Aborted(r)
        <4>1. access[r] = <<>>
          BY <3>1, <3>3 DEF RecordInv, Aborted, IsOAuth
        <4> QED
          BY <2>0, <2>2, <3>2, <3>3, <4>1
      <3>4. CASE ~Aborted(r)
        <4>1. /\ Len(access[r]) = 1
              /\ access[r][1].status = IF resp[r].from = "none" THEN 200
                                                             ELSE resp[r].status
          BY <3>1, <3>4 DEF RecordInv, Shown, Aborted, IsOAuth
        <4>2. ASSUME Sent(r), call[r].creds = Snapshot(r).real
              PROVE  access[r][1].client = Q(r).id
          <5>1. CallInv(r, Q(r), Snapshot(r), call[r], spentBy)
            BY <2>2, <4>2, EndedFacts, CallHolds
          <5>2. Snapshot(r) \in Configs /\ Q(r) \in Inbound
            BY <2>2, SnapshotTyped, RequestTyped DEF RelayInv, Ended, At
          <5>3. Route(Q(r)) \in {"token", "revoke"}
            BY <4>2, <5>1, <5>2, RealPairUnknown DEF CallInv, CredentialsFor
          <5> QED
            BY <3>1, <3>4, <4>2, <5>3 DEF RecordInv, Aborted, IsOAuth, Sent
        <4>3. DOMAIN access[r] = {1}
          <5>1. access[r] \in Seq(AccessRecord)
            BY DEF RelayInv, TypeOK, AccessRecord
          <5> QED
            BY <4>1, <5>1
        <4> QED
          BY <2>0, <2>2, <3>2, <4>1, <4>2, <4>3
      <3> QED
        BY <3>3, <3>4
    <2> QED
      BY <2>1, <2>2
  <1> QED
    BY <1>1, RelayInvariant, PTL
=============================================================================
