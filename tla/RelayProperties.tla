-------------------------- MODULE RelayProperties ---------------------------
(***************************************************************************)
(* What callers, the access log, the counters and Strava may rely on when  *)
(* a request goes through the proxy to Strava.                             *)
(***************************************************************************)
EXTENDS Relay

\* Only the operator and Strava know the real pair.
ASSUME RealPairUnknown ==
    \A q \in Inbound, cfg \in Configs : [id |-> q.id, secret |-> q.secret] # cfg.real

Ended(r)       == At(r, "ended")
Sent(r)        == call[r].sent
GaveUp(r)      == failures[r] # <<>>
Aborted(r)     == ~IsOAuth(r) /\ resp[r].end = "cut"
LiveSince(r)   == {configs[i] : i \in req[r].snap..Len(configs)}

\* Strava's answer, as a caller who is still there has received it to the end.
WellTerminated(r) ==
    /\ Ended(r) /\ Sent(r) /\ ~GaveUp(r) /\ ~Gone(r)
    /\ resp[r].end = "complete"

(***************************************************************************)
(* What reaches the caller as a complete response is Strava's whole body:  *)
(* on /api/v3 whenever the copy fails (proxy.go, ErrAbortHandler), on the  *)
(* OAuth legs when Strava has declared a length, because relay copies it   *)
(* before the body (handler.go:208-217).                                   *)
(***************************************************************************)
CompleteIsWhole ==
    \A r \in Requests :
        WellTerminated(r) /\ (~IsOAuth(r) \/ call[r].reply.declared)
            => Left(r) = 0

(***************************************************************************)
(* "The status code and body are reproduced byte-for-byte"                 *)
(* (handler.go:182), whatever the form of Strava's answer.                 *)
(***************************************************************************)
BodyByteForByte == \A r \in Requests : WellTerminated(r) => Left(r) = 0

(***************************************************************************)
(* A request leaves at most one access-log record, and exactly one when it *)
(* ends, unless the reverse proxy aborts its copy.  The record has the     *)
(* status that was written to the caller.  Nothing at all is written only  *)
(* by /api/v3 and only to a caller who has left: the record then has the   *)
(* 200 its recorder starts with.  It is attributed to the client the real  *)
(* credentials were spent for (mid.go:113-165, proxy.go:101-109).          *)
(***************************************************************************)
AccessRecords ==
    \A r \in Requests :
        /\ Len(access[r]) <= 1
        /\ access[r] # <<>> => Ended(r)
        /\ Ended(r) /\ ~Aborted(r) => access[r] # <<>>
        /\ Ended(r) /\ resp[r].from = "none" => ~IsOAuth(r) /\ Gone(r)
        /\ \A i \in DOMAIN access[r] :
               /\ access[r][i].status =
                      IF resp[r].from = "none" THEN 200 ELSE resp[r].status
               /\ Sent(r) /\ call[r].creds = Snapshot(r).real
                    => access[r][i].client = Q(r).id

(***************************************************************************)
(* "AccessLog logs one structured record per request handled by next"      *)
(* (mid.go:113), however the request ends.                                 *)
(***************************************************************************)
EveryRequestRecorded == \A r \in Requests : Ended(r) => Len(access[r]) = 1

(***************************************************************************)
(* The counters agree with what happened, however the call ended: one      *)
(* token exchange per token request, a success only if Strava executed it  *)
(* and its 2xx was relayed, a local refusal only if Strava was never       *)
(* asked; one upstream error per 502 or 504 of the proxy's own, none for   *)
(* one that Strava sent and the proxy relayed, and none for a caller of    *)
(* /api/v3 that left (token.go, handler.go:190-218, proxy.go:101-122).     *)
(***************************************************************************)
Accounted ==
    \A r \in Requests : Ended(r) =>
        /\ Len(exchanges[r]) = IF Route(Q(r)) = "token" THEN 1 ELSE 0
        /\ exchanges[r] # <<>> =>
             LET outcome == exchanges[r][1][2]
             IN  /\ outcome = "success" =>
                        /\ call[r].runs > 0
                        /\ resp[r].from = "strava" /\ resp[r].status \in 200..299
                 /\ outcome \notin {"success", "upstream_error"} => ~Sent(r)
        /\ Len(failures[r]) =
               IF resp[r].from = "proxy" /\ resp[r].status \in {502, 504}
                 THEN 1 ELSE 0
        /\ ~IsOAuth(r) /\ Gone(r) => ~GaveUp(r)

(***************************************************************************)
(* Strava executes a call at most once, although the transport redials     *)
(* dead connections, unless the call is one of /api/v3 that its caller has *)
(* declared safe to repeat, without a body and by GET or by a key of       *)
(* idempotency.  In particular a grant is never refused because the        *)
(* proxy's own call had spent it (token.go:45-48, transport.go:23-25).     *)
(***************************************************************************)
OneAttempt ==
    \A r \in Requests : req[r].pc # "none" /\ Sent(r) =>
        /\ call[r].runs > 1 =>
               /\ ~IsOAuth(r) /\ ~Q(r).body
               /\ Q(r).method = "GET" \/ Q(r).idem
        /\ Route(Q(r)) = "token" /\ call[r].reply.status = 400 =>
               \A t \in Tickets : spentBy[t] # r

(***************************************************************************)
(* What the token and revoke endpoints of Strava receive is the real pair  *)
(* of one configuration, live while the request ran, in which the caller's *)
(* own credentials were valid: never the virtual pair, and never a pair    *)
(* torn by a reload (main.go:268-275, token.go:101-105, revoke.go:66-105). *)
(***************************************************************************)
Substituted ==
    \A r \in Requests :
        /\ req[r].pc # "none" /\ Sent(r)
        /\ Q(r).method = "POST" /\ Last(Q(r).path) \in {"token", "revoke"}
        => \E cfg \in LiveSince(r) :
               /\ call[r].creds = cfg.real
               /\ Authenticates(cfg, Q(r).id, Q(r).secret)

(***************************************************************************)
(* A response that carries tokens is marked no-store, by whichever of the  *)
(* two paths it was asked: the routing table and isOAuthSurface are two    *)
(* lists that must agree (main.go:286-310).                                *)
(***************************************************************************)
TokensNotCacheable ==
    \A r \in Requests :
        req[r].pc # "none" /\ Sent(r) /\ call[r].reply.tokens /\ resp[r].chunks > 0
            => resp[r].noStore

(***************************************************************************)
(* Every request ends, although Strava may never answer, unless its caller *)
(* holds it by not sending or not reading (the server has no ReadTimeout   *)
(* and no WriteTimeout), or it waits for the rest of a body of /api/v3,    *)
(* which has no deadline (transport.go:32-48).                             *)
(***************************************************************************)
Held(r) == Stalled(r) \/ (At(r, "copying") /\ ~IsOAuth(r))

RelayEnds ==
    \A r \in Requests : InFlight(r) ~> Ended(r) \/ (InFlight(r) /\ Held(r))
=============================================================================
