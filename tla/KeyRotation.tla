---------------------------- MODULE KeyRotation -----------------------------
(***************************************************************************)
(* Rotating the state keys of running proxies while envelopes are out in   *)
(* browsers.                                                               *)
(*                                                                         *)
(* The operator walks through a plan, a sequence of rings; at each stage   *)
(* every replica is reloaded, at its own time, and the next stage begins   *)
(* once all of them have been reloaded and Wait ticks have gone by.  Any   *)
(* replica may open what any other has sealed.  A handler keeps the ring   *)
(* of the configuration it loaded when its request arrived, for at most    *)
(* HandlerMax ticks.  The replicas' clocks differ by constant offsets.     *)
(***************************************************************************)
EXTENDS Envelope, FiniteSets

CONSTANTS
    Replicas,
    Offset,      \* replica -> how far its clock is ahead
    Plan,        \* the rings to go through, the present one first
    Wait,        \* ticks between the last reload of a stage and the next stage
    HandlerMax,  \* ticks a handler may take
    StateTTL,
    MaxTime, MaxIssued  \* bounds of the model

ASSUME PlanAssumption ==
    /\ Replicas # {}
    /\ Offset \in [Replicas -> Nat]
    /\ Plan \in Seq(Seq(Key)) /\ Len(Plan) > 0
    /\ \A i \in 1..Len(Plan) : ValidRing(Plan[i])
    /\ Wait \in Nat /\ HandlerMax \in Nat /\ StateTTL \in Nat \ {0}

VARIABLES
    now,      \* true time
    stage,    \* the stage the operator's files are at
    settled,  \* when the last replica was reloaded for that stage
    live,     \* replica -> the stage of its published configuration
    handler,  \* replica -> the request in progress
    issued    \* every envelope sealed so far

vars == <<now, stage, settled, live, handler, issued>>

Clock(r) == now + Offset[r]
Stages   == 1..Len(Plan)
Body     == [iat : Nat]
Sealed   == EnvelopeOf(Body)

NoRequest == [pc |-> "idle"]
SealRequest == [pc : {"seal"}, snap : Stages, since : Nat]
OpenRequest == [pc : {"open"}, snap : Stages, since : Nat, env : Sealed]

TypeOK ==
    /\ now \in Nat
    /\ stage \in Stages
    /\ settled \in Nat
    /\ live \in [Replicas -> Stages]
    /\ handler \in [Replicas -> {NoRequest} \cup SealRequest \cup OpenRequest]
    /\ issued \subseteq Sealed

Init ==
    /\ now = 0
    /\ stage = 1
    /\ settled = 0
    /\ live = [r \in Replicas |-> 1]
    /\ handler = [r \in Replicas |-> NoRequest]
    /\ issued = {}

-----------------------------------------------------------------------------

\* A request whose handler will seal: /oauth/authorize, or the second half of
\* /oauth/callback.
SealStart(r) ==
    /\ handler[r] = NoRequest
    /\ handler' = [handler EXCEPT ![r] =
                     [pc |-> "seal", snap |-> live[r], since |-> now]]
    /\ UNCHANGED <<now, stage, settled, live, issued>>

SealFinish(r) ==
    /\ handler[r].pc = "seal"
    /\ issued' = issued \cup
         {Seal(Plan[handler[r].snap], DomainState, [iat |-> Unix(Clock(r))])}
    /\ Cardinality(issued') <= MaxIssued
    /\ handler' = [handler EXCEPT ![r] = NoRequest]
    /\ UNCHANGED <<now, stage, settled, live>>

\* A request that brings an envelope back: /oauth/callback or /oauth/token.
OpenStart(r, e) ==
    /\ handler[r] = NoRequest
    /\ handler' = [handler EXCEPT ![r] =
                     [pc |-> "open", snap |-> live[r], since |-> now, env |-> e]]
    /\ UNCHANGED <<now, stage, settled, live, issued>>

OpenResult(r) ==
    Open(Plan[handler[r].snap], DomainState, handler[r].env, StateTTL, Clock(r))

OpenFinish(r) ==
    /\ handler[r].pc = "open"
    /\ handler' = [handler EXCEPT ![r] = NoRequest]
    /\ UNCHANGED <<now, stage, settled, live, issued>>

-----------------------------------------------------------------------------

\* The first stage has been in place for long.
Settled == stage = 1 \/ now >= settled + Wait

\* Fault: the next stage begins without waiting for every replica.
NextStage_Eager ==
    /\ stage < Len(Plan)
    /\ Settled
    /\ stage' = stage + 1
    /\ UNCHANGED <<now, settled, live, handler, issued>>

\* The operator edits the key file for the next stage.
NextStage ==
    /\ stage < Len(Plan)
    /\ \A r \in Replicas : live[r] = stage
    /\ Settled
    /\ stage' = stage + 1
    /\ UNCHANGED <<now, settled, live, handler, issued>>

\* Fault: a reload moves on by a stage, whatever the files hold.
ReloadReplica_Advances(r) ==
    /\ live' = [live EXCEPT ![r] = @ + 1]
    /\ settled' = now
    /\ UNCHANGED <<now, stage, handler, issued>>

\* SIGHUP to one replica: requests in progress keep their snapshot.
ReloadReplica(r) ==
    /\ live[r] # stage
    /\ live' = [live EXCEPT ![r] = stage]
    /\ settled' = now
    /\ UNCHANGED <<now, stage, handler, issued>>

\* A replica that crashes drops its request and boots from the same files.
RestartReplica(r) ==
    /\ live' = [live EXCEPT ![r] = stage]
    /\ settled' = IF live[r] # stage THEN now ELSE settled
    /\ handler' = [handler EXCEPT ![r] = NoRequest]
    /\ UNCHANGED <<now, stage, issued>>

\* Time passes, but not beyond what a handler in progress may take.
Tick ==
    /\ now < MaxTime
    /\ \A r \in Replicas :
         handler[r] # NoRequest => now < handler[r].since + HandlerMax
    /\ now' = now + 1
    /\ UNCHANGED <<stage, settled, live, handler, issued>>

Next ==
    \/ \E r \in Replicas : \/ SealStart(r) \/ SealFinish(r)
                           \/ \E e \in issued : OpenStart(r, e)
                           \/ OpenFinish(r)
                           \/ ReloadReplica(r) \/ RestartReplica(r)
    \/ NextStage
    \/ Tick

Spec == Init /\ [][Next]_vars

-----------------------------------------------------------------------------
(***************************************************************************)
(* Rotation is "safe for in-flight authorizations" (seal.go:102-105): a    *)
(* handler never refuses for want of the key an envelope that its age      *)
(* would still allow.                                                      *)
(***************************************************************************)
RotationSafe ==
    \A r \in Replicas :
        handler[r].pc = "open" /\ OpenResult(r) \in {"unknown_kid", "bad_mac"}
            => Stale(handler[r].env, StateTTL, Clock(r))

(***************************************************************************)
(* A replica never takes another's envelope for future-dated, while no two *)
(* clocks differ by more than the skew that is tolerated.                  *)
(***************************************************************************)
NeverFuture ==
    \A r \in Replicas :
        handler[r].pc = "open" => OpenResult(r) # "future"

(***************************************************************************)
(* The state the runbook of the README promises at the end of its wait     *)
(* (README.md:237-238, "no k1-signed envelope can still be valid"): once   *)
(* every replica runs a ring, the envelopes under a key that the next ring *)
(* drops have all expired when that ring may be put in place.              *)
(***************************************************************************)
DrainedBeforeDrop ==
    /\ stage < Len(Plan)
    /\ \A r \in Replicas : live[r] = stage
    /\ Settled
    => \A e \in issued, r \in Replicas :
           \/ Stale(e, StateTTL, Clock(r))
           \/ Authentic(Plan[stage + 1], DomainState, e)
=============================================================================
