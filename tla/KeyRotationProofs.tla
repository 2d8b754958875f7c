------------------------- MODULE KeyRotationProofs -------------------------
(***************************************************************************)
(* Which rotations are safe: any number of replicas, any plan, any clocks, *)
(* any TTL and any duration of a request.                                  *)
(*                                                                         *)
(* The runs try two plans with one wait.  The theorems say what a plan and *)
(* a wait have to satisfy: neighbouring rings open each other's envelopes, *)
(* and the wait is longer than the TTL, a request and the spread of the    *)
(* clocks together.                                                        *)
(***************************************************************************)
EXTENDS KeyRotation, EnvelopeProofs, SequenceTheorems

\* What stage i seals, the ring of stage j authenticates.
Opens(j, i) == \E k \in 1..Len(Plan[j]) : Plan[j][k] = Plan[i][1]

\* A new ring still opens what the one before it has sealed ...
ForwardPlan == \A i \in Stages : i + 1 \in Stages => Opens(i + 1, i)
\* ... and the one before it already opens what the new ring seals.
BackwardPlan == \A i \in Stages : i + 1 \in Stages => Opens(i, i + 1)

\* No clock is ahead of true time by more than spread, and the wait outlasts
\* the envelopes of whatever was still running when the last replica reloaded.
LongWait(spread) ==
    /\ spread \in Nat
    /\ \A r \in Replicas : Offset[r] <= spread
    /\ Wait > StateTTL + HandlerMax + spread

IssuedAt(e) == e.body.iat * Second

SealedAt(e, s) ==
    /\ e.kid = Plan[s][1].kid
    /\ e.mac = [mat |-> Plan[s][1].mat, domain |-> DomainState]

\* Expired on every clock of the fleet.
Outlived(e) == IssuedAt(e) + StateTTL < now

LiveInv ==
    /\ settled <= now
    /\ \A r \in Replicas : live[r] \in {stage - 1, stage}

\* A request that was running when its replica was reloaded began before that.
RequestInv(r) ==
    LET h == handler[r]
    IN  h # NoRequest =>
          /\ h.since <= now /\ now <= h.since + HandlerMax
          /\ h.snap <= live[r] /\ h.snap >= stage - 1
          /\ h.snap < live[r] => h.since <= settled
          /\ h.pc = "open" => h.env \in issued

\* What was sealed two stages ago has expired; what was sealed one stage ago
\* was sealed before the last request of that stage ended.
EnvelopeInv(e, s, spread) ==
    /\ SealedAt(e, s)
    /\ s < stage - 1 => Outlived(e)
    /\ s < stage /\ (\A r \in Replicas : live[r] = stage)
         => IssuedAt(e) <= settled + HandlerMax + spread

RotationInv(spread) ==
    /\ TypeOK
    /\ LiveInv
    /\ \A r \in Replicas : RequestInv(r)
    /\ \A e \in issued :
          /\ IssuedAt(e) <= now + spread
          /\ \E s \in 1..stage : EnvelopeInv(e, s, spread)

-----------------------------------------------------------------------------
(* Types *)

(***************************************************************************)
(* The clock of a replica is an instant.                                   *)
(***************************************************************************)
LEMMA ClockType ==
    ASSUME now \in Nat, NEW r \in Replicas
    PROVE  Clock(r) \in Nat /\ Offset[r] \in Nat
  BY PlanAssumption DEF Clock

(***************************************************************************)
(* What a stage seals is an envelope, signed with its first key.           *)
(***************************************************************************)
LEMMA SealOfStage ==
    ASSUME NEW s \in Stages, NEW t \in Nat
    PROVE  LET e == Seal(Plan[s], DomainState, [iat |-> Unix(t)])
           IN  e \in Sealed /\ SealedAt(e, s) /\ IssuedAt(e) <= t
  <1>1. ValidRing(Plan[s])
    BY PlanAssumption DEF Stages
  <1>2. Plan[s][1] \in Key
    BY <1>1, ElementOfSeq DEF ValidRing
  <1>3. Unix(t) \in Nat /\ Unix(t) * Second <= t
    BY UnixBounds
  <1>4. [iat |-> Unix(t)] \in Body
    BY <1>3 DEF Body
  <1> QED
    BY <1>2, <1>3, <1>4
       DEF Seal, Sealed, EnvelopeOf, SealedAt, IssuedAt, Key, Domains

(***************************************************************************)
(* A request in progress has a snapshot and a start, and an envelope if it *)
(* is to open one.                                                         *)
(***************************************************************************)
LEMMA RequestTypes ==
    ASSUME TypeOK, NEW r \in Replicas, handler[r] # NoRequest
    PROVE  /\ handler[r].snap \in Stages /\ handler[r].since \in Nat
           /\ handler[r].pc \in {"seal", "open"}
           /\ handler[r].pc = "open" => handler[r].env \in Sealed
  <1>1. handler[r] \in SealRequest \cup OpenRequest
    BY DEF TypeOK
  <1> QED
    BY <1>1 DEF SealRequest, OpenRequest

(***************************************************************************)
(* Every step keeps the types.                                             *)
(***************************************************************************)
LEMMA TypeStep ==
    ASSUME TypeOK, [Next]_vars
    PROVE  TypeOK'
  <1> USE PlanAssumption
  <1>1. ASSUME NEW r \in Replicas, SealStart(r)
        PROVE  TypeOK'
    <2>1. [pc |-> "seal", snap |-> live[r], since |-> now] \in SealRequest
      BY DEF TypeOK, SealRequest
    <2> QED
      BY <1>1, <2>1 DEF SealStart, TypeOK
  <1>2. ASSUME NEW r \in Replicas, SealFinish(r)
        PROVE  TypeOK'
    <2>1. handler[r].snap \in Stages
      <3>1. handler[r] # NoRequest
        BY <1>2 DEF SealFinish, NoRequest
      <3> QED
        BY <3>1, RequestTypes
    <2>2. issued' \subseteq Sealed
      BY <1>2, <2>1, ClockType, SealOfStage DEF SealFinish, TypeOK
    <2> QED
      BY <1>2, <2>2 DEF SealFinish, TypeOK
  <1>3. ASSUME NEW r \in Replicas, NEW e \in issued, OpenStart(r, e)
        PROVE  TypeOK'
    <2>1. [pc |-> "open", snap |-> live[r], since |-> now, env |-> e] \in OpenRequest
      BY DEF TypeOK, OpenRequest
    <2> QED
      BY <1>3, <2>1 DEF OpenStart, TypeOK
  <1>4. ASSUME NEW r \in Replicas,
               OpenFinish(r) \/ ReloadReplica(r) \/ RestartReplica(r)
        PROVE  TypeOK'
    BY <1>4 DEF OpenFinish, ReloadReplica, RestartReplica, TypeOK
  <1>5. CASE NextStage
    BY <1>5, LenProperties DEF NextStage, TypeOK, Stages
  <1>6. CASE Tick \/ UNCHANGED vars
    BY <1>6 DEF Tick, vars, TypeOK
  <1> QED
    BY <1>1, <1>2, <1>3, <1>4, <1>5, <1>6 DEF Next

(***************************************************************************)
(* The initial states have the types.                                      *)
(***************************************************************************)
LEMMA TypeInit ==
    ASSUME Init
    PROVE  TypeOK
  BY PlanAssumption, LenProperties DEF Init, TypeOK, Stages

(***************************************************************************)
(* TypeOK holds always.                                                    *)
(***************************************************************************)
THEOREM RotationTypes == Spec => []TypeOK
  <1>1. TypeOK /\ [Next]_vars => TypeOK'
    BY TypeStep
  <1> QED
    BY <1>1, TypeInit, PTL DEF Spec

-----------------------------------------------------------------------------
(* The invariant *)

(***************************************************************************)
(* The numbers of a state.                                                 *)
(***************************************************************************)
LEMMA Numbers ==
    ASSUME TypeOK
    PROVE  /\ now \in Nat /\ settled \in Nat /\ stage \in Nat /\ stage >= 1
           /\ Len(Plan) \in Nat
           /\ Wait \in Nat /\ HandlerMax \in Nat /\ StateTTL \in Nat \ {0}
           /\ \A r \in Replicas : live[r] \in Nat
           /\ \A e \in issued : IssuedAt(e) \in Nat
  <1>1. Len(Plan) \in Nat
    BY PlanAssumption, LenProperties
  <1>2. \A e \in Sealed : e.body.iat \in Nat
    BY DEF Sealed, EnvelopeOf, Body
  <1>3. \A e \in issued : IssuedAt(e) \in Nat
    BY <1>2, ClockAssumption DEF TypeOK, IssuedAt
  <1> QED
    BY <1>1, <1>3, PlanAssumption DEF TypeOK, Stages

(***************************************************************************)
(* Requests that are untouched stay within the invariant as long as the    *)
(* stage does, the clock allows it and envelopes are only added.           *)
(***************************************************************************)
LEMMA RequestStays ==
    ASSUME TypeOK, TypeOK', NEW r \in Replicas, RequestInv(r),
           handler'[r] = handler[r], stage' = stage, now' = now,
           live'[r] = live[r] \/ (live'[r] = stage /\ settled' = now),
           live[r] <= stage, settled <= settled',
           \A e \in issued : e \in issued'
    PROVE  RequestInv(r)'
  <1> USE Numbers
  <1>1. CASE handler[r] = NoRequest
    BY <1>1 DEF RequestInv
  <1>2. CASE handler[r] # NoRequest
    BY <1>2, RequestTypes DEF RequestInv, TypeOK, Stages
  <1> QED
    BY <1>1, <1>2

(***************************************************************************)
(* An envelope keeps its place in the invariant when replicas are reloaded *)
(* and as long as the stage stays ...                                      *)
(***************************************************************************)
LEMMA EnvelopeStays ==
    ASSUME NEW spread \in Nat, RotationInv(spread), TypeOK',
           stage' = stage, now <= now',
           \/ settled' = settled /\ live' = live
           \/ settled' = now,
           NEW e \in issued, NEW s \in 1..stage, EnvelopeInv(e, s, spread)
    PROVE  EnvelopeInv(e, s, spread)'
  <1>1. /\ TypeOK /\ IssuedAt(e) <= now + spread
    BY DEF RotationInv
  <1>2. /\ now \in Nat /\ now' \in Nat /\ settled \in Nat /\ stage \in Nat
        /\ HandlerMax \in Nat /\ StateTTL \in Nat /\ IssuedAt(e) \in Nat
    BY <1>1, Numbers DEF TypeOK
  <1>3. Outlived(e) => Outlived(e)'
    BY <1>2 DEF Outlived
  <1> QED
    BY <1>1, <1>2, <1>3 DEF EnvelopeInv

(***************************************************************************)
(* ... and when the next stage begins, because what was sealed before the  *)
(* present one has expired by then.                                        *)
(***************************************************************************)
LEMMA EnvelopeAges ==
    ASSUME NEW spread, LongWait(spread), RotationInv(spread), NextStage,
           NEW e \in issued, NEW s \in 1..stage, EnvelopeInv(e, s, spread)
    PROVE  EnvelopeInv(e, s, spread)'
  <1>1. TypeOK /\ spread \in Nat
    BY DEF RotationInv, LongWait
  <1>2. /\ now \in Nat /\ settled \in Nat /\ stage \in Nat /\ Wait \in Nat
        /\ HandlerMax \in Nat /\ StateTTL \in Nat /\ IssuedAt(e) \in Nat
    BY <1>1, Numbers
  <1>3. /\ stage' = stage + 1
        /\ UNCHANGED <<now, settled, live>>
        /\ \A r \in Replicas : live[r] = stage
        /\ stage = 1 \/ now >= settled + Wait
    BY DEF NextStage, Settled
  <1>4. ASSUME s < stage
        PROVE  Outlived(e)
    <2>1. IssuedAt(e) <= settled + HandlerMax + spread
      BY <1>3, <1>4 DEF EnvelopeInv
    <2>2. now >= settled + Wait
      BY <1>2, <1>3, <1>4
    <2>3. Wait > StateTTL + HandlerMax + spread
      BY DEF LongWait
    <2> QED
      BY <1>1, <1>2, <2>1, <2>2, <2>3 DEF Outlived
  <1>5. PICK r \in Replicas : live[r] # stage'
    BY <1>2, <1>3, PlanAssumption
  <1> QED
    BY <1>2, <1>3, <1>4, <1>5 DEF EnvelopeInv, Outlived

(***************************************************************************)
(* So does what is in circulation.                                         *)
(***************************************************************************)
LEMMA EnvelopesStay ==
    ASSUME NEW spread \in Nat, RotationInv(spread), TypeOK',
           stage' = stage, now <= now',
           \/ settled' = settled /\ live' = live
           \/ settled' = now
    PROVE  \A e \in issued : /\ IssuedAt(e) <= now' + spread
                             /\ \E s \in 1..stage' : EnvelopeInv(e, s, spread)'
  <1> SUFFICES ASSUME NEW e \in issued
               PROVE  /\ IssuedAt(e) <= now' + spread
                      /\ \E s \in 1..stage' : EnvelopeInv(e, s, spread)'
    OBVIOUS
  <1>1. /\ TypeOK /\ IssuedAt(e) <= now + spread
    BY DEF RotationInv
  <1>2. now \in Nat /\ now' \in Nat /\ IssuedAt(e) \in Nat
    BY <1>1, Numbers DEF TypeOK
  <1>3. PICK s \in 1..stage : EnvelopeInv(e, s, spread)
    BY DEF RotationInv
  <1>4. EnvelopeInv(e, s, spread)'
    BY <1>3, EnvelopeStays
  <1>5. IssuedAt(e) <= now' + spread
    BY <1>1, <1>2
  <1> QED
    BY <1>3, <1>4, <1>5

(***************************************************************************)
(* The next stage begins with no request of an earlier one left, and with  *)
(* nothing left alive that was sealed before it.                           *)
(***************************************************************************)
LEMMA StageStep ==
    ASSUME NEW spread, LongWait(spread), RotationInv(spread), TypeOK', NextStage
    PROVE  RotationInv(spread)'
  <1> TypeOK /\ spread \in Nat
    BY DEF RotationInv, LongWait
  <1> /\ now \in Nat /\ settled \in Nat /\ stage \in Nat /\ stage >= 1
      /\ Len(Plan) \in Nat
      /\ Wait \in Nat /\ HandlerMax \in Nat /\ StateTTL \in Nat
      /\ \A r \in Replicas : live[r] \in Nat
    BY Numbers
  <1>0. /\ stage' = stage + 1
        /\ UNCHANGED <<now, settled, live, handler, issued>>
        /\ \A r \in Replicas : live[r] = stage
        /\ stage = 1 \/ now >= settled + Wait
    BY DEF NextStage, Settled
  <1>1. LiveInv'
    BY <1>0 DEF RotationInv, LiveInv
  <1>2. ASSUME NEW r \in Replicas, handler[r] # NoRequest
        PROVE  handler[r].snap = stage
    <2>1. handler[r].snap \in 1..Len(Plan) /\ handler[r].since \in Nat
      BY <1>2, RequestTypes DEF Stages
    <2>2. RequestInv(r)
      BY DEF RotationInv
    <2>3. /\ handler[r].snap <= stage
          /\ handler[r].snap < stage => handler[r].since <= settled
          /\ now <= handler[r].since + HandlerMax
      BY <1>0, <1>2, <2>2 DEF RequestInv
    <2>4. Wait > HandlerMax
      BY DEF LongWait
    <2> QED
      BY <1>0, <2>1, <2>3, <2>4
  <1>3. ASSUME NEW r \in Replicas
        PROVE  RequestInv(r)'
    <2>1. RequestInv(r)
      BY DEF RotationInv
    <2> QED
      BY <1>0, <1>2, <2>1 DEF RequestInv
  <1>4. ASSUME NEW e \in issued
        PROVE  /\ IssuedAt(e) <= now + spread
               /\ \E s \in 1..stage' : EnvelopeInv(e, s, spread)'
    <2>1. PICK s \in 1..stage : EnvelopeInv(e, s, spread)
      BY DEF RotationInv
    <2>2. EnvelopeInv(e, s, spread)'
      BY <2>1, EnvelopeAges
    <2> QED
      BY <1>0, <2>1, <2>2 DEF RotationInv
  <1> QED
    BY <1>0, <1>1, <1>3, <1>4 DEF RotationInv, IssuedAt

(***************************************************************************)
(* What a handler seals is sealed for its snapshot, and if that is not the *)
(* present stage, at most HandlerMax after the last reload.                *)
(***************************************************************************)
LEMMA JustSealed ==
    ASSUME NEW spread, LongWait(spread), RotationInv(spread), TypeOK',
           NEW r \in Replicas, SealFinish(r)
    PROVE  \E s \in 1..live[r] : \E e :
              /\ issued' = issued \cup {e} /\ IssuedAt(e) <= now + spread
              /\ EnvelopeInv(e, s, spread)'
  <1> TypeOK /\ LiveInv /\ RequestInv(r) /\ spread \in Nat
    BY DEF RotationInv, LongWait
  <1>n. /\ now \in Nat /\ settled \in Nat /\ stage \in Nat /\ stage >= 1
        /\ HandlerMax \in Nat /\ live[r] \in Nat
    BY Numbers
  <1>s. PICK s : s = handler[r].snap
    OBVIOUS
  <1>e. PICK e : e = Seal(Plan[s], DomainState, [iat |-> Unix(Clock(r))])
    OBVIOUS
  <1>1. UNCHANGED <<now, stage, settled, live>> /\ issued' = issued \cup {e}
    BY <1>s, <1>e DEF SealFinish
  <1>2. handler[r] # NoRequest
    BY DEF SealFinish, NoRequest
  <1>3. s \in Stages /\ s \in Nat /\ s >= 1 /\ handler[r].since \in Nat
    BY <1>2, <1>s, RequestTypes DEF Stages
  <1>4. SealedAt(e, s) /\ IssuedAt(e) <= Clock(r) /\ IssuedAt(e) \in Nat
    <2>1. e \in Sealed /\ SealedAt(e, s) /\ IssuedAt(e) <= Clock(r)
      BY <1>n, <1>3, <1>e, ClockType, SealOfStage
    <2> QED
      BY <2>1, ClockAssumption DEF Sealed, EnvelopeOf, Body, IssuedAt
  <1>5. IssuedAt(e) <= now + spread
    BY <1>n, <1>4, ClockType DEF Clock, LongWait
  <1>6. /\ now <= handler[r].since + HandlerMax
        /\ s <= live[r] /\ s >= stage - 1
        /\ s < live[r] => handler[r].since <= settled
    BY <1>2, <1>s DEF RequestInv
  <1>7. s < live[r] => now <= settled + HandlerMax
    BY <1>n, <1>3, <1>6
  <1>8. EnvelopeInv(e, s, spread)'
    <2>1. ASSUME s < stage, \A q \in Replicas : live[q] = stage
          PROVE  IssuedAt(e) <= settled + HandlerMax + spread
      <3>1. now <= settled + HandlerMax
        BY <1>7, <2>1
      <3> QED
        BY <1>n, <1>4, <1>5, <3>1
    <2>2. ~(s < stage - 1)
      BY <1>n, <1>3, <1>6
    <2> QED
      BY <1>1, <1>4, <2>1, <2>2 DEF EnvelopeInv, SealedAt, IssuedAt
  <1>9. s \in 1..live[r]
    BY <1>n, <1>3, <1>6
  <1> QED
    BY <1>1, <1>5, <1>8, <1>9

(***************************************************************************)
(* Every step keeps the invariant.                                         *)
(***************************************************************************)
LEMMA RotationStep ==
    ASSUME NEW spread, LongWait(spread), RotationInv(spread), [Next]_vars
    PROVE  RotationInv(spread)'
  <1> spread \in Nat
    BY DEF LongWait
  <1> TypeOK /\ LiveInv /\ TypeOK' /\ \A r \in Replicas : RequestInv(r)
    BY TypeStep DEF RotationInv
  <1> /\ now \in Nat /\ settled \in Nat /\ stage \in Nat /\ stage >= 1
      /\ Len(Plan) \in Nat
      /\ Wait \in Nat /\ HandlerMax \in Nat /\ StateTTL \in Nat
      /\ \A r \in Replicas : live[r] \in Nat
    BY Numbers
  <1>e. ASSUME stage' = stage, now <= now', issued' = issued,
               (settled' = settled /\ live' = live) \/ settled' = now
        PROVE  \A e \in issued' : /\ IssuedAt(e)' <= now' + spread
                                  /\ \E s \in 1..stage' : EnvelopeInv(e, s, spread)'
    BY <1>e, EnvelopesStay DEF IssuedAt
  \* A request begins or ends.
  <1>1. ASSUME NEW r \in Replicas, NEW h,
               handler' = [handler EXCEPT ![r] = h],
               UNCHANGED <<now, stage, settled, live>>, issued \subseteq issued',
               RequestInv(r)'
        PROVE  LiveInv' /\ \A q \in Replicas : RequestInv(q)'
    <2>1. LiveInv'
      BY <1>1 DEF LiveInv
    <2>2. ASSUME NEW q \in Replicas, q # r
          PROVE  RequestInv(q)'
      <3>1. handler'[q] = handler[q] /\ live'[q] = live[q] /\ live[q] <= stage
        BY <1>1, <2>2 DEF TypeOK, LiveInv
      <3>2. /\ settled <= settled' /\ stage' = stage /\ now' = now
            /\ \A e \in issued : e \in issued'
        BY <1>1
      <3>3. RequestInv(q)
        OBVIOUS
      <3>4. CASE handler[q] = NoRequest
        BY <3>1, <3>4 DEF RequestInv
      <3>5. CASE handler[q] # NoRequest
        BY <3>1, <3>2, <3>3, <3>5, <1>1 DEF RequestInv
      <3> QED
        BY <3>4, <3>5
    <2> QED
      BY <1>1, <2>1, <2>2
  <1>2. ASSUME NEW r \in Replicas, NEW e \in issued, OpenStart(r, e)
        PROVE  RotationInv(spread)'
    <2>1. /\ UNCHANGED <<now, stage, settled, live, issued>>
          /\ handler' = [handler EXCEPT ![r] =
                 [pc |-> "open", snap |-> live[r], since |-> now, env |-> e]]
      BY <1>2 DEF OpenStart
    <2>2. RequestInv(r)'
      BY <2>1 DEF RequestInv, TypeOK, LiveInv
    <2>3. LiveInv' /\ \A q \in Replicas : RequestInv(q)'
      BY <1>1, <2>1, <2>2
    <2> QED
      BY <1>e, <2>1, <2>3 DEF RotationInv
  <1>3. ASSUME NEW r \in Replicas, SealStart(r)
        PROVE  RotationInv(spread)'
    <2>1. /\ UNCHANGED <<now, stage, settled, live, issued>>
          /\ handler' = [handler EXCEPT ![r] =
                            [pc |-> "seal", snap |-> live[r], since |-> now]]
      BY <1>3 DEF SealStart
    <2>2. RequestInv(r)'
      BY <2>1 DEF RequestInv, TypeOK, LiveInv
    <2>3. LiveInv' /\ \A q \in Replicas : RequestInv(q)'
      BY <1>1, <2>1, <2>2
    <2> QED
      BY <1>e, <2>1, <2>3 DEF RotationInv
  <1>4. ASSUME NEW r \in Replicas, OpenFinish(r)
        PROVE  RotationInv(spread)'
    <2>1. /\ UNCHANGED <<now, stage, settled, live, issued>>
          /\ handler' = [handler EXCEPT ![r] = NoRequest]
      BY <1>4 DEF OpenFinish
    <2>2. RequestInv(r)'
      BY <2>1 DEF RequestInv, TypeOK
    <2>3. LiveInv' /\ \A q \in Replicas : RequestInv(q)'
      BY <1>1, <2>1, <2>2
    <2> QED
      BY <1>e, <2>1, <2>3 DEF RotationInv
  <1>5. ASSUME NEW r \in Replicas, SealFinish(r)
        PROVE  RotationInv(spread)'
    <2>0. PICK s \in 1..live[r] : \E e :
              /\ issued' = issued \cup {e} /\ IssuedAt(e) <= now + spread
              /\ EnvelopeInv(e, s, spread)'
      BY <1>5, JustSealed
    <2>1. PICK e :
              /\ issued' = issued \cup {e} /\ IssuedAt(e) <= now + spread
              /\ EnvelopeInv(e, s, spread)'
      BY <2>0
    <2>2. /\ UNCHANGED <<now, stage, settled, live>>
          /\ handler' = [handler EXCEPT ![r] = NoRequest]
      BY <1>5 DEF SealFinish
    <2>3. RequestInv(r)'
      BY <2>2 DEF RequestInv, TypeOK
    <2>4. LiveInv' /\ \A q \in Replicas : RequestInv(q)'
      BY <1>1, <2>1, <2>2, <2>3
    <2>5. \A d \in issued : /\ IssuedAt(d) <= now' + spread
                            /\ \E t \in 1..stage' : EnvelopeInv(d, t, spread)'
      BY <2>2, EnvelopesStay
    <2>6. \A d \in issued' : /\ IssuedAt(d) <= now' + spread
                             /\ \E t \in 1..stage' : EnvelopeInv(d, t, spread)'
      <3>1. IssuedAt(e) <= now' + spread /\ s \in 1..stage'
        BY <2>1, <2>2 DEF LiveInv
      <3> QED
        BY <2>1, <2>5, <3>1, Zenon
    <2> QED
      BY <2>4, <2>6 DEF RotationInv, IssuedAt
  \* A replica is reloaded or comes back.
  <1>6. ASSUME NEW r \in Replicas, ReloadReplica(r)
        PROVE  RotationInv(spread)'
    <2>1. /\ UNCHANGED <<now, stage, handler, issued>>
          /\ live' = [live EXCEPT ![r] = stage] /\ settled' = now
      BY <1>6 DEF ReloadReplica
    <2>2. LiveInv'
      BY <2>1 DEF LiveInv, TypeOK
    <2>3. ASSUME NEW q \in Replicas
          PROVE  RequestInv(q)'
      <3>1. /\ handler'[q] = handler[q] /\ live[q] <= stage /\ settled <= settled'
            /\ live'[q] = live[q] \/ (live'[q] = stage /\ settled' = now)
        BY <2>1 DEF TypeOK, LiveInv
      <3> QED
        BY <2>1, <3>1, RequestStays
    <2> QED
      BY <1>e, <2>1, <2>2, <2>3 DEF RotationInv
  <1>7. ASSUME NEW r \in Replicas, RestartReplica(r)
        PROVE  RotationInv(spread)'
    <2>1. /\ UNCHANGED <<now, stage, issued>>
          /\ live' = [live EXCEPT ![r] = stage]
          /\ settled' = IF live[r] # stage THEN now ELSE settled
          /\ handler' = [handler EXCEPT ![r] = NoRequest]
      BY <1>7 DEF RestartReplica
    <2>2. (settled' = settled /\ live' = live) \/ settled' = now
      BY <2>1 DEF TypeOK
    <2>3. LiveInv'
      BY <2>1 DEF LiveInv, TypeOK
    <2>4. ASSUME NEW q \in Replicas
          PROVE  RequestInv(q)'
      <3>1. CASE q = r
        BY <2>1, <3>1 DEF RequestInv, TypeOK
      <3>2. CASE q # r
        <4>1. /\ handler'[q] = handler[q] /\ live'[q] = live[q]
              /\ live[q] <= stage /\ settled <= settled'
          BY <2>1, <3>2 DEF TypeOK, LiveInv
        <4>2. /\ stage' = stage /\ now' = now /\ RequestInv(q)
              /\ \A e \in issued : e \in issued'
          BY <2>1
        <4>3. CASE handler[q] = NoRequest
          BY <4>1, <4>3 DEF RequestInv
        <4>4. CASE handler[q] # NoRequest
          <5>1. settled' \in Nat
            BY DEF TypeOK
          <5>2. handler[q].since \in Nat
            BY <4>4, RequestTypes
          <5>3. handler[q].snap < live[q] => handler[q].since <= settled'
            BY <4>1, <4>2, <4>4, <5>1, <5>2 DEF RequestInv
          <5> QED
            BY <4>1, <4>2, <4>4, <5>3 DEF RequestInv
        <4> QED
          BY <4>3, <4>4
      <3> QED
        BY <3>1, <3>2
    <2> QED
      BY <1>e, <2>1, <2>2, <2>3, <2>4 DEF RotationInv
  <1>8. CASE NextStage
    BY <1>8, StageStep
  <1>9. CASE Tick
    <2>1. /\ UNCHANGED <<stage, settled, live, handler, issued>>
          /\ now' = now + 1
          /\ \A r \in Replicas :
                handler[r] # NoRequest => now < handler[r].since + HandlerMax
      BY <1>9 DEF Tick
    <2>2. LiveInv'
      BY <2>1 DEF LiveInv
    <2>3. ASSUME NEW r \in Replicas
          PROVE  RequestInv(r)'
      <3>1. CASE handler[r] = NoRequest
        BY <2>1, <3>1 DEF RequestInv
      <3>2. CASE handler[r] # NoRequest
        BY <2>1, <3>2, RequestTypes DEF RequestInv
      <3> QED
        BY <3>1, <3>2
    <2>4. now <= now'
      BY <2>1
    <2> QED
      BY <1>e, <2>1, <2>2, <2>3, <2>4 DEF RotationInv
  <1>10. CASE UNCHANGED vars
    <2>1. UNCHANGED <<now, stage, settled, live, handler, issued>>
      BY <1>10 DEF vars
    <2>2. LiveInv' /\ \A r \in Replicas : RequestInv(r)'
      BY <2>1 DEF LiveInv, RequestInv
    <2>3. now <= now'
      BY <2>1
    <2> QED
      BY <1>e, <2>1, <2>2, <2>3 DEF RotationInv
  <1> QED
    BY <1>2, <1>3, <1>4, <1>5, <1>6, <1>7, <1>8, <1>9, <1>10 DEF Next

(***************************************************************************)
(* It holds at first.                                                      *)
(***************************************************************************)
LEMMA RotationInit ==
    ASSUME NEW spread, Init
    PROVE  RotationInv(spread)
  <1>1. TypeOK
    BY TypeInit
  <1>2. LiveInv /\ \A r \in Replicas : RequestInv(r)
    BY DEF Init, LiveInv, RequestInv
  <1> QED
    BY <1>1, <1>2 DEF Init, RotationInv

(***************************************************************************)
(* With a long wait, every reachable state satisfies it.                   *)
(***************************************************************************)
LEMMA RotationInvariance ==
    ASSUME NEW spread, LongWait(spread)
    PROVE  Spec => []RotationInv(spread)
  <1>1. Init => RotationInv(spread)
    BY RotationInit
  <1>2. RotationInv(spread) /\ [Next]_vars => RotationInv(spread)'
    BY RotationStep
  <1> QED
    BY <1>1, <1>2, PTL DEF Spec

-----------------------------------------------------------------------------
(* The theorems *)

(***************************************************************************)
(* The ring of a stage authenticates what it can open.                     *)
(***************************************************************************)
LEMMA OpensAuthentic ==
    ASSUME NEW i \in Stages, NEW j \in Stages, Opens(j, i), NEW e, SealedAt(e, i)
    PROVE  Authentic(Plan[j], DomainState, e)
  <1>1. ValidRing(Plan[j])
    BY PlanAssumption DEF Stages
  <1>2. PICK k \in 1..Len(Plan[j]) : Plan[j][k] = Plan[i][1]
    BY DEF Opens
  <1>3. e.kid = Plan[j][k].kid
        /\ e.mac = [mat |-> Plan[j][k].mat, domain |-> DomainState]
    BY <1>2 DEF SealedAt
  <1>4. /\ Listed(Plan[j], Plan[j][k].kid) = {k}
        /\ MaterialOf(Plan[j], Plan[j][k].kid) = Plan[j][k].mat
    BY <1>1, <1>2, MaterialListed
  <1> QED
    BY <1>3, <1>4 DEF Authentic

(***************************************************************************)
(* A ring opens what it seals itself.                                      *)
(***************************************************************************)
LEMMA OpensItself ==
    ASSUME NEW i \in Stages
    PROVE  Opens(i, i)
  <1>1. ValidRing(Plan[i])
    BY PlanAssumption DEF Stages
  <1>2. 1 \in 1..Len(Plan[i])
    BY <1>1, LenProperties DEF ValidRing
  <1> QED
    BY <1>2 DEF Opens

(***************************************************************************)
(* What has outlived its TTL is stale on every clock.                      *)
(***************************************************************************)
LEMMA OutlivedIsStale ==
    ASSUME TypeOK, NEW e \in issued, Outlived(e), NEW r \in Replicas
    PROVE  Stale(e, StateTTL, Clock(r))
  <1>1. now \in Nat /\ IssuedAt(e) \in Nat /\ StateTTL \in Nat \ {0}
    BY Numbers
  <1>2. Clock(r) \in Nat /\ Clock(r) >= now
    BY <1>1, ClockType DEF Clock
  <1>3. Clock(r) - IssuedAt(e) > StateTTL
    BY <1>1, <1>2 DEF Outlived
  <1> QED
    BY <1>1, <1>3 DEF Stale, IssuedAt

(***************************************************************************)
(* RotationSafe holds always, on any number of replicas, if neighbouring   *)
(* rings of the plan open each other's envelopes and the wait is longer    *)
(* than the TTL, a request and the spread of the clocks (seal.go:102-105). *)
(***************************************************************************)
THEOREM RotationSafeHolds ==
    ASSUME NEW spread, LongWait(spread), ForwardPlan, BackwardPlan
    PROVE  Spec => []RotationSafe
  <1>1. ASSUME RotationInv(spread), NEW r \in Replicas, handler[r].pc = "open",
               OpenResult(r) \in {"unknown_kid", "bad_mac"}
        PROVE  Stale(handler[r].env, StateTTL, Clock(r))
    <2> USE Numbers
    <2> DEFINE h == handler[r]
               e == handler[r].env
    <2>0. TypeOK
      BY <1>1 DEF RotationInv
    <2>1. h # NoRequest
      BY <1>1 DEF NoRequest
    <2>2. h.snap \in Stages /\ e \in issued
      BY <1>1, <2>0, <2>1, RequestTypes DEF RotationInv, RequestInv
    <2>3. h.snap <= stage /\ h.snap >= stage - 1
      BY <1>1, <2>0, <2>1, <2>2 DEF RotationInv, RequestInv, LiveInv, Stages
    <2>4. PICK s \in 1..stage : EnvelopeInv(e, s, spread)
      BY <1>1, <2>2 DEF RotationInv
    <2>5. CASE s < stage - 1
      BY <2>0, <2>2, <2>4, <2>5, OutlivedIsStale DEF EnvelopeInv
    <2>6. CASE s >= stage - 1
      <3>1. s \in Stages /\ stage \in Stages
        BY <2>0, <2>4 DEF TypeOK, Stages
      <3>2. s = h.snap \/ s = h.snap + 1 \/ h.snap = s + 1
        <4>1. PICK i : i = h.snap
          OBVIOUS
        <4>2. /\ i \in Int /\ s \in Int /\ stage \in Int
              /\ s <= stage /\ i <= stage /\ i >= stage - 1 /\ s >= stage - 1
          BY <2>2, <2>3, <2>6, <3>1, <4>1 DEF Stages
        <4> HIDE DEF h
        <4> QED
          BY <4>1, <4>2
      <3>3. Opens(h.snap, s)
        <4>1. CASE s = h.snap
          <5>1. Opens(s, s)
            BY <3>1, OpensItself
          <5> QED
            BY <4>1, <5>1, Zenon
        <4>2. CASE s = h.snap + 1
          BY <2>2, <3>1, <4>2 DEF BackwardPlan
        <4>3. CASE h.snap = s + 1
          BY <2>2, <3>1, <4>3 DEF ForwardPlan
        <4> QED
          BY <3>2, <4>1, <4>2, <4>3
      <3>4. Authentic(Plan[h.snap], DomainState, e)
        BY <2>2, <2>4, <3>1, <3>3, OpensAuthentic DEF EnvelopeInv
      <3> QED
        BY <1>1, <3>4 DEF OpenResult, Open, Authentic
    <2> QED
      BY <2>0, <2>4, <2>5, <2>6
  <1>2. RotationInv(spread) => RotationSafe
    BY <1>1 DEF RotationSafe
  <1> QED
    BY <1>2, RotationInvariance, PTL

(***************************************************************************)
(* DrainedBeforeDrop holds always with the same wait, for any plan in      *)
(* which a ring opens what the one before it has sealed, and so for the    *)
(* plan of the README (README.md:226-243): when the next ring may be put   *)
(* in place, nothing it cannot open is still alive.                        *)
(***************************************************************************)
THEOREM DrainedBeforeDropHolds ==
    ASSUME NEW spread, LongWait(spread), ForwardPlan
    PROVE  Spec => []DrainedBeforeDrop
  <1>1. ASSUME RotationInv(spread), stage < Len(Plan),
               \A q \in Replicas : live[q] = stage, Settled,
               NEW e \in issued, NEW r \in Replicas
        PROVE  \/ Stale(e, StateTTL, Clock(r))
               \/ Authentic(Plan[stage + 1], DomainState, e)
    <2> USE Numbers
    <2>0. TypeOK
      BY <1>1 DEF RotationInv
    <2>1. PICK s \in 1..stage : EnvelopeInv(e, s, spread)
      BY <1>1 DEF RotationInv
    <2>2. CASE s = stage
      <3>1. stage \in Stages /\ stage + 1 \in Stages
        BY <1>1, <2>0 DEF TypeOK, Stages
      <3> QED
        BY <2>1, <2>2, <3>1, OpensAuthentic DEF ForwardPlan, EnvelopeInv
    <2>3. CASE s < stage
      <3>1. IssuedAt(e) <= settled + HandlerMax + spread /\ IssuedAt(e) \in Nat
        BY <1>1, <2>0, <2>1, <2>3 DEF EnvelopeInv
      <3>2. Outlived(e)
        BY <1>1, <2>0, <2>1, <2>3, <3>1 DEF Outlived, Settled, LongWait
      <3> QED
        BY <2>0, <3>2, OutlivedIsStale
    <2> QED
      BY <2>0, <2>1, <2>2, <2>3
  <1>2. RotationInv(spread) => DrainedBeforeDrop
    BY <1>1 DEF DrainedBeforeDrop
  <1> QED
    BY <1>2, RotationInvariance, PTL

(***************************************************************************)
(* NeverFuture holds always, whatever the plan, if the clocks are within   *)
(* the tolerated skew of each other (seal.go, maxClockSkew).               *)
(***************************************************************************)
THEOREM NeverFutureHolds ==
    ASSUME NEW spread, LongWait(spread), spread <= Skew
    PROVE  Spec => []NeverFuture
  <1>1. ASSUME RotationInv(spread), NEW r \in Replicas, handler[r].pc = "open"
        PROVE  OpenResult(r) # "future"
    <2> USE Numbers
    <2> DEFINE e == handler[r].env
    <2>0. TypeOK
      BY <1>1 DEF RotationInv
    <2>1. handler[r] # NoRequest
      BY <1>1 DEF NoRequest
    <2>2. e \in issued
      BY <1>1, <2>1 DEF RotationInv, RequestInv
    <2>3. IssuedAt(e) <= now + spread /\ IssuedAt(e) \in Nat
      BY <1>1, <2>0, <2>2 DEF RotationInv
    <2>4. Clock(r) \in Nat /\ Offset[r] \in Nat /\ now \in Nat
      BY <2>0, ClockType DEF TypeOK
    <2>5. ~Future(e, Clock(r))
      BY <2>3, <2>4, ClockAssumption DEF Future, IssuedAt, Clock, LongWait
    <2> QED
      BY <2>5 DEF OpenResult, Open
  <1>2. RotationInv(spread) => NeverFuture
    BY <1>1 DEF NeverFuture
  <1> QED
    BY <1>2, RotationInvariance, PTL

-----------------------------------------------------------------------------
(* One replica *)

\* An envelope that circulates, or that a request brings back, was sealed under
\* the ring of this replica or an earlier one.
OrderInv(spread) ==
    /\ RotationInv(spread)
    /\ \A r \in Replicas :
          /\ \A e \in issued : \E s \in 1..live[r] : EnvelopeInv(e, s, spread)
          /\ handler[r].pc = "open" =>
                \A e : handler[r].env = e =>
                    \E s \in 1..handler[r].snap : EnvelopeInv(e, s, spread)

(***************************************************************************)
(* Whatever happens, an envelope keeps its place.                          *)
(***************************************************************************)
LEMMA WitnessStays ==
    ASSUME NEW spread, LongWait(spread), RotationInv(spread), [Next]_vars,
           NEW e \in issued, NEW s \in 1..stage, EnvelopeInv(e, s, spread)
    PROVE  EnvelopeInv(e, s, spread)'
  <1>1. spread \in Nat /\ TypeOK /\ TypeOK'
    BY TypeStep DEF LongWait, RotationInv
  <1>2. CASE NextStage
    BY <1>2, EnvelopeAges
  <1>3. CASE ~NextStage
    <2>1. /\ stage' = stage
          /\ now' = now \/ now' = now + 1
          /\ (settled' = settled /\ live' = live) \/ settled' = now
      <3>1. ASSUME NEW r \in Replicas, RestartReplica(r), live[r] = stage
            PROVE  live' = live /\ settled' = settled
        BY <1>1, <3>1 DEF RestartReplica, TypeOK
      <3> QED
        BY <1>3, <3>1 DEF Next, SealStart, SealFinish, OpenStart, OpenFinish,
             ReloadReplica, RestartReplica, Tick, vars
    <2>2. now <= now'
      BY <1>1, <2>1 DEF TypeOK
    <2> QED
      BY <1>1, <2>1, <2>2, EnvelopeStays
  <1> QED
    BY <1>2, <1>3

(***************************************************************************)
(* With one replica, the order of rings is the order of time: its ring     *)
(* only moves on, so what a request brings was sealed under its snapshot   *)
(* or before.                                                              *)
(***************************************************************************)
LEMMA OrderStep ==
    ASSUME NEW spread, LongWait(spread), \A q, r \in Replicas : q = r,
           OrderInv(spread), [Next]_vars
    PROVE  OrderInv(spread)'
  <1>1. RotationInv(spread) /\ RotationInv(spread)' /\ TypeOK /\ TypeOK' /\ LiveInv
    BY RotationStep DEF OrderInv, RotationInv
  <1> SUFFICES ASSUME NEW r \in Replicas
               PROVE
      /\ \A e \in issued' : \E s \in 1..live'[r] : EnvelopeInv(e, s, spread)'
      /\ handler'[r].pc = "open" =>
            \A e : handler'[r].env = e =>
                \E s \in 1..handler'[r].snap : EnvelopeInv(e, s, spread)'
    BY <1>1 DEF OrderInv
  <1>2. /\ live[r] \in Nat /\ live[r] <= stage /\ stage \in Nat
        /\ live'[r] \in Nat
    BY <1>1, Numbers DEF LiveInv, TypeOK, Stages
  <1>3. live[r] <= live'[r]
    <2>1. live'[r] = live[r] \/ live'[r] = stage
      BY <1>1 DEF Next, SealStart, SealFinish, OpenStart, OpenFinish,
           ReloadReplica, RestartReplica, NextStage, Tick, vars, TypeOK
    <2> QED
      BY <1>2, <2>1
  <1>4. ASSUME NEW e \in issued
        PROVE  \E s \in 1..live'[r] : EnvelopeInv(e, s, spread)'
    <2>1. PICK s \in 1..live[r] : EnvelopeInv(e, s, spread)
      BY DEF OrderInv
    <2>2. s \in 1..stage /\ s \in 1..live'[r]
      BY <1>2, <1>3, <2>1
    <2> QED
      BY <1>1, <2>1, <2>2, WitnessStays
  <1>5. ASSUME handler[r].pc = "open", NEW e, handler[r].env = e
        PROVE  \E s \in 1..handler[r].snap : EnvelopeInv(e, s, spread)'
    <2>1. PICK s \in 1..handler[r].snap : EnvelopeInv(e, s, spread)
      BY <1>5 DEF OrderInv
    <2>2. handler[r] # NoRequest
      BY <1>5 DEF NoRequest
    <2>3. handler[r].snap \in Nat
      BY <1>1, <2>2, RequestTypes DEF Stages
    <2>4. e \in issued /\ handler[r].snap <= live[r]
      BY <1>1, <1>5, <2>2 DEF RotationInv, RequestInv
    <2>5. s \in 1..stage
      BY <1>2, <2>1, <2>3, <2>4
    <2> QED
      BY <1>1, <2>1, <2>4, <2>5, WitnessStays
  <1>6. CASE SealFinish(r)
    <2>0. PICK s \in 1..live[r] : \E e :
              issued' = issued \cup {e} /\ EnvelopeInv(e, s, spread)'
      BY <1>1, <1>6, JustSealed
    <2>1. PICK e : issued' = issued \cup {e} /\ EnvelopeInv(e, s, spread)'
      BY <2>0
    <2>2. s \in 1..live'[r]
      BY <1>2, <1>3, <2>1
    <2>3. handler'[r] = NoRequest
      BY <1>1, <1>6 DEF SealFinish, TypeOK
    <2> QED
      BY <1>4, <2>1, <2>2, <2>3 DEF NoRequest
  <1>7. ASSUME NEW e \in issued, OpenStart(r, e)
        PROVE  /\ \A d \in issued' : \E s \in 1..live'[r] : EnvelopeInv(d, s, spread)'
               /\ \A d : handler'[r].env = d =>
                      \E s \in 1..handler'[r].snap : EnvelopeInv(d, s, spread)'
    <2>1. handler'[r] = [pc |-> "open", snap |-> live[r], since |-> now, env |-> e]
      BY <1>1, <1>7 DEF OpenStart, TypeOK
    <2>2. issued' = issued /\ live' = live
      BY <1>7 DEF OpenStart
    <2> QED
      BY <1>4, <2>1, <2>2
  <1>8. CASE /\ issued' = issued
             /\ handler'[r] = handler[r] \/ handler'[r].pc # "open"
    <2>2. CASE handler'[r] = handler[r]
      BY <1>4, <1>5, <1>8, <2>2
    <2>3. CASE handler'[r].pc # "open"
      BY <1>4, <1>8, <2>3
    <2> QED
      BY <1>8, <2>2, <2>3
  <1>9. \/ SealFinish(r) \/ \E e \in issued : OpenStart(r, e)
        \/ /\ issued' = issued
           /\ handler'[r] = handler[r] \/ handler'[r].pc # "open"
    BY <1>1 DEF Next, SealStart, OpenFinish, ReloadReplica, RestartReplica,
         NextStage, Tick, vars, TypeOK, NoRequest
  <1> QED
    BY <1>6, <1>7, <1>8, <1>9

(***************************************************************************)
(* The runbook of the README (README.md:226-243), prepend the new key,     *)
(* wait, drop the old one, is safe on a single replica: there, a ring that *)
(* opens what the one before it has sealed is enough.                      *)
(***************************************************************************)
THEOREM RunbookSafe ==
    ASSUME NEW spread, LongWait(spread), ForwardPlan,
           \A q, r \in Replicas : q = r
    PROVE  Spec => []RotationSafe
  <1>1. ASSUME OrderInv(spread), NEW r \in Replicas, handler[r].pc = "open",
               OpenResult(r) \in {"unknown_kid", "bad_mac"}
        PROVE  Stale(handler[r].env, StateTTL, Clock(r))
    <2>1. TypeOK /\ RotationInv(spread) /\ handler[r] # NoRequest
      BY <1>1 DEF OrderInv, RotationInv, NoRequest
    <2>0. handler[r].snap \in Stages
      BY <2>1, RequestTypes
    <2>2. /\ handler[r].env \in issued
          /\ handler[r].snap <= live[r] /\ live[r] \in {stage - 1, stage}
      BY <1>1, <2>1 DEF RotationInv, RequestInv, LiveInv
    <2>3. PICK s \in 1..handler[r].snap : EnvelopeInv(handler[r].env, s, spread)
      BY <1>1 DEF OrderInv
    <2>4. CASE s < stage - 1
      BY <2>1, <2>2, <2>3, <2>4, OutlivedIsStale DEF EnvelopeInv
    <2>5. CASE ~(s < stage - 1)
      <3>1. /\ stage \in Nat /\ live[r] \in Nat /\ Len(Plan) \in Nat
        BY <2>1, Numbers
      <3>2. s \in Stages /\ (handler[r].snap = s \/ handler[r].snap = s + 1)
        BY <2>0, <2>2, <2>3, <2>5, <3>1 DEF Stages
      <3>3. Opens(handler[r].snap, s)
        BY <2>0, <3>2, OpensItself DEF ForwardPlan
      <3>4. Authentic(Plan[handler[r].snap], DomainState, handler[r].env)
        BY <2>0, <2>3, <3>2, <3>3, OpensAuthentic DEF EnvelopeInv
      <3> QED
        BY <1>1, <3>4 DEF OpenResult, Open, Authentic
    <2> QED
      BY <2>4, <2>5
  <1>2. OrderInv(spread) => RotationSafe
    BY <1>1 DEF RotationSafe
  <1>3. Init => OrderInv(spread)
    <2>1. Init => RotationInv(spread)
      BY RotationInit
    <2> QED
      BY <2>1 DEF Init, OrderInv, NoRequest
  <1>4. OrderInv(spread) /\ [Next]_vars => OrderInv(spread)'
    BY OrderStep
  <1> QED
    BY <1>2, <1>3, <1>4, PTL DEF Spec
=============================================================================
