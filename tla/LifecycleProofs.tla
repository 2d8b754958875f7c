-------------------------- MODULE LifecycleProofs --------------------------
(***************************************************************************)
(* Lifecycle for any number of sources, values, token requests and ticks,  *)
(* whichever sources are files.                                            *)
(*                                                                         *)
(* QuiescentIsCurrent is about a process that has finished its reload, but *)
(* what makes it true is said of one that has not: what it has read so far *)
(* is what the sources hold, unless there has been an edit that no signal  *)
(* followed, or a signal that is still pending and will start the reload   *)
(* again.                                                                  *)
(***************************************************************************)
EXTENDS Lifecycle, SequenceTheorems, TLAPS

\* The operator has signalled its last edit, and nothing is left pending.
Announced == signalled /\ ~hup

\* What the Load in progress has read is what the sources hold.
ReadInv ==
    pc \in {"boot", "reload"} /\ Announced
        => \A i \in 1..Len(read) : read[i] = Current(i)

\* Once it is over, what was published is.
PublishedInv ==
    pc \in {"listening", "serving"} /\ Announced /\ Valid(Effective)
        => live = Effective

\* No signal is pending before signal.Notify.
BootInv == pc \in {"boot", "listening"} => ~hup

ReloadInv == TypeOK /\ BootInv /\ ReadInv /\ PublishedInv

\* A call that began before the drain ends before the grace period does.
EarlyInv ==
    \A q \in early : relay[q] >= 0 /\ (pc = "draining" => relay[q] < grace)

-----------------------------------------------------------------------------

(***************************************************************************)
(* A Load that has read nothing yet.                                       *)
(***************************************************************************)
LEMMA NothingRead == <<>> \in Seq(Values) /\ Len(<<>>) = 0
  BY EmptySeq, Zenon

(***************************************************************************)
(* A complete reading of the sources is a function on them.                *)
(***************************************************************************)
LEMMA CompleteRead ==
    ASSUME TypeOK, Len(read) = Sources
    PROVE  read \in Contents
  BY LenProperties DEF TypeOK, Contents

(***************************************************************************)
(* Every step keeps the types.                                             *)
(***************************************************************************)
LEMMA TypeStep ==
    ASSUME TypeOK, [Next]_vars
    PROVE  TypeOK'
  <1> USE LifecycleAssumption
          DEF opVars, confVars, reqVars, Contents, Idle, Receiving
  <1>1. ASSUME NEW i \in 1..Sources, NEW v \in Values, Edit(i, v)
        PROVE  TypeOK'
    BY <1>1 DEF Edit, TypeOK
  <1>2. CASE Exec
    <2>1. read' = <<>> /\ live' = <<>>
      BY <1>2 DEF Exec
    <2>2. read' \in Seq(Values) /\ Len(read') = 0 /\ live' \in Seq(Values)
      BY <2>1, NothingRead, Zenon
    <2>3. Len(read') <= Sources
      BY <2>2
    <2>4. /\ pc' = "boot" /\ wanted' \in Contents /\ environ' \in Contents
          /\ hup' \in BOOLEAN /\ term' \in BOOLEAN /\ signalled' \in BOOLEAN
      BY <1>2 DEF Exec, TypeOK
    <2>5. UNCHANGED <<relay, early, grace>>
      BY <1>2 DEF Exec
    <2> QED
      BY <2>2, <2>3, <2>4, <2>5 DEF TypeOK
  <1>3. CASE HangupEarly
    <2>1. relay' \in [Requests -> Idle..ClientTimeout] /\ early' \subseteq Requests
      BY <1>3 DEF HangupEarly
    <2>2. /\ pc' = "killed" /\ signalled' \in BOOLEAN
          /\ UNCHANGED <<wanted, environ, read, live, hup, term, grace>>
      BY <1>3 DEF HangupEarly
    <2> QED
      BY <2>1, <2>2 DEF TypeOK
  <1>4. CASE ReadSource
    <2>1. Current(Len(read) + 1) \in Values
      BY <1>4, LenProperties DEF ReadSource, TypeOK, Current
    <2>2. /\ read' \in Seq(Values) /\ Len(read') = Len(read) + 1
          /\ Len(read) \in Nat
      BY <1>4, <2>1, AppendProperties, LenProperties DEF ReadSource, TypeOK
    <2> QED
      BY <1>4, <2>2 DEF ReadSource, TypeOK
  <1>5. CASE Publish \/ LoadFails
    BY <1>5 DEF Publish, LoadFails, TypeOK
  <1>6. CASE NotifySighup
    BY <1>6 DEF NotifySighup, TypeOK
  <1>7. CASE BeginReload
    <2>1. read' \in Seq(Values) /\ Len(read') = 0
      BY <1>7, NothingRead, Zenon DEF BeginReload
    <2>2. Len(read') <= Sources
      BY <2>1
    <2>3. /\ pc' = "reload" /\ hup' \in BOOLEAN
          /\ UNCHANGED <<wanted, signalled, environ, live, term>>
      BY <1>7 DEF BeginReload
    <2>4. UNCHANGED <<relay, early, grace>>
      BY <1>7 DEF BeginReload
    <2> QED
      BY <2>1, <2>2, <2>3, <2>4 DEF TypeOK
  <1>8. CASE BeginShutdown
    BY <1>8 DEF BeginShutdown, TypeOK
  <1>9. CASE Exit
    BY <1>9 DEF Exit, TypeOK
  <1>10. ASSUME NEW q \in Requests, Arrive(q) \/ BeginRelay(q) \/ EndRequest(q)
         PROVE  TypeOK'
    <2>1. CASE Arrive(q)
      BY <2>1 DEF Arrive, TypeOK
    <2>2. CASE BeginRelay(q)
      BY <2>2 DEF BeginRelay, TypeOK
    <2>3. CASE EndRequest(q)
      BY <2>3 DEF EndRequest, TypeOK
    <2> QED
      BY <1>10, <2>1, <2>2, <2>3
  <1>11. CASE Tick
    BY <1>11 DEF Tick, TypeOK
  <1>12. CASE Hangup \/ Terminate \/ UNCHANGED vars
    BY <1>12 DEF Hangup, Terminate, vars, TypeOK
  <1> QED
    BY <1>1, <1>2, <1>3, <1>4, <1>5, <1>6, <1>7, <1>8, <1>9, <1>10, <1>11, <1>12
       DEF Next, Process

(***************************************************************************)
(* The initial states have the types.                                      *)
(***************************************************************************)
LEMMA TypeInit ==
    ASSUME Init
    PROVE  TypeOK
  <1>1. /\ read \in Seq(Values) /\ Len(read) = 0 /\ live \in Seq(Values)
    BY NothingRead, Zenon DEF Init
  <1>2. Len(read) <= Sources
    BY <1>1, LifecycleAssumption
  <1>3. /\ pc = "down" /\ wanted \in Contents /\ environ \in Contents
        /\ hup \in BOOLEAN /\ term \in BOOLEAN /\ signalled \in BOOLEAN
    BY DEF Init
  <1>4. /\ relay \in [Requests -> Idle..ClientTimeout]
        /\ early \subseteq Requests /\ grace \in 0..ShutdownTimeout
    BY LifecycleAssumption DEF Init, Idle
  <1> QED
    BY <1>1, <1>2, <1>3, <1>4 DEF TypeOK

(***************************************************************************)
(* Every step keeps the invariant of the reload.                           *)
(***************************************************************************)
LEMMA ReloadStep ==
    ASSUME ReloadInv, [Next]_vars
    PROVE  ReloadInv'
  <1> USE DEF opVars, confVars, reqVars
  <1> TypeOK /\ BootInv /\ ReadInv /\ PublishedInv /\ TypeOK'
    BY TypeStep DEF ReloadInv
  <1> SUFFICES BootInv' /\ ReadInv' /\ PublishedInv'
    BY DEF ReloadInv
  \* An edit makes what is announced out of date.
  <1>1. ASSUME NEW i \in 1..Sources, NEW v \in Values, Edit(i, v)
        PROVE  BootInv' /\ ReadInv' /\ PublishedInv'
    BY <1>1 DEF Edit, BootInv, ReadInv, PublishedInv, Announced
  <1>2. CASE Exec
    <2>1. Len(read') = 0
      BY <1>2, EmptySeq DEF Exec
    <2> QED
      BY <1>2, <2>1 DEF Exec, BootInv, ReadInv, PublishedInv
  <1>3. CASE Hangup \/ HangupEarly
    BY <1>3 DEF Hangup, HangupEarly, BootInv, ReadInv, PublishedInv, Announced
  <1>4. ASSUME UNCHANGED <<pc, wanted, signalled, environ, read, live, hup>>
        PROVE  BootInv' /\ ReadInv' /\ PublishedInv'
    <2>1. Effective' = Effective /\ \A i : Current(i)' = Current(i)
      BY <1>4 DEF Effective, Current
    <2> QED
      BY <1>4, <2>1 DEF BootInv, ReadInv, PublishedInv, Announced, Valid
  <1>5. CASE ReadSource
    <2>1. /\ UNCHANGED <<pc, wanted, signalled, environ, live, hup>>
          /\ read' = Append(read, Current(Len(read) + 1))
      BY <1>5 DEF ReadSource
    <2>2. \A i : Current(i)' = Current(i)
      BY <2>1 DEF Current
    <2>3. Len(read) \in Nat /\ Current(Len(read) + 1) \in Values
      BY <1>5, LenProperties, LifecycleAssumption
         DEF ReadSource, TypeOK, Current, Contents
    <2>4. /\ Len(read') = Len(read) + 1
          /\ \A i \in 1..Len(read) : read'[i] = read[i]
          /\ read'[Len(read) + 1] = Current(Len(read) + 1)
      BY <2>1, <2>3, AppendProperties DEF TypeOK
    <2>5. ReadInv'
      BY <2>1, <2>2, <2>3, <2>4 DEF ReadInv, Announced
    <2> QED
      BY <1>5, <2>1, <2>5 DEF ReadSource, BootInv, PublishedInv
  \* The end of a Load.
  <1>6. ASSUME ReadInv, pc \in {"boot", "reload"}, Announced, Len(read) = Sources
        PROVE  read = Effective
    <2>1. \A i \in 1..Sources : read[i] = Effective[i]
      BY <1>6 DEF ReadInv, Effective
    <2> QED
      BY <1>6, <2>1, CompleteRead DEF Contents, Effective
  <1>7. CASE Publish
    <2>1. UNCHANGED <<wanted, signalled, environ, read, hup>> /\ live' = read
      BY <1>7 DEF Publish
    <2>2. Effective' = Effective /\ Announced' = Announced
      BY <2>1 DEF Effective, Current, Announced
    <2>3. Announced => live' = Effective
      BY <1>6, <1>7, <2>1 DEF Publish
    <2>4. BootInv' /\ ReadInv'
      BY <1>7 DEF Publish, BootInv, ReadInv
    <2> QED
      BY <2>2, <2>3, <2>4 DEF PublishedInv
  <1>8. CASE LoadFails
    <2>1. /\ UNCHANGED <<wanted, signalled, environ, read, live, hup>>
          /\ pc' \in {"exited", "serving"}
      BY <1>8 DEF LoadFails
    <2>2. Effective' = Effective /\ Announced' = Announced
      BY <2>1 DEF Effective, Current, Announced
    <2>3. Announced => ~Valid(Effective)
      BY <1>6, <1>8 DEF LoadFails
    <2> QED
      BY <2>1, <2>2, <2>3 DEF BootInv, ReadInv, PublishedInv, Valid
  <1>9. CASE NotifySighup
    <2>1. /\ UNCHANGED <<wanted, signalled, environ, read, live, hup>>
          /\ pc = "listening" /\ pc' = "serving"
      BY <1>9 DEF NotifySighup
    <2>2. Effective' = Effective /\ Announced' = Announced
      BY <2>1 DEF Effective, Current, Announced
    <2> QED
      BY <2>1, <2>2 DEF BootInv, ReadInv, PublishedInv, Valid
  <1>10. CASE BeginReload
    <2>1. Len(read') = 0
      BY <1>10, EmptySeq DEF BeginReload
    <2> QED
      BY <1>10, <2>1 DEF BeginReload, BootInv, ReadInv, PublishedInv
  <1>11. CASE BeginShutdown \/ Exit
    BY <1>11 DEF BeginShutdown, Exit, BootInv, ReadInv, PublishedInv
  <1>12. ASSUME NEW q \in Requests, Arrive(q) \/ BeginRelay(q) \/ EndRequest(q)
         PROVE  BootInv' /\ ReadInv' /\ PublishedInv'
    BY <1>4, <1>12 DEF Arrive, BeginRelay, EndRequest
  <1>13. CASE Terminate \/ Tick \/ UNCHANGED vars
    BY <1>4, <1>13 DEF Terminate, Tick, vars
  <1> QED
    BY <1>1, <1>2, <1>3, <1>5, <1>7, <1>8, <1>9, <1>10, <1>11, <1>12, <1>13
       DEF Next, Process

(***************************************************************************)
(* Every reachable state satisfies it.                                     *)
(***************************************************************************)
LEMMA ReloadInvariance == Spec => []ReloadInv
  <1>1. Init => ReloadInv
    BY TypeInit DEF Init, ReloadInv, BootInv, ReadInv, PublishedInv
  <1>2. ReloadInv /\ [Next]_vars => ReloadInv'
    BY ReloadStep
  <1> QED
    BY <1>1, <1>2, PTL DEF Spec

(***************************************************************************)
(* TypeOK holds always.                                                    *)
(***************************************************************************)
THEOREM LifecycleTypes == Spec => []TypeOK
  <1>1. ReloadInv => TypeOK
    BY DEF ReloadInv
  <1> QED
    BY <1>1, ReloadInvariance, PTL

(***************************************************************************)
(* QuiescentIsCurrent holds always: after the last SIGHUP after the last   *)
(* edit, the process runs what its sources say (main.go:361-389), however  *)
(* many sources one Load reads while the operator is still editing them.   *)
(***************************************************************************)
THEOREM QuiescentIsCurrentHolds == Spec => []QuiescentIsCurrent
  <1>1. ReloadInv => QuiescentIsCurrent
    BY DEF ReloadInv, PublishedInv, Announced, QuiescentIsCurrent
  <1> QED
    BY <1>1, ReloadInvariance, PTL

(***************************************************************************)
(* RunbookTakesEffect holds of a process all of whose sources are files:   *)
(* the runbook fails (README.md:226-243) only because a running process    *)
(* keeps the environment it was executed with.                             *)
(***************************************************************************)
THEOREM RunbookWithFiles ==
    ASSUME Files = 1..Sources
    PROVE  Spec => []RunbookTakesEffect
  <1>1. TypeOK => Effective = wanted
    BY DEF TypeOK, Contents, Effective, Current
  <1>2. TypeOK /\ QuiescentIsCurrent => RunbookTakesEffect
    BY <1>1 DEF QuiescentIsCurrent, RunbookTakesEffect
  <1> QED
    BY <1>2, LifecycleTypes, QuiescentIsCurrentHolds, PTL

(***************************************************************************)
(* ServesValid holds always: what is published has validated, and a reload *)
(* that fails keeps it (config.go:534-543).                                *)
(***************************************************************************)
THEOREM ServesValidHolds == Spec => []ServesValid
  <1>1. Init => ServesValid
    BY DEF Init, ServesValid
  <1>2. ServesValid /\ [Next]_vars => ServesValid'
    <2> USE DEF opVars, confVars, reqVars
    <2> SUFFICES ASSUME ServesValid, [Next]_vars
                 PROVE  ServesValid'
      OBVIOUS
    <2>1. CASE Publish
      BY <2>1 DEF Publish, ServesValid, Valid
    <2>2. ASSUME live' = live, pc' = pc \/ pc' \notin {"listening", "serving",
                                               "reload", "draining"}
                 \/ pc \in {"listening", "serving", "reload", "draining"}
          PROVE  ServesValid'
      BY <2>2 DEF ServesValid, Valid
    <2>3. CASE Exec \/ HangupEarly
      BY <2>3 DEF Exec, HangupEarly, ServesValid
    <2>4. CASE LoadFails
      BY <2>2, <2>4 DEF LoadFails
    <2>5. CASE ReadSource \/ NotifySighup \/ BeginReload \/ BeginShutdown \/ Exit
      BY <2>2, <2>5 DEF ReadSource, NotifySighup, BeginReload, BeginShutdown, Exit
    <2>6. CASE Hangup \/ Terminate \/ Tick \/ UNCHANGED vars
      BY <2>2, <2>6 DEF Hangup, Terminate, Tick, vars
    <2>7. ASSUME \E i \in 1..Sources, v \in Values : Edit(i, v)
          PROVE  ServesValid'
      BY <2>2, <2>7 DEF Edit
    <2>8. ASSUME \E q \in Requests : Arrive(q) \/ BeginRelay(q) \/ EndRequest(q)
          PROVE  ServesValid'
      BY <2>2, <2>8 DEF Arrive, BeginRelay, EndRequest
    <2> QED
      BY <2>1, <2>3, <2>4, <2>5, <2>6, <2>7, <2>8 DEF Next, Process
  <1> QED
    BY <1>1, <1>2, PTL DEF Spec

-----------------------------------------------------------------------------

(***************************************************************************)
(* With a client timeout below the grace period, every step keeps          *)
(* EarlyInv.                                                               *)
(***************************************************************************)
LEMMA EarlyStep ==
    ASSUME ClientTimeout < ShutdownTimeout, TypeOK, EarlyInv, [Next]_vars
    PROVE  EarlyInv'
  <1> USE LifecycleAssumption DEF opVars, confVars, reqVars
  <1>1. CASE BeginShutdown
    BY <1>1 DEF BeginShutdown, EarlyInv, TypeOK, Idle
  <1>2. CASE Exit \/ HangupEarly
    BY <1>2 DEF Exit, HangupEarly, EarlyInv
  <1>3. ASSUME NEW q \in Requests, BeginRelay(q)
        PROVE  EarlyInv'
    <2>1. q \notin early
      BY <1>3 DEF BeginRelay, EarlyInv, Receiving
    <2>2. /\ \A p \in Requests : relay'[p] = IF p = q THEN ClientTimeout ELSE relay[p]
          /\ UNCHANGED <<pc, grace>>
          /\ early' = IF pc = "draining" THEN early ELSE early \cup {q}
      BY <1>3 DEF BeginRelay, TypeOK
    <2>3. early \subseteq Requests
      BY DEF TypeOK
    <2> QED
      BY <2>1, <2>2, <2>3 DEF EarlyInv
  <1>4. ASSUME NEW q \in Requests, Arrive(q) \/ EndRequest(q)
        PROVE  EarlyInv'
    BY <1>4 DEF Arrive, EndRequest, EarlyInv, TypeOK, Idle
  <1>5. CASE Tick
    <2>1. \A q \in early : relay[q] > 0 /\ relay'[q] = relay[q] - 1
      BY <1>5 DEF Tick, EarlyInv, TypeOK, Idle
    <2>2. pc' = pc /\ early' = early /\ (pc = "draining" => grace' = grace - 1)
      BY <1>5 DEF Tick
    <2> QED
      BY <2>1, <2>2 DEF EarlyInv, TypeOK, Idle
  <1>6. ASSUME UNCHANGED <<relay, early, grace>>, pc' = pc \/ pc' # "draining"
        PROVE  EarlyInv'
    BY <1>6 DEF EarlyInv
  <1>7. CASE Exec \/ Hangup \/ Terminate \/ UNCHANGED vars
    BY <1>6, <1>7 DEF Exec, Hangup, Terminate, vars
  <1>8. CASE ReadSource \/ Publish \/ LoadFails \/ NotifySighup \/ BeginReload
    BY <1>6, <1>8 DEF ReadSource, Publish, LoadFails, NotifySighup, BeginReload
  <1>9. ASSUME \E i \in 1..Sources, v \in Values : Edit(i, v)
        PROVE  EarlyInv'
    BY <1>6, <1>9 DEF Edit
  <1> QED
    BY <1>1, <1>2, <1>3, <1>4, <1>5, <1>7, <1>8, <1>9 DEF Next, Process

(***************************************************************************)
(* DrainSparesExchanges holds whenever the upstream client's timeout is    *)
(* below the grace period of the shutdown (main.go:391-408): the two are   *)
(* 15 and 20 seconds in the code (transport.go, main.go), and equal would  *)
(* not be enough.                                                          *)
(***************************************************************************)
THEOREM DrainSparesExchangesHolds ==
    ASSUME ClientTimeout < ShutdownTimeout
    PROVE  Spec => DrainSparesExchanges
  <1>1. Init => EarlyInv
    BY DEF Init, EarlyInv
  <1>2. TypeOK /\ EarlyInv /\ [Next]_vars => EarlyInv'
    BY EarlyStep
  <1>3. TypeOK /\ EarlyInv /\ [Next]_vars
          => [pc = "draining" /\ pc' = "exited" => early = {}]_vars
    <2> SUFFICES ASSUME TypeOK, EarlyInv, Next, pc = "draining", pc' = "exited"
                 PROVE  early = {}
      OBVIOUS
    <2>1. Exit
      BY DEF Next, Process, Edit, Exec, Hangup, HangupEarly, Terminate, ReadSource,
             Publish, LoadFails, NotifySighup, BeginReload, BeginShutdown, Arrive,
             BeginRelay, EndRequest, Tick
    <2>2. SUFFICES ASSUME NEW q \in early
                   PROVE  FALSE
      OBVIOUS
    <2>3. q \in Requests /\ relay[q] >= 0 /\ relay[q] < grace /\ relay[q] \in Int
      BY LifecycleAssumption DEF EarlyInv, TypeOK, Idle
    <2>4. grace = 0
      BY <2>1, <2>3 DEF Exit, Idle
    <2> QED
      BY <2>3, <2>4
  <1> QED
    BY <1>1, <1>2, <1>3, LifecycleTypes, PTL DEF Spec, DrainSparesExchanges
=============================================================================
