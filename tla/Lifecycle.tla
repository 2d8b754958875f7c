----------------------------- MODULE Lifecycle ------------------------------
(***************************************************************************)
(* One proxy process: boot, reload on SIGHUP, shutdown, and the token      *)
(* exchanges it has in flight when it is told to stop.                     *)
(*                                                                         *)
(* The configuration comes from several sources, read one after the other  *)
(* by config.Load: the Strava secret, the public URL, the state keys and   *)
(* the client registry.  Each is either a file, read again by every Load,  *)
(* or an environment variable, which a running process keeps as it was     *)
(* when it was executed, whatever the operator exports since.              *)
(***************************************************************************)
EXTENDS Integers, Sequences

CONSTANTS
    Sources,          \* how many sources Load reads
    Files,            \* those given by file
    Values,           \* what a source may hold ...
    Invalid,          \* ... and what fails to read, parse or validate
    Requests,         \* token requests the process may be serving
    ClientTimeout,    \* overall timeout of the upstream client, in ticks
    ShutdownTimeout   \* shutdownTimeout of main.go, in ticks

ASSUME LifecycleAssumption ==
    /\ Sources \in Nat \ {0}
    /\ Files \subseteq 1..Sources
    /\ Invalid \in Values
    /\ ClientTimeout \in Nat /\ ShutdownTimeout \in Nat

VARIABLES
    pc,         \* down, boot, listening, serving, reload, draining, exited, or
                \* killed by a signal that nothing handles
    wanted,     \* what the operator has written or exported, per source
    environ,    \* the process's own copy of the environment
    read,       \* what the Load in progress has read so far
    live,       \* the published configuration; << >> before the first
    hup,        \* a SIGHUP waits in the channel, which holds one
    term,       \* the root context is cancelled
    signalled,  \* a SIGHUP was sent since the operator's last edit (history)
    relay,      \* request -> none, its body still being received, or the
                \* ticks its upstream call may still take
    early,      \* requests whose call began before the drain (history)
    grace       \* ticks left of the shutdown

opVars   == <<wanted, signalled>>
confVars == <<environ, read, live, hup>>
reqVars  == <<relay, early>>
vars     == <<pc, opVars, confVars, term, reqVars, grace>>

Contents == [1..Sources -> Values]
Idle      == -2   \* the slot is free
Receiving == -1   \* the handler reads the request body, without a deadline

TypeOK ==
    /\ pc \in {"down", "boot", "listening", "serving", "reload", "draining",
               "exited", "killed"}
    /\ wanted \in Contents /\ environ \in Contents
    /\ read \in Seq(Values) /\ Len(read) <= Sources
    /\ live \in Seq(Values)
    /\ hup \in BOOLEAN /\ term \in BOOLEAN /\ signalled \in BOOLEAN
    /\ relay \in [Requests -> Idle..ClientTimeout]
    /\ early \subseteq Requests
    /\ grace \in 0..ShutdownTimeout

Init ==
    /\ pc = "down"
    /\ wanted \in Contents /\ environ = wanted
    /\ read = <<>> /\ live = <<>>
    /\ hup = FALSE /\ term = FALSE /\ signalled = FALSE
    /\ relay = [q \in Requests |-> Idle] /\ early = {}
    /\ grace = 0

\* What Load finds in source i now.
Current(i) == IF i \in Files THEN wanted[i] ELSE environ[i]
Effective  == [i \in 1..Sources |-> Current(i)]
Valid(c)   == \A i \in 1..Sources : c[i] # Invalid

Accepting == pc \in {"listening", "serving", "reload"}

-----------------------------------------------------------------------------
(* The operator *)

\* An edit of a file, or an export in the operator's shell.
Edit(i, v) ==
    /\ wanted[i] # v
    /\ wanted' = [wanted EXCEPT ![i] = v]
    /\ signalled' = FALSE
    /\ UNCHANGED <<pc, confVars, term, reqVars, grace>>

\* The supervisor executes the binary with what is exported by now.
Exec ==
    /\ pc \in {"down", "exited", "killed"}
    /\ pc' = "boot"
    /\ environ' = wanted
    /\ read' = <<>> /\ live' = <<>> /\ hup' = FALSE /\ term' = FALSE
    /\ UNCHANGED <<opVars, reqVars, grace>>

\* Fault: the channel has no buffer, a signal that finds nobody receiving is lost.
Hangup_Unbuffered ==
    /\ pc \in {"serving", "reload", "draining"}
    /\ hup' = (hup \/ pc = "serving")
    /\ signalled' = TRUE
    /\ UNCHANGED <<pc, wanted, environ, read, live, term, reqVars, grace>>

\* SIGHUP once signal.Notify has been called: one pending signal is enough.
Hangup ==
    /\ pc \in {"serving", "reload", "draining"}
    /\ hup' = TRUE
    /\ signalled' = TRUE
    /\ UNCHANGED <<pc, wanted, environ, read, live, term, reqVars, grace>>

\* SIGHUP before that: the default action of the signal.
HangupEarly ==
    /\ pc \in {"boot", "listening"}
    /\ pc' = "killed"
    /\ signalled' = TRUE
    /\ relay' = [q \in Requests |-> Idle] /\ early' = {}
    /\ UNCHANGED <<wanted, confVars, term, grace>>

\* SIGINT or SIGTERM cancels the root context, handled from the start of main.
Terminate ==
    /\ pc \in {"boot", "listening", "serving", "reload"}
    /\ term' = TRUE
    /\ UNCHANGED <<pc, opVars, confVars, reqVars, grace>>

-----------------------------------------------------------------------------
(* config.Load, at boot and in Holder.Reload *)

ReadSource ==
    /\ pc \in {"boot", "reload"}
    /\ Len(read) < Sources
    /\ read' = Append(read, Current(Len(read) + 1))
    /\ UNCHANGED <<pc, opVars, environ, live, hup, term, reqVars, grace>>

\* Fault: the snapshot is swapped in before it has validated.
Publish_Unchecked ==
    /\ pc \in {"boot", "reload"}
    /\ Len(read) = Sources
    /\ live' = read
    /\ pc' = IF pc = "boot" THEN "listening" ELSE "serving"
    /\ UNCHANGED <<opVars, environ, read, hup, term, reqVars, grace>>

\* A configuration that validates is published.
Publish ==
    /\ pc \in {"boot", "reload"}
    /\ Len(read) = Sources
    /\ Valid(read)
    /\ live' = read
    /\ pc' = IF pc = "boot" THEN "listening" ELSE "serving"
    /\ UNCHANGED <<opVars, environ, read, hup, term, reqVars, grace>>

\* One that does not ends the boot; a reload keeps the previous one.
LoadFails ==
    /\ pc \in {"boot", "reload"}
    /\ Len(read) = Sources
    /\ ~Valid(read)
    /\ pc' = IF pc = "boot" THEN "exited" ELSE "serving"
    /\ UNCHANGED <<opVars, confVars, term, reqVars, grace>>

-----------------------------------------------------------------------------
(* app.serve *)

\* The listeners are already being served when SIGHUP is hooked.
NotifySighup ==
    /\ pc = "listening"
    /\ pc' = "serving"
    /\ UNCHANGED <<opVars, confVars, term, reqVars, grace>>

\* Fault: the pending signal is not consumed.
BeginReload_KeepsSignal ==
    /\ pc = "serving"
    /\ hup
    /\ pc' = "reload"
    /\ read' = <<>>
    /\ UNCHANGED <<opVars, environ, live, hup, term, reqVars, grace>>

BeginReload ==
    /\ pc = "serving"
    /\ hup
    /\ hup' = FALSE
    /\ pc' = "reload"
    /\ read' = <<>>
    /\ UNCHANGED <<opVars, environ, live, term, reqVars, grace>>

\* The context is cancelled, or a listener has died.
BeginShutdown ==
    /\ pc = "serving"
    /\ pc' = "draining"
    /\ grace' = ShutdownTimeout
    /\ UNCHANGED <<opVars, confVars, term, reqVars>>

\* Shutdown returns when nothing is in flight, or at the end of the grace
\* period; the process then exits and cuts what is left.
Exit ==
    /\ pc = "draining"
    /\ (\A q \in Requests : relay[q] = Idle) \/ grace = 0
    /\ pc' = "exited"
    /\ relay' = [q \in Requests |-> Idle] /\ early' = {}
    /\ UNCHANGED <<opVars, confVars, term, grace>>

-----------------------------------------------------------------------------
(* Token requests *)

Arrive(q) ==
    /\ Accepting
    /\ relay[q] = Idle
    /\ relay' = [relay EXCEPT ![q] = Receiving]
    /\ UNCHANGED <<pc, opVars, confVars, term, early, grace>>

\* Fault: the upstream client has no overall timeout of its own.
BeginRelay_Unbounded(q) ==
    /\ relay[q] = Receiving
    /\ relay' = [relay EXCEPT ![q] = ClientTimeout + ShutdownTimeout]
    /\ early' = IF pc = "draining" THEN early ELSE early \cup {q}
    /\ UNCHANGED <<pc, opVars, confVars, term, grace>>

BeginRelay(q) ==
    /\ relay[q] = Receiving
    /\ relay' = [relay EXCEPT ![q] = ClientTimeout]
    /\ early' = IF pc = "draining" THEN early ELSE early \cup {q}
    /\ UNCHANGED <<pc, opVars, confVars, term, grace>>

\* Strava answers or the client's timeout fires; or the caller gives up.
EndRequest(q) ==
    /\ relay[q] # Idle
    /\ relay' = [relay EXCEPT ![q] = Idle]
    /\ early' = early \ {q}
    /\ UNCHANGED <<pc, opVars, confVars, term, grace>>

\* Fault: the shutdown is not bounded.
Tick_NoGraceBound ==
    /\ \A q \in Requests : relay[q] # 0
    /\ pc = "draining" \/ \E q \in Requests : relay[q] > 0
    /\ relay' = [q \in Requests |-> IF relay[q] > 0 THEN relay[q] - 1 ELSE relay[q]]
    /\ grace' = IF pc = "draining" THEN grace - 1 ELSE grace
    /\ UNCHANGED <<pc, opVars, confVars, term, early>>

\* Time passes while some request or the drain counts it.
Tick ==
    /\ \A q \in Requests : relay[q] # 0
    /\ pc = "draining" => grace > 0
    /\ \/ pc = "draining"
       \/ \E q \in Requests : relay[q] > 0
    /\ relay' = [q \in Requests |-> IF relay[q] > 0 THEN relay[q] - 1 ELSE relay[q]]
    /\ grace' = IF pc = "draining" THEN grace - 1 ELSE grace
    /\ UNCHANGED <<pc, opVars, confVars, term, early>>

-----------------------------------------------------------------------------

Process ==
    \/ ReadSource \/ Publish \/ LoadFails
    \/ NotifySighup \/ BeginReload
    \/ (term /\ BeginShutdown)
    \/ Exit

Next ==
    \/ \E i \in 1..Sources, v \in Values : Edit(i, v)
    \/ Exec \/ Hangup \/ HangupEarly \/ Terminate
    \/ Process
    \/ BeginShutdown
    \/ \E q \in Requests : Arrive(q) \/ BeginRelay(q) \/ EndRequest(q)
    \/ Tick

Spec == Init /\ [][Next]_vars

\* The process is scheduled; nothing is assumed of operator, callers or Strava.
FairSpec == Spec /\ WF_vars(Process)

-----------------------------------------------------------------------------
(***************************************************************************)
(* Once the last SIGHUP after the last edit has been dealt with, the       *)
(* process runs what its sources say, however the edits, the signals and   *)
(* the reads of earlier reloads were interleaved (main.go:361-389).        *)
(***************************************************************************)
QuiescentIsCurrent ==
    pc = "serving" /\ signalled /\ ~hup /\ Valid(Effective)
        => live = Effective

(***************************************************************************)
(* A running process never serves a configuration that did not validate,   *)
(* or none: an edit that fails keeps the previous one (config.go:534-543). *)
(***************************************************************************)
ServesValid ==
    pc \in {"listening", "serving", "reload", "draining"}
        => Len(live) = Sources /\ Valid(live)

(***************************************************************************)
(* A token exchange that was under way when the shutdown began is never    *)
(* cut: the upstream client's timeout fits in the grace period, so a code  *)
(* is not burnt for an answer nobody relays (main.go:391-408).             *)
(***************************************************************************)
DrainSparesExchanges ==
    [][pc = "draining" /\ pc' = "exited" => early = {}]_vars

(***************************************************************************)
(* A SIGHUP, or a burst of them, ends in a reload that is over, unless the *)
(* process is stopping.                                                    *)
(***************************************************************************)
HangupHandled == hup ~> ~hup \/ pc \in {"draining", "exited"}

(***************************************************************************)
(* SIGHUP "must not terminate the process" (main.go:68-69): at least one   *)
(* that has its configuration and may already be serving outlives it.      *)
(***************************************************************************)
HangupNeverKills == pc = "killed" => live = <<>>

(***************************************************************************)
(* The key-rotation runbook of the README (README.md:226-243): changing    *)
(* PROXY_STATE_KEYS and sending a SIGHUP puts the new ring in service.     *)
(***************************************************************************)
RunbookTakesEffect ==
    pc = "serving" /\ signalled /\ ~hup /\ Valid(wanted) => live = wanted
=============================================================================
