------------------------------- MODULE ArmImpl -------------------------------
(***************************************************************************)
(* ArmImpl: the control sessions of the arm.  Lifecycle calls (stop, mode  *)
(* operations, the start of a session) hold m_session_mutex; control loops *)
(* and handles submit through the generation gate, the MPC workers and the *)
(* gripper loop do not; the endpoint's owner thread delivers the states.   *)
(*                                                                         *)
(* The gate is SessionBarrier, the promise that ControlGeneration is shown *)
(* to implement: invalidate() is EndGeneration and Drained, a submission   *)
(* lasts from BeginSubmit to EndSubmit.  MPCSession::stop() returns when   *)
(* its workers are gone (MPCSession, StopIsFinal).  A step is one atomic   *)
(* operation, one critical section or one RPC.                             *)
(***************************************************************************)
EXTENDS SessionBarrier

CONSTANTS Loops,          \* threads that call Arm::control
          Writers,        \* threads that write through a handle
          Gripper,        \* the thread that calls Gripper::control
          ArmModes,       \* "pc" and others
          BootModes,      \* modes in which a device starts
          MaxGeneration   \* bound on lifecycle calls

ASSUME ThreadsAssumption ==
    /\ Senders = Loops \cup Writers
    /\ Loops \cap Writers = {} /\ Gripper \notin Senders
ASSUME ModesAssumption ==
    /\ "pc" \in ArmModes /\ "none" \notin ArmModes \cup Senders
    /\ BootModes \subseteq [arm : ArmModes, control : {"mit", "pvt"}]
ASSUME MaxGenerationAssumption == MaxGeneration \in Nat \ {0}

VARIABLES running, stopFlag,   \* m_running, m_stop_flag
          wake, tokens,        \* m_state_wake_pending, m_data_ready
          fresh,               \* a state newer than m_consumed_state_generation
          mode,                \* m_current_mode
          call,                \* the lifecycle call that holds m_session_mutex
          session,             \* the handle of each thread
          at,                  \* where each loop is
          owner,               \* where the owner thread is in s_onArmStatus
          mpc,                 \* the output of m_mpc
          device,              \* the device's arm and motor control mode
          doubt, dismissed     \* history: see the properties

flagVars == <<running, stopFlag>>
tokenVars == <<wake, tokens>>
stateVars == <<fresh, dismissed>>
deviceVars == <<mode, device, doubt>>
vars == <<barrierVars, flagVars, tokenVars, stateVars, deviceVars, call, session, at, owner, mpc>>

Consumers == Loops \cup {Gripper}
Commands == {"joint", "pose"}
\* Joint commands have a mode of their own; the MPC follows a pose with PVT.
s_controlModeFor(command) == IF command = "pose" THEN "pvt" ELSE "mit"
ControlModes == {"mit", "pvt"}

\* What the call starts and for whom, the arm mode it asks for, where it is.
NoCall == [for |-> "none", command |-> "none", arm |-> "none", at |-> "free"]
NoSession == [generation |-> 0, command |-> "none"]

Init ==
    /\ BarrierInit
    /\ running = FALSE /\ stopFlag = FALSE
    /\ wake = FALSE /\ tokens = 0
    /\ fresh = FALSE /\ dismissed = FALSE
    /\ mode = "none" /\ doubt = {}
    /\ device \in BootModes
    /\ call = NoCall
    /\ session = [t \in Senders |-> NoSession]
    /\ at = [c \in Consumers |-> "idle"]
    /\ owner = "idle" /\ mpc = "none"

-----------------------------------------------------------------------------
(* Lifecycle calls.  All begin with s_stopControlLocked, and only then it  *)
(* matters which call it is.                                               *)

At(label) == call.at = label
Goto(label) == call' = [call EXCEPT !.at = label]
Return == call' = NoCall

\* What a capability check or a bad configuration refuses leaves no trace.
Calls ==
    /\ call = NoCall /\ current < MaxGeneration
    /\ Goto("flag")
    /\ UNCHANGED <<barrierVars, flagVars, tokenVars, stateVars, deviceVars, session, at, owner, mpc>>

RaiseStopFlag ==
    /\ At("flag") /\ Goto("running")
    /\ stopFlag' = TRUE
    /\ UNCHANGED <<barrierVars, running, tokenVars, stateVars, deviceVars, session, at, owner, mpc>>

ClearRunning ==
    /\ At("running") /\ Goto("wake")
    /\ running' = FALSE
    /\ UNCHANGED <<barrierVars, stopFlag, tokenVars, stateVars, deviceVars, session, at, owner, mpc>>

\* A bug: the token is released although one is on its way.
StopAlwaysReleases ==
    /\ At("wake") /\ Goto("release")
    /\ wake' = TRUE
    /\ UNCHANGED <<barrierVars, flagVars, tokens, stateVars, deviceVars, session, at, owner, mpc>>

\* A bug: nobody is woken.
StopWakesNobody ==
    /\ At("wake") /\ Goto("invalidate")
    /\ UNCHANGED <<barrierVars, flagVars, tokenVars, stateVars, deviceVars, session, at, owner, mpc>>

StopWakes ==
    /\ At("wake") /\ Goto(IF wake THEN "invalidate" ELSE "release")
    /\ wake' = TRUE
    /\ UNCHANGED <<barrierVars, flagVars, tokens, stateVars, deviceVars, session, at, owner, mpc>>

StopReleases ==
    /\ At("release") /\ Goto("invalidate")
    /\ tokens' = tokens + 1
    /\ UNCHANGED <<barrierVars, flagVars, wake, stateVars, deviceVars, session, at, owner, mpc>>

Invalidate ==
    /\ At("invalidate") /\ Goto("drain")
    /\ EndGeneration
    /\ UNCHANGED <<flagVars, tokenVars, stateVars, deviceVars, session, at, owner, mpc>>

InvalidateReturns ==
    /\ At("drain") /\ Goto("mpc")
    /\ Drained
    /\ UNCHANGED <<flagVars, tokenVars, stateVars, deviceVars, session, at, owner, mpc>>

\* stop(); enable(), drag(), disable(); home() and automaticErrorRecovery();
\* control() of an idle thread or the start of a handle.
Proceed ==
    \/ Return
    \/ \E m \in ArmModes : call' = [NoCall EXCEPT !.arm = m, !.at = "arm"]
    \/ Goto("rpc")
    \/ \E t \in Senders, c \in Commands :
         /\ t \in Loops => at[t] = "idle"
         /\ call' = [for |-> t, command |-> c, arm |-> "pc", at |-> "arm"]

\* A bug: MPC workers are told to stop and not waited for.
MpcStopRequested ==
    /\ At("mpc") /\ Proceed
    /\ UNCHANGED <<barrierVars, flagVars, tokenVars, stateVars, deviceVars, session, at, owner, mpc>>

\* m_mpc->stop() joins the workers.
MpcStopped ==
    /\ At("mpc") /\ mpc # "sending"
    /\ mpc' = "none" /\ Proceed
    /\ UNCHANGED <<barrierVars, flagVars, tokenVars, stateVars, deviceVars, session, at, owner>>

\* The end of s_cleanup.
CleanupJoins ==
    /\ At("join") /\ Return
    /\ mpc # "sending" /\ mpc' = "none"
    /\ UNCHANGED <<barrierVars, flagVars, tokenVars, stateVars, deviceVars, session, at, owner>>

\* s_requireOperation: refused, carried out with the answer lost, or done;
\* the first two throw.
Outcomes == {"refused", "lost", "done"}

\* Home, lease and fault RPCs; none of them concerns the modes.
OtherRpcs ==
    /\ At("rpc") /\ Return
    /\ UNCHANGED <<barrierVars, flagVars, tokenVars, stateVars, deviceVars, session, at, owner, mpc>>

\* enable, drag, disable, s_requestPcMode.
SetArmMode ==
    /\ At("arm")
    /\ \E o \in Outcomes :
         /\ device' = IF o = "refused" THEN device
                      ELSE [device EXCEPT !.arm = call.arm]
         /\ doubt' = IF o = "done" THEN doubt \ {"arm"} ELSE doubt
         /\ IF o = "done" /\ call.for # "none" THEN Goto("ensure") ELSE Return
    /\ UNCHANGED <<barrierVars, flagVars, tokenVars, stateVars, mode, session, at, owner, mpc>>

\* A bug: the mode is noted before the device has it.
EnsureNotesFirst ==
    /\ At("ensure")
    /\ LET wanted == s_controlModeFor(call.command)
       IN  /\ mode' = wanted
           /\ \/ mode = wanted /\ Goto("unstop") /\ UNCHANGED <<device, doubt>>
              \/ mode # wanted /\ Return /\ UNCHANGED <<device, doubt>>
    /\ UNCHANGED <<barrierVars, flagVars, tokenVars, stateVars, session, at, owner, mpc>>

s_ensureMode ==
    /\ At("ensure")
    /\ LET wanted == s_controlModeFor(call.command)
       IN  \/ mode = wanted /\ Goto("unstop") /\ UNCHANGED deviceVars
           \/ /\ mode # wanted
              /\ \E o \in Outcomes :
                   /\ device' = IF o = "refused" THEN device ELSE [device EXCEPT !.control = wanted]
                   /\ mode' = IF o = "done" THEN wanted ELSE mode
                   /\ doubt' = CASE o = "refused" -> doubt
                                 [] o = "lost" -> doubt \cup {"control"}
                                 [] o = "done" -> doubt \ {"control"}
                   /\ IF o = "done" THEN Goto("unstop") ELSE Return
    /\ UNCHANGED <<barrierVars, flagVars, tokenVars, stateVars, session, at, owner, mpc>>

LowerStopFlag ==
    /\ At("unstop") /\ Goto("issue")
    /\ stopFlag' = FALSE
    /\ UNCHANGED <<barrierVars, running, tokenVars, stateVars, deviceVars, session, at, owner, mpc>>

\* The session begins, with a loop or a handle; a pose session may fail to set
\* up its feedback or its workers.
Issue ==
    /\ At("issue") /\ Return
    /\ running' = TRUE
    /\ \/ /\ session' = [session EXCEPT ![call.for] = [generation |-> current,
                                                       command |-> call.command]]
          /\ at' = IF call.for \in Loops THEN [at EXCEPT ![call.for] = "head"] ELSE at
          /\ mpc' = IF call.command = "pose" THEN "idle" ELSE mpc
       \/ call.command = "pose" /\ UNCHANGED <<session, at, mpc>>
    /\ UNCHANGED <<barrierVars, stopFlag, tokenVars, stateVars, deviceVars, owner>>

CallStep ==
    \/ RaiseStopFlag \/ ClearRunning \/ StopWakes \/ StopReleases \/ Invalidate
    \/ InvalidateReturns \/ MpcStopped \/ CleanupJoins \/ OtherRpcs \/ SetArmMode \/ s_ensureMode
    \/ LowerStopFlag \/ Issue

-----------------------------------------------------------------------------
(* What both loops do with the token and the latest state.                 *)

Move(c, label) == at' = [at EXCEPT ![c] = label]

Acquire(c) ==
    /\ at[c] = "wait" /\ tokens > 0
    /\ tokens' = tokens - 1 /\ Move(c, "woken")
    /\ UNCHANGED <<barrierVars, flagVars, wake, stateVars, deviceVars, call, session, owner, mpc>>

\* A bug: the token is used up and the mark stays.
ClearForgotten(c) ==
    /\ at[c] = "woken"
    /\ Move(c, "cleared")
    /\ UNCHANGED <<barrierVars, flagVars, tokenVars, stateVars, deviceVars, call, session, owner, mpc>>

Clear(c) ==
    /\ at[c] = "woken"
    /\ wake' = FALSE /\ Move(c, "cleared")
    /\ UNCHANGED <<barrierVars, flagVars, tokens, stateVars, deviceVars, call, session, owner, mpc>>

\* s_takeLatestState, by a consumer that may go on.
TakesLatest(c) ==
    /\ Move(c, IF fresh THEN "callback" ELSE "head")
    /\ fresh' = FALSE /\ dismissed' = FALSE

\* A consumer that may not leaves the state to the next.
Dismissed(c, exit) ==
    /\ Move(c, exit)
    /\ dismissed' = (dismissed \/ fresh) /\ UNCHANGED fresh

-----------------------------------------------------------------------------
(* s_controlLoop.                                                          *)

Current(t) == session[t].generation = current

\* A bug: the flags alone, which a new session sets again.
GoesOnByFlags(t) == running /\ ~stopFlag

GoesOn(t) == running /\ ~stopFlag /\ Current(t)

LoopHead(t) ==
    /\ at[t] = "head" /\ Move(t, IF GoesOn(t) THEN "wait" ELSE "cleanup")
    /\ UNCHANGED <<barrierVars, flagVars, tokenVars, stateVars, deviceVars, call, session, owner, mpc>>

\* try_acquire_for ends without a token: again, unless the MPC session is over.
LoopTimesOut(t) ==
    /\ at[t] = "wait" /\ tokens = 0
    /\ Move(t, IF session[t].command = "pose" /\ (mpc = "none" \/ ~Current(t))
               THEN "cleanup" ELSE "head")
    /\ UNCHANGED <<barrierVars, flagVars, tokenVars, stateVars, deviceVars, call, session, owner, mpc>>

LoopTakes(t) ==
    /\ at[t] = "cleared"
    /\ IF GoesOn(t) THEN TakesLatest(t) ELSE Dismissed(t, "cleanup")
    /\ UNCHANGED <<barrierVars, flagVars, tokenVars, deviceVars, call, session, owner, mpc>>

\* The callback returns a command, or throws.
LoopCallback(t) ==
    /\ at[t] = "callback"
    /\ \/ GoesOn(t) /\ Move(t, "send")
       \/ Move(t, "cleanup")
    /\ UNCHANGED <<barrierVars, flagVars, tokenVars, stateVars, deviceVars, call, session, owner, mpc>>

\* Through the gate, or to the loop's own MPC session; both refuse a loop whose
\* session is over.
LoopSends(t) ==
    /\ at[t] = "send"
    /\ \/ Current(t) /\ session[t].command = "joint" /\ BeginSubmit(t) /\ Move(t, "sending")
       \/ /\ Current(t) /\ session[t].command = "pose" /\ mpc # "none"
          /\ \E label \in {"head", "cleanup"} : Move(t, label)
          /\ UNCHANGED barrierVars
       \/ /\ ~Current(t) \/ (session[t].command = "pose" /\ mpc = "none")
          /\ Move(t, "cleanup") /\ UNCHANGED barrierVars
    /\ UNCHANGED <<flagVars, tokenVars, stateVars, deviceVars, call, session, owner, mpc>>

\* The next state, the end of the motion, or a refusal of the endpoint.
LoopSent(t) ==
    /\ at[t] = "sending" /\ EndSubmit(t)
    /\ \E label \in {"head", "cleanup"} : Move(t, label)
    /\ UNCHANGED <<flagVars, tokenVars, stateVars, deviceVars, call, session, owner, mpc>>

\* s_cleanup, under the session mutex, which it keeps while it joins the workers
\* of its own MPC session.
LoopCleanup(t) ==
    /\ at[t] = "cleanup" /\ call = NoCall
    /\ running' = (running /\ ~Current(t))
    /\ session' = [session EXCEPT ![t] = NoSession] /\ Move(t, "idle")
    /\ IF Current(t) /\ session[t].command = "pose" THEN Goto("join") ELSE UNCHANGED call
    /\ UNCHANGED <<barrierVars, stopFlag, tokenVars, stateVars, deviceVars, owner, mpc>>

LoopStep(t) ==
    \/ LoopHead(t) \/ LoopTimesOut(t) \/ Acquire(t) \/ Clear(t) \/ LoopTakes(t)
    \/ LoopCallback(t) \/ LoopSends(t) \/ LoopSent(t) \/ LoopCleanup(t)

-----------------------------------------------------------------------------
(* Handles and MPC workers.  An expired handle throws and changes nothing. *)

WriterSends(t) ==
    /\ session[t].command = "joint" /\ Current(t) /\ BeginSubmit(t)
    /\ UNCHANGED <<flagVars, tokenVars, stateVars, deviceVars, call, session, at, owner, mpc>>

WriterSent(t) ==
    /\ EndSubmit(t)
    /\ UNCHANGED <<flagVars, tokenVars, stateVars, deviceVars, call, session, at, owner, mpc>>

\* m_send of the output worker, from its last look at the stop reason on.
MpcSends ==
    /\ \/ mpc = "idle" /\ call.at \notin {"mpc", "join"} /\ mpc' = "sending"
       \/ mpc = "sending" /\ mpc' = "idle"
    /\ UNCHANGED <<barrierVars, flagVars, tokenVars, stateVars, deviceVars, call, session, at, owner>>

\* A fault, or the end of its handle.
MpcEnds ==
    /\ mpc = "idle" /\ mpc' = "none"
    /\ UNCHANGED <<barrierVars, flagVars, tokenVars, stateVars, deviceVars, call, session, at, owner>>

-----------------------------------------------------------------------------
(* s_gripperLoop: no mutex, no generation, a wait without a time limit.    *)

GripperCalls ==
    /\ at[Gripper] = "idle" /\ Move(Gripper, "unstop")
    /\ running' = TRUE
    /\ UNCHANGED <<barrierVars, stopFlag, tokenVars, stateVars, deviceVars, call, session, owner, mpc>>

GripperUnstops ==
    /\ at[Gripper] = "unstop" /\ Move(Gripper, "pc")
    /\ stopFlag' = FALSE
    /\ UNCHANGED <<barrierVars, running, tokenVars, stateVars, deviceVars, call, session, owner, mpc>>

\* s_requestPcMode and s_ensureGripperMode; a failure leaves m_running set.
GripperModes ==
    /\ at[Gripper] = "pc"
    /\ \E label \in {"head", "idle"} : Move(Gripper, label)
    /\ \/ device' = [device EXCEPT !.arm = "pc"]
       \/ at'[Gripper] = "idle" /\ UNCHANGED device
    /\ UNCHANGED <<barrierVars, flagVars, tokenVars, stateVars, mode, doubt, call, session, owner, mpc>>

GripperGoesOn == running /\ ~stopFlag

GripperHead ==
    /\ at[Gripper] = "head" /\ Move(Gripper, IF GripperGoesOn THEN "wait" ELSE "end")
    /\ UNCHANGED <<barrierVars, flagVars, tokenVars, stateVars, deviceVars, call, session, owner, mpc>>

GripperTakes ==
    /\ at[Gripper] = "cleared"
    /\ IF GripperGoesOn THEN TakesLatest(Gripper) ELSE Dismissed(Gripper, "end")
    /\ UNCHANGED <<barrierVars, flagVars, tokenVars, deviceVars, call, session, owner, mpc>>

\* Its command goes out without another test; an exception skips the end.
GripperSends ==
    /\ at[Gripper] = "callback"
    /\ \E label \in {"head", "end", "idle"} : Move(Gripper, label)
    /\ UNCHANGED <<barrierVars, flagVars, tokenVars, stateVars, deviceVars, call, session, owner, mpc>>

GripperEnds ==
    /\ at[Gripper] = "end" /\ Move(Gripper, "idle")
    /\ running' = FALSE
    /\ UNCHANGED <<barrierVars, stopFlag, tokenVars, stateVars, deviceVars, call, session, owner, mpc>>

GripperStep ==
    \/ GripperUnstops \/ GripperModes \/ GripperHead \/ Acquire(Gripper) \/ Clear(Gripper)
    \/ GripperTakes \/ GripperSends \/ GripperEnds

-----------------------------------------------------------------------------
(* The owner thread, readers and the device.                               *)

\* s_onArmStatus: the state first, then the mark, then the token.
StatusPublishes ==
    /\ owner = "idle" /\ owner' = "exchange"
    /\ fresh' = TRUE /\ dismissed' = FALSE
    /\ UNCHANGED <<barrierVars, flagVars, tokenVars, deviceVars, call, session, at, mpc>>

StatusWakes ==
    /\ \/ /\ owner = "exchange" /\ owner' = IF wake THEN "idle" ELSE "release"
          /\ wake' = TRUE /\ UNCHANGED tokens
       \/ /\ owner = "release" /\ owner' = "idle"
          /\ tokens' = tokens + 1 /\ UNCHANGED wake
    /\ UNCHANGED <<barrierVars, flagVars, stateVars, deviceVars, call, session, at, mpc>>

\* readOnce() of any handle takes the state as well.
readOnce ==
    /\ fresh /\ fresh' = FALSE /\ dismissed' = FALSE
    /\ UNCHANGED <<barrierVars, flagVars, tokenVars, deviceVars, call, session, at, owner, mpc>>

\* The device restarts, in modes of its own, once the SDK relies on a mode; again
\* only when one of them has been asked for since.
Restart ==
    /\ mode # "none" /\ doubt # {"arm", "control"}
    /\ device' \in BootModes
    /\ doubt' = {"arm", "control"}
    /\ UNCHANGED <<barrierVars, flagVars, tokenVars, stateVars, mode, call, session, at, owner, mpc>>

Next ==
    \/ Calls \/ CallStep
    \/ \E t \in Loops : LoopStep(t)
    \/ \E t \in Writers : WriterSends(t) \/ WriterSent(t)
    \/ MpcSends \/ MpcEnds
    \/ GripperCalls \/ GripperStep
    \/ StatusPublishes \/ StatusWakes \/ readOnce \/ Restart

Spec == Init /\ [][Next]_vars

\* Threads inside a call go on; RPCs, submissions and callbacks return.  No
\* call, status or MPC command has to come.
FairSpec ==
    /\ Spec /\ WF_vars(CallStep) /\ WF_vars(StatusWakes) /\ WF_vars(GripperStep)
    /\ \A t \in Loops : WF_vars(LoopStep(t))
    /\ \A t \in Writers : WF_vars(WriterSent(t))
    /\ WF_vars(mpc = "sending" /\ MpcSends)

-----------------------------------------------------------------------------
ConsumerLabels == {"idle", "unstop", "pc", "head", "wait", "woken", "cleared", "callback",
                   "send", "sending", "cleanup", "end"}
CallLabels == {"free", "flag", "running", "wake", "release", "invalidate", "drain", "mpc", "join",
               "rpc", "arm", "ensure", "unstop", "issue"}
CallType == [for : Senders \cup {"none"}, command : Commands \cup {"none"},
             arm : ArmModes \cup {"none"}, at : CallLabels]
SessionType == [generation : 0..MaxGeneration, command : Commands \cup {"none"}]
DeviceType == [arm : ArmModes, control : ControlModes]

TypeOK ==
    /\ current \in 1..MaxGeneration /\ phase \in {"open", "draining"}
    /\ submitting \in [Senders -> 0..MaxGeneration]
    /\ running \in BOOLEAN /\ stopFlag \in BOOLEAN
    /\ wake \in BOOLEAN /\ tokens \in Nat
    /\ fresh \in BOOLEAN /\ dismissed \in BOOLEAN
    /\ mode \in ControlModes \cup {"none"} /\ doubt \subseteq {"arm", "control"}
    /\ device \in DeviceType /\ call \in CallType
    /\ session \in [Senders -> SessionType] /\ at \in [Consumers -> ConsumerLabels]
    /\ owner \in {"idle", "exchange", "release"} /\ mpc \in {"none", "idle", "sending"}

\* Who has exchanged the mark and not yet released, or acquired and not cleared.
Holders ==
    {c \in Consumers : at[c] = "woken"}
    \cup (IF owner = "release" THEN {"owner"} ELSE {})
    \cup (IF call.at = "release" THEN {"call"} ELSE {})

(* m_state_wake_pending and m_data_ready: the mark is up exactly as long   *)
(* as one token is on its way from a publisher or a stop to the one        *)
(* consumer that gets it, so tokens neither pile up nor get lost.          *)
TokenIsSingle ==
    /\ tokens \in {0, 1}
    /\ tokens = 1 => Holders = {}
    /\ \A a, b \in Holders : a = b
    /\ wake <=> (tokens = 1 \/ Holders # {})

(* s_onArmStatus and the loops, which publish and clear in opposite order: *)
(* a state that nobody has read has a token on its way, or a consumer that *)
(* is about to look, or it came when the consumer was dismissed.           *)
StateWakesLoop ==
    fresh /\ owner = "idle" =>
        \/ dismissed \/ tokens > 0 \/ call.at = "release"
        \/ \E c \in Consumers : at[c] \in {"woken", "cleared"}

(* Docs/mpc.md, "mode changes wait for already-entered command             *)
(* submissions before issuing mode RPCs", and no worker submits after      *)
(* stop: from the end of s_stopControlLocked to the return of the call no  *)
(* arm command is being submitted, by a loop, a handle or an MPC worker.   *)
LifecycleIsQuiet ==
    call.at \in {"rpc", "arm", "ensure", "unstop", "issue"} =>
        /\ \A t \in Senders : submitting[t] = 0
        /\ mpc = "none"

(* s_prepareControlLocked: an arm command is submitted only to a device    *)
(* that was put into PC mode and into the command's own motor mode.  Each  *)
(* of the two is in doubt only from a restart of the device, or a lost     *)
(* answer, to the next answer to a request for this very mode; PC mode is  *)
(* asked for anew by every session, the motor mode when m_current_mode,    *)
(* which knows of neither, does not have it.                               *)
SessionFitsDevice ==
    /\ "arm" \notin doubt /\ (mpc = "sending" \/ \E t \in Senders : submitting[t] # 0) =>
         device.arm = "pc"
    /\ "control" \notin doubt =>
         /\ \A t \in Senders : submitting[t] # 0 =>
              device.control = s_controlModeFor(session[t].command)
         /\ mpc = "sending" => device.control = "pvt"

(* s_controlLoop: a loop whose session has ended returns, though the       *)
(* device is silent, others take its tokens and a new session has set      *)
(* m_running again.                                                        *)
ExpiredLoopsEnd == \A t \in Loops : ~Current(t) /\ at[t] # "idle" ~> at[t] = "idle"

(* s_gripperLoop has no time limit: once control stays stopped it ends,    *)
(* though the device is silent, if no arm loop takes its token; if one     *)
(* does, the next state ends it.                                           *)
GripperEndsToo ==
    /\ <>[]stopFlag
    /\ [](\A t \in Loops : at[t] = "idle") \/ []<>(owner = "exchange")
    => []<>(at[Gripper] = "idle")

\* ArmImpl::firmwareUploadAllowed.
firmwareUploadAllowed == ~running

(* Docs/device-upgrade-routing.md:110, a shared view of an Arm requires    *)
(* control to be stopped first, for uploads and reboots: they are admitted *)
(* only while no arm session is open.                                      *)
UploadNeedsStop ==
    firmwareUploadAllowed /\ call = NoCall =>
        \A t \in Writers : session[t] # NoSession => ~Current(t)

=============================================================================
