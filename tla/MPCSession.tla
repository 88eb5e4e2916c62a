----------------------------- MODULE MPCSession -----------------------------
(***************************************************************************)
(* MPCSession: a planner thread that solves for trajectories, an output    *)
(* thread that sends a joint command every period, and API callers that    *)
(* write targets and stop the session.                                     *)
(*                                                                         *)
(* Nothing is locked between the threads: they share one atomic stop       *)
(* reason, the time stamp of the last target, two wake-up semaphores and   *)
(* latest-value mailboxes.  A step is one access to that shared state, or  *)
(* one reading of the clock with the local work that follows it.  A plan   *)
(* is its generation and the reception time of the feedback it started     *)
(* from; poses, joint values and limits are left out, so tests of them     *)
(* (finite, within limits, tracking error) may go either way.  Of the stop *)
(* reasons, "Stopped" is kStopped or kMotionFinished and "Fault" any other,*)
(* as in status().  The mailboxes (Wirelink) are external: a read yields   *)
(* the last publication.                                                   *)
(***************************************************************************)
EXTENDS Naturals

CONSTANTS Callers,
          PlanningPeriod, OutputPeriod,
          StateTimeout, TargetTimeout, PlanTimeout, LatenessLimit,
          MaxWrites,        \* bound on target writes
          MaxTime           \* bound on the clock

\* MPCSession::validateConfig.
ASSUME ConfigAssumption ==
    /\ PlanningPeriod \in Nat \ {0} /\ OutputPeriod \in Nat \ {0}
    /\ StateTimeout \in Nat /\ TargetTimeout \in Nat
    /\ PlanTimeout \in Nat /\ LatenessLimit \in Nat
    /\ StateTimeout > OutputPeriod
    /\ TargetTimeout > PlanningPeriod
    /\ PlanTimeout > PlanningPeriod
    /\ LatenessLimit >= OutputPeriod /\ LatenessLimit < PlanTimeout
ASSUME MPCBoundsAssumption == MaxWrites \in Nat /\ MaxTime \in Nat

VARIABLES reason,           \* m_stop_reason
          started,          \* m_started
          targetTime,       \* m_target_time_ns
          firstTarget,      \* m_first_target_time
          planWake, outputWake, \* the two semaphores
          plans,            \* m_plans: the last plan published
          reported,         \* m_output_status: m_outputs as last published
          clock,
          ppc, pnext, origin,   \* planner: label, s_next, s_plan.m_origin
          opc, onow, onext, checked, received, active, new, outputs,
                            \* output: label, s_now, s_next, s_checked, m_received,
                            \* s_active, s_new, m_outputs
          cpc,              \* each caller's label
          writes,           \* writes made so far, for the bound
          joined,           \* history: some stop() has returned
          sentNow           \* history: a command was sent at this clock reading

wakeVars == <<planWake, outputWake>>
targetVars == <<started, targetTime, firstTarget>>
plannerVars == <<ppc, pnext, origin, plans>>
loopVars == <<onow, onext, checked, received, active, new, outputs>>
outputVars == <<opc, loopVars, reported, sentNow>>
callerVars == <<cpc, writes, joined>>
vars == <<reason, wakeVars, targetVars, plannerVars, outputVars, callerVars, clock>>

NoPlan == [generation |-> 0, origin |-> 0]
Reasons == {"None", "Stopped", "Fault"}

stopped == reason # "None"

\* validMeasurement's test of the reception time r; 0 is "never received".
Recent(r) == r # 0 /\ clock - r <= StateTimeout

\* Reception times the feedback mailbox may hold: those that differ for Recent.
Receptions == {r \in 1..clock : r + StateTimeout + 1 >= clock}

\* requestStop's compare-exchange; the winner goes on to release the tokens.
Raise(f) == reason' = IF stopped THEN reason ELSE f

\* A bug: late periods are caught up one by one.
AdvanceOnce(next, period, done) == next + period

\* The next period boundary after "done": missed periods are skipped.
Advance(next, period, done) ==
    LET n == next + period
    IN  IF n <= done THEN n + ((done - n) \div period + 1) * period ELSE n

Init ==
    /\ reason = "None" /\ started = FALSE /\ targetTime = 0 /\ firstTarget = 0
    /\ planWake = 0 /\ outputWake = 0 /\ plans = NoPlan /\ reported = 0
    /\ ppc = "start" /\ pnext = 0 /\ origin = 0
    /\ opc = "timer" /\ onow = 0 /\ onext = 0 /\ checked = 0 /\ received = 0
    /\ active = NoPlan /\ new = NoPlan /\ outputs = 0
    /\ cpc = [c \in Callers |-> "idle"] /\ writes = 0
    /\ joined = FALSE /\ sentNow = FALSE
    /\ clock = 1            \* 0 is the empty time_point

-----------------------------------------------------------------------------
(* API callers.  write() holds m_write_mutex from its check to its end.    *)

Writing == {c \in Callers : cpc[c] \in {"stamp", "start", "wake"}}

\* The target is accepted and put into the mailbox.  (A stopped session
\* throws instead, and nothing changes.)
WriteCheck(c) ==
    /\ cpc[c] = "idle" /\ Writing = {} /\ writes < MaxWrites
    /\ ~stopped
    /\ cpc' = [cpc EXCEPT ![c] = "stamp"]
    /\ writes' = writes + 1
    /\ UNCHANGED <<reason, wakeVars, targetVars, plannerVars, outputVars, joined, clock>>

WriteStamp(c) ==
    /\ cpc[c] = "stamp"
    /\ targetTime' = clock
    /\ cpc' = [cpc EXCEPT ![c] = IF started THEN "idle" ELSE "start"]
    /\ UNCHANGED <<reason, wakeVars, started, firstTarget, plannerVars, outputVars,
                   writes, joined, clock>>

\* A bug: waking the workers before the first target is on record.
WriteWakesFirst(c) ==
    /\ cpc[c] = "start"
    /\ planWake' = planWake + 1 /\ outputWake' = outputWake + 1
    /\ cpc' = [cpc EXCEPT ![c] = "wake"]
    /\ UNCHANGED <<reason, targetVars, plannerVars, outputVars, writes, joined, clock>>

WriteStart(c) ==
    /\ cpc[c] = "start"
    /\ firstTarget' = targetTime
    /\ started' = TRUE
    /\ cpc' = [cpc EXCEPT ![c] = "wake"]
    /\ UNCHANGED <<reason, wakeVars, targetTime, plannerVars, outputVars, writes, joined, clock>>

WriteWake(c) ==
    /\ cpc[c] = "wake"
    /\ planWake' = planWake + 1 /\ outputWake' = outputWake + 1
    /\ cpc' = [cpc EXCEPT ![c] = "idle"]
    /\ UNCHANGED <<reason, targetVars, plannerVars, outputVars, writes, joined, clock>>

\* A bug: every stop() releases the tokens, not only the first.
StopAlwaysReleases(c) ==
    /\ cpc[c] = "idle"
    /\ Raise("Stopped")
    /\ cpc' = [cpc EXCEPT ![c] = "release"]
    /\ UNCHANGED <<wakeVars, targetVars, plannerVars, outputVars, writes, joined, clock>>

\* stop(), also through write() with m_motion_finished or the destructor.
StopRequest(c) ==
    /\ cpc[c] = "idle"
    /\ Raise("Stopped")
    /\ cpc' = [cpc EXCEPT ![c] = IF stopped THEN "join" ELSE "release"]
    /\ UNCHANGED <<wakeVars, targetVars, plannerVars, outputVars, writes, joined, clock>>

\* A bug: the planner is left to its own timer.
ReleaseOutputOnly == outputWake' = outputWake + 1 /\ UNCHANGED planWake

\* requestStop, the rest of the winner's part.
ReleaseTokens == planWake' = planWake + 1 /\ outputWake' = outputWake + 1

StopRelease(c) ==
    /\ cpc[c] = "release"
    /\ ReleaseTokens
    /\ cpc' = [cpc EXCEPT ![c] = "join"]
    /\ UNCHANGED <<reason, targetVars, plannerVars, outputVars, writes, joined, clock>>

\* A bug: joining the planner only.
StopJoinsPlanner(c) ==
    /\ cpc[c] = "join" /\ ppc = "done"
    /\ cpc' = [cpc EXCEPT ![c] = "idle"]
    /\ joined' = TRUE
    /\ UNCHANGED <<reason, wakeVars, targetVars, plannerVars, outputVars, writes, clock>>

\* Both threads are joined; m_join_mutex lets the second caller see that.
StopJoin(c) ==
    /\ cpc[c] = "join" /\ opc = "done" /\ ppc = "done"
    /\ cpc' = [cpc EXCEPT ![c] = "idle"]
    /\ joined' = TRUE
    /\ UNCHANGED <<reason, wakeVars, targetVars, plannerVars, outputVars, writes, clock>>

StopStep(c) == StopRelease(c) \/ StopJoin(c)
WriteStep(c) == WriteStamp(c) \/ WriteStart(c) \/ WriteWake(c)
CallerStep(c) ==
    WriteCheck(c) \/ WriteStep(c) \/ StopRequest(c) \/ StopStep(c)

-----------------------------------------------------------------------------
(* planLoop.                                                               *)

PlanFault ==
    /\ Raise("Fault")
    /\ ppc' = IF stopped THEN "exit" ELSE "release"
    /\ origin' = 0 /\ pnext' = 0 /\ UNCHANGED plans

\* m_plan_wake.acquire(); s_next is the time of the first wake-up.
PlanStart ==
    /\ ppc = "start" /\ planWake > 0
    /\ planWake' = planWake - 1
    /\ ppc' = "read" /\ pnext' = clock
    /\ UNCHANGED <<reason, outputWake, targetVars, origin, plans, outputVars, callerVars, clock>>

\* The loop's test of stopped(), then the feedback: too old (kStaleState), or
\* disconnected, faulty, out of limits, unreadable (kTransport, kInvalidState).
PlanRead(r) ==
    /\ ppc = "read"
    /\ \/ /\ stopped
          /\ ppc' = "exit" /\ pnext' = 0
          /\ UNCHANGED <<reason, origin, plans>>
       \/ ~stopped /\ PlanFault
       \/ /\ ~stopped /\ Recent(r)
          /\ origin' = r
          /\ ppc' = "solve"
          /\ UNCHANGED <<reason, pnext, plans>>
    /\ UNCHANGED <<wakeVars, targetVars, outputVars, callerVars, clock>>

\* The solver returned: a valid plan is published, anything else (an error,
\* an exception) only counted.
PlanSolved(ok) ==
    /\ ppc = "solve"
    /\ IF stopped
       THEN ppc' = "exit" /\ pnext' = 0 /\ UNCHANGED plans
       ELSE /\ plans' = IF ok THEN [generation |-> plans.generation + 1, origin |-> origin]
                        ELSE plans
            /\ pnext' = Advance(pnext, PlanningPeriod, clock)
            /\ ppc' = "wait"
    /\ origin' = 0
    /\ UNCHANGED <<reason, wakeVars, targetVars, outputVars, callerVars, clock>>

\* waitUntil: asleep until the time or a token, then stopped() again.
PlanWait ==
    /\ ppc = "wait"
    /\ \/ clock >= pnext /\ UNCHANGED planWake
       \/ planWake > 0 /\ planWake' = planWake - 1
    /\ ppc' = IF stopped THEN "exit" ELSE IF clock >= pnext THEN "read" ELSE "wait"
    /\ pnext' = IF stopped THEN 0 ELSE pnext
    /\ UNCHANGED <<reason, outputWake, targetVars, origin, plans, outputVars, callerVars, clock>>

PlanRelease ==
    /\ ppc = "release"
    /\ ReleaseTokens
    /\ ppc' = "exit"
    /\ UNCHANGED <<reason, targetVars, pnext, origin, plans, outputVars, callerVars, clock>>

PlanExit ==
    /\ ppc = "exit"
    /\ ppc' = "done"
    /\ UNCHANGED <<reason, wakeVars, targetVars, pnext, origin, plans, outputVars,
                   callerVars, clock>>

PlanStep ==
    \/ PlanStart \/ PlanWait \/ PlanRelease \/ PlanExit
    \/ \E r \in Receptions : PlanRead(r)
    \/ \E ok \in BOOLEAN : PlanSolved(ok)

-----------------------------------------------------------------------------
(* outputLoop.  Leaving the loop forgets its locals.                       *)

LeaveLoop ==
    /\ onow' = 0 /\ onext' = 0 /\ checked' = 0 /\ received' = 0
    /\ active' = NoPlan /\ new' = NoPlan /\ UNCHANGED outputs

OutputFault ==
    /\ Raise("Fault")
    /\ opc' = IF stopped THEN "exit" ELSE "release"
    /\ LeaveLoop

OutputReturn == opc' = "exit" /\ LeaveLoop /\ UNCHANGED reason

\* TimerResolution: Windows may refuse it, a fault before the wait.
OutputTimer ==
    /\ opc = "timer"
    /\ \/ OutputFault
       \/ opc' = "start" /\ UNCHANGED <<reason, loopVars>>
    /\ UNCHANGED <<wakeVars, targetVars, plannerVars, reported, sentNow, callerVars, clock>>

\* m_output_wake.acquire(), stopped(), and s_next = now.
OutputStart ==
    /\ opc = "start" /\ outputWake > 0
    /\ outputWake' = outputWake - 1
    /\ opc' = IF stopped THEN "exit" ELSE "begin"
    /\ onext' = IF stopped THEN 0 ELSE clock
    /\ UNCHANGED <<reason, planWake, targetVars, plannerVars, onow, checked, received,
                   active, new, outputs, reported, sentNow, callerVars, clock>>

\* The loop's test of stopped(), and s_now.
OutputBegin ==
    /\ opc = "begin"
    /\ IF stopped THEN OutputReturn
       ELSE /\ onow' = clock /\ opc' = "target"
            /\ UNCHANGED <<reason, onext, checked, received, active, new, outputs>>
    /\ UNCHANGED <<wakeVars, targetVars, plannerVars, reported, sentNow, callerVars, clock>>

\* A bug: the target's time stamp is not looked at.
TargetUnchecked ==
    /\ opc = "target"
    /\ IF onow > onext + LatenessLimit THEN OutputFault
       ELSE /\ new' = plans /\ opc' = "measure" /\ onow' = 0
            /\ UNCHANGED <<reason, onext, checked, received, active, outputs>>
    /\ UNCHANGED <<wakeVars, targetVars, plannerVars, reported, sentNow, callerVars, clock>>

\* The plan mailbox and the target's time stamp, which may be later than s_now.
OutputTarget ==
    /\ opc = "target"
    /\ IF \/ onow > onext + LatenessLimit               \* kOutputDeadline
          \/ onow > targetTime + TargetTimeout          \* kStaleTarget
       THEN OutputFault
       ELSE /\ new' = plans /\ opc' = "measure" /\ onow' = 0
            /\ UNCHANGED <<reason, onext, checked, received, active, outputs>>
    /\ UNCHANGED <<wakeVars, targetVars, plannerVars, reported, sentNow, callerVars, clock>>

\* m_output_read(), with the same failures as in the planner, and s_checked.
OutputMeasure(r) ==
    /\ opc = "measure"
    /\ \/ OutputFault
       \/ /\ Recent(r)
          /\ checked' = clock /\ received' = r /\ opc' = "plan"
          /\ UNCHANGED <<reason, onow, onext, active, new, outputs>>
    /\ UNCHANGED <<wakeVars, targetVars, plannerVars, reported, sentNow, callerVars, clock>>

\* A bug: only a plan just received is tested for its age.
OnlyNewTooOld ==
    /\ new.generation # active.generation
    /\ checked > new.origin + PlanTimeout

\* The age of the plan that would be executed: the new one if there is one.
PlanTooOld ==
    /\ new.generation # 0
    /\ checked > new.origin + PlanTimeout

NoPlanInTime == new.generation = 0 /\ checked > firstTarget + PlanTimeout

\* Expiry, the acceptance test of a new plan's splines and of the transition
\* to it, the switch, and the tracking error.
OutputPlan ==
    /\ opc = "plan"
    /\ \/ /\ \/ PlanTooOld \/ NoPlanInTime               \* kStalePlan
             \/ new.generation # 0                      \* kInvalidTrajectory, kTrackingError
          /\ OutputFault
       \/ /\ ~PlanTooOld /\ ~NoPlanInTime
          /\ active' = new /\ new' = NoPlan /\ checked' = 0
          /\ opc' = IF new.generation # 0 THEN "command" ELSE "finish"
          /\ UNCHANGED <<reason, onow, onext, received, outputs>>
    /\ UNCHANGED <<wakeVars, targetVars, plannerVars, reported, sentNow, callerVars, clock>>

\* A bug: no second look at the clock before sending.
CommandUnchecked ==
    /\ opc = "command"
    /\ IF stopped THEN OutputReturn
       ELSE /\ opc' = "send"
            /\ UNCHANGED <<reason, onow, onext, checked, received, active, new, outputs>>
    /\ UNCHANGED <<wakeVars, targetVars, plannerVars, reported, sentNow, callerVars, clock>>

\* s_submit_time and the last test of stopped() before the command goes out.
OutputCommand ==
    /\ opc = "command"
    /\ IF clock > onext + LatenessLimit THEN OutputFault
       ELSE IF stopped THEN OutputReturn
       ELSE /\ opc' = "send"
            /\ UNCHANGED <<reason, onow, onext, checked, received, active, new, outputs>>
    /\ UNCHANGED <<wakeVars, targetVars, plannerVars, reported, sentNow, callerVars, clock>>

\* m_send: the command is submitted, or refused by an exception.
OutputSend ==
    /\ opc = "send"
    /\ \/ OutputFault /\ UNCHANGED sentNow
       \/ /\ outputs' = outputs + 1 /\ sentNow' = TRUE
          /\ received' = 0 /\ opc' = "finish"
          /\ UNCHANGED <<reason, onow, onext, checked, active, new>>
    /\ UNCHANGED <<wakeVars, targetVars, plannerVars, reported, callerVars, clock>>

\* s_done, the next period, and the published status.
OutputFinish ==
    /\ opc = "finish"
    /\ IF clock > onext + LatenessLimit
       THEN OutputFault /\ UNCHANGED reported
       ELSE /\ onext' = Advance(onext, OutputPeriod, clock)
            /\ reported' = outputs
            /\ opc' = "wait" /\ received' = 0
            /\ UNCHANGED <<reason, onow, checked, active, new, outputs>>
    /\ UNCHANGED <<wakeVars, targetVars, plannerVars, sentNow, callerVars, clock>>

OutputWait ==
    /\ opc = "wait"
    /\ \/ clock >= onext /\ UNCHANGED outputWake
       \/ outputWake > 0 /\ outputWake' = outputWake - 1
    /\ IF stopped THEN OutputReturn
       ELSE opc' = (IF clock >= onext THEN "begin" ELSE "wait") /\ UNCHANGED <<reason, loopVars>>
    /\ UNCHANGED <<planWake, targetVars, plannerVars, reported, sentNow, callerVars, clock>>

OutputRelease ==
    /\ opc = "release"
    /\ ReleaseTokens
    /\ opc' = "exit"
    /\ UNCHANGED <<reason, targetVars, plannerVars, loopVars, reported, sentNow, callerVars, clock>>

\* The scope guard publishes the last status on every way out.
OutputExit ==
    /\ opc = "exit"
    /\ reported' = outputs
    /\ opc' = "done"
    /\ UNCHANGED <<reason, wakeVars, targetVars, plannerVars, loopVars, sentNow, callerVars, clock>>

OutputStep ==
    \/ OutputTimer \/ OutputStart \/ OutputBegin \/ OutputTarget \/ OutputPlan
    \/ OutputCommand \/ OutputSend \/ OutputFinish \/ OutputWait \/ OutputRelease \/ OutputExit
    \/ \E r \in Receptions : OutputMeasure(r)

Tick ==
    /\ clock < MaxTime
    /\ clock' = clock + 1 /\ sentNow' = FALSE
    /\ UNCHANGED <<reason, wakeVars, targetVars, plannerVars, opc, loopVars, reported, callerVars>>

Next == (\E c \in Callers : CallerStep(c)) \/ PlanStep \/ OutputStep \/ Tick

Spec == Init /\ [][Next]_vars

\* Time passes, both workers run, the solver and m_send return, and a caller
\* that has begun write() or stop() goes on with it.  No call has to be made.
FairSpec ==
    /\ Spec
    /\ WF_vars(Tick) /\ WF_vars(PlanStep) /\ WF_vars(OutputStep)
    /\ \A c \in Callers : WF_vars(WriteStep(c)) /\ WF_vars(StopStep(c))

-----------------------------------------------------------------------------
Plan == [generation : Nat, origin : Nat]
PlanningLabels == {"read", "solve", "wait"}
LoopLabels == {"begin", "target", "measure", "plan", "command", "send", "finish", "wait"}

\* counting_semaphore<2>: a third token would be undefined behaviour.
TypeOK ==
    /\ reason \in Reasons /\ started \in BOOLEAN
    /\ targetTime \in Nat /\ firstTarget \in Nat /\ clock \in Nat
    /\ planWake \in 0..2 /\ outputWake \in 0..2
    /\ plans \in Plan /\ active \in Plan /\ new \in Plan
    /\ ppc \in PlanningLabels \cup {"start", "release", "exit", "done"}
    /\ opc \in LoopLabels \cup {"timer", "start", "release", "exit", "done"}
    /\ pnext \in Nat /\ origin \in Nat /\ onow \in Nat /\ onext \in Nat
    /\ checked \in Nat /\ received \in Nat /\ outputs \in Nat /\ reported \in Nat
    /\ cpc \in [Callers -> {"idle", "stamp", "start", "wake", "release", "join"}]
    /\ writes \in Nat /\ joined \in BOOLEAN /\ sentNow \in BOOLEAN

(* write(), "immutable after first wake": no worker is past its wake-up    *)
(* before a target is in the mailbox and m_first_target_time is written,   *)
(* although stop() hands out tokens for the same semaphores.               *)
WorkersWaitForTarget ==
    (ppc \in {"solve", "wait"} \/ opc \in LoopLabels) => started /\ firstTarget # 0

(* stop() joins both workers: once it has returned, to whichever of its    *)
(* callers, nothing is sent any more, whatever else was under way, and the *)
(* published counters are the final ones.                                  *)
StopIsFinal == joined => stopped /\ opc = "done" /\ ppc = "done" /\ reported = outputs

(* outputLoop: missed periods are skipped, never caught up.  However late  *)
(* the thread runs, two commands are never sent at one reading of a clock  *)
(* whose unit is at most a period.                                         *)
NoBursts == [][outputs' # outputs => ~sentNow]_vars

(* What the deadlines of outputLoop and planLoop are for: when the clock   *)
(* is last read before a command, the feedback, the target and the plan    *)
(* behind it are no older than their time-outs and one lateness limit.     *)
CommandsAreFresh ==
    [][opc = "command" /\ opc' = "send" =>
         /\ clock <= received + StateTimeout + LatenessLimit
         /\ clock <= targetTime + TargetTimeout + LatenessLimit
         /\ clock <= active.origin + PlanTimeout + LatenessLimit]_vars

\* The end of the cycle in which a time-out that runs from t is noticed, if
\* it is within the bound on the clock.
NoticedInTime(t, timeout) == t + timeout + LatenessLimit + OutputPeriod <= MaxTime
TargetRunsOut == started /\ NoticedInTime(targetTime, TargetTimeout)
PlanRunsOut ==
    /\ opc \in LoopLabels
    /\ NoticedInTime(IF active = NoPlan THEN firstTarget ELSE active.origin, PlanTimeout)

(* A session whose targets are not refreshed stops by itself, in whatever  *)
(* state the planner is.                                                   *)
TargetWatchdog == TargetRunsOut ~> (stopped \/ ~TargetRunsOut)

(* So does one whose plan is not replaced, or whose first plan never comes.*)
PlanWatchdog == PlanRunsOut ~> (stopped \/ ~PlanRunsOut)

(* stop() returns: whatever the workers wait for, the tokens reach them.   *)
StopReturns == \A c \in Callers : (cpc[c] \in {"release", "join"}) ~> (cpc[c] = "idle")

=============================================================================
