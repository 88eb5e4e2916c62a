------------------------- MODULE MPCSession_proofs -------------------------
(***************************************************************************)
(* Proofs for MPCSession: every set of callers, periods, time-outs and     *)
(* bounds that validateConfig admits.                                      *)
(***************************************************************************)
EXTENDS MPCSession, TLAPS

\* Who is on the way out has seen, or set, the stop reason.
Stopping ==
    /\ ppc \in {"release", "exit", "done"} => stopped
    /\ opc \in {"release", "exit", "done"} => stopped
    /\ \A c \in Callers : cpc[c] \in {"release", "join"} => stopped

Final ==
    /\ opc = "done" => reported = outputs
    /\ joined => opc = "done" /\ ppc = "done"

\* Only one thread wins the compare-exchange, only one caller is in write().
OneReleases ==
    /\ ppc = "release" => opc # "release"
    /\ \A c \in Callers : cpc[c] = "release" =>
         /\ ppc # "release" /\ opc # "release"
         /\ \A d \in Callers : cpc[d] = "release" => d = c
OneWrites ==
    \A c \in Callers : cpc[c] \in {"stamp", "start", "wake"} =>
        \A d \in Callers : cpc[d] \in {"stamp", "start", "wake"} => d = c

\* The first target is on record before the tokens it releases.
Targets ==
    /\ \A c \in Callers : /\ cpc[c] = "start" => ~started /\ targetTime # 0
                          /\ cpc[c] = "wake" => started
    /\ started => firstTarget # 0
    /\ ppc \in {"solve", "wait"} => started
    /\ ppc = "read" => started \/ stopped
    /\ opc \in LoopLabels => started

\* Each semaphore has at most the token of the first target and that of the
\* first stop.
Woken == started /\ \A c \in Callers : cpc[c] # "wake"
Released ==
    /\ stopped /\ ppc # "release" /\ opc # "release"
    /\ \A c \in Callers : cpc[c] # "release"
Issued == (IF Woken THEN 1 ELSE 0) + (IF Released THEN 1 ELSE 0)
Tokens == planWake <= Issued /\ outputWake <= Issued

\* What a cycle has established about s_next, the start of its period.
Times ==
    /\ clock # 0 /\ targetTime <= clock
    /\ opc = "begin" => onext <= clock
    /\ opc = "target" => onext <= onow /\ onow <= clock
    /\ opc = "measure" => onext <= clock /\ onext <= targetTime + TargetTimeout
    /\ opc = "plan" => /\ onext <= checked /\ onext <= targetTime + TargetTimeout
                       /\ checked <= received + StateTimeout
    /\ opc \in {"command", "send"} => /\ onext <= targetTime + TargetTimeout
                                      /\ onext <= received + StateTimeout
                                      /\ onext <= active.origin + PlanTimeout

\* After a command, the next period begins later than now.
Spacing ==
    sentNow => /\ opc \in {"finish", "wait", "release", "exit", "done"}
               /\ opc = "wait" => onext > clock

IInv == TypeOK /\ Stopping /\ Final /\ OneReleases /\ OneWrites /\ Targets
          /\ Tokens /\ Times /\ Spacing

-----------------------------------------------------------------------------
(* Advance (the end of both loops): the next period begins after "done".   *)
LEMMA AdvanceLater ==
    ASSUME NEW next \in Nat, NEW period \in Nat \ {0}, NEW done \in Nat
    PROVE  Advance(next, period, done) \in Nat /\ Advance(next, period, done) > done
<1> DEFINE n == next + period
<1>1. CASE n > done
  BY <1>1 DEF Advance
<1>2. CASE n <= done
  <2> DEFINE x == done - n
             q == x \div period
  <2>1. x \in Nat
    BY <1>2
  <2>2. q \in Nat /\ x < (q + 1) * period
    BY <2>1, SMT
  <2>3. (q + 1) * period \in Nat
    BY <2>2, SMT
  <2>4. Advance(next, period, done) = n + (q + 1) * period
    BY <1>2 DEF Advance
  <2> HIDE DEF q
  <2>5. QED
    BY <2>1, <2>2, <2>3, <2>4, SMT
<1>3. QED
  BY <1>1, <1>2

(* The initial state satisfies the invariant.                              *)
LEMMA InitInv == Init => IInv
<1> SUFFICES ASSUME Init PROVE IInv
  OBVIOUS
<1>0. started \in BOOLEAN /\ joined \in BOOLEAN /\ sentNow \in BOOLEAN
  BY Zenon DEF Init
<1>1. TypeOK
  BY <1>0 DEF Init, TypeOK, Reasons, Plan, NoPlan, PlanningLabels, LoopLabels
<1>2. Stopping /\ Final /\ OneReleases /\ OneWrites
  BY DEF Init, Stopping, Final, OneReleases, OneWrites
<1>3. Targets /\ Tokens
  BY DEF Init, Targets, Tokens, Issued, Woken, Released, stopped, LoopLabels
<1>4. Times /\ Spacing
  BY DEF Init, Times, Spacing
<1>5. QED
  BY <1>1, <1>2, <1>3, <1>4 DEF IInv

(* A caller's step preserves the invariant.                                *)
LEMMA CallerInv == ASSUME IInv, NEW c \in Callers, CallerStep(c) PROVE IInv'
<1> USE DEF wakeVars, targetVars, plannerVars, loopVars, outputVars, callerVars, stopped
<1>1. CASE WriteCheck(c)
  <2>1. TypeOK'
    BY <1>1 DEF WriteCheck, Writing, IInv, TypeOK, Plan, NoPlan, Reasons,
       PlanningLabels, LoopLabels, Tokens, Issued, Woken, Released
  <2>2. Stopping' /\ Final' /\ OneReleases' /\ OneWrites'
    BY <1>1 DEF WriteCheck, Writing, IInv, TypeOK, Stopping, Final, OneReleases,
       OneWrites
  <2>3. Targets' /\ Tokens'
    BY <1>1 DEF WriteCheck, Writing, IInv, TypeOK, Targets, Tokens, LoopLabels, Times,
       Issued, Woken, Released, Stopping, OneReleases, OneWrites
  <2>4. Times' /\ Spacing'
    BY <1>1 DEF WriteCheck, Writing, IInv, TypeOK, Times, Spacing, Plan, NoPlan
  <2>5. QED
    BY <2>1, <2>2, <2>3, <2>4 DEF IInv
<1>2. CASE WriteStamp(c)
  <2>1. TypeOK'
    BY <1>2, ConfigAssumption DEF WriteStamp, IInv, TypeOK, Plan, NoPlan, Reasons,
       PlanningLabels, LoopLabels, Tokens, Issued, Woken, Released
  <2>2. Stopping' /\ Final' /\ OneReleases' /\ OneWrites'
    BY <1>2, ConfigAssumption DEF WriteStamp, IInv, TypeOK, Stopping, Final,
       OneReleases, OneWrites
  <2>3. Targets' /\ Tokens'
    BY <1>2, ConfigAssumption DEF WriteStamp, IInv, TypeOK, Targets, Tokens, LoopLabels,
       Times, Issued, Woken, Released, Stopping, OneReleases, OneWrites
  <2>4. Times' /\ Spacing'
    BY <1>2, ConfigAssumption DEF WriteStamp, IInv, TypeOK, Times, Spacing, Plan, NoPlan
  <2>5. QED
    BY <2>1, <2>2, <2>3, <2>4 DEF IInv
<1>3. CASE WriteStart(c)
  <2>1. TypeOK'
    BY <1>3 DEF WriteStart, IInv, TypeOK, Plan, NoPlan, Reasons, PlanningLabels,
       LoopLabels, Tokens, Issued, Woken, Released
  <2>2. Stopping' /\ Final' /\ OneReleases' /\ OneWrites'
    BY <1>3 DEF WriteStart, IInv, TypeOK, Stopping, Final, OneReleases, OneWrites
  <2>3. Targets' /\ Tokens'
    BY <1>3 DEF WriteStart, IInv, TypeOK, Targets, Tokens, LoopLabels, Times, Issued,
       Woken, Released, Stopping, OneReleases, OneWrites
  <2>4. Times' /\ Spacing'
    BY <1>3 DEF WriteStart, IInv, TypeOK, Times, Spacing, Plan, NoPlan
  <2>5. QED
    BY <2>1, <2>2, <2>3, <2>4 DEF IInv
<1>4. CASE WriteWake(c)
  <2>1. TypeOK'
    BY <1>4 DEF WriteWake, IInv, TypeOK, Plan, NoPlan, Reasons, PlanningLabels,
       LoopLabels, Tokens, Issued, Woken, Released
  <2>2. Stopping' /\ Final' /\ OneReleases' /\ OneWrites'
    BY <1>4 DEF WriteWake, IInv, TypeOK, Stopping, Final, OneReleases, OneWrites
  <2>3. Targets' /\ Tokens'
    BY <1>4 DEF WriteWake, IInv, TypeOK, Targets, Tokens, LoopLabels, Times, Issued,
       Woken, Released, Stopping, OneReleases, OneWrites
  <2>4. Times' /\ Spacing'
    BY <1>4 DEF WriteWake, IInv, TypeOK, Times, Spacing, Plan, NoPlan
  <2>5. QED
    BY <2>1, <2>2, <2>3, <2>4 DEF IInv
<1>5. CASE StopRequest(c)
  <2>1. TypeOK'
    BY <1>5 DEF StopRequest, Raise, IInv, TypeOK, Plan, NoPlan, Reasons, PlanningLabels,
       LoopLabels, Tokens, Issued, Woken, Released
  <2>2. Stopping' /\ Final' /\ OneReleases' /\ OneWrites'
    BY <1>5 DEF StopRequest, Raise, IInv, TypeOK, Stopping, Final, OneReleases,
       OneWrites
  <2>3. Targets' /\ Tokens'
    BY <1>5 DEF StopRequest, Raise, IInv, TypeOK, Targets, Tokens, LoopLabels, Times,
       Issued, Woken, Released, Stopping, OneReleases, OneWrites
  <2>4. Times' /\ Spacing'
    BY <1>5 DEF StopRequest, Raise, IInv, TypeOK, Times, Spacing, Plan, NoPlan
  <2>5. QED
    BY <2>1, <2>2, <2>3, <2>4 DEF IInv
<1>6. CASE StopRelease(c)
  <2>1. TypeOK'
    BY <1>6 DEF StopRelease, ReleaseTokens, IInv, TypeOK, Plan, NoPlan, Reasons,
       PlanningLabels, LoopLabels, Tokens, Issued, Woken, Released
  <2>2. Stopping' /\ Final' /\ OneReleases' /\ OneWrites'
    BY <1>6 DEF StopRelease, ReleaseTokens, IInv, TypeOK, Stopping, Final, OneReleases,
       OneWrites
  <2>3. Targets' /\ Tokens'
    BY <1>6 DEF StopRelease, ReleaseTokens, IInv, TypeOK, Targets, Tokens, LoopLabels,
       Times, Issued, Woken, Released, Stopping, OneReleases, OneWrites
  <2>4. Times' /\ Spacing'
    BY <1>6 DEF StopRelease, ReleaseTokens, IInv, TypeOK, Times, Spacing, Plan, NoPlan
  <2>5. QED
    BY <2>1, <2>2, <2>3, <2>4 DEF IInv
<1>7. CASE StopJoin(c)
  <2>1. TypeOK'
    BY <1>7 DEF StopJoin, IInv, TypeOK, Plan, NoPlan, Reasons, PlanningLabels,
       LoopLabels, Tokens, Issued, Woken, Released
  <2>2. Stopping' /\ Final' /\ OneReleases' /\ OneWrites'
    BY <1>7 DEF StopJoin, IInv, TypeOK, Stopping, Final, OneReleases, OneWrites
  <2>3. Targets' /\ Tokens'
    BY <1>7 DEF StopJoin, IInv, TypeOK, Targets, Tokens, LoopLabels, Times, Issued,
       Woken, Released, Stopping, OneReleases, OneWrites
  <2>4. Times' /\ Spacing'
    BY <1>7 DEF StopJoin, IInv, TypeOK, Times, Spacing, Plan, NoPlan
  <2>5. QED
    BY <2>1, <2>2, <2>3, <2>4 DEF IInv
<1>8. QED
  BY <1>1, <1>2, <1>3, <1>4, <1>5, <1>6, <1>7 DEF CallerStep, WriteStep, StopStep

(* A planner step preserves the invariant.                                 *)
LEMMA PlanInv == ASSUME IInv, PlanStep PROVE IInv'
<1> USE DEF wakeVars, targetVars, plannerVars, loopVars, outputVars, callerVars, stopped
<1>1. CASE PlanStart
  <2>1. TypeOK'
    BY <1>1 DEF PlanStart, IInv, TypeOK, Plan, NoPlan, Reasons, PlanningLabels,
       LoopLabels, Tokens, Issued, Woken, Released
  <2>2. Stopping' /\ Final' /\ OneReleases' /\ OneWrites'
    BY <1>1 DEF PlanStart, IInv, TypeOK, Stopping, Final, OneReleases, OneWrites
  <2>3. Targets' /\ Tokens'
    BY <1>1 DEF PlanStart, IInv, TypeOK, Targets, Tokens, LoopLabels, Times, Issued,
       Woken, Released, Stopping, OneReleases, OneWrites
  <2>4. Times' /\ Spacing'
    BY <1>1 DEF PlanStart, IInv, TypeOK, Times, Spacing, Plan, NoPlan
  <2>5. QED
    BY <2>1, <2>2, <2>3, <2>4 DEF IInv
<1>2. CASE PlanWait
  <2>1. TypeOK'
    BY <1>2 DEF PlanWait, IInv, TypeOK, Plan, NoPlan, Reasons, PlanningLabels,
       LoopLabels, Tokens, Issued, Woken, Released
  <2>2. Stopping' /\ Final' /\ OneReleases' /\ OneWrites'
    BY <1>2 DEF PlanWait, IInv, TypeOK, Stopping, Final, OneReleases, OneWrites
  <2>3. Targets' /\ Tokens'
    BY <1>2 DEF PlanWait, IInv, TypeOK, Targets, Tokens, LoopLabels, Times, Issued,
       Woken, Released, Stopping, OneReleases, OneWrites
  <2>4. Times' /\ Spacing'
    BY <1>2 DEF PlanWait, IInv, TypeOK, Times, Spacing, Plan, NoPlan
  <2>5. QED
    BY <2>1, <2>2, <2>3, <2>4 DEF IInv
<1>3. CASE PlanRelease
  <2>1. TypeOK'
    BY <1>3 DEF PlanRelease, ReleaseTokens, IInv, TypeOK, Plan, NoPlan, Reasons,
       PlanningLabels, LoopLabels, Tokens, Issued, Woken, Released
  <2>2. Stopping' /\ Final' /\ OneReleases' /\ OneWrites'
    BY <1>3 DEF PlanRelease, ReleaseTokens, IInv, TypeOK, Stopping, Final, OneReleases,
       OneWrites
  <2>3. Targets' /\ Tokens'
    BY <1>3 DEF PlanRelease, ReleaseTokens, IInv, TypeOK, Targets, Tokens, LoopLabels,
       Times, Issued, Woken, Released, Stopping, OneReleases, OneWrites
  <2>4. Times' /\ Spacing'
    BY <1>3 DEF PlanRelease, ReleaseTokens, IInv, TypeOK, Times, Spacing, Plan, NoPlan
  <2>5. QED
    BY <2>1, <2>2, <2>3, <2>4 DEF IInv
<1>4. CASE PlanExit
  <2>1. TypeOK'
    BY <1>4 DEF PlanExit, IInv, TypeOK, Plan, NoPlan, Reasons, PlanningLabels,
       LoopLabels, Tokens, Issued, Woken, Released
  <2>2. Stopping' /\ Final' /\ OneReleases' /\ OneWrites'
    BY <1>4 DEF PlanExit, IInv, TypeOK, Stopping, Final, OneReleases, OneWrites
  <2>3. Targets' /\ Tokens'
    BY <1>4 DEF PlanExit, IInv, TypeOK, Targets, Tokens, LoopLabels, Times, Issued,
       Woken, Released, Stopping, OneReleases, OneWrites
  <2>4. Times' /\ Spacing'
    BY <1>4 DEF PlanExit, IInv, TypeOK, Times, Spacing, Plan, NoPlan
  <2>5. QED
    BY <2>1, <2>2, <2>3, <2>4 DEF IInv
<1>5. CASE \E r \in Receptions : PlanRead(r)
  <2>1. TypeOK'
    BY <1>5 DEF PlanRead, PlanFault, Raise, Receptions, Recent, IInv, TypeOK, Plan,
       NoPlan, Reasons, PlanningLabels, LoopLabels, Tokens, Issued, Woken, Released
  <2>2. Stopping' /\ Final' /\ OneReleases' /\ OneWrites'
    BY <1>5 DEF PlanRead, PlanFault, Raise, Receptions, Recent, IInv, TypeOK, Stopping,
       Final, OneReleases, OneWrites
  <2>3. Targets' /\ Tokens'
    BY <1>5 DEF PlanRead, PlanFault, Raise, Receptions, Recent, IInv, TypeOK, Targets,
       Tokens, LoopLabels, Times, Issued, Woken, Released, Stopping, OneReleases,
       OneWrites
  <2>4. Times' /\ Spacing'
    BY <1>5 DEF PlanRead, PlanFault, Raise, Receptions, Recent, IInv, TypeOK, Times,
       Spacing, Plan, NoPlan
  <2>5. QED
    BY <2>1, <2>2, <2>3, <2>4 DEF IInv
<1>6. CASE \E ok \in BOOLEAN : PlanSolved(ok)
  <2>1. Advance(pnext, PlanningPeriod, clock) \in Nat /\ Advance(pnext, PlanningPeriod, clock) > clock
    BY AdvanceLater, ConfigAssumption DEF IInv, TypeOK
  <2>2. TypeOK'
    BY <1>6, <2>1 DEF PlanSolved, IInv, TypeOK, Plan, NoPlan, Reasons, PlanningLabels,
       LoopLabels, Tokens, Issued, Woken, Released
  <2>3. Stopping' /\ Final' /\ OneReleases' /\ OneWrites'
    BY <1>6, <2>1 DEF PlanSolved, IInv, TypeOK, Stopping, Final, OneReleases, OneWrites
  <2>4. Targets' /\ Tokens'
    BY <1>6, <2>1 DEF PlanSolved, IInv, TypeOK, Targets, Tokens, LoopLabels, Times,
       Issued, Woken, Released, Stopping, OneReleases, OneWrites
  <2>5. Times' /\ Spacing'
    BY <1>6, <2>1 DEF PlanSolved, IInv, TypeOK, Times, Spacing, Plan, NoPlan
  <2>6. QED
    BY <2>2, <2>3, <2>4, <2>5 DEF IInv
<1>7. QED
  BY <1>1, <1>2, <1>3, <1>4, <1>5, <1>6 DEF PlanStep

(* An output step preserves the invariant.                                 *)
LEMMA OutputInv == ASSUME IInv, OutputStep PROVE IInv'
<1> USE DEF wakeVars, targetVars, plannerVars, loopVars, outputVars, callerVars, stopped
<1>0. CASE OutputTimer
  <2>1. TypeOK'
    BY <1>0 DEF OutputTimer, OutputFault, LeaveLoop, Raise, IInv, TypeOK, Plan, NoPlan, Reasons,
       LoopLabels
  <2>2. Stopping' /\ Final' /\ OneReleases' /\ OneWrites'
    BY <1>0 DEF OutputTimer, OutputFault, LeaveLoop, Raise, IInv, TypeOK, Stopping, Final,
       OneReleases, OneWrites, Reasons
  <2>3. Targets' /\ Tokens'
    BY <1>0 DEF OutputTimer, OutputFault, LeaveLoop, Raise, IInv, TypeOK, Targets, Tokens,
       LoopLabels, Issued, Woken, Released
  <2>4. Times' /\ Spacing'
    BY <1>0 DEF OutputTimer, OutputFault, LeaveLoop, Raise, IInv, TypeOK, Times, Spacing
  <2>5. QED
    BY <2>1, <2>2, <2>3, <2>4 DEF IInv
<1>1. CASE OutputStart
  <2>1. TypeOK'
    BY <1>1 DEF OutputStart, IInv, TypeOK, Plan, NoPlan, Reasons, PlanningLabels,
       LoopLabels, Tokens, Issued, Woken, Released
  <2>2. Stopping' /\ Final' /\ OneReleases' /\ OneWrites'
    BY <1>1 DEF OutputStart, IInv, TypeOK, Stopping, Final, OneReleases, OneWrites
  <2>3. Targets' /\ Tokens'
    BY <1>1 DEF OutputStart, IInv, TypeOK, Targets, Tokens, LoopLabels, Times, Issued,
       Woken, Released, Stopping, OneReleases, OneWrites
  <2>4. Times' /\ Spacing'
    BY <1>1 DEF OutputStart, IInv, TypeOK, Times, Spacing, Plan, NoPlan
  <2>5. QED
    BY <2>1, <2>2, <2>3, <2>4 DEF IInv
<1>2. CASE OutputBegin
  <2>1. TypeOK'
    BY <1>2 DEF OutputBegin, OutputFault, OutputReturn, LeaveLoop, Raise, IInv, TypeOK,
       Plan, NoPlan, Reasons, PlanningLabels, LoopLabels, Tokens, Issued, Woken,
       Released
  <2>2. Stopping' /\ Final' /\ OneReleases' /\ OneWrites'
    BY <1>2 DEF OutputBegin, OutputFault, OutputReturn, LeaveLoop, Raise, IInv, TypeOK,
       Stopping, Final, OneReleases, OneWrites
  <2>3. Targets' /\ Tokens'
    BY <1>2 DEF OutputBegin, OutputFault, OutputReturn, LeaveLoop, Raise, IInv, TypeOK,
       Targets, Tokens, LoopLabels, Times, Issued, Woken, Released, Stopping,
       OneReleases, OneWrites
  <2>4. Times' /\ Spacing'
    BY <1>2 DEF OutputBegin, OutputFault, OutputReturn, LeaveLoop, Raise, IInv, TypeOK,
       Times, Spacing, Plan, NoPlan
  <2>5. QED
    BY <2>1, <2>2, <2>3, <2>4 DEF IInv
<1>3. CASE OutputTarget
  <2>1. TypeOK'
    BY <1>3, ConfigAssumption DEF OutputTarget, OutputFault, OutputReturn, LeaveLoop,
       Raise, IInv, TypeOK, Plan, NoPlan, Reasons, PlanningLabels, LoopLabels, Tokens,
       Issued, Woken, Released
  <2>2. Stopping' /\ Final' /\ OneReleases' /\ OneWrites'
    BY <1>3, ConfigAssumption DEF OutputTarget, OutputFault, OutputReturn, LeaveLoop,
       Raise, IInv, TypeOK, Stopping, Final, OneReleases, OneWrites
  <2>3. Targets' /\ Tokens'
    BY <1>3, ConfigAssumption DEF OutputTarget, OutputFault, OutputReturn, LeaveLoop,
       Raise, IInv, TypeOK, Targets, Tokens, LoopLabels, Times, Issued, Woken, Released,
       Stopping, OneReleases, OneWrites
  <2>4. Times' /\ Spacing'
    BY <1>3, ConfigAssumption DEF OutputTarget, OutputFault, OutputReturn, LeaveLoop,
       Raise, IInv, TypeOK, Times, Spacing, Plan, NoPlan
  <2>5. QED
    BY <2>1, <2>2, <2>3, <2>4 DEF IInv
<1>4. CASE OutputPlan
  <2>1. TypeOK'
    BY <1>4, ConfigAssumption DEF OutputPlan, PlanTooOld, NoPlanInTime, OutputFault,
       OutputReturn, LeaveLoop, Raise, IInv, TypeOK, Plan, NoPlan, Reasons,
       PlanningLabels, LoopLabels, Tokens, Issued, Woken, Released
  <2>2. Stopping' /\ Final' /\ OneReleases' /\ OneWrites'
    BY <1>4, ConfigAssumption DEF OutputPlan, PlanTooOld, NoPlanInTime, OutputFault,
       OutputReturn, LeaveLoop, Raise, IInv, TypeOK, Stopping, Final, OneReleases,
       OneWrites
  <2>3. Targets' /\ Tokens'
    BY <1>4, ConfigAssumption DEF OutputPlan, PlanTooOld, NoPlanInTime, OutputFault,
       OutputReturn, LeaveLoop, Raise, IInv, TypeOK, Targets, Tokens, LoopLabels, Times,
       Issued, Woken, Released, Stopping, OneReleases, OneWrites
  <2>4. Times' /\ Spacing'
    BY <1>4, ConfigAssumption DEF OutputPlan, PlanTooOld, NoPlanInTime, OutputFault,
       OutputReturn, LeaveLoop, Raise, IInv, TypeOK, Times, Spacing, Plan, NoPlan
  <2>5. QED
    BY <2>1, <2>2, <2>3, <2>4 DEF IInv
<1>5. CASE OutputCommand
  <2>1. TypeOK'
    BY <1>5 DEF OutputCommand, OutputFault, OutputReturn, LeaveLoop, Raise, IInv,
       TypeOK, Plan, NoPlan, Reasons, PlanningLabels, LoopLabels, Tokens, Issued, Woken,
       Released
  <2>2. Stopping' /\ Final' /\ OneReleases' /\ OneWrites'
    BY <1>5 DEF OutputCommand, OutputFault, OutputReturn, LeaveLoop, Raise, IInv,
       TypeOK, Stopping, Final, OneReleases, OneWrites
  <2>3. Targets' /\ Tokens'
    BY <1>5 DEF OutputCommand, OutputFault, OutputReturn, LeaveLoop, Raise, IInv,
       TypeOK, Targets, Tokens, LoopLabels, Times, Issued, Woken, Released, Stopping,
       OneReleases, OneWrites
  <2>4. Times' /\ Spacing'
    BY <1>5 DEF OutputCommand, OutputFault, OutputReturn, LeaveLoop, Raise, IInv,
       TypeOK, Times, Spacing, Plan, NoPlan
  <2>5. QED
    BY <2>1, <2>2, <2>3, <2>4 DEF IInv
<1>6. CASE OutputSend
  <2>1. sentNow' \in BOOLEAN
    BY <1>6, Zenon DEF OutputSend, IInv, TypeOK
  <2>2. TypeOK'
    BY <1>6, <2>1 DEF OutputSend, OutputFault, OutputReturn, LeaveLoop, Raise, IInv,
       TypeOK, Plan, NoPlan, Reasons, PlanningLabels, LoopLabels, Tokens, Issued, Woken,
       Released
  <2>3. Stopping' /\ Final' /\ OneReleases' /\ OneWrites'
    BY <1>6, <2>1 DEF OutputSend, OutputFault, OutputReturn, LeaveLoop, Raise, IInv,
       TypeOK, Stopping, Final, OneReleases, OneWrites
  <2>4. Targets' /\ Tokens'
    BY <1>6, <2>1 DEF OutputSend, OutputFault, OutputReturn, LeaveLoop, Raise, IInv,
       TypeOK, Targets, Tokens, LoopLabels, Times, Issued, Woken, Released, Stopping,
       OneReleases, OneWrites
  <2>5. Times' /\ Spacing'
    BY <1>6, <2>1 DEF OutputSend, OutputFault, OutputReturn, LeaveLoop, Raise, IInv,
       TypeOK, Times, Spacing, Plan, NoPlan
  <2>6. QED
    BY <2>2, <2>3, <2>4, <2>5 DEF IInv
<1>7. CASE OutputFinish
  <2>1. Advance(onext, OutputPeriod, clock) \in Nat /\ Advance(onext, OutputPeriod, clock) > clock
    BY AdvanceLater, ConfigAssumption DEF IInv, TypeOK
  <2>2. TypeOK'
    BY <1>7, <2>1 DEF OutputFinish, OutputFault, OutputReturn, LeaveLoop, Raise, IInv,
       TypeOK, Plan, NoPlan, Reasons, PlanningLabels, LoopLabels, Tokens, Issued, Woken,
       Released
  <2>3. Stopping' /\ Final' /\ OneReleases' /\ OneWrites'
    BY <1>7, <2>1 DEF OutputFinish, OutputFault, OutputReturn, LeaveLoop, Raise, IInv,
       TypeOK, Stopping, Final, OneReleases, OneWrites
  <2>4. Targets' /\ Tokens'
    BY <1>7, <2>1 DEF OutputFinish, OutputFault, OutputReturn, LeaveLoop, Raise, IInv,
       TypeOK, Targets, Tokens, LoopLabels, Times, Issued, Woken, Released, Stopping,
       OneReleases, OneWrites
  <2>5. Times' /\ Spacing'
    BY <1>7, <2>1 DEF OutputFinish, OutputFault, OutputReturn, LeaveLoop, Raise, IInv,
       TypeOK, Times, Spacing, Plan, NoPlan
  <2>6. QED
    BY <2>2, <2>3, <2>4, <2>5 DEF IInv
<1>8. CASE OutputWait
  <2>1. TypeOK'
    BY <1>8 DEF OutputWait, OutputFault, OutputReturn, LeaveLoop, Raise, IInv, TypeOK,
       Plan, NoPlan, Reasons, PlanningLabels, LoopLabels, Tokens, Issued, Woken,
       Released
  <2>2. Stopping' /\ Final' /\ OneReleases' /\ OneWrites'
    BY <1>8 DEF OutputWait, OutputFault, OutputReturn, LeaveLoop, Raise, IInv, TypeOK,
       Stopping, Final, OneReleases, OneWrites
  <2>3. Targets' /\ Tokens'
    BY <1>8 DEF OutputWait, OutputFault, OutputReturn, LeaveLoop, Raise, IInv, TypeOK,
       Targets, Tokens, LoopLabels, Times, Issued, Woken, Released, Stopping,
       OneReleases, OneWrites
  <2>4. Times' /\ Spacing'
    BY <1>8 DEF OutputWait, OutputFault, OutputReturn, LeaveLoop, Raise, IInv, TypeOK,
       Times, Spacing, Plan, NoPlan
  <2>5. QED
    BY <2>1, <2>2, <2>3, <2>4 DEF IInv
<1>9. CASE OutputRelease
  <2>1. TypeOK'
    BY <1>9 DEF OutputRelease, ReleaseTokens, IInv, TypeOK, Plan, NoPlan, Reasons,
       PlanningLabels, LoopLabels, Tokens, Issued, Woken, Released
  <2>2. Stopping' /\ Final' /\ OneReleases' /\ OneWrites'
    BY <1>9 DEF OutputRelease, ReleaseTokens, IInv, TypeOK, Stopping, Final,
       OneReleases, OneWrites
  <2>3. Targets' /\ Tokens'
    BY <1>9 DEF OutputRelease, ReleaseTokens, IInv, TypeOK, Targets, Tokens, LoopLabels,
       Times, Issued, Woken, Released, Stopping, OneReleases, OneWrites
  <2>4. Times' /\ Spacing'
    BY <1>9 DEF OutputRelease, ReleaseTokens, IInv, TypeOK, Times, Spacing, Plan, NoPlan
  <2>5. QED
    BY <2>1, <2>2, <2>3, <2>4 DEF IInv
<1>10. CASE OutputExit
  <2>1. TypeOK'
    BY <1>10 DEF OutputExit, IInv, TypeOK, Plan, NoPlan, Reasons, PlanningLabels,
       LoopLabels, Tokens, Issued, Woken, Released
  <2>2. Stopping' /\ Final' /\ OneReleases' /\ OneWrites'
    BY <1>10 DEF OutputExit, IInv, TypeOK, Stopping, Final, OneReleases, OneWrites
  <2>3. Targets' /\ Tokens'
    BY <1>10 DEF OutputExit, IInv, TypeOK, Targets, Tokens, LoopLabels, Times, Issued,
       Woken, Released, Stopping, OneReleases, OneWrites
  <2>4. Times' /\ Spacing'
    BY <1>10 DEF OutputExit, IInv, TypeOK, Times, Spacing, Plan, NoPlan
  <2>5. QED
    BY <2>1, <2>2, <2>3, <2>4 DEF IInv
<1>11. CASE \E r \in Receptions : OutputMeasure(r)
  <2>1. TypeOK'
    BY <1>11, ConfigAssumption DEF OutputMeasure, Receptions, Recent, OutputFault,
       OutputReturn, LeaveLoop, Raise, IInv, TypeOK, Plan, NoPlan, Reasons,
       PlanningLabels, LoopLabels, Tokens, Issued, Woken, Released
  <2>2. Stopping' /\ Final' /\ OneReleases' /\ OneWrites'
    BY <1>11, ConfigAssumption DEF OutputMeasure, Receptions, Recent, OutputFault,
       OutputReturn, LeaveLoop, Raise, IInv, TypeOK, Stopping, Final, OneReleases,
       OneWrites
  <2>3. Targets' /\ Tokens'
    BY <1>11, ConfigAssumption DEF OutputMeasure, Receptions, Recent, OutputFault,
       OutputReturn, LeaveLoop, Raise, IInv, TypeOK, Targets, Tokens, LoopLabels, Times,
       Issued, Woken, Released, Stopping, OneReleases, OneWrites
  <2>4. Times' /\ Spacing'
    BY <1>11, ConfigAssumption DEF OutputMeasure, Receptions, Recent, OutputFault,
       OutputReturn, LeaveLoop, Raise, IInv, TypeOK, Times, Spacing, Plan, NoPlan
  <2>5. QED
    BY <2>1, <2>2, <2>3, <2>4 DEF IInv
<1>12. QED
  BY <1>0, <1>1, <1>2, <1>3, <1>4, <1>5, <1>6, <1>7, <1>8, <1>9, <1>10, <1>11 DEF OutputStep

(* Every step of the session preserves the invariant.                      *)
LEMMA NextInv == IInv /\ [Next]_vars => IInv'
<1> SUFFICES ASSUME IInv, [Next]_vars PROVE IInv'
  OBVIOUS
<1>1. ASSUME NEW c \in Callers, CallerStep(c) PROVE IInv'
  BY <1>1, CallerInv
<1>2. CASE PlanStep
  BY <1>2, PlanInv
<1>3. CASE OutputStep
  BY <1>3, OutputInv
<1>4. CASE Tick
  <2>0. sentNow' \in BOOLEAN
    BY <1>4, Zenon DEF Tick
  <2>1. TypeOK'
    BY <1>4, <2>0 DEF Tick, IInv, TypeOK, wakeVars, targetVars, plannerVars, loopVars, callerVars
  <2>2. Times' /\ Spacing'
    BY <1>4 DEF Tick, IInv, TypeOK, Times, Spacing, targetVars, loopVars
  <2>3. QED
    BY <1>4, <2>1, <2>2 DEF Tick, IInv, Stopping, Final, OneReleases, OneWrites, Targets,
       Tokens, Issued, Woken, Released, stopped, wakeVars, targetVars, plannerVars,
       loopVars, callerVars
<1>5. CASE UNCHANGED vars
  BY <1>5 DEF vars, IInv, TypeOK, Stopping, Final, OneReleases, OneWrites, Targets, Tokens,
     Issued, Woken, Released, Times, Spacing, stopped, wakeVars, targetVars, plannerVars,
     loopVars, outputVars, callerVars
<1>6. QED
  BY <1>1, <1>2, <1>3, <1>4, <1>5 DEF Next

(* The inductive invariant holds throughout every session.                 *)
THEOREM SessionInvariant == Spec => []IInv
  BY InitInv, NextInv, PTL DEF Spec

(* requestStop, write: every variable keeps its type; in particular no     *)
(* semaphore ever gets a third token.                                      *)
THEOREM SessionTypeCorrect == Spec => []TypeOK
<1>1. IInv => TypeOK
  BY DEF IInv
<1>2. QED
  BY <1>1, SessionInvariant, PTL

(* stop: after it has returned both workers are gone, nothing is sent, and *)
(* the published counters are final.                                       *)
THEOREM SessionStops == Spec => []StopIsFinal
<1>1. IInv => StopIsFinal
  BY DEF IInv, StopIsFinal, Final, Stopping
<1>2. QED
  BY <1>1, SessionInvariant, PTL

(* write: workers run only when the first target is on record.             *)
THEOREM SessionWaitsForTarget == Spec => []WorkersWaitForTarget
<1>1. IInv => WorkersWaitForTarget
  BY DEF IInv, WorkersWaitForTarget, Targets
<1>2. QED
  BY <1>1, SessionInvariant, PTL

(* outputLoop: what a command rests on is bounded in age when it is sent.  *)
THEOREM SessionIsFresh == Spec => CommandsAreFresh
<1> DEFINE Fresh == opc = "command" /\ opc' = "send" =>
                      /\ clock <= received + StateTimeout + LatenessLimit
                      /\ clock <= targetTime + TargetTimeout + LatenessLimit
                      /\ clock <= active.origin + PlanTimeout + LatenessLimit
<1>1. IInv /\ [Next]_vars => [Fresh]_vars
  <2> SUFFICES ASSUME IInv, Next, opc = "command", opc' = "send" PROVE Fresh
    BY DEF vars
  <2>1. OutputCommand
    <3>1. opc' # opc
      OBVIOUS
    <3>2. \A c \in Callers : ~CallerStep(c)
      BY <3>1 DEF CallerStep, WriteStep, StopStep, WriteCheck, WriteStamp, WriteStart,
         WriteWake, StopRequest, StopRelease, StopJoin, outputVars
    <3>3. ~PlanStep /\ ~Tick
      BY <3>1 DEF PlanStep, PlanStart, PlanWait, PlanRelease, PlanExit, PlanRead, PlanSolved,
         Tick, outputVars
    <3>4. QED
      BY <3>2, <3>3 DEF Next, OutputStep, OutputTimer, OutputStart, OutputBegin, OutputTarget, OutputPlan,
         OutputSend, OutputFinish, OutputWait, OutputRelease, OutputExit, OutputMeasure
  <2>2. clock <= onext + LatenessLimit
    BY <2>1, ConfigAssumption DEF OutputCommand, OutputFault, IInv, TypeOK
  <2>3. QED
    BY <2>2, ConfigAssumption DEF IInv, TypeOK, Times, Plan
<1>2. QED
  BY <1>1, SessionInvariant, PTL DEF Spec, CommandsAreFresh

(* outputLoop: missed periods are skipped, never caught up.                *)
THEOREM SessionSkips == Spec => NoBursts
<1>1. IInv /\ [Next]_vars => [outputs' # outputs => ~sentNow]_vars
  <2> SUFFICES ASSUME IInv, Next, outputs' # outputs PROVE ~sentNow
    BY DEF vars
  <2>1. \A c \in Callers : ~CallerStep(c)
    BY DEF CallerStep, WriteStep, StopStep, WriteCheck, WriteStamp, WriteStart,
       WriteWake, StopRequest, StopRelease, StopJoin, outputVars, loopVars
  <2>2. ~PlanStep /\ ~Tick
    BY DEF PlanStep, PlanStart, PlanWait, PlanRelease, PlanExit, PlanRead, PlanSolved,
       Tick, outputVars, loopVars
  <2>3. opc = "send"
    BY <2>1, <2>2 DEF Next, OutputStep, OutputTimer, OutputStart, OutputBegin, OutputTarget, OutputPlan,
       OutputCommand, OutputSend, OutputFinish, OutputWait, OutputRelease, OutputExit,
       OutputMeasure, OutputFault, OutputReturn, LeaveLoop, loopVars
  <2>4. QED
    BY <2>3 DEF IInv, Spacing
<1>2. QED
  BY <1>1, SessionInvariant, PTL DEF Spec, NoBursts

=============================================================================
