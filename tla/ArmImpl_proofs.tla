---------------------------- MODULE ArmImpl_proofs ----------------------------
(***************************************************************************)
(* Proofs about the control sessions of the arm, for any sets of loops,    *)
(* handles and modes and any number of lifecycle calls.                    *)
(***************************************************************************)
EXTENDS ArmImpl, TLAPS

\* Between the end of s_stopControlLocked and the return of the call.
Quiet == {"rpc", "arm", "ensure", "unstop", "issue"}

\* What a call's place says of the call: who it starts, and that a loop it
\* starts is not running.
Calling ==
    /\ call.at \in {"flag", "running", "wake", "release", "invalidate"} => current < MaxGeneration
    /\ phase = "draining" <=> call.at = "drain"
    /\ call.at = "arm" => call.arm \in ArmModes /\ (call.for # "none" => call.arm = "pc")
    /\ call.at \in {"ensure", "unstop", "issue"} => call.for # "none"
    /\ call.at \in {"arm", "ensure", "unstop", "issue"} /\ call.for # "none" =>
         /\ call.command \in Commands
         /\ call.for \in Loops => at[call.for] = "idle"

\* The token, by who holds it.
Tokens ==
    /\ tokens \in {0, 1}
    /\ tokens = 1 => owner # "release" /\ call.at # "release"
    /\ owner = "release" => call.at # "release"
    /\ \A c \in Consumers : at[c] = "woken" =>
         /\ tokens = 0 /\ owner # "release" /\ call.at # "release"
         /\ \A d \in Consumers : at[d] = "woken" => c = d
    /\ wake <=> \/ tokens = 1 \/ owner = "release" \/ call.at = "release"
                \/ \E c \in Consumers : at[c] = "woken"

\* A submission is one of the thread's own session; past the barrier every
\* session is an old one and nothing is being submitted.
Generations ==
    /\ \A t \in Senders :
         /\ session[t].generation <= current
         /\ call.at \in {"drain", "mpc"} \cup Quiet => session[t].generation < current
         /\ submitting[t] # 0 => submitting[t] = session[t].generation
         /\ t \in Loops /\ submitting[t] # 0 => at[t] = "sending"
         /\ call.at \in {"mpc"} \cup Quiet => submitting[t] = 0
    /\ call.at \in Quiet => mpc = "none"

\* A session that can submit, or still does.
Live(t) == Current(t) \/ submitting[t] # 0

\* The cache is right unless in doubt, and what can submit has its modes.
InPc == "arm" \notin doubt => device.arm = "pc"
Modes ==
    /\ "control" \notin doubt /\ mode # "none" => device.control = mode
    /\ \A t \in Senders : Live(t) => mode = s_controlModeFor(session[t].command) /\ InPc
    /\ mpc # "none" => mode = "pvt" /\ InPc
    /\ call.at \in {"ensure", "unstop", "issue"} => InPc
    /\ call.at \in {"unstop", "issue"} => mode = s_controlModeFor(call.command)

\* The inductive invariant.
IInv == TypeOK /\ Calling /\ Tokens /\ StateWakesLoop /\ Generations /\ Modes

\* A call that goes on keeps what it was called for.
LEMMA Going ==
    ASSUME TypeOK, NEW l \in CallLabels, Goto(l)
    PROVE  /\ call' \in CallType /\ call'.at = l /\ call'.for = call.for
           /\ call'.command = call.command /\ call'.arm = call.arm
BY DEF TypeOK, CallType, Goto

\* A call that returns leaves nothing behind.
LEMMA Returned ==
    ASSUME Return
    PROVE  call' \in CallType /\ call'.at = "free" /\ call'.for = "none"
BY DEF Return, NoCall, CallType, CallLabels

\* A consumer moves alone.
LEMMA Moving ==
    ASSUME TypeOK, NEW c \in Consumers, NEW l \in ConsumerLabels, Move(c, l)
    PROVE  /\ at' \in [Consumers -> ConsumerLabels] /\ at'[c] = l
           /\ \A d \in Consumers : d # c => at'[d] = at[d]
BY DEF TypeOK, Move

\* The threads of the arm are loops or handles.
LEMMA Threads ==
    /\ Loops \subseteq Senders /\ Writers \subseteq Senders
    /\ Loops \subseteq Consumers /\ Gripper \in Consumers
    /\ \A t \in Loops : t # Gripper
    /\ \A t \in Writers : t \notin Loops
    /\ "none" \notin Senders
BY ThreadsAssumption, ModesAssumption DEF Consumers

\* What s_controlModeFor returns.
LEMMA ControlModeFor == \A c : s_controlModeFor(c) \in {"mit", "pvt"} /\ s_controlModeFor("pose") = "pvt"
BY DEF s_controlModeFor

\* Every step keeps the inductive invariant.
LEMMA Inductive == IInv /\ [Next]_vars => IInv'
<1> SUFFICES ASSUME TypeOK, Calling, Tokens, StateWakesLoop, Generations, Modes, [Next]_vars PROVE IInv'
  BY DEF IInv
<1> USE Threads, ModesAssumption, MaxGenerationAssumption DEF barrierVars, flagVars, tokenVars, stateVars, deviceVars
<1>1. CASE Calls
  <2>0. /\ call' \in CallType /\ call'.at = "flag"
        /\ call'.for = call.for /\ call'.command = call.command /\ call'.arm = call.arm
    BY <1>1, Going DEF Calls, CallLabels
  <2>1. TypeOK'
    BY <1>1, <2>0
    DEF TypeOK, Calls, At, Quiet, NoCall
  <2>2. Calling'
    BY <1>1, <2>0
    DEF Calling, Calls, At, Quiet, NoCall
  <2>3. Tokens'
    BY <1>1, <2>0
    DEF TypeOK, Tokens, Calls, At, Quiet, NoCall
  <2>4. StateWakesLoop'
    BY <1>1, <2>0
    DEF TypeOK, StateWakesLoop, Calls, At, Quiet, NoCall
  <2>5. Generations'
    BY <1>1, <2>0
    DEF TypeOK, Generations, Current, Calls, At, Quiet, NoCall
  <2>6. Modes'
    BY <1>1, <2>0
    DEF TypeOK, Modes, Live, Current, InPc, Calls, At, Quiet, NoCall
  <2> QED BY <2>1, <2>2, <2>3, <2>4, <2>5, <2>6 DEF IInv
<1>2. CASE RaiseStopFlag
  <2>0. /\ call' \in CallType /\ call'.at = "running"
        /\ call'.for = call.for /\ call'.command = call.command /\ call'.arm = call.arm
    BY <1>2, Going DEF RaiseStopFlag, CallLabels
  <2>1. TypeOK'
    BY <1>2, <2>0
    DEF TypeOK, RaiseStopFlag, At, Quiet
  <2>2. Calling'
    BY <1>2, <2>0
    DEF Calling, RaiseStopFlag, At, Quiet
  <2>3. Tokens'
    BY <1>2, <2>0
    DEF TypeOK, Tokens, RaiseStopFlag, At, Quiet
  <2>4. StateWakesLoop'
    BY <1>2, <2>0
    DEF TypeOK, StateWakesLoop, RaiseStopFlag, At, Quiet
  <2>5. Generations'
    BY <1>2, <2>0
    DEF TypeOK, Generations, Current, RaiseStopFlag, At, Quiet
  <2>6. Modes'
    BY <1>2, <2>0
    DEF TypeOK, Modes, Live, Current, InPc, RaiseStopFlag, At, Quiet
  <2> QED BY <2>1, <2>2, <2>3, <2>4, <2>5, <2>6 DEF IInv
<1>3. CASE ClearRunning
  <2>0. /\ call' \in CallType /\ call'.at = "wake"
        /\ call'.for = call.for /\ call'.command = call.command /\ call'.arm = call.arm
    BY <1>3, Going DEF ClearRunning, CallLabels
  <2>1. TypeOK'
    BY <1>3, <2>0
    DEF TypeOK, ClearRunning, At, Quiet
  <2>2. Calling'
    BY <1>3, <2>0
    DEF Calling, ClearRunning, At, Quiet
  <2>3. Tokens'
    BY <1>3, <2>0
    DEF TypeOK, Tokens, ClearRunning, At, Quiet
  <2>4. StateWakesLoop'
    BY <1>3, <2>0
    DEF TypeOK, StateWakesLoop, ClearRunning, At, Quiet
  <2>5. Generations'
    BY <1>3, <2>0
    DEF TypeOK, Generations, Current, ClearRunning, At, Quiet
  <2>6. Modes'
    BY <1>3, <2>0
    DEF TypeOK, Modes, Live, Current, InPc, ClearRunning, At, Quiet
  <2> QED BY <2>1, <2>2, <2>3, <2>4, <2>5, <2>6 DEF IInv
<1>4. CASE StopWakes
  <2>0. /\ call' \in CallType /\ call'.at = (IF wake THEN "invalidate" ELSE "release")
        /\ call'.for = call.for /\ call'.command = call.command /\ call'.arm = call.arm
    BY <1>4, Going DEF StopWakes, CallLabels
  <2>1. TypeOK'
    BY <1>4, <2>0
    DEF TypeOK, StopWakes, At, Quiet
  <2>2. Calling'
    BY <1>4, <2>0
    DEF Calling, StopWakes, At, Quiet
  <2>3. Tokens'
    BY <1>4, <2>0
    DEF TypeOK, Tokens, StopWakes, At, Quiet
  <2>4. StateWakesLoop'
    BY <1>4, <2>0
    DEF TypeOK, StateWakesLoop, StopWakes, At, Quiet
  <2>5. Generations'
    BY <1>4, <2>0
    DEF TypeOK, Generations, Current, StopWakes, At, Quiet
  <2>6. Modes'
    BY <1>4, <2>0
    DEF TypeOK, Modes, Live, Current, InPc, StopWakes, At, Quiet
  <2> QED BY <2>1, <2>2, <2>3, <2>4, <2>5, <2>6 DEF IInv
<1>5. CASE StopReleases
  <2>0. /\ call' \in CallType /\ call'.at = "invalidate"
        /\ call'.for = call.for /\ call'.command = call.command /\ call'.arm = call.arm
    BY <1>5, Going DEF StopReleases, CallLabels
  <2>1. TypeOK'
    BY <1>5, <2>0
    DEF TypeOK, StopReleases, At, Quiet
  <2>2. Calling'
    BY <1>5, <2>0
    DEF Calling, StopReleases, At, Quiet
  <2>3. Tokens'
    BY <1>5, <2>0
    DEF TypeOK, Tokens, StopReleases, At, Quiet
  <2>4. StateWakesLoop'
    BY <1>5, <2>0
    DEF TypeOK, StateWakesLoop, StopReleases, At, Quiet
  <2>5. Generations'
    BY <1>5, <2>0
    DEF TypeOK, Generations, Current, StopReleases, At, Quiet
  <2>6. Modes'
    BY <1>5, <2>0
    DEF TypeOK, Modes, Live, Current, InPc, StopReleases, At, Quiet
  <2> QED BY <2>1, <2>2, <2>3, <2>4, <2>5, <2>6 DEF IInv
<1>6. CASE Invalidate
  <2>0. /\ call' \in CallType /\ call'.at = "drain"
        /\ call'.for = call.for /\ call'.command = call.command /\ call'.arm = call.arm
    BY <1>6, Going DEF Invalidate, CallLabels
  <2>1. TypeOK'
    BY <1>6, <2>0
    DEF TypeOK, Invalidate, At, Quiet, EndGeneration, Calling
  <2>2. Calling'
    BY <1>6, <2>0
    DEF Calling, Invalidate, At, Quiet, EndGeneration
  <2>3. Tokens'
    BY <1>6, <2>0
    DEF TypeOK, Tokens, Invalidate, At, Quiet, EndGeneration
  <2>4. StateWakesLoop'
    BY <1>6, <2>0
    DEF TypeOK, StateWakesLoop, Invalidate, At, Quiet, EndGeneration
  <2>5. Generations'
    BY <1>6, <2>0
    DEF TypeOK, Generations, Current, Invalidate, At, Quiet, EndGeneration, SessionType
  <2>6. Modes'
    BY <1>6, <2>0
    DEF TypeOK, Modes, Live, Current, InPc, Invalidate, At, Quiet, EndGeneration, SessionType, Generations
  <2> QED BY <2>1, <2>2, <2>3, <2>4, <2>5, <2>6 DEF IInv
<1>7. CASE InvalidateReturns
  <2>0. /\ call' \in CallType /\ call'.at = "mpc"
        /\ call'.for = call.for /\ call'.command = call.command /\ call'.arm = call.arm
    BY <1>7, Going DEF InvalidateReturns, CallLabels
  <2>1. TypeOK'
    BY <1>7, <2>0
    DEF TypeOK, InvalidateReturns, At, Quiet, Drained
  <2>2. Calling'
    BY <1>7, <2>0
    DEF Calling, InvalidateReturns, At, Quiet, Drained
  <2>3. Tokens'
    BY <1>7, <2>0
    DEF TypeOK, Tokens, InvalidateReturns, At, Quiet, Drained
  <2>4. StateWakesLoop'
    BY <1>7, <2>0
    DEF TypeOK, StateWakesLoop, InvalidateReturns, At, Quiet, Drained
  <2>5. Generations'
    BY <1>7, <2>0
    DEF TypeOK, Generations, Current, InvalidateReturns, At, Quiet, Drained
  <2>6. Modes'
    BY <1>7, <2>0
    DEF TypeOK, Modes, Live, Current, InPc, InvalidateReturns, At, Quiet, Drained
  <2> QED BY <2>1, <2>2, <2>3, <2>4, <2>5, <2>6 DEF IInv
<1>8. CASE MpcStopped
  <2>0. /\ call' \in CallType /\ call'.at \in {"free", "arm", "rpc"}
        /\ call'.at = "arm" => call'.arm \in ArmModes /\ (call'.for # "none" => call'.arm = "pc")
        /\ call'.for # "none" /\ call'.at = "arm" =>
             call'.command \in Commands /\ (call'.for \in Loops => at[call'.for] = "idle")
        /\ call'.at = "rpc" => call'.for = call.for /\ call'.command = call.command
    <3>1. CASE Return
      BY <3>1, Returned
    <3>2. ASSUME NEW m \in ArmModes, call' = [NoCall EXCEPT !.arm = m, !.at = "arm"]
          PROVE  call' \in CallType /\ call'.at = "arm" /\ call'.arm = m /\ call'.for = "none"
      BY <3>2 DEF NoCall, CallType, CallLabels
    <3>3. CASE Goto("rpc")
      BY <3>3, Going DEF CallLabels
    <3>4. ASSUME NEW t \in Senders, NEW c \in Commands, t \in Loops => at[t] = "idle",
                 call' = [for |-> t, command |-> c, arm |-> "pc", at |-> "arm"]
          PROVE  call' \in CallType /\ call'.at = "arm" /\ call'.arm = "pc" /\ call'.for = t /\ call'.command = c
      BY <3>4 DEF CallType, CallLabels
    <3> QED BY <1>8, <3>1, <3>2, <3>3, <3>4 DEF MpcStopped, Proceed
  <2>1. TypeOK'
    BY <1>8, <2>0
    DEF TypeOK, MpcStopped, At, Quiet
  <2>2. Calling'
    BY <1>8, <2>0
    DEF Calling, MpcStopped, At, Quiet
  <2>3. Tokens'
    BY <1>8, <2>0
    DEF TypeOK, Tokens, MpcStopped, At, Quiet
  <2>4. StateWakesLoop'
    BY <1>8, <2>0
    DEF TypeOK, StateWakesLoop, MpcStopped, At, Quiet
  <2>5. Generations'
    BY <1>8, <2>0
    DEF TypeOK, Generations, Current, MpcStopped, At, Quiet
  <2>6. Modes'
    BY <1>8, <2>0
    DEF TypeOK, Modes, Live, Current, InPc, MpcStopped, At, Quiet
  <2> QED BY <2>1, <2>2, <2>3, <2>4, <2>5, <2>6 DEF IInv
<1>9. CASE CleanupJoins
  <2>0. call' \in CallType /\ call'.at = "free" /\ call'.for = "none"
    BY <1>9, Returned DEF CleanupJoins
  <2>1. TypeOK'
    BY <1>9, <2>0
    DEF TypeOK, CleanupJoins, At, Quiet
  <2>2. Calling'
    BY <1>9, <2>0
    DEF Calling, CleanupJoins, At, Quiet
  <2>3. Tokens'
    BY <1>9, <2>0
    DEF TypeOK, Tokens, CleanupJoins, At, Quiet
  <2>4. StateWakesLoop'
    BY <1>9, <2>0
    DEF TypeOK, StateWakesLoop, CleanupJoins, At, Quiet
  <2>5. Generations'
    BY <1>9, <2>0
    DEF TypeOK, Generations, Current, CleanupJoins, At, Quiet
  <2>6. Modes'
    BY <1>9, <2>0
    DEF TypeOK, Modes, Live, Current, InPc, CleanupJoins, At, Quiet
  <2> QED BY <2>1, <2>2, <2>3, <2>4, <2>5, <2>6 DEF IInv
<1>10. CASE OtherRpcs
  <2>0. call' \in CallType /\ call'.at = "free" /\ call'.for = "none"
    BY <1>10, Returned DEF OtherRpcs
  <2>1. TypeOK'
    BY <1>10, <2>0
    DEF TypeOK, OtherRpcs, At, Quiet
  <2>2. Calling'
    BY <1>10, <2>0
    DEF Calling, OtherRpcs, At, Quiet
  <2>3. Tokens'
    BY <1>10, <2>0
    DEF TypeOK, Tokens, OtherRpcs, At, Quiet
  <2>4. StateWakesLoop'
    BY <1>10, <2>0
    DEF TypeOK, StateWakesLoop, OtherRpcs, At, Quiet
  <2>5. Generations'
    BY <1>10, <2>0
    DEF TypeOK, Generations, Current, OtherRpcs, At, Quiet
  <2>6. Modes'
    BY <1>10, <2>0
    DEF TypeOK, Modes, Live, Current, InPc, OtherRpcs, At, Quiet
  <2> QED BY <2>1, <2>2, <2>3, <2>4, <2>5, <2>6 DEF IInv
<1>11. CASE SetArmMode
  <2>0. /\ call' \in CallType
        /\ \/ call'.at = "free" /\ call'.for = "none"
           \/ /\ call'.at = "ensure" /\ call'.for = call.for /\ call'.command = call.command
              /\ call.for # "none" /\ device' = [device EXCEPT !.arm = call.arm]
    BY <1>11, Going, Returned DEF SetArmMode, CallLabels, Outcomes
  <2>1. TypeOK'
    BY <1>11, <2>0
    DEF TypeOK, SetArmMode, At, Quiet, DeviceType, Outcomes, Calling
  <2>2. Calling'
    BY <1>11, <2>0
    DEF Calling, SetArmMode, At, Quiet
  <2>3. Tokens'
    BY <1>11, <2>0
    DEF TypeOK, Tokens, SetArmMode, At, Quiet
  <2>4. StateWakesLoop'
    BY <1>11, <2>0
    DEF TypeOK, StateWakesLoop, SetArmMode, At, Quiet
  <2>5. Generations'
    BY <1>11, <2>0
    DEF TypeOK, Generations, Current, SetArmMode, At, Quiet
  <2>6. Modes'
    BY <1>11, <2>0
    DEF TypeOK, Modes, Live, Current, InPc, SetArmMode, At, Quiet, DeviceType, Outcomes, Calling, Generations
  <2> QED BY <2>1, <2>2, <2>3, <2>4, <2>5, <2>6 DEF IInv
<1>12. CASE s_ensureMode
  <2>0. /\ call' \in CallType
        /\ \/ call'.at = "free" /\ call'.for = "none"
           \/ /\ call'.at = "unstop" /\ call'.for = call.for /\ call'.command = call.command
              /\ mode' = s_controlModeFor(call.command)
    <3>1. CASE Return
      BY <3>1, Returned
    <3>2. CASE Goto("unstop") /\ mode' = s_controlModeFor(call.command)
      BY <3>2, Going DEF CallLabels
    <3> QED BY <1>12, <3>1, <3>2 DEF s_ensureMode, deviceVars
  <2>1. TypeOK'
    BY <1>12, <2>0, ControlModeFor
    DEF TypeOK, s_ensureMode, At, Quiet, DeviceType, Outcomes, ControlModes
  <2>2. Calling'
    BY <1>12, <2>0
    DEF Calling, s_ensureMode, At, Quiet
  <2>3. Tokens'
    BY <1>12, <2>0
    DEF TypeOK, Tokens, s_ensureMode, At, Quiet
  <2>4. StateWakesLoop'
    BY <1>12, <2>0
    DEF TypeOK, StateWakesLoop, s_ensureMode, At, Quiet
  <2>5. Generations'
    BY <1>12, <2>0
    DEF TypeOK, Generations, Current, s_ensureMode, At, Quiet
  <2>6. Modes'
    BY <1>12, <2>0, ControlModeFor
    DEF TypeOK, Modes, Live, Current, InPc, s_ensureMode, At, Quiet, DeviceType, Outcomes, Generations, ControlModes
  <2> QED BY <2>1, <2>2, <2>3, <2>4, <2>5, <2>6 DEF IInv
<1>13. CASE LowerStopFlag
  <2>0. /\ call' \in CallType /\ call'.at = "issue"
        /\ call'.for = call.for /\ call'.command = call.command /\ call'.arm = call.arm
    BY <1>13, Going DEF LowerStopFlag, CallLabels
  <2>1. TypeOK'
    BY <1>13, <2>0
    DEF TypeOK, LowerStopFlag, At, Quiet
  <2>2. Calling'
    BY <1>13, <2>0
    DEF Calling, LowerStopFlag, At, Quiet
  <2>3. Tokens'
    BY <1>13, <2>0
    DEF TypeOK, Tokens, LowerStopFlag, At, Quiet
  <2>4. StateWakesLoop'
    BY <1>13, <2>0
    DEF TypeOK, StateWakesLoop, LowerStopFlag, At, Quiet
  <2>5. Generations'
    BY <1>13, <2>0
    DEF TypeOK, Generations, Current, LowerStopFlag, At, Quiet
  <2>6. Modes'
    BY <1>13, <2>0
    DEF TypeOK, Modes, Live, Current, InPc, LowerStopFlag, At, Quiet
  <2> QED BY <2>1, <2>2, <2>3, <2>4, <2>5, <2>6 DEF IInv
<1>14. CASE Issue
  <2>0. call' \in CallType /\ call'.at = "free" /\ call'.for = "none"
    BY <1>14, Returned DEF Issue
  <2>1. TypeOK'
    BY <1>14, <2>0
    DEF TypeOK, Issue, At, Quiet, SessionType, ConsumerLabels, Calling, CallType
  <2>2. Calling'
    BY <1>14, <2>0
    DEF Calling, Issue, At, Quiet, TypeOK
  <2>3. Tokens'
    BY <1>14, <2>0
    DEF TypeOK, Tokens, Issue, At, Quiet, Calling
  <2>4. StateWakesLoop'
    BY <1>14, <2>0
    DEF TypeOK, StateWakesLoop, Issue, At, Quiet, Calling
  <2>5. Generations'
    BY <1>14, <2>0
    DEF TypeOK, Generations, Current, Issue, At, Quiet, SessionType, Calling, CallType
  <2>6. Modes'
    BY <1>14, <2>0, ControlModeFor
    DEF TypeOK, Modes, Live, Current, InPc, Issue, At, Quiet, SessionType, Calling, CallType, Generations
  <2> QED BY <2>1, <2>2, <2>3, <2>4, <2>5, <2>6 DEF IInv
<1>15. ASSUME NEW c \in Consumers, Acquire(c) PROVE IInv'
  <2>0. /\ at' \in [Consumers -> ConsumerLabels] /\ at'[c] \in {"woken"}
        /\ \A d \in Consumers : d # c => at'[d] = at[d]
    BY <1>15, Moving DEF Acquire, ConsumerLabels
  <2>1. TypeOK'
    BY <1>15, <2>0
    DEF TypeOK, Acquire
  <2>2. Calling'
    BY <1>15, <2>0
    DEF Calling, Acquire, TypeOK
  <2>3. Tokens'
    BY <1>15, <2>0
    DEF TypeOK, Tokens, Acquire
  <2>4. StateWakesLoop'
    BY <1>15, <2>0
    DEF TypeOK, StateWakesLoop, Acquire
  <2>5. Generations'
    BY <1>15, <2>0
    DEF TypeOK, Generations, Current, Acquire
  <2>6. Modes'
    BY <1>15, <2>0
    DEF TypeOK, Modes, Live, Current, InPc, Acquire
  <2> QED BY <2>1, <2>2, <2>3, <2>4, <2>5, <2>6 DEF IInv
<1>16. ASSUME NEW c \in Consumers, Clear(c) PROVE IInv'
  <2>0. /\ at' \in [Consumers -> ConsumerLabels] /\ at'[c] \in {"cleared"}
        /\ \A d \in Consumers : d # c => at'[d] = at[d]
    BY <1>16, Moving DEF Clear, ConsumerLabels
  <2>1. TypeOK'
    BY <1>16, <2>0
    DEF TypeOK, Clear
  <2>2. Calling'
    BY <1>16, <2>0
    DEF Calling, Clear
  <2>3. Tokens'
    BY <1>16, <2>0
    DEF TypeOK, Tokens, Clear
  <2>4. StateWakesLoop'
    BY <1>16, <2>0
    DEF TypeOK, StateWakesLoop, Clear
  <2>5. Generations'
    BY <1>16, <2>0
    DEF TypeOK, Generations, Current, Clear
  <2>6. Modes'
    BY <1>16, <2>0
    DEF TypeOK, Modes, Live, Current, InPc, Clear
  <2> QED BY <2>1, <2>2, <2>3, <2>4, <2>5, <2>6 DEF IInv
<1>17. ASSUME NEW t \in Loops, LoopHead(t) PROVE IInv'
  <2>0. /\ at' \in [Consumers -> ConsumerLabels] /\ at'[t] \in {"wait", "cleanup"}
        /\ \A d \in Consumers : d # t => at'[d] = at[d]
    BY <1>17, Moving DEF LoopHead, ConsumerLabels
  <2>1. TypeOK'
    BY <1>17, <2>0
    DEF TypeOK, LoopHead
  <2>2. Calling'
    BY <1>17, <2>0
    DEF Calling, LoopHead
  <2>3. Tokens'
    BY <1>17, <2>0
    DEF TypeOK, Tokens, LoopHead
  <2>4. StateWakesLoop'
    BY <1>17, <2>0
    DEF TypeOK, StateWakesLoop, LoopHead
  <2>5. Generations'
    BY <1>17, <2>0
    DEF TypeOK, Generations, Current, LoopHead
  <2>6. Modes'
    BY <1>17, <2>0
    DEF TypeOK, Modes, Live, Current, InPc, LoopHead
  <2> QED BY <2>1, <2>2, <2>3, <2>4, <2>5, <2>6 DEF IInv
<1>18. ASSUME NEW t \in Loops, LoopTimesOut(t) PROVE IInv'
  <2>0. /\ at' \in [Consumers -> ConsumerLabels] /\ at'[t] \in {"head", "cleanup"}
        /\ \A d \in Consumers : d # t => at'[d] = at[d]
    BY <1>18, Moving DEF LoopTimesOut, ConsumerLabels
  <2>1. TypeOK'
    BY <1>18, <2>0
    DEF TypeOK, LoopTimesOut
  <2>2. Calling'
    BY <1>18, <2>0
    DEF Calling, LoopTimesOut
  <2>3. Tokens'
    BY <1>18, <2>0
    DEF TypeOK, Tokens, LoopTimesOut
  <2>4. StateWakesLoop'
    BY <1>18, <2>0
    DEF TypeOK, StateWakesLoop, LoopTimesOut
  <2>5. Generations'
    BY <1>18, <2>0
    DEF TypeOK, Generations, Current, LoopTimesOut
  <2>6. Modes'
    BY <1>18, <2>0
    DEF TypeOK, Modes, Live, Current, InPc, LoopTimesOut
  <2> QED BY <2>1, <2>2, <2>3, <2>4, <2>5, <2>6 DEF IInv
<1>19. ASSUME NEW t \in Loops, LoopTakes(t) PROVE IInv'
  <2>0. /\ at' \in [Consumers -> ConsumerLabels] /\ at'[t] \in {"callback", "head", "cleanup"}
        /\ \A d \in Consumers : d # t => at'[d] = at[d]
    BY <1>19, Moving DEF LoopTakes, ConsumerLabels, TakesLatest, Dismissed
  <2>1. TypeOK'
    BY <1>19, <2>0
    DEF TypeOK, LoopTakes, TakesLatest, Dismissed
  <2>2. Calling'
    BY <1>19, <2>0
    DEF Calling, LoopTakes, TakesLatest, Dismissed
  <2>3. Tokens'
    BY <1>19, <2>0
    DEF TypeOK, Tokens, LoopTakes, TakesLatest, Dismissed
  <2>4. StateWakesLoop'
    BY <1>19, <2>0
    DEF TypeOK, StateWakesLoop, LoopTakes, TakesLatest, Dismissed
  <2>5. Generations'
    BY <1>19, <2>0
    DEF TypeOK, Generations, Current, LoopTakes, TakesLatest, Dismissed
  <2>6. Modes'
    BY <1>19, <2>0
    DEF TypeOK, Modes, Live, Current, InPc, LoopTakes, TakesLatest, Dismissed
  <2> QED BY <2>1, <2>2, <2>3, <2>4, <2>5, <2>6 DEF IInv
<1>20. ASSUME NEW t \in Loops, LoopCallback(t) PROVE IInv'
  <2>0. /\ at' \in [Consumers -> ConsumerLabels] /\ at'[t] \in {"send", "cleanup"}
        /\ \A d \in Consumers : d # t => at'[d] = at[d]
    BY <1>20, Moving DEF LoopCallback, ConsumerLabels
  <2>1. TypeOK'
    BY <1>20, <2>0
    DEF TypeOK, LoopCallback
  <2>2. Calling'
    BY <1>20, <2>0
    DEF Calling, LoopCallback
  <2>3. Tokens'
    BY <1>20, <2>0
    DEF TypeOK, Tokens, LoopCallback
  <2>4. StateWakesLoop'
    BY <1>20, <2>0
    DEF TypeOK, StateWakesLoop, LoopCallback
  <2>5. Generations'
    BY <1>20, <2>0
    DEF TypeOK, Generations, Current, LoopCallback
  <2>6. Modes'
    BY <1>20, <2>0
    DEF TypeOK, Modes, Live, Current, InPc, LoopCallback
  <2> QED BY <2>1, <2>2, <2>3, <2>4, <2>5, <2>6 DEF IInv
<1>21. ASSUME NEW t \in Loops, LoopSends(t) PROVE IInv'
  <2>0. /\ at' \in [Consumers -> ConsumerLabels] /\ at'[t] \in {"sending", "head", "cleanup"}
        /\ \A d \in Consumers : d # t => at'[d] = at[d]
    BY <1>21, Moving DEF LoopSends, ConsumerLabels, BeginSubmit
  <2>1. TypeOK'
    BY <1>21, <2>0
    DEF TypeOK, LoopSends, BeginSubmit
  <2>2. Calling'
    BY <1>21, <2>0
    DEF Calling, LoopSends, BeginSubmit
  <2>3. Tokens'
    BY <1>21, <2>0
    DEF TypeOK, Tokens, LoopSends, BeginSubmit
  <2>4. StateWakesLoop'
    BY <1>21, <2>0
    DEF TypeOK, StateWakesLoop, LoopSends, BeginSubmit
  <2>5. Generations'
    <3>1. CASE Current(t) /\ BeginSubmit(t) /\ Move(t, "sending")
      <4>1. at'[t] = "sending" /\ session' = session /\ call' = call /\ mpc' = mpc
        BY <1>21, <3>1, Moving DEF LoopSends, ConsumerLabels
      <4>2. call.at \notin {"drain", "mpc"} \cup Quiet
        BY <3>1 DEF Generations, Current, TypeOK, SessionType
      <4>3. /\ current' = current /\ submitting'[t] = session[t].generation
            /\ \A u \in Senders : u # t => submitting'[u] = submitting[u]
        BY <3>1 DEF BeginSubmit, Current, TypeOK
      <4> QED BY <2>0, <4>1, <4>2, <4>3 DEF Generations
    <3>2. CASE UNCHANGED barrierVars
      BY <1>21, <2>0, <3>2 DEF LoopSends, Generations, TypeOK, barrierVars
    <3> QED BY <1>21, <3>1, <3>2 DEF LoopSends
  <2>6. Modes'
    BY <1>21, <2>0
    DEF TypeOK, Modes, Live, Current, InPc, LoopSends, BeginSubmit
  <2> QED BY <2>1, <2>2, <2>3, <2>4, <2>5, <2>6 DEF IInv
<1>22. ASSUME NEW t \in Loops, LoopSent(t) PROVE IInv'
  <2>0. /\ at' \in [Consumers -> ConsumerLabels] /\ at'[t] \in {"head", "cleanup"}
        /\ \A d \in Consumers : d # t => at'[d] = at[d]
    BY <1>22, Moving DEF LoopSent, ConsumerLabels
  <2>1. TypeOK'
    BY <1>22, <2>0
    DEF TypeOK, LoopSent, EndSubmit
  <2>2. Calling'
    BY <1>22, <2>0
    DEF Calling, LoopSent, EndSubmit
  <2>3. Tokens'
    BY <1>22, <2>0
    DEF TypeOK, Tokens, LoopSent, EndSubmit
  <2>4. StateWakesLoop'
    BY <1>22, <2>0
    DEF TypeOK, StateWakesLoop, LoopSent, EndSubmit
  <2>5. Generations'
    BY <1>22, <2>0
    DEF TypeOK, Generations, Current, LoopSent, EndSubmit
  <2>6. Modes'
    BY <1>22, <2>0
    DEF TypeOK, Modes, Live, Current, InPc, LoopSent, EndSubmit
  <2> QED BY <2>1, <2>2, <2>3, <2>4, <2>5, <2>6 DEF IInv
<1>23. ASSUME NEW t \in Loops, LoopCleanup(t) PROVE IInv'
  <2>0. /\ at' \in [Consumers -> ConsumerLabels] /\ at'[t] = "idle"
        /\ \A d \in Consumers : d # t => at'[d] = at[d]
        /\ call.at = "free" /\ call' \in CallType /\ call'.at \in {"free", "join"} /\ call'.for = "none"
    <3>1. at' \in [Consumers -> ConsumerLabels] /\ at'[t] = "idle" /\ \A d \in Consumers : d # t => at'[d] = at[d]
      BY <1>23, Moving DEF LoopCleanup, ConsumerLabels
    <3>2. call.at = "free" /\ call.for = "none" /\ call \in CallType
      BY <1>23 DEF LoopCleanup, NoCall, TypeOK
    <3>3. call' \in CallType /\ call'.at \in {"free", "join"} /\ call'.for = "none"
      BY <1>23, <3>2, Going DEF LoopCleanup, CallLabels
    <3> QED BY <3>1, <3>2, <3>3
  <2>1. TypeOK'
    BY <1>23, <2>0
    DEF TypeOK, LoopCleanup, Quiet, SessionType, NoSession, Commands
  <2>2. Calling'
    BY <1>23, <2>0
    DEF Calling, LoopCleanup, Quiet
  <2>3. Tokens'
    BY <1>23, <2>0
    DEF TypeOK, Tokens, LoopCleanup, Quiet
  <2>4. StateWakesLoop'
    BY <1>23, <2>0
    DEF TypeOK, StateWakesLoop, LoopCleanup, Quiet
  <2>5. Generations'
    BY <1>23, <2>0
    DEF TypeOK, Generations, Current, LoopCleanup, Quiet, NoSession
  <2>6. Modes'
    BY <1>23, <2>0
    DEF TypeOK, Modes, Live, Current, InPc, LoopCleanup, Quiet, NoSession, Generations
  <2> QED BY <2>1, <2>2, <2>3, <2>4, <2>5, <2>6 DEF IInv
<1>24. ASSUME NEW t \in Writers, WriterSends(t) PROVE IInv'
  <2>1. TypeOK'
    BY <1>24
    DEF TypeOK, WriterSends, BeginSubmit
  <2>2. Calling'
    BY <1>24
    DEF Calling, WriterSends, BeginSubmit
  <2>3. Tokens'
    BY <1>24
    DEF TypeOK, Tokens, WriterSends, BeginSubmit
  <2>4. StateWakesLoop'
    BY <1>24
    DEF TypeOK, StateWakesLoop, WriterSends, BeginSubmit
  <2>5. Generations'
    BY <1>24
    DEF TypeOK, Generations, Current, WriterSends, BeginSubmit, Quiet
  <2>6. Modes'
    BY <1>24
    DEF TypeOK, Modes, Live, Current, InPc, WriterSends, BeginSubmit
  <2> QED BY <2>1, <2>2, <2>3, <2>4, <2>5, <2>6 DEF IInv
<1>25. ASSUME NEW t \in Writers, WriterSent(t) PROVE IInv'
  <2>1. TypeOK'
    BY <1>25
    DEF TypeOK, WriterSent, EndSubmit
  <2>2. Calling'
    BY <1>25
    DEF Calling, WriterSent, EndSubmit
  <2>3. Tokens'
    BY <1>25
    DEF TypeOK, Tokens, WriterSent, EndSubmit
  <2>4. StateWakesLoop'
    BY <1>25
    DEF TypeOK, StateWakesLoop, WriterSent, EndSubmit
  <2>5. Generations'
    BY <1>25
    DEF TypeOK, Generations, Current, WriterSent, EndSubmit
  <2>6. Modes'
    BY <1>25
    DEF TypeOK, Modes, Live, Current, InPc, WriterSent, EndSubmit
  <2> QED BY <2>1, <2>2, <2>3, <2>4, <2>5, <2>6 DEF IInv
<1>26. CASE MpcSends
  <2>1. TypeOK'
    BY <1>26
    DEF TypeOK, MpcSends
  <2>2. Calling'
    BY <1>26
    DEF Calling, MpcSends
  <2>3. Tokens'
    BY <1>26
    DEF TypeOK, Tokens, MpcSends
  <2>4. StateWakesLoop'
    BY <1>26
    DEF TypeOK, StateWakesLoop, MpcSends
  <2>5. Generations'
    BY <1>26
    DEF TypeOK, Generations, Current, MpcSends, Quiet
  <2>6. Modes'
    BY <1>26
    DEF TypeOK, Modes, Live, Current, InPc, MpcSends
  <2> QED BY <2>1, <2>2, <2>3, <2>4, <2>5, <2>6 DEF IInv
<1>27. CASE MpcEnds
  <2>1. TypeOK'
    BY <1>27
    DEF TypeOK, MpcEnds
  <2>2. Calling'
    BY <1>27
    DEF Calling, MpcEnds
  <2>3. Tokens'
    BY <1>27
    DEF TypeOK, Tokens, MpcEnds
  <2>4. StateWakesLoop'
    BY <1>27
    DEF TypeOK, StateWakesLoop, MpcEnds
  <2>5. Generations'
    BY <1>27
    DEF TypeOK, Generations, Current, MpcEnds
  <2>6. Modes'
    BY <1>27
    DEF TypeOK, Modes, Live, Current, InPc, MpcEnds
  <2> QED BY <2>1, <2>2, <2>3, <2>4, <2>5, <2>6 DEF IInv
<1>28. CASE GripperCalls
  <2>0. /\ at' \in [Consumers -> ConsumerLabels] /\ at'[Gripper] \in {"unstop"}
        /\ \A d \in Consumers : d # Gripper => at'[d] = at[d]
    BY <1>28, Moving DEF GripperCalls, ConsumerLabels
  <2>1. TypeOK'
    BY <1>28, <2>0
    DEF TypeOK, GripperCalls
  <2>2. Calling'
    BY <1>28, <2>0
    DEF Calling, GripperCalls
  <2>3. Tokens'
    BY <1>28, <2>0
    DEF TypeOK, Tokens, GripperCalls
  <2>4. StateWakesLoop'
    BY <1>28, <2>0
    DEF TypeOK, StateWakesLoop, GripperCalls
  <2>5. Generations'
    BY <1>28, <2>0
    DEF TypeOK, Generations, Current, GripperCalls
  <2>6. Modes'
    BY <1>28, <2>0
    DEF TypeOK, Modes, Live, Current, InPc, GripperCalls
  <2> QED BY <2>1, <2>2, <2>3, <2>4, <2>5, <2>6 DEF IInv
<1>29. CASE GripperUnstops
  <2>0. /\ at' \in [Consumers -> ConsumerLabels] /\ at'[Gripper] \in {"pc"}
        /\ \A d \in Consumers : d # Gripper => at'[d] = at[d]
    BY <1>29, Moving DEF GripperUnstops, ConsumerLabels
  <2>1. TypeOK'
    BY <1>29, <2>0
    DEF TypeOK, GripperUnstops
  <2>2. Calling'
    BY <1>29, <2>0
    DEF Calling, GripperUnstops
  <2>3. Tokens'
    BY <1>29, <2>0
    DEF TypeOK, Tokens, GripperUnstops
  <2>4. StateWakesLoop'
    BY <1>29, <2>0
    DEF TypeOK, StateWakesLoop, GripperUnstops
  <2>5. Generations'
    BY <1>29, <2>0
    DEF TypeOK, Generations, Current, GripperUnstops
  <2>6. Modes'
    BY <1>29, <2>0
    DEF TypeOK, Modes, Live, Current, InPc, GripperUnstops
  <2> QED BY <2>1, <2>2, <2>3, <2>4, <2>5, <2>6 DEF IInv
<1>30. CASE GripperModes
  <2>0. /\ at' \in [Consumers -> ConsumerLabels] /\ at'[Gripper] \in {"head", "idle"}
        /\ \A d \in Consumers : d # Gripper => at'[d] = at[d]
    BY <1>30, Moving DEF GripperModes, ConsumerLabels
  <2>1. TypeOK'
    BY <1>30, <2>0
    DEF TypeOK, GripperModes, DeviceType
  <2>2. Calling'
    BY <1>30, <2>0
    DEF Calling, GripperModes
  <2>3. Tokens'
    BY <1>30, <2>0
    DEF TypeOK, Tokens, GripperModes
  <2>4. StateWakesLoop'
    BY <1>30, <2>0
    DEF TypeOK, StateWakesLoop, GripperModes
  <2>5. Generations'
    BY <1>30, <2>0
    DEF TypeOK, Generations, Current, GripperModes
  <2>6. Modes'
    BY <1>30, <2>0
    DEF TypeOK, Modes, Live, Current, InPc, GripperModes, DeviceType
  <2> QED BY <2>1, <2>2, <2>3, <2>4, <2>5, <2>6 DEF IInv
<1>31. CASE GripperHead
  <2>0. /\ at' \in [Consumers -> ConsumerLabels] /\ at'[Gripper] \in {"wait", "end"}
        /\ \A d \in Consumers : d # Gripper => at'[d] = at[d]
    BY <1>31, Moving DEF GripperHead, ConsumerLabels
  <2>1. TypeOK'
    BY <1>31, <2>0
    DEF TypeOK, GripperHead
  <2>2. Calling'
    BY <1>31, <2>0
    DEF Calling, GripperHead
  <2>3. Tokens'
    BY <1>31, <2>0
    DEF TypeOK, Tokens, GripperHead
  <2>4. StateWakesLoop'
    BY <1>31, <2>0
    DEF TypeOK, StateWakesLoop, GripperHead
  <2>5. Generations'
    BY <1>31, <2>0
    DEF TypeOK, Generations, Current, GripperHead
  <2>6. Modes'
    BY <1>31, <2>0
    DEF TypeOK, Modes, Live, Current, InPc, GripperHead
  <2> QED BY <2>1, <2>2, <2>3, <2>4, <2>5, <2>6 DEF IInv
<1>32. CASE GripperTakes
  <2>0. /\ at' \in [Consumers -> ConsumerLabels] /\ at'[Gripper] \in {"callback", "head", "end"}
        /\ \A d \in Consumers : d # Gripper => at'[d] = at[d]
    BY <1>32, Moving DEF GripperTakes, ConsumerLabels, TakesLatest, Dismissed
  <2>1. TypeOK'
    BY <1>32, <2>0
    DEF TypeOK, GripperTakes, TakesLatest, Dismissed
  <2>2. Calling'
    BY <1>32, <2>0
    DEF Calling, GripperTakes, TakesLatest, Dismissed
  <2>3. Tokens'
    BY <1>32, <2>0
    DEF TypeOK, Tokens, GripperTakes, TakesLatest, Dismissed
  <2>4. StateWakesLoop'
    BY <1>32, <2>0
    DEF TypeOK, StateWakesLoop, GripperTakes, TakesLatest, Dismissed
  <2>5. Generations'
    BY <1>32, <2>0
    DEF TypeOK, Generations, Current, GripperTakes, TakesLatest, Dismissed
  <2>6. Modes'
    BY <1>32, <2>0
    DEF TypeOK, Modes, Live, Current, InPc, GripperTakes, TakesLatest, Dismissed
  <2> QED BY <2>1, <2>2, <2>3, <2>4, <2>5, <2>6 DEF IInv
<1>33. CASE GripperSends
  <2>0. /\ at' \in [Consumers -> ConsumerLabels] /\ at'[Gripper] \in {"head", "end", "idle"}
        /\ \A d \in Consumers : d # Gripper => at'[d] = at[d]
    BY <1>33, Moving DEF GripperSends, ConsumerLabels
  <2>1. TypeOK'
    BY <1>33, <2>0
    DEF TypeOK, GripperSends
  <2>2. Calling'
    BY <1>33, <2>0
    DEF Calling, GripperSends
  <2>3. Tokens'
    BY <1>33, <2>0
    DEF TypeOK, Tokens, GripperSends
  <2>4. StateWakesLoop'
    BY <1>33, <2>0
    DEF TypeOK, StateWakesLoop, GripperSends
  <2>5. Generations'
    BY <1>33, <2>0
    DEF TypeOK, Generations, Current, GripperSends
  <2>6. Modes'
    BY <1>33, <2>0
    DEF TypeOK, Modes, Live, Current, InPc, GripperSends
  <2> QED BY <2>1, <2>2, <2>3, <2>4, <2>5, <2>6 DEF IInv
<1>34. CASE GripperEnds
  <2>0. /\ at' \in [Consumers -> ConsumerLabels] /\ at'[Gripper] \in {"idle"}
        /\ \A d \in Consumers : d # Gripper => at'[d] = at[d]
    BY <1>34, Moving DEF GripperEnds, ConsumerLabels
  <2>1. TypeOK'
    BY <1>34, <2>0
    DEF TypeOK, GripperEnds
  <2>2. Calling'
    BY <1>34, <2>0
    DEF Calling, GripperEnds
  <2>3. Tokens'
    BY <1>34, <2>0
    DEF TypeOK, Tokens, GripperEnds
  <2>4. StateWakesLoop'
    BY <1>34, <2>0
    DEF TypeOK, StateWakesLoop, GripperEnds
  <2>5. Generations'
    BY <1>34, <2>0
    DEF TypeOK, Generations, Current, GripperEnds
  <2>6. Modes'
    BY <1>34, <2>0
    DEF TypeOK, Modes, Live, Current, InPc, GripperEnds
  <2> QED BY <2>1, <2>2, <2>3, <2>4, <2>5, <2>6 DEF IInv
<1>35. CASE StatusPublishes
  <2>1. TypeOK'
    BY <1>35
    DEF TypeOK, StatusPublishes
  <2>2. Calling'
    BY <1>35
    DEF Calling, StatusPublishes
  <2>3. Tokens'
    BY <1>35
    DEF TypeOK, Tokens, StatusPublishes
  <2>4. StateWakesLoop'
    BY <1>35
    DEF TypeOK, StateWakesLoop, StatusPublishes
  <2>5. Generations'
    BY <1>35
    DEF TypeOK, Generations, Current, StatusPublishes
  <2>6. Modes'
    BY <1>35
    DEF TypeOK, Modes, Live, Current, InPc, StatusPublishes
  <2> QED BY <2>1, <2>2, <2>3, <2>4, <2>5, <2>6 DEF IInv
<1>36. CASE StatusWakes
  <2>1. TypeOK'
    <3>1. owner' \in {"idle", "release"} /\ wake' \in BOOLEAN
      BY <1>36 DEF StatusWakes, TypeOK
    <3>2. tokens' \in Nat
      BY <1>36 DEF StatusWakes, TypeOK
    <3> QED BY <1>36, <3>1, <3>2 DEF StatusWakes, TypeOK, barrierVars, flagVars, stateVars, deviceVars
  <2>2. Calling'
    BY <1>36
    DEF Calling, StatusWakes
  <2>3. Tokens'
    BY <1>36
    DEF TypeOK, Tokens, StatusWakes
  <2>4. StateWakesLoop'
    BY <1>36
    DEF TypeOK, StateWakesLoop, StatusWakes, Tokens
  <2>5. Generations'
    BY <1>36
    DEF TypeOK, Generations, Current, StatusWakes
  <2>6. Modes'
    BY <1>36
    DEF TypeOK, Modes, Live, Current, InPc, StatusWakes
  <2> QED BY <2>1, <2>2, <2>3, <2>4, <2>5, <2>6 DEF IInv
<1>37. CASE readOnce
  <2>1. TypeOK'
    BY <1>37
    DEF TypeOK, readOnce
  <2>2. Calling'
    BY <1>37
    DEF Calling, readOnce
  <2>3. Tokens'
    BY <1>37
    DEF TypeOK, Tokens, readOnce
  <2>4. StateWakesLoop'
    BY <1>37
    DEF TypeOK, StateWakesLoop, readOnce
  <2>5. Generations'
    BY <1>37
    DEF TypeOK, Generations, Current, readOnce
  <2>6. Modes'
    BY <1>37
    DEF TypeOK, Modes, Live, Current, InPc, readOnce
  <2> QED BY <2>1, <2>2, <2>3, <2>4, <2>5, <2>6 DEF IInv
<1>38. CASE Restart
  <2>1. TypeOK'
    BY <1>38
    DEF TypeOK, Restart, DeviceType, ControlModes
  <2>2. Calling'
    BY <1>38
    DEF Calling, Restart
  <2>3. Tokens'
    BY <1>38
    DEF TypeOK, Tokens, Restart
  <2>4. StateWakesLoop'
    BY <1>38
    DEF TypeOK, StateWakesLoop, Restart
  <2>5. Generations'
    BY <1>38
    DEF TypeOK, Generations, Current, Restart
  <2>6. Modes'
    BY <1>38
    DEF TypeOK, Modes, Live, Current, InPc, Restart
  <2> QED BY <2>1, <2>2, <2>3, <2>4, <2>5, <2>6 DEF IInv
<1>s. CASE UNCHANGED vars
  BY <1>s DEF IInv, TypeOK, Calling, Tokens, StateWakesLoop, Generations, Modes, Live, Current, InPc,
     vars, barrierVars, flagVars, tokenVars, stateVars, deviceVars
<1> QED
  BY <1>s, <1>1, <1>2, <1>3, <1>4, <1>5, <1>6, <1>7, <1>8, <1>9, <1>10, <1>11, <1>12, <1>13, <1>14, <1>15, <1>16, <1>17, <1>18, <1>19, <1>20, <1>21, <1>22, <1>23, <1>24, <1>25, <1>26, <1>27, <1>28, <1>29, <1>30, <1>31, <1>32, <1>33, <1>34, <1>35, <1>36, <1>37, <1>38
  DEF Next, CallStep, LoopStep, GripperStep

\* At the start nothing runs and no mode is known.
LEMMA Initially == Init => IInv
<1> SUFFICES ASSUME Init PROVE IInv
  OBVIOUS
<1> USE Threads, ModesAssumption, MaxGenerationAssumption DEF Init, BarrierInit
<1>0. call \in CallType /\ call.at = "free" /\ call.for = "none"
  BY DEF NoCall, CallType, CallLabels
<1>1. TypeOK
  <2>1. device \in DeviceType
    BY DEF DeviceType, ControlModes
  <2>2. session \in [Senders -> SessionType]
    BY DEF SessionType, NoSession
  <2>3. at \in [Consumers -> ConsumerLabels]
    BY DEF ConsumerLabels
  <2>4. current \in 1..MaxGeneration /\ submitting \in [Senders -> 0..MaxGeneration]
    OBVIOUS
  <2>5. mode \in ControlModes \cup {"none"} /\ tokens \in Nat
    OBVIOUS
  <2> QED BY <1>0, <2>1, <2>2, <2>3, <2>4, <2>5, Zenon DEF TypeOK
<1>2. Calling /\ Tokens /\ StateWakesLoop
  BY <1>0 DEF Calling, Quiet, Tokens, StateWakesLoop
<1>3. Generations /\ Modes
  BY <1>0 DEF Generations, Quiet, Modes, Live, Current, NoSession
<1> QED BY <1>1, <1>2, <1>3 DEF IInv

\* The inductive invariant always holds.
LEMMA Always == Spec => []IInv
BY Initially, Inductive, PTL DEF Spec

\* m_state_wake_pending and m_data_ready: one token, and the mark tells of it.
THEOREM OneToken == Spec => []TokenIsSingle
<1>1. IInv => TokenIsSingle
  <2> SUFFICES ASSUME TypeOK, Tokens PROVE TokenIsSingle
    BY DEF IInv
  <2>1. tokens = 1 => Holders = {}
    BY DEF Tokens, Holders
  <2>2. \A a, b \in Holders : a = b
    BY DEF Tokens, Holders
  <2>3. wake <=> (tokens = 1 \/ Holders # {})
    BY DEF Tokens, Holders
  <2> QED BY <2>1, <2>2, <2>3 DEF Tokens, TokenIsSingle
<1> QED BY Always, <1>1, PTL

\* s_onArmStatus: a state that nobody has read wakes a consumer.
THEOREM StatesWakeLoops == Spec => []StateWakesLoop
<1>1. IInv => StateWakesLoop
  BY DEF IInv
<1> QED BY Always, <1>1, PTL

\* s_stopControlLocked: mode RPCs go out when no arm command does.
THEOREM LifecycleQuiet == Spec => []LifecycleIsQuiet
<1>1. IInv => LifecycleIsQuiet
  BY DEF IInv, Generations, Quiet, LifecycleIsQuiet
<1> QED BY Always, <1>1, PTL

\* s_prepareControlLocked: commands go to a device in their modes.
THEOREM SessionsFitDevice == Spec => []SessionFitsDevice
<1>1. IInv => SessionFitsDevice
  <2> SUFFICES ASSUME Modes PROVE SessionFitsDevice
    BY DEF IInv
  <2>1. ASSUME "arm" \notin doubt, mpc = "sending" \/ \E t \in Senders : submitting[t] # 0
        PROVE  device.arm = "pc"
    BY <2>1 DEF Modes, Live, InPc
  <2>2. ASSUME "control" \notin doubt
        PROVE  /\ \A t \in Senders : submitting[t] # 0 =>
                    device.control = s_controlModeFor(session[t].command)
               /\ mpc = "sending" => device.control = "pvt"
    BY <2>2, ControlModeFor DEF Modes, Live
  <2> QED BY <2>1, <2>2 DEF SessionFitsDevice
<1> QED BY Always, <1>1, PTL

-----------------------------------------------------------------------------
\* One session at most is current, and m_running tells of it until a stop has
\* begun to end it.
Stopping == {"wake", "release", "invalidate"}
RunningTells ==
    /\ \A t, u \in Senders : Current(t) /\ Current(u) => t = u
    /\ (\E t \in Senders : Current(t)) => running \/ call.at \in Stopping

\* Steps that leave the sessions and m_running alone.
LEMMA SessionsStay ==
    ASSUME RunningTells, UNCHANGED <<session, current, running>>,
           call.at \in Stopping => call'.at \in Stopping
    PROVE  RunningTells'
BY DEF RunningTells, Current

\* Without a gripper loop every step keeps m_running truthful.
LEMMA RunningInv ==
    ASSUME IInv, RunningTells, [Next]_vars, at[Gripper] = "idle", at'[Gripper] = "idle"
    PROVE  RunningTells'
<1> USE Threads DEF barrierVars, flagVars, tokenVars, stateVars, deviceVars
<1>0. TypeOK /\ Generations /\ Calling
  BY DEF IInv
<1>1. CASE Calls
  BY <1>0, <1>1, SessionsStay, Going DEF Calls, NoCall, CallLabels, Stopping
<1>2. CASE RaiseStopFlag \/ LowerStopFlag
  BY <1>2, SessionsStay DEF RaiseStopFlag, LowerStopFlag, At, Stopping
<1>3. CASE ClearRunning
  <2>1. call'.at = "wake" /\ UNCHANGED <<session, current>>
    BY <1>0, <1>3, Going DEF ClearRunning, CallLabels
  <2> QED BY <2>1 DEF RunningTells, Current, Stopping
<1>4. CASE StopWakes \/ StopReleases
  <2>1. call'.at \in Stopping /\ UNCHANGED <<session, current, running>>
    BY <1>0, <1>4, Going DEF StopWakes, StopReleases, CallLabels, Stopping
  <2> QED BY <2>1, SessionsStay
<1>5. CASE Invalidate
  <2>1. UNCHANGED session /\ current' = current + 1 /\ current \in Nat
    BY <1>0, <1>5 DEF Invalidate, EndGeneration, TypeOK
  <2>2. \A t \in Senders : session[t].generation \in Nat /\ session[t].generation <= current
    BY <1>0 DEF TypeOK, SessionType, Generations
  <2>3. \A t \in Senders : ~Current(t)'
    BY <2>1, <2>2 DEF Current
  <2> QED BY <2>3 DEF RunningTells
<1>6. CASE InvalidateReturns
  BY <1>6, SessionsStay DEF InvalidateReturns, Drained, At, Stopping
<1>7. CASE MpcStopped \/ CleanupJoins \/ OtherRpcs
  BY <1>7, SessionsStay DEF MpcStopped, CleanupJoins, OtherRpcs, At, Stopping
<1>8. CASE SetArmMode
  BY <1>8, SessionsStay DEF SetArmMode, At, Stopping
<1>9. CASE s_ensureMode
  BY <1>9, SessionsStay DEF s_ensureMode, At, Stopping
<1>10. CASE Issue
  <2>1. running' = TRUE /\ UNCHANGED current
    BY <1>10 DEF Issue
  <2>2. \A t \in Senders : session[t].generation \in Nat /\ session[t].generation < current
    BY <1>0, <1>10 DEF Issue, At, Generations, Quiet, TypeOK, SessionType
  <2>3. \A t \in Senders : t # call.for => session'[t] = session[t]
    BY <1>0, <1>10 DEF Issue, TypeOK
  <2>4. current \in Nat
    BY <1>0 DEF TypeOK
  <2>5. \A t \in Senders : Current(t)' => t = call.for
    BY <2>1, <2>2, <2>3, <2>4 DEF Current
  <2>6. \A t, u \in Senders : Current(t)' /\ Current(u)' => t = u
    BY <2>5, Zenon
  <2>7. running'
    BY <2>1, Zenon
  <2> QED BY <2>6, <2>7 DEF RunningTells
<1>11. ASSUME NEW t \in Loops, LoopCleanup(t) PROVE RunningTells'
  <2>1. /\ call = NoCall /\ UNCHANGED current /\ running' = (running /\ ~Current(t))
        /\ session'[t] = NoSession /\ \A u \in Senders : u # t => session'[u] = session[u]
    BY <1>0, <1>11 DEF LoopCleanup, TypeOK
  <2>2. call.at \notin Stopping /\ ~Current(t)'
    BY <1>0, <2>1 DEF NoCall, Stopping, NoSession, Current, TypeOK
  <2>3. \A u \in Senders : Current(u)' => Current(u) /\ u # t
    BY <2>1, <2>2 DEF Current
  <2>4. ASSUME NEW u \in Senders, Current(u)' PROVE running'
    <3>1. running /\ ~Current(t)
      BY <2>2, <2>3, <2>4 DEF RunningTells
    <3> QED BY <2>1, <3>1
  <2> QED BY <2>3, <2>4 DEF RunningTells
<1>12. ASSUME NEW t \in Loops, LoopHead(t) \/ LoopTimesOut(t) \/ Acquire(t) \/ Clear(t)
              \/ LoopTakes(t) \/ LoopCallback(t)
       PROVE  RunningTells'
  <2>1. UNCHANGED <<session, current, running, call>>
    BY <1>12 DEF LoopHead, LoopTimesOut, Acquire, Clear, LoopTakes, LoopCallback
  <2> QED BY <2>1, SessionsStay
<1>13. ASSUME NEW t \in Senders, LoopSends(t) \/ LoopSent(t) \/ WriterSends(t) \/ WriterSent(t)
       PROVE  RunningTells'
  <2>1. UNCHANGED <<session, current, running, call>>
    BY <1>13 DEF LoopSends, LoopSent, WriterSends, WriterSent, BeginSubmit, EndSubmit
  <2> QED BY <2>1, SessionsStay
<1>14. CASE MpcSends \/ MpcEnds \/ StatusPublishes \/ StatusWakes \/ readOnce \/ Restart
            \/ UNCHANGED vars
  <2>1. UNCHANGED <<session, current, running, call>>
    BY <1>14 DEF MpcSends, MpcEnds, StatusPublishes, StatusWakes, readOnce, Restart, vars
  <2> QED BY <2>1, SessionsStay
<1>15. ~GripperCalls /\ ~GripperStep
  BY <1>0 DEF GripperCalls, GripperStep, GripperUnstops, GripperModes, GripperHead, Acquire,
     Clear, GripperTakes, GripperSends, GripperEnds, Move, TypeOK
<1> QED
  BY <1>1, <1>2, <1>3, <1>4, <1>5, <1>6, <1>7, <1>8, <1>9, <1>10, <1>11, <1>12, <1>13, <1>14,
     <1>15
  DEF Next, CallStep, LoopStep

\* m_running: while no gripper loop uses it, uploads and reboots are admitted
\* only when no arm session is open.
THEOREM UploadsNeedStop == Spec /\ [](at[Gripper] = "idle") => []UploadNeedsStop
<1> DEFINE NoGripper == at[Gripper] = "idle"
<1>1. Init => RunningTells
  BY DEF Init, RunningTells, Current, BarrierInit, NoSession
<1>2. IInv /\ RunningTells /\ NoGripper /\ NoGripper' /\ [Next]_vars => RunningTells'
  BY RunningInv
<1>3. RunningTells => UploadNeedsStop
  BY Threads DEF RunningTells, UploadNeedsStop, firmwareUploadAllowed, NoCall, Stopping
<1>4. Spec /\ []NoGripper => []UploadNeedsStop
  <2> HIDE DEF NoGripper
  <2> QED BY <1>1, <1>2, <1>3, Always, PTL DEF Spec
<1> QED BY <1>4

=============================================================================
