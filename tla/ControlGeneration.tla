-------------------------- MODULE ControlGeneration --------------------------
(***************************************************************************)
(* The lock-free session gate of include/florid/detail/ControlGeneration.hpp*)
(* One step is one atomic operation of the code; all of them are           *)
(* sequentially consistent.  A sender thread runs send(); the lifecycle     *)
(* caller that holds ArmImpl's m_session_mutex runs invalidate().           *)
(***************************************************************************)
EXTENDS Naturals, FiniteSets

CONSTANTS Senders,        \* threads that may call send()
          MaxGeneration   \* bound: invalidate() is not called beyond it

ASSUME SendersAssumption == IsFiniteSet(Senders)
ASSUME MaxGenerationAssumption == MaxGeneration \in Nat \ {0}

VARIABLES generation,     \* m_generation
          inflight,       \* m_inflight
          draining,       \* m_draining
          pc,             \* where each sender is inside send()
          handle,         \* s_generation, the argument of its call
          invPc,          \* where the lifecycle caller is in invalidate()
          count           \* its s_count, the value it waits on

senderVars == <<pc, handle>>
vars == <<generation, inflight, draining, pc, handle, invPc, count>>

SenderLabels == {"idle", "enter", "recheck", "submit", "leave", "left", "notify"}
InvalidateLabels == {"idle", "bump", "load", "wait", "blocked", "clear"}

\* Threads counted in m_inflight: between the fetch_add and the fetch_sub.
Entered == {t \in Senders : pc[t] \in {"recheck", "submit", "leave"}}

\* Handles a thread can hold.  s_prepareControlLocked reads current() under
\* the mutex invalidate() runs under, so nobody holds a handle of the new
\* generation before invalidate() has returned.
IssuedHandles ==
    IF invPc \in {"idle", "bump"} THEN 1..generation ELSE 1..(generation - 1)

Init ==
    /\ generation = 1
    /\ inflight = 0
    /\ draining = FALSE
    /\ pc = [t \in Senders |-> "idle"]
    /\ handle = [t \in Senders |-> 1]
    /\ invPc = "idle"
    /\ count = 0

-----------------------------------------------------------------------------
(* send(): line 27, the first check throws for an expired handle.          *)
SendCheck(t, h) ==
    /\ pc[t] = "idle"
    /\ h = generation
    /\ handle' = [handle EXCEPT ![t] = h]
    /\ pc' = [pc EXCEPT ![t] = "enter"]
    /\ UNCHANGED <<generation, inflight, draining, invPc, count>>

\* The throw of line 27 leaves no trace but the exception.
SendExpired(t, h) ==
    /\ pc[t] = "idle"
    /\ h # generation
    /\ UNCHANGED vars

SendEnter(t) ==
    /\ pc[t] = "enter"
    /\ inflight' = inflight + 1
    /\ pc' = [pc EXCEPT ![t] = "recheck"]
    /\ UNCHANGED <<generation, draining, handle, invPc, count>>

\* A bug: trusting the first check.
SendRecheckSkipped(t) ==
    /\ pc[t] = "recheck"
    /\ pc' = [pc EXCEPT ![t] = "submit"]
    /\ UNCHANGED <<generation, inflight, draining, handle, invPc, count>>

\* Line 38: a handle that expired meanwhile throws through ~Leave.
SendRecheck(t) ==
    /\ pc[t] = "recheck"
    /\ pc' = [pc EXCEPT ![t] = IF handle[t] = generation THEN "submit" ELSE "leave"]
    /\ UNCHANGED <<generation, inflight, draining, handle, invPc, count>>

\* The submission itself (s_send), which returns or throws; both reach ~Leave.
SendSubmit(t) ==
    /\ pc[t] = "submit"
    /\ pc' = [pc EXCEPT ![t] = "leave"]
    /\ UNCHANGED <<generation, inflight, draining, handle, invPc, count>>

\* A bug: testing the value after the fetch_sub instead of the one before.
SendLeaveOffByOne(t) ==
    /\ pc[t] = "leave"
    /\ inflight' = inflight - 1
    /\ pc' = [pc EXCEPT ![t] = IF inflight = 0 THEN "left" ELSE "idle"]
    /\ UNCHANGED <<generation, draining, handle, invPc, count>>

\* ~Leave: only the thread that takes the count to zero looks at m_draining.
SendLeave(t) ==
    /\ pc[t] = "leave"
    /\ inflight' = inflight - 1
    /\ pc' = [pc EXCEPT ![t] = IF inflight = 1 THEN "left" ELSE "idle"]
    /\ UNCHANGED <<generation, draining, handle, invPc, count>>

SendCheckDraining(t) ==
    /\ pc[t] = "left"
    /\ pc' = [pc EXCEPT ![t] = IF draining THEN "notify" ELSE "idle"]
    /\ UNCHANGED <<generation, inflight, draining, handle, invPc, count>>

SendNotify(t) ==
    /\ pc[t] = "notify"
    /\ pc' = [pc EXCEPT ![t] = "idle"]
    /\ invPc' = IF invPc = "blocked" THEN "wait" ELSE invPc
    /\ UNCHANGED <<generation, inflight, draining, handle, count>>

SenderStep(t) ==
    \/ SendEnter(t) \/ SendRecheck(t) \/ SendSubmit(t)
    \/ SendLeave(t) \/ SendCheckDraining(t) \/ SendNotify(t)

SendCall(t) == \E h \in IssuedHandles : SendCheck(t, h) \/ SendExpired(t, h)

-----------------------------------------------------------------------------
(* invalidate(): lines 18-24.                                              *)
InvalidateRaise ==
    /\ invPc = "idle"
    /\ generation < MaxGeneration
    /\ draining' = TRUE
    /\ invPc' = "bump"
    /\ UNCHANGED <<generation, inflight, pc, handle, count>>

InvalidateBump ==
    /\ invPc = "bump"
    /\ generation' = generation + 1
    /\ invPc' = "load"
    /\ UNCHANGED <<inflight, draining, pc, handle, count>>

InvalidateLoad ==
    /\ invPc = "load"
    /\ count' = inflight
    /\ invPc' = IF inflight = 0 THEN "clear" ELSE "wait"
    /\ UNCHANGED <<generation, inflight, draining, pc, handle>>

\* A bug: sleeping without comparing, as with a bare condition variable.
InvalidateWaitBlindly ==
    /\ invPc = "wait"
    /\ invPc' = "blocked"
    /\ UNCHANGED <<generation, inflight, draining, pc, handle, count>>

\* A bug: one wait instead of a loop until the count reads zero.
InvalidateWaitOnce ==
    /\ invPc = "wait"
    /\ invPc' = IF inflight = count THEN "blocked" ELSE "clear"
    /\ UNCHANGED <<generation, inflight, draining, pc, handle, count>>

\* atomic::wait(s_count): compare, and sleep only if the value is unchanged.
InvalidateWait ==
    /\ invPc = "wait"
    /\ invPc' = IF inflight = count THEN "blocked" ELSE "load"
    /\ UNCHANGED <<generation, inflight, draining, pc, handle, count>>

\* The C++ library may unblock a waiter spuriously; it compares again.
InvalidateSpuriousWake ==
    /\ invPc = "blocked"
    /\ invPc' = "wait"
    /\ UNCHANGED <<generation, inflight, draining, pc, handle, count>>

InvalidateClear ==
    /\ invPc = "clear"
    /\ draining' = FALSE
    /\ invPc' = "idle"
    /\ UNCHANGED <<generation, inflight, pc, handle, count>>

InvalidateStep ==
    \/ InvalidateRaise \/ InvalidateBump \/ InvalidateLoad
    \/ InvalidateWait \/ InvalidateClear

Next ==
    \/ \E t \in Senders : SendCall(t) \/ SenderStep(t)
    \/ InvalidateStep
    \/ InvalidateSpuriousWake

Spec == Init /\ [][Next]_vars

\* The scheduler runs every thread that is inside a call; nothing obliges
\* anyone to make a call, and spurious wake-ups are never relied on.
Fairness ==
    /\ \A t \in Senders : WF_vars(SenderStep(t))
    /\ WF_vars(invPc # "idle" /\ InvalidateStep)

FairSpec == Spec /\ Fairness

-----------------------------------------------------------------------------
TypeOK ==
    /\ generation \in 1..MaxGeneration
    /\ inflight \in Nat
    /\ draining \in BOOLEAN
    /\ pc \in [Senders -> SenderLabels]
    /\ handle \in [Senders -> 1..MaxGeneration]
    /\ invPc \in InvalidateLabels
    /\ count \in Nat

(* Docs/mpc.md and the comment at ControlGeneration.hpp:36-37: once         *)
(* invalidate() has seen a zero count, no thread is inside a submission of *)
(* an ended generation, and none can get there any more.                   *)
NoExpiredSubmission ==
    invPc \in {"clear", "idle", "bump"} =>
        \A t \in Senders : pc[t] = "submit" => handle[t] = generation

(* ControlGeneration.hpp:21-22 and 31-32: a sleeping invalidate() is always *)
(* owed a wake-up, by a thread still counted or one that took the count to *)
(* zero and has not notified yet; m_draining is up so that it will.        *)
NoLostWakeup ==
    invPc = "blocked" =>
        /\ draining
        /\ inflight # 0 \/ \E t \in Senders : pc[t] \in {"left", "notify"}

(* Liveness of the barrier: invalidate() always returns, however many      *)
(* senders with expired handles keep calling.                              *)
InvalidateReturns == (invPc = "bump") ~> (invPc = "idle")

\* The gate implements the session barrier.
Barrier == INSTANCE SessionBarrier WITH
    current <- generation,
    submitting <- [t \in Senders |-> IF pc[t] = "submit" THEN handle[t] ELSE 0],
    phase <- IF invPc \in {"idle", "bump"} THEN "open" ELSE "draining"

(* The atomics implement the promise of SessionBarrier.                    *)
ImplementsBarrier == Barrier!BarrierSpec

=============================================================================
