---------------------- MODULE ControlGeneration_proofs ----------------------
(***************************************************************************)
(* Proofs about the session gate, for any finite set of sender threads and *)
(* any number of generations.                                              *)
(***************************************************************************)
EXTENDS ControlGeneration, FiniteSetTheorems, TLAPS

\* What the atomics know about the threads: the count is exact, m_draining
\* is up exactly while invalidate() runs, and nobody holds a future handle.
Bookkeeping ==
    /\ inflight = Cardinality(Entered)
    /\ draining <=> invPc # "idle"
    /\ \A t \in Senders : handle[t] <= generation
    /\ invPc \in {"wait", "blocked"} => count # 0
    /\ invPc = "bump" => generation < MaxGeneration

\* The inductive invariant.
IInv == TypeOK /\ Bookkeeping /\ NoExpiredSubmission /\ NoLostWakeup

\* m_inflight counts a finite set, and is zero only when nobody is inside.
LEMMA EnteredCount ==
    /\ IsFiniteSet(Entered)
    /\ Cardinality(Entered) \in Nat
    /\ Cardinality(Entered) = 0 <=> Entered = {}
<1>1. IsFiniteSet(Entered)
  BY SendersAssumption, FS_Subset DEF Entered
<1>2. Cardinality(Entered) \in Nat
  BY <1>1, FS_CardinalityType
<1>3. Cardinality(Entered) = 0 <=> Entered = {}
  BY <1>1, FS_EmptySet
<1> QED BY <1>1, <1>2, <1>3

\* The fetch_add of line 28 keeps the count exact.
LEMMA EnterCounts ==
    ASSUME TypeOK, Bookkeeping, NEW t \in Senders, SendEnter(t)
    PROVE  inflight' = Cardinality(Entered')
<1>1. Entered' = Entered \cup {t} /\ t \notin Entered
  BY DEF Entered, SendEnter, TypeOK, SenderLabels
<1>2. Cardinality(Entered \cup {t}) = Cardinality(Entered) + 1
  BY <1>1, EnteredCount, FS_AddElement
<1> QED BY <1>1, <1>2 DEF SendEnter, Bookkeeping

\* The fetch_sub of ~Leave keeps the count exact, and never underflows.
LEMMA LeaveCounts ==
    ASSUME TypeOK, Bookkeeping, NEW t \in Senders, SendLeave(t)
    PROVE  inflight' = Cardinality(Entered') /\ inflight >= 1 /\ inflight' \in Nat
<1>1. Entered' = Entered \ {t} /\ t \in Entered
  BY DEF Entered, SendLeave, TypeOK, SenderLabels
<1>2. Cardinality(Entered \ {t}) = Cardinality(Entered) - 1
  BY <1>1, EnteredCount, FS_RemoveElement
<1>3. Cardinality(Entered) # 0
  BY <1>1, EnteredCount
<1> QED BY <1>1, <1>2, <1>3, EnteredCount DEF SendLeave, Bookkeeping

\* A step that moves nobody in or out leaves the counted set alone.
LEMMA SameEntered ==
    ASSUME TypeOK, NEW t \in Senders, NEW l \in SenderLabels,
           pc' = [pc EXCEPT ![t] = l],
           pc[t] \in {"recheck", "submit", "leave"} <=> l \in {"recheck", "submit", "leave"}
    PROVE  Entered' = Entered
BY DEF Entered, TypeOK, SenderLabels

\* Every step keeps the inductive invariant.
LEMMA Inductive == IInv /\ [Next]_vars => IInv'
<1> SUFFICES ASSUME IInv, [Next]_vars PROVE IInv'
  OBVIOUS
<1> USE SendersAssumption, MaxGenerationAssumption DEF IInv
<1>1. ASSUME NEW t \in Senders, SendCall(t) PROVE IInv'
  <2>1. PICK h \in IssuedHandles : SendCheck(t, h) \/ SendExpired(t, h)
    BY <1>1 DEF SendCall
  <2>2. h \in 1..MaxGeneration /\ h <= generation
    BY DEF IssuedHandles, TypeOK
  <2>3. CASE SendCheck(t, h)
    <3>1. Entered' = Entered
      BY <2>3, SameEntered DEF SendCheck, TypeOK, SenderLabels
    <3> QED BY <2>2, <2>3, <3>1
            DEF SendCheck, TypeOK, Bookkeeping, NoExpiredSubmission, NoLostWakeup,
                SenderLabels, InvalidateLabels
  <2>4. CASE SendExpired(t, h)
    <3>1. Entered' = Entered
      BY <2>4 DEF SendExpired, Entered, vars
    <3> QED BY <2>2, <2>4, <3>1
            DEF SendExpired, vars, TypeOK, Bookkeeping, NoExpiredSubmission, NoLostWakeup,
                SenderLabels, InvalidateLabels
  <2> QED BY <2>1, <2>3, <2>4
<1>2. ASSUME NEW t \in Senders, SendEnter(t) PROVE IInv'
  <2>1. inflight' = Cardinality(Entered')
    BY <1>2, EnterCounts
  <2> QED BY <1>2, <2>1
          DEF SendEnter, TypeOK, Bookkeeping, NoExpiredSubmission, NoLostWakeup,
              SenderLabels, InvalidateLabels
<1>3. ASSUME NEW t \in Senders, SendRecheck(t) PROVE IInv'
  <2>1. Entered' = Entered
    BY <1>3, SameEntered DEF SendRecheck, TypeOK, SenderLabels
  <2> QED BY <1>3, <2>1
          DEF SendRecheck, TypeOK, Bookkeeping, NoExpiredSubmission, NoLostWakeup,
              SenderLabels, InvalidateLabels
<1>4. ASSUME NEW t \in Senders, SendSubmit(t) PROVE IInv'
  <2>1. Entered' = Entered
    BY <1>4, SameEntered DEF SendSubmit, TypeOK, SenderLabels
  <2> QED BY <1>4, <2>1
          DEF SendSubmit, TypeOK, Bookkeeping, NoExpiredSubmission, NoLostWakeup,
              SenderLabels, InvalidateLabels
<1>5. ASSUME NEW t \in Senders, SendLeave(t) PROVE IInv'
  <2>1. inflight' = Cardinality(Entered') /\ inflight >= 1 /\ inflight' \in Nat
    BY <1>5, LeaveCounts
  <2> QED BY <1>5, <2>1
          DEF SendLeave, TypeOK, Bookkeeping, NoExpiredSubmission, NoLostWakeup,
              SenderLabels, InvalidateLabels
<1>6. ASSUME NEW t \in Senders, SendCheckDraining(t) PROVE IInv'
  <2>1. Entered' = Entered
    BY <1>6, SameEntered DEF SendCheckDraining, TypeOK, SenderLabels
  <2> QED BY <1>6, <2>1
          DEF SendCheckDraining, TypeOK, Bookkeeping, NoExpiredSubmission, NoLostWakeup,
              SenderLabels, InvalidateLabels
<1>7. ASSUME NEW t \in Senders, SendNotify(t) PROVE IInv'
  <2>1. Entered' = Entered
    BY <1>7, SameEntered DEF SendNotify, TypeOK, SenderLabels
  <2> QED BY <1>7, <2>1
          DEF SendNotify, TypeOK, Bookkeeping, NoExpiredSubmission, NoLostWakeup,
              SenderLabels, InvalidateLabels
<1>8. ASSUME InvalidateStep \/ InvalidateSpuriousWake PROVE IInv'
  <2>1. Entered' = Entered
    BY <1>8 DEF Entered, InvalidateStep, InvalidateRaise, InvalidateBump, InvalidateLoad,
                InvalidateWait, InvalidateClear, InvalidateSpuriousWake
  <2> USE DEF TypeOK, Bookkeeping, NoExpiredSubmission, NoLostWakeup, InvalidateLabels
  <2>2. CASE InvalidateRaise
    BY <2>1, <2>2 DEF InvalidateRaise
  <2>3. CASE InvalidateBump
    BY <2>1, <2>3 DEF InvalidateBump
  <2>4. CASE InvalidateLoad
    <3>1. inflight = 0 => \A t \in Senders : pc[t] # "submit"
      BY EnteredCount DEF Entered
    <3> QED BY <2>1, <2>4, <3>1 DEF InvalidateLoad
  <2>5. CASE InvalidateWait
    BY <2>1, <2>5 DEF InvalidateWait
  <2>6. CASE InvalidateClear
    BY <2>1, <2>6 DEF InvalidateClear
  <2>7. CASE InvalidateSpuriousWake
    BY <2>1, <2>7 DEF InvalidateSpuriousWake
  <2> QED BY <1>8, <2>2, <2>3, <2>4, <2>5, <2>6, <2>7 DEF InvalidateStep
<1>9. CASE UNCHANGED vars
  BY <1>9 DEF vars, Entered, TypeOK, Bookkeeping, NoExpiredSubmission, NoLostWakeup
<1> QED BY <1>1, <1>2, <1>3, <1>4, <1>5, <1>6, <1>7, <1>8, <1>9 DEF Next, SenderStep

\* A fresh gate satisfies it.
LEMMA InitInductive == Init => IInv
<1> SUFFICES ASSUME Init PROVE IInv
  OBVIOUS
<1>1. Entered = {}
  BY DEF Init, Entered
<1>2. Cardinality(Entered) = 0
  BY <1>1, FS_EmptySet
<1>3. TypeOK
  <2>1. draining \in BOOLEAN
    BY Zenon DEF Init
  <2> QED BY <2>1, MaxGenerationAssumption DEF Init, TypeOK, SenderLabels, InvalidateLabels
<1>4. Bookkeeping /\ NoExpiredSubmission /\ NoLostWakeup
  BY <1>2, MaxGenerationAssumption DEF Init, Bookkeeping, NoExpiredSubmission, NoLostWakeup
<1> QED BY <1>3, <1>4 DEF IInv

\* The inductive invariant of ControlGeneration holds in every reachable state:
\* m_inflight counts exactly the threads inside send().
THEOREM GateInvariant == Spec => []IInv
BY InitInductive, Inductive, PTL DEF Spec

\* The variables keep their types; in particular m_inflight never underflows.
THEOREM GateTypeCorrect == Spec => []TypeOK
BY GateInvariant, PTL DEF IInv

\* After invalidate() nobody submits for an ended generation
\* (ControlGeneration.hpp:36-38).
THEOREM GateExpires == Spec => []NoExpiredSubmission
BY GateInvariant, PTL DEF IInv

\* A sleeping invalidate() is owed a notify_all (ControlGeneration.hpp:32).
THEOREM GateWakes == Spec => []NoLostWakeup
BY GateInvariant, PTL DEF IInv

-----------------------------------------------------------------------------
\* Under the refinement mapping, a step that leaves these alone is a stutter.
LEMMA BarrierStutter ==
    ASSUME UNCHANGED generation,
           \A t \in Senders : /\ pc'[t] = "submit" <=> pc[t] = "submit"
                              /\ pc[t] = "submit" => handle'[t] = handle[t],
           invPc' \in {"idle", "bump"} <=> invPc \in {"idle", "bump"}
    PROVE  UNCHANGED Barrier!barrierVars
BY DEF Barrier!barrierVars

\* Every step of the gate is a step of the barrier or a stutter.
LEMMA StepImplements == IInv /\ [Next]_vars => [Barrier!BarrierNext]_(Barrier!barrierVars)
<1> SUFFICES ASSUME IInv, [Next]_vars
             PROVE  Barrier!BarrierNext \/ UNCHANGED Barrier!barrierVars
  OBVIOUS
<1> USE MaxGenerationAssumption DEF IInv
<1>1. ASSUME NEW t \in Senders, SendRecheck(t), handle[t] = generation
      PROVE  Barrier!BeginSubmit(t)
  BY <1>1 DEF SendRecheck, Barrier!BeginSubmit, TypeOK, SenderLabels
<1>2. ASSUME NEW t \in Senders, SendSubmit(t)
      PROVE  Barrier!EndSubmit(t)
  <2>1. handle[t] # 0 /\ pc[t] = "submit"
    BY <1>2 DEF SendSubmit, TypeOK
  <2>2. \A u \in Senders : pc'[u] = IF u = t THEN "leave" ELSE pc[u]
    BY <1>2 DEF SendSubmit, TypeOK
  <2> DEFINE submitting == [u \in Senders |-> IF pc[u] = "submit" THEN handle[u] ELSE 0]
  <2>3. submitting[t] # 0
    BY <2>1
  <2>4. submitting' = [submitting EXCEPT ![t] = 0]
    <3>1. \A u \in Senders : submitting'[u] = IF u = t THEN 0 ELSE submitting[u]
      BY <1>2, <2>2 DEF SendSubmit
    <3> QED BY <3>1
  <2> QED BY <1>2, <2>3, <2>4 DEF SendSubmit, Barrier!EndSubmit
<1>3. ASSUME NEW t \in Senders, SendCall(t) \/ SendEnter(t) \/ SendLeave(t)
                                \/ SendCheckDraining(t) \/ SendNotify(t)
      PROVE  UNCHANGED Barrier!barrierVars
  BY <1>3, BarrierStutter
     DEF SendCall, SendCheck, SendExpired, vars, SendEnter, SendLeave, SendCheckDraining,
         SendNotify, TypeOK, SenderLabels, InvalidateLabels
<1>4. ASSUME NEW t \in Senders, SendRecheck(t), handle[t] # generation
      PROVE  UNCHANGED Barrier!barrierVars
  BY <1>4, BarrierStutter DEF SendRecheck, TypeOK, SenderLabels
<1>5. ASSUME InvalidateBump PROVE Barrier!EndGeneration
  BY <1>5 DEF InvalidateBump, Barrier!EndGeneration
<1>6. ASSUME InvalidateClear PROVE Barrier!Drained
  <2>1. \A t \in Senders : pc[t] = "submit" => handle[t] = generation
    BY <1>6 DEF InvalidateClear, NoExpiredSubmission
  <2> QED BY <1>6, <2>1 DEF InvalidateClear, Barrier!Drained
<1>7. CASE InvalidateRaise \/ InvalidateLoad \/ InvalidateWait \/ InvalidateSpuriousWake
  BY <1>7, BarrierStutter
     DEF InvalidateRaise, InvalidateLoad, InvalidateWait, InvalidateSpuriousWake
<1>8. CASE UNCHANGED vars
  BY <1>8, BarrierStutter DEF vars
<1> QED BY <1>1, <1>2, <1>3, <1>4, <1>5, <1>6, <1>7, <1>8
        DEF Next, SenderStep, InvalidateStep, Barrier!BarrierNext

\* The gate refines SessionBarrier: its atomics keep the promise for any
\* number of senders and generations.
THEOREM GateImplementsBarrier == Spec => ImplementsBarrier
<1>1. Init => Barrier!BarrierInit
  BY DEF Init, Barrier!BarrierInit
<1> QED BY <1>1, StepImplements, GateInvariant, PTL
        DEF Spec, ImplementsBarrier, Barrier!BarrierSpec

=============================================================================
