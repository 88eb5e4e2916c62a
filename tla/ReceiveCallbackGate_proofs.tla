---------------------- MODULE ReceiveCallbackGate_proofs ----------------------
(***************************************************************************)
(* Proofs about the receive gate, for any finite set of transport threads, *)
(* any width of the count and any number of registrations.                 *)
(***************************************************************************)
EXTENDS ReceiveCallbackGate, FiniteSetTheorems, TLAPS

\* The count in m_state is exact.
Counted == entered = Cardinality(Inside)

\* What the updater's place says of the gate: closed until it opens it, a count
\* it has read as zero stays zero, and the fields it has written so far.
Updating ==
    /\ upc \in {"test", "wait", "blocked", "load", "storeCallback", "storeContext", "open"} => closed
    /\ upc = "test" /\ seen = 0 => entered = 0
    /\ upc \in {"wait", "blocked"} => seen # 0
    /\ upc \in {"storeCallback", "storeContext", "open"} => entered = 0
    /\ upc = "storeContext" => callback = given
    /\ upc = "open" => callback = given /\ context = given /\ given # 0

\* An open gate, or one with somebody inside, has a whole registration.
Registered ==
    ~closed \/ entered # 0 => callback = context /\ callback # 0

\* A thread in the callback runs the pair that is registered now.
RunsCurrent == \A r \in Receivers : rpc[r] = "running" => running[r] = <<callback, context>>

\* The inductive invariant.
IInv == TypeOK /\ Counted /\ Updating /\ Registered /\ RunsCurrent /\ NoLostWakeup

\* The count is that of a finite set, zero only when nobody is inside.
LEMMA InsideCount ==
    /\ IsFiniteSet(Inside)
    /\ Cardinality(Inside) \in Nat
    /\ Cardinality(Inside) = 0 <=> Inside = {}
<1>1. IsFiniteSet(Inside)
  BY ThreadsAssumption, FS_Subset DEF Inside
<1>2. Cardinality(Inside) \in Nat
  BY <1>1, FS_CardinalityType
<1>3. Cardinality(Inside) = 0 <=> Inside = {}
  BY <1>1, FS_EmptySet
<1> QED BY <1>1, <1>2, <1>3

\* s_tryEnter keeps the count exact.
LEMMA EnterCounts ==
    ASSUME TypeOK, Counted, NEW r \in Receivers, TryEnter(r)
    PROVE  Counted'
<1>1. Inside' = Inside \cup {r} /\ r \notin Inside
  BY DEF Inside, TryEnter, TypeOK, ReceiverLabels
<1>2. Cardinality(Inside \cup {r}) = Cardinality(Inside) + 1
  BY <1>1, InsideCount, FS_AddElement
<1> QED BY <1>1, <1>2 DEF TryEnter, Counted

\* s_leave keeps it exact too, and it never underflows.
LEMMA LeaveCounts ==
    ASSUME TypeOK, Counted, NEW r \in Receivers, Leave(r)
    PROVE  Counted' /\ entered >= 1
<1>1. Inside' = Inside \ {r} /\ r \in Inside
  BY DEF Inside, Leave, TypeOK, ReceiverLabels
<1>2. Cardinality(Inside \ {r}) = Cardinality(Inside) - 1
  BY <1>1, InsideCount, FS_RemoveElement
<1>3. Cardinality(Inside) # 0
  BY <1>1, InsideCount
<1> QED BY <1>1, <1>2, <1>3, InsideCount DEF Leave, Counted

\* Who is not outside is counted.
LEMMA InsideIsCounted ==
    ASSUME TypeOK, Counted, NEW r \in Receivers,
           rpc[r] \in {"entered", "running", "leaving"}
    PROVE  entered # 0
BY InsideCount DEF Inside, Counted

\* A receiver's step inside, or outside, leaves the counted set alone.
LEMMA SameInside ==
    ASSUME TypeOK, Counted, NEW r \in Receivers, NEW l \in ReceiverLabels,
           rpc' = [rpc EXCEPT ![r] = l], UNCHANGED entered,
           rpc[r] \in {"entered", "running", "leaving"} <=> l \in {"entered", "running", "leaving"}
    PROVE  Counted'
<1>1. Inside' = Inside
  BY DEF Inside, TypeOK, ReceiverLabels
<1> QED BY <1>1 DEF Counted

\* Every step keeps the inductive invariant.
LEMMA Inductive == IInv /\ [Next]_vars => IInv'
<1> SUFFICES ASSUME IInv, [Next]_vars PROVE IInv'
  OBVIOUS
<1> USE CountMaskAssumption, RegistrationsAssumption DEF IInv
<1>1. ASSUME NEW r \in Receivers, TryEnter(r) PROVE IInv'
  <2>1. Counted'
    BY <1>1, EnterCounts
  <2>2. TypeOK'
    BY <1>1 DEF TryEnter, updaterVars, receiverVars, TypeOK, ReceiverLabels, UpdaterLabels
  <2>3. Updating' /\ Registered'
    BY <1>1 DEF TryEnter, updaterVars, receiverVars, TypeOK, Updating, Registered
  <2>4. RunsCurrent'
    BY <1>1 DEF TryEnter, updaterVars, receiverVars, TypeOK, RunsCurrent, Registered, Updating
  <2>5. NoLostWakeup'
    BY <1>1 DEF TryEnter, updaterVars, receiverVars, TypeOK, NoLostWakeup, Updating
  <2> QED BY <2>1, <2>2, <2>3, <2>4, <2>5
<1>2. ASSUME NEW r \in Receivers, CallCallback(r) PROVE IInv'
  <2>1. Counted'
    BY <1>2, SameInside DEF CallCallback, updaterVars, ReceiverLabels
  <2>2. TypeOK'
    BY <1>2 DEF CallCallback, updaterVars, receiverVars, TypeOK, ReceiverLabels, UpdaterLabels
  <2>3. Updating' /\ Registered'
    BY <1>2 DEF CallCallback, updaterVars, receiverVars, TypeOK, Updating, Registered
  <2>4. RunsCurrent'
    BY <1>2 DEF CallCallback, updaterVars, receiverVars, TypeOK, RunsCurrent, Registered, Updating
  <2>5. NoLostWakeup'
    BY <1>2 DEF CallCallback, updaterVars, receiverVars, TypeOK, NoLostWakeup, Updating
  <2> QED BY <2>1, <2>2, <2>3, <2>4, <2>5
<1>3. ASSUME NEW r \in Receivers, CallbackReturns(r) PROVE IInv'
  <2>1. Counted'
    BY <1>3, SameInside DEF CallbackReturns, updaterVars, ReceiverLabels
  <2>2. TypeOK'
    BY <1>3 DEF CallbackReturns, updaterVars, receiverVars, TypeOK, ReceiverLabels, UpdaterLabels
  <2>3. Updating' /\ Registered'
    BY <1>3 DEF CallbackReturns, updaterVars, receiverVars, TypeOK, Updating, Registered
  <2>4. RunsCurrent'
    BY <1>3 DEF CallbackReturns, updaterVars, receiverVars, TypeOK, RunsCurrent, Registered, Updating
  <2>5. NoLostWakeup'
    BY <1>3 DEF CallbackReturns, updaterVars, receiverVars, TypeOK, NoLostWakeup, Updating
  <2> QED BY <2>1, <2>2, <2>3, <2>4, <2>5
<1>4. ASSUME NEW r \in Receivers, Leave(r) PROVE IInv'
  <2>0. entered >= 1
    BY <1>4, LeaveCounts
  <2>1. Counted'
    BY <1>4, LeaveCounts
  <2>2. TypeOK'
    BY <1>4, <2>0 DEF Leave, updaterVars, receiverVars, TypeOK, ReceiverLabels, UpdaterLabels
  <2>3. Updating' /\ Registered'
    BY <1>4, <2>0 DEF Leave, updaterVars, receiverVars, TypeOK, Updating, Registered
  <2>4. RunsCurrent'
    BY <1>4, <2>0 DEF Leave, updaterVars, receiverVars, TypeOK, RunsCurrent, Registered, Updating
  <2>5. NoLostWakeup'
    BY <1>4, <2>0 DEF Leave, updaterVars, receiverVars, TypeOK, NoLostWakeup, Updating
  <2> QED BY <2>1, <2>2, <2>3, <2>4, <2>5
<1>5. ASSUME NEW r \in Receivers, Notify(r) PROVE IInv'
  <2>1. Counted'
    BY <1>5, SameInside DEF Notify, ReceiverLabels
  <2>2. TypeOK'
    BY <1>5 DEF Notify, updaterVars, receiverVars, TypeOK, ReceiverLabels, UpdaterLabels
  <2>3. Updating' /\ Registered'
    BY <1>5 DEF Notify, updaterVars, receiverVars, TypeOK, Updating, Registered
  <2>4. RunsCurrent'
    BY <1>5 DEF Notify, updaterVars, receiverVars, TypeOK, RunsCurrent, Registered, Updating
  <2>5. NoLostWakeup'
    BY <1>5 DEF Notify, updaterVars, receiverVars, TypeOK, NoLostWakeup, Updating
  <2> QED BY <2>1, <2>2, <2>3, <2>4, <2>5
<1>6. ASSUME NEW u \in Updaters, NEW g \in {0, calls + 1}, LockUpdate(u, g) PROVE IInv'
  <2>1. Counted'
    BY <1>6 DEF LockUpdate, receiverVars, Counted, Inside
  <2>2. TypeOK'
    BY <1>6 DEF LockUpdate, updaterVars, receiverVars, TypeOK, ReceiverLabels, UpdaterLabels
  <2>3. Updating' /\ Registered'
    BY <1>6 DEF LockUpdate, updaterVars, receiverVars, TypeOK, Updating, Registered
  <2>4. RunsCurrent'
    BY <1>6 DEF LockUpdate, updaterVars, receiverVars, TypeOK, RunsCurrent, Registered, Updating
  <2>5. NoLostWakeup'
    BY <1>6 DEF LockUpdate, updaterVars, receiverVars, TypeOK, NoLostWakeup, Updating
  <2> QED BY <2>1, <2>2, <2>3, <2>4, <2>5
<1>7. ASSUME CloseGate PROVE IInv'
  <2>1. Counted'
    BY <1>7 DEF CloseGate, receiverVars, Counted, Inside
  <2>2. TypeOK'
    BY <1>7 DEF CloseGate, updaterVars, receiverVars, TypeOK, ReceiverLabels, UpdaterLabels
  <2>3. Updating' /\ Registered'
    BY <1>7 DEF CloseGate, updaterVars, receiverVars, TypeOK, Updating, Registered
  <2>4. RunsCurrent'
    BY <1>7 DEF CloseGate, updaterVars, receiverVars, TypeOK, RunsCurrent, Registered, Updating
  <2>5. NoLostWakeup'
    BY <1>7 DEF CloseGate, updaterVars, receiverVars, TypeOK, NoLostWakeup, Updating
  <2> QED BY <2>1, <2>2, <2>3, <2>4, <2>5
<1>8. ASSUME TestCount PROVE IInv'
  <2>1. Counted'
    BY <1>8 DEF TestCount, receiverVars, Counted, Inside
  <2>2. TypeOK'
    BY <1>8 DEF TestCount, updaterVars, receiverVars, TypeOK, ReceiverLabels, UpdaterLabels
  <2>3. Updating' /\ Registered'
    BY <1>8 DEF TestCount, updaterVars, receiverVars, TypeOK, Updating, Registered
  <2>4. RunsCurrent'
    BY <1>8 DEF TestCount, updaterVars, receiverVars, TypeOK, RunsCurrent, Registered, Updating
  <2>5. NoLostWakeup'
    BY <1>8 DEF TestCount, updaterVars, receiverVars, TypeOK, NoLostWakeup, Updating
  <2> QED BY <2>1, <2>2, <2>3, <2>4, <2>5
<1>9. ASSUME WaitForLeave PROVE IInv'
  <2>1. Counted'
    BY <1>9 DEF WaitForLeave, receiverVars, Counted, Inside
  <2>2. TypeOK'
    BY <1>9 DEF WaitForLeave, updaterVars, receiverVars, TypeOK, ReceiverLabels, UpdaterLabels
  <2>3. Updating' /\ Registered'
    BY <1>9 DEF WaitForLeave, updaterVars, receiverVars, TypeOK, Updating, Registered
  <2>4. RunsCurrent'
    BY <1>9 DEF WaitForLeave, updaterVars, receiverVars, TypeOK, RunsCurrent, Registered, Updating
  <2>5. NoLostWakeup'
    BY <1>9 DEF WaitForLeave, updaterVars, receiverVars, TypeOK, NoLostWakeup, Updating
  <2> QED BY <2>1, <2>2, <2>3, <2>4, <2>5
<1>10. ASSUME LoadCount PROVE IInv'
  <2>1. Counted'
    BY <1>10 DEF LoadCount, receiverVars, Counted, Inside
  <2>2. TypeOK'
    BY <1>10 DEF LoadCount, updaterVars, receiverVars, TypeOK, ReceiverLabels, UpdaterLabels
  <2>3. Updating' /\ Registered'
    BY <1>10 DEF LoadCount, updaterVars, receiverVars, TypeOK, Updating, Registered
  <2>4. RunsCurrent'
    BY <1>10 DEF LoadCount, updaterVars, receiverVars, TypeOK, RunsCurrent, Registered, Updating
  <2>5. NoLostWakeup'
    BY <1>10 DEF LoadCount, updaterVars, receiverVars, TypeOK, NoLostWakeup, Updating
  <2> QED BY <2>1, <2>2, <2>3, <2>4, <2>5
<1>11. ASSUME StoreCallback PROVE IInv'
  <2>0. \A r \in Receivers : rpc[r] # "running"
    BY <1>11, InsideIsCounted DEF StoreCallback, Updating
  <2>1. Counted'
    BY <1>11 DEF StoreCallback, receiverVars, Counted, Inside
  <2>2. TypeOK'
    BY <1>11, <2>0 DEF StoreCallback, updaterVars, receiverVars, TypeOK, ReceiverLabels, UpdaterLabels
  <2>3. Updating' /\ Registered'
    BY <1>11, <2>0 DEF StoreCallback, updaterVars, receiverVars, TypeOK, Updating, Registered
  <2>4. RunsCurrent'
    BY <1>11, <2>0 DEF StoreCallback, updaterVars, receiverVars, TypeOK, RunsCurrent, Registered, Updating
  <2>5. NoLostWakeup'
    BY <1>11, <2>0 DEF StoreCallback, updaterVars, receiverVars, TypeOK, NoLostWakeup, Updating
  <2> QED BY <2>1, <2>2, <2>3, <2>4, <2>5
<1>12. ASSUME StoreContext PROVE IInv'
  <2>0. \A r \in Receivers : rpc[r] # "running"
    BY <1>12, InsideIsCounted DEF StoreContext, Updating
  <2>1. Counted'
    BY <1>12 DEF StoreContext, receiverVars, Counted, Inside
  <2>2. TypeOK'
    BY <1>12, <2>0 DEF StoreContext, updaterVars, receiverVars, TypeOK, ReceiverLabels, UpdaterLabels
  <2>3. Updating' /\ Registered'
    BY <1>12, <2>0 DEF StoreContext, updaterVars, receiverVars, TypeOK, Updating, Registered
  <2>4. RunsCurrent'
    BY <1>12, <2>0 DEF StoreContext, updaterVars, receiverVars, TypeOK, RunsCurrent, Registered, Updating
  <2>5. NoLostWakeup'
    BY <1>12, <2>0 DEF StoreContext, updaterVars, receiverVars, TypeOK, NoLostWakeup, Updating
  <2> QED BY <2>1, <2>2, <2>3, <2>4, <2>5
<1>13. ASSUME OpenGate PROVE IInv'
  <2>a. closed' \in BOOLEAN
    BY <1>13, Zenon DEF OpenGate
  <2>b. entered' \in 0..CountMask
    BY <1>13 DEF OpenGate
  <2>1. Counted'
    BY <1>13 DEF OpenGate, receiverVars, Counted, Inside, Updating
  <2>2. TypeOK'
    BY <1>13, <2>a, <2>b DEF OpenGate, updaterVars, receiverVars, TypeOK, ReceiverLabels, UpdaterLabels
  <2>3. Updating' /\ Registered'
    BY <1>13, <2>a, <2>b DEF OpenGate, updaterVars, receiverVars, TypeOK, Updating, Registered
  <2>4. RunsCurrent'
    BY <1>13, <2>a, <2>b DEF OpenGate, updaterVars, receiverVars, TypeOK, RunsCurrent, Registered, Updating
  <2>5. NoLostWakeup'
    BY <1>13, <2>a, <2>b DEF OpenGate, updaterVars, receiverVars, TypeOK, NoLostWakeup, Updating
  <2> QED BY <2>1, <2>2, <2>3, <2>4, <2>5
<1>14. ASSUME UnlockUpdate PROVE IInv'
  <2>1. Counted'
    BY <1>14 DEF UnlockUpdate, receiverVars, Counted, Inside
  <2>2. TypeOK'
    BY <1>14 DEF UnlockUpdate, updaterVars, receiverVars, TypeOK, ReceiverLabels, UpdaterLabels
  <2>3. Updating' /\ Registered'
    BY <1>14 DEF UnlockUpdate, updaterVars, receiverVars, TypeOK, Updating, Registered
  <2>4. RunsCurrent'
    BY <1>14 DEF UnlockUpdate, updaterVars, receiverVars, TypeOK, RunsCurrent, Registered, Updating
  <2>5. NoLostWakeup'
    BY <1>14 DEF UnlockUpdate, updaterVars, receiverVars, TypeOK, NoLostWakeup, Updating
  <2> QED BY <2>1, <2>2, <2>3, <2>4, <2>5
<1>15. ASSUME SpuriousWake PROVE IInv'
  <2>1. Counted'
    BY <1>15 DEF SpuriousWake, receiverVars, Counted, Inside
  <2>2. TypeOK'
    BY <1>15 DEF SpuriousWake, updaterVars, receiverVars, TypeOK, ReceiverLabels, UpdaterLabels
  <2>3. Updating' /\ Registered'
    BY <1>15 DEF SpuriousWake, updaterVars, receiverVars, TypeOK, Updating, Registered
  <2>4. RunsCurrent'
    BY <1>15 DEF SpuriousWake, updaterVars, receiverVars, TypeOK, RunsCurrent, Registered, Updating
  <2>5. NoLostWakeup'
    BY <1>15 DEF SpuriousWake, updaterVars, receiverVars, TypeOK, NoLostWakeup, Updating
  <2> QED BY <2>1, <2>2, <2>3, <2>4, <2>5
<1>16. ASSUME UNCHANGED vars PROVE IInv'
  BY <1>16 DEF vars, TypeOK, Counted, Inside, Updating, Registered, RunsCurrent, NoLostWakeup
<1> QED
  BY <1>1, <1>2, <1>3, <1>4, <1>5, <1>6, <1>7, <1>8, <1>9, <1>10, <1>11, <1>12, <1>13, <1>14, <1>15, <1>16 DEF Next, ReceiverStep, UpdaterStep, Refused

\* The gate starts closed, with nobody inside.
LEMMA Initially == Init => IInv
<1> SUFFICES ASSUME Init PROVE IInv
  OBVIOUS
<1>1. Inside = {}
  BY DEF Init, Inside
<1>2. Cardinality(Inside) = 0
  BY <1>1, FS_EmptySet
<1>3. running \in [Receivers -> (0..MaxRegistrations) \X (0..MaxRegistrations)]
  BY RegistrationsAssumption DEF Init
<1> QED BY <1>2, <1>3, CountMaskAssumption, RegistrationsAssumption
        DEF Init, IInv, TypeOK, Counted, Updating, Registered, RunsCurrent, NoLostWakeup,
            ReceiverLabels, UpdaterLabels

\* The inductive invariant gives what the transports rely on.
LEMMA Consequences == IInv => RunsRegisteredPair /\ Quiescent
<1> SUFFICES ASSUME IInv PROVE RunsRegisteredPair /\ Quiescent
  OBVIOUS
<1>1. RunsRegisteredPair
  BY InsideIsCounted DEF IInv, RunsRegisteredPair, RunsCurrent, Registered
<1>2. entered = 0 => Inside = {}
  BY InsideCount DEF IInv, Counted
<1>3. Quiescent
  BY <1>2 DEF IInv, Quiescent, Updating, Registered
<1> QED BY <1>1, <1>3

\* The inductive invariant always holds.
LEMMA Always == Spec => []IInv
BY Initially, Inductive, PTL DEF Spec

\* m_state never carries into its closed bit and never underflows, whatever the
\* width of the count (s_tryEnter, s_leave).
THEOREM ReceiveGateTypeCorrect == Spec => []TypeOK
<1>1. IInv => TypeOK
  BY DEF IInv
<1> QED BY Always, <1>1, PTL

\* invoke() runs only the registered callback with its own context.
THEOREM ReceiveGateRunsPair == Spec => []RunsRegisteredPair
BY Always, Consequences, PTL

\* set() and clear() are quiescence barriers.
THEOREM ReceiveGateQuiesces == Spec => []Quiescent
BY Always, Consequences, PTL

\* s_closeAndWait: an updater that sleeps is owed a notification.
THEOREM ReceiveGateWakes == Spec => []NoLostWakeup
<1>1. IInv => NoLostWakeup
  BY DEF IInv
<1> QED BY Always, <1>1, PTL

=============================================================================
