------------------------- MODULE FciEndpoint_proofs -------------------------
(***************************************************************************)
(* Proofs about FciEndpoint, for every number of callers, every capacity   *)
(* and every timing: the queue is serialized and implements OperationQueue,*)
(* completions land in their own slot, results stay, renewals find a slot, *)
(* a busy lease has its request, nothing times out early, and a stopped    *)
(* endpoint is settled.                                                    *)
(***************************************************************************)
EXTENDS FciEndpoint, WireTime_proofs, WellFoundedInduction

\* Request ids are unique among the slots in use and below the next one.
UniqueIds ==
    /\ \A i \in Slots : Used(i) => ops[i].id < nextId
    /\ \A i, j \in Slots : Used(i) /\ Used(j) /\ ops[i].id = ops[j].id => i = j

\* The active operation is the one being admitted or the one in flight.
InFlight ==
    /\ rpc.slot = 0 => rpc = NoRpc
    /\ rpc.slot # 0 => rpc.slot = active /\ ops[active].id = rpc.id
    /\ active # 0 => rpc.slot = active \/ opc = "admit"
    /\ opc = "admit" => active # 0 /\ rpc.slot = 0

\* What s_stopOnOwner has put an end to.
Lifecycle ==
    /\ running <=> opc \notin {"closing", "stopped"}
    /\ ~running => Queued = {} /\ lease = ReleasedLease
    /\ opc = "stopped" => active = 0 /\ rpc.slot = 0

\* The inductive invariant.
IInv == TypeOK /\ SerializedQueue /\ UniqueIds /\ InFlight /\ Lifecycle

-----------------------------------------------------------------------------
(* Every non-empty set of naturals has a least element.                    *)
LEMMA LeastNatural ==
    ASSUME NEW T \in SUBSET Nat, T # {}
    PROVE  \E x \in T : \A y \in T : x <= y
<1> DEFINE less == {p \in Nat \X Nat : p[1] < p[2]}
<1>1. OpToRel(<, Nat) = less
  BY Zenon DEF OpToRel
<1>2. IsWellFoundedOn(less, Nat)
  BY <1>1, NatLessThanWellFounded, Zenon
<1> HIDE DEF less
<1>3. \E x \in T : \A y \in T : ~(<<y, x>> \in less)
  BY <1>2, WFMin
<1>4. ASSUME NEW x \in Nat, NEW y \in Nat PROVE <<y, x>> \in less <=> y < x
  BY DEF less
<1>5. PICK x \in T : \A y \in T : ~(<<y, x>> \in less)
  BY <1>3
<1>6. ASSUME NEW y \in T PROVE x <= y
  <2>1. x \in Nat /\ y \in Nat
    OBVIOUS
  <2>2. ~(y < x)
    BY <1>4, <1>5, <2>1, Zenon
  <2>3. QED
    BY <2>1, <2>2
<1>7. QED
  BY <1>6

(* s_allocateSlot answers with a free slot or with 0.                      *)
LEMMA AllocateFree ==
    ASSUME NEW internal \in BOOLEAN, s_allocateSlot(internal) # 0
    PROVE  /\ s_allocateSlot(internal) \in Slots
           /\ ~Used(s_allocateSlot(internal))
<1> DEFINE free == {i \in (IF internal THEN Slots ELSE 1..PublicCapacity) : ~Used(i)}
           least == CHOOSE i \in free : \A j \in free : i <= j
<1>1. free \in SUBSET Slots /\ Slots \in SUBSET Nat
  BY CapacityAssumption DEF Slots
<1>2. CASE internal /\ Capacity \in free
  BY <1>1, <1>2 DEF s_allocateSlot
<1>3. CASE ~(internal /\ Capacity \in free)
  <2>1. free # {} /\ s_allocateSlot(internal) = least
    BY <1>3 DEF s_allocateSlot
  <2>2. \E i \in free : \A j \in free : i <= j
    BY <1>1, <2>1, LeastNatural
  <2>3. least \in free
    BY <2>2
  <2>4. QED
    BY <1>1, <2>1, <2>3
<1>4. QED
  BY <1>2, <1>3

(* A public request gets a slot that is not reserved.                      *)
LEMMA AllocatePublic ==
    ASSUME s_allocateSlot(FALSE) # 0
    PROVE  s_allocateSlot(FALSE) \in 1..PublicCapacity
<1> DEFINE free == {i \in 1..PublicCapacity : ~Used(i)}
<1>1. free # {} /\ s_allocateSlot(FALSE) = CHOOSE i \in free : \A j \in free : i <= j
  BY DEF s_allocateSlot
<1>2. free \in SUBSET Nat
  BY CapacityAssumption
<1>3. \E i \in free : \A j \in free : i <= j
  BY <1>1, <1>2, LeastNatural
<1> QED BY <1>1, <1>3

(* s_findQueuedSlot answers with the slot of the oldest waiting request.   *)
LEMMA OldestQueued ==
    ASSUME TypeOK, Queued # {}
    PROVE  /\ s_findQueuedSlot \in Queued
           /\ \A j \in Queued : ops[s_findQueuedSlot].id <= ops[j].id
<1> DEFINE ids == {ops[i].id : i \in Queued}
<1>0. \A i \in Queued : ops[i].id \in Nat
  BY DEF TypeOK, Queued, SlotType
<1>1. ids \in SUBSET Nat /\ ids # {}
  BY <1>0
<1>2. \E x \in ids : \A y \in ids : x <= y
  BY <1>1, LeastNatural
<1>3. \E i \in Queued : \A j \in Queued : ops[i].id <= ops[j].id
  BY <1>2
<1>4. QED
  BY <1>3 DEF s_findQueuedSlot

-----------------------------------------------------------------------------
\* The slot table's share of TypeOK, and the lease's.
TableType == ops \in [Slots -> SlotType] /\ active \in 0..Capacity /\ nextId \in Nat
LeaseType ==
    /\ lease \in [state : LeaseStates, token : Tokens \cup {0}]
    /\ renewAt \in Nat /\ expireAt \in Nat

(* s_submit puts a fresh request into a free slot: it is the youngest, and *)
(* nothing else in the table changes.                                      *)
LEMMA EnqueueTable ==
    ASSUME IInv,
           NEW i \in Slots, ~Used(i),
           NEW kind \in Kinds \cup {"none"}, NEW token \in Tokens \cup {0},
           NEW internal \in BOOLEAN, NEW timeout \in {0, RpcTimeout, LeaseTimeout},
           Enqueue(i, kind, token, internal, timeout),
           UNCHANGED <<active, renewAt, expireAt>>
    PROVE  /\ TableType' /\ LeaseType' /\ SerializedQueue' /\ UniqueIds'
           /\ active # 0 => ops'[active].id = ops[active].id
<1> DEFINE new == [state |-> "Queued", id |-> nextId, kind |-> kind, token |-> token,
                   internal |-> internal, submitted |-> clock, timeout |-> timeout]
<1>1. new \in SlotType /\ ops' = [ops EXCEPT ![i] = new] /\ nextId' = nextId + 1
  BY DEF IInv, TypeOK, SlotType, Enqueue, PendingStates
<1>2. new.state = "Queued" /\ new.id = nextId
  OBVIOUS
<1>3. ops[i].state = "Unknown"
  BY DEF Used
<1> HIDE DEF new
<1>4. /\ ops' \in [Slots -> SlotType] /\ ops'[i] = new
      /\ \A j \in Slots : j # i => ops'[j] = ops[j]
  BY <1>1 DEF IInv, TypeOK
<1>5. TableType'
  BY <1>1, <1>4 DEF TableType, IInv, TypeOK
<1>6. LeaseType'
  BY DEF LeaseType, IInv, TypeOK, Enqueue, LeaseStates, LeaseBusyStates
<1>7. active # 0 => active \in Slots /\ active # i
  BY <1>3 DEF IInv, TypeOK, SerializedQueue, Slots
<1>8. SerializedQueue'
  <2>1. ASSUME NEW j \in Slots
        PROVE  ops'[j].state = "LinkPending" <=> active' = j
    BY <1>2, <1>3, <1>4 DEF IInv, SerializedQueue
  <2>2. ASSUME active' # 0, NEW j \in Slots, ops'[j].state = "Queued"
        PROVE  ops'[active'].id < ops'[j].id
    <3>1. active \in Slots /\ active # i /\ active' = active /\ ops'[active] = ops[active]
      BY <1>4, <1>7, <2>2
    <3>2. ops[active].id < nextId
      BY <3>1 DEF IInv, UniqueIds, SerializedQueue, Used
    <3>3. CASE j = i
      BY <1>2, <1>4, <3>1, <3>2, <3>3
    <3>4. CASE j # i
      BY <1>4, <2>2, <3>1, <3>4 DEF IInv, SerializedQueue, Queued
    <3>5. QED
      BY <3>3, <3>4
  <2>3. QED
    BY <2>1, <2>2 DEF SerializedQueue, Queued
<1>9. UniqueIds'
  <2>1. \A j \in Slots : j # i /\ Used(j)' => Used(j) /\ ops'[j].id = ops[j].id
                                              /\ ops[j].id \in Nat /\ ops[j].id < nextId
    BY <1>4 DEF IInv, TypeOK, SlotType, UniqueIds, Used
  <2>2. nextId \in Nat /\ ops'[i].id = nextId /\ nextId' = nextId + 1
    BY <1>1, <1>2, <1>4 DEF IInv, TypeOK
  <2>3. \A j \in Slots : Used(j)' => ops'[j].id < nextId'
    BY <2>1, <2>2
  <2>4. \A j, k \in Slots : Used(j)' /\ Used(k)' /\ ops'[j].id = ops'[k].id => j = k
    BY <2>1, <2>2 DEF IInv, UniqueIds
  <2>5. QED
    BY <2>3, <2>4 DEF UniqueIds
<1>10. QED
  BY <1>4, <1>5, <1>6, <1>7, <1>8, <1>9

(* s_finalize ends one operation and leaves the others alone; if it was    *)
(* the active one there is no active one any more.                         *)
LEMMA FinalizeTable ==
    ASSUME IInv,
           NEW i \in Slots, ops[i].state \in PendingStates,
           NEW s \in TerminalStates, NEW token \in Tokens \cup {0}, NEW grant \in Nat,
           Finalize(i, s, token, grant), nextId' = nextId
    PROVE  /\ TableType' /\ LeaseType' /\ SerializedQueue' /\ UniqueIds'
           /\ active' = IF active = i THEN 0 ELSE active
           /\ active' # 0 => ops'[active].id = ops[active].id
           /\ ~running => lease' = ReleasedLease
           /\ \A j \in Slots : ops'[j].state = "Queued" => ops[j].state = "Queued"
<1> DEFINE new == IF ops[i].internal THEN FreeSlot ELSE [ops[i] EXCEPT !.state = s]
<1>1. /\ ops' = [ops EXCEPT ![i] = new]
      /\ active' = IF active = i THEN 0 ELSE active
  BY DEF Finalize
<1>2. new \in SlotType /\ new.state \notin PendingStates
  <2>1. ops[i] \in SlotType
    BY DEF IInv, TypeOK
  <2>2. FreeSlot \in SlotType /\ FreeSlot.state \notin PendingStates
    BY DEF FreeSlot, SlotType, PendingStates
  <2>3. [ops[i] EXCEPT !.state = s] \in SlotType
    BY <2>1 DEF SlotType
  <2>4. [ops[i] EXCEPT !.state = s].state = s /\ s \notin PendingStates
    BY <2>1 DEF SlotType, TerminalStates, PendingStates
  <2>5. QED
    BY <2>2, <2>3, <2>4
<1>3. new.state # "Unknown" => new.id = ops[i].id
  BY DEF FreeSlot, IInv, TypeOK, SlotType
<1> HIDE DEF new
<1>4. /\ ops' \in [Slots -> SlotType] /\ ops'[i] = new
      /\ \A j \in Slots : j # i => ops'[j] = ops[j]
  BY <1>1, <1>2 DEF IInv, TypeOK
<1>5. TableType'
  BY <1>1, <1>4, CapacityAssumption DEF TableType, IInv, TypeOK
<1>6. lease' \in [state : LeaseStates, token : Tokens \cup {0}]
  BY DEF IInv, TypeOK, Finalize, LeaseStates, ReleasedLease
<1>7. renewAt' \in Nat /\ expireAt' \in Nat
  BY DEF IInv, TypeOK, Finalize
<1>8. ~running => lease' = ReleasedLease
  BY DEF Finalize, IInv, TypeOK
<1>9. \A j \in Slots : ops'[j].state \in PendingStates => j # i /\ ops'[j] = ops[j]
  BY <1>2, <1>4
<1>10. SerializedQueue'
  <2>1. ASSUME NEW j \in Slots
        PROVE  ops'[j].state = "LinkPending" <=> active' = j
    BY <1>1, <1>4, <1>9 DEF IInv, SerializedQueue, PendingStates, Slots
  <2>2. ASSUME active' # 0, NEW j \in Slots, ops'[j].state = "Queued"
        PROVE  ops'[active'].id < ops'[j].id
    <3>1. active' = active /\ active # i /\ active \in Slots
      BY <1>1, <2>2 DEF IInv, TypeOK, Slots
    <3>2. ops'[active] = ops[active] /\ ops'[j] = ops[j]
      BY <1>4, <1>9, <2>2, <3>1 DEF PendingStates
    <3>3. QED
      BY <2>2, <3>1, <3>2 DEF IInv, SerializedQueue, Queued
  <2>3. QED
    BY <2>1, <2>2 DEF SerializedQueue, Queued
<1>11. UniqueIds'
  <2>1. \A j \in Slots : Used(j)' => Used(j) /\ ops'[j].id = ops[j].id
    BY <1>3, <1>4 DEF Used, PendingStates
  <2>2. QED
    BY <2>1 DEF IInv, UniqueIds
<1>12. active' # 0 => ops'[active].id = ops[active].id
  BY <1>1, <1>4 DEF IInv, TypeOK, Slots
<1>13. QED
  BY <1>1, <1>5, <1>6, <1>7, <1>8, <1>9, <1>10, <1>11, <1>12 DEF LeaseType, PendingStates

-----------------------------------------------------------------------------
(* The invariant holds initially.                                          *)
LEMMA InitInv == Init => IInv
<1> SUFFICES ASSUME Init PROVE IInv
  OBVIOUS
<1>1. FreeSlot \in SlotType /\ FreeSlot.state = "Unknown"
  BY DEF FreeSlot, SlotType
<1>2. \A i \in Slots : ops[i].state = "Unknown"
  BY <1>1 DEF Init
<1>3. TypeOK
  <2>1. lease \in [state : LeaseStates, token : Tokens \cup {0}]
    BY DEF Init, ReleasedLease, LeaseStates
  <2>2. rpc \in [slot : 0..Capacity, id : Nat, deadline : Nat]
    BY CapacityAssumption DEF Init, NoRpc
  <2>3. request \in [Callers -> [kind : Kinds \cup {"none"}, token : Tokens \cup {0}]]
    BY DEF Init, NoRequest
  <2>4. ops \in [Slots -> SlotType] /\ active \in 0..Capacity /\ nextId \in Nat
    BY <1>1, CapacityAssumption DEF Init
  <2>5. cpc \in [Callers -> {"idle", "gate", "submit", "wait"}] /\ id \in [Callers -> Nat]
    BY DEF Init
  <2>6. running \in BOOLEAN /\ upgrading \in BOOLEAN /\ stopping \in BOOLEAN
    BY Zenon DEF Init
  <2>7. QED
    BY <2>1, <2>2, <2>3, <2>4, <2>5, <2>6 DEF Init, TypeOK
<1>4. SerializedQueue /\ UniqueIds
  BY <1>2 DEF SerializedQueue, UniqueIds, Used, Init, Slots
<1>5. InFlight /\ Lifecycle
  BY DEF InFlight, Lifecycle, Init, NoRpc
<1>6. QED
  BY <1>3, <1>4, <1>5 DEF IInv

(* Steps that leave the table, the RPC, the owner's phase and the lease    *)
(* alone: the callers' checks, the clock and the environment.              *)
LEMMA OutsideStep ==
    ASSUME IInv, TypeOK',
           UNCHANGED <<slotVars, lease, rpc, opc, running>>
    PROVE  IInv'
BY DEF IInv, SerializedQueue, UniqueIds, InFlight, Lifecycle, Queued, Used, slotVars

(* An API caller's step preserves the invariant.                           *)
LEMMA CallerInv == ASSUME IInv, NEW c \in Callers, CallerStep(c) PROVE IInv'
<1> USE DEF slotVars, leaseVars, ownerVars, envVars, callerVars
<1>1. CASE AcquireCheck(c)
  <2>1. TypeOK'
    BY <1>1 DEF AcquireCheck, IInv, TypeOK, Kinds
  <2>2. QED
    BY <1>1, <2>1, OutsideStep DEF AcquireCheck
<1>2. CASE ReleaseCheck(c)
  <2>1. TypeOK'
    BY <1>2 DEF ReleaseCheck, IInv, TypeOK, Kinds
  <2>2. QED
    BY <1>2, <2>1, OutsideStep DEF ReleaseCheck
<1>3. CASE \E kind \in {"query", "config"} \cap Calls : CallOther(c, kind)
  <2>1. TypeOK'
    BY <1>3 DEF CallOther, IInv, TypeOK, Kinds
  <2>2. QED
    BY <1>3, <2>1, OutsideStep DEF CallOther
<1>4. CASE SubmitGate(c)
  <2>1. TypeOK'
    BY <1>4 DEF SubmitGate, IInv, TypeOK, NoRequest
  <2>2. QED
    BY <1>4, <2>1, OutsideStep DEF SubmitGate
<1>5. CASE SubmitRefused(c)
  <2>1. TypeOK'
    BY <1>5 DEF SubmitRefused, IInv, TypeOK, NoRequest
  <2>2. QED
    BY <1>5, <2>1, OutsideStep DEF SubmitRefused
<1>6. CASE Submit(c)
  <2> DEFINE i == s_allocateSlot(FALSE)
  <2>1. i \in Slots /\ ~Used(i)
    BY <1>6, AllocateFree DEF Submit
  <2>2. /\ request[c].kind \in Kinds \cup {"none"} /\ request[c].token \in Tokens \cup {0}
        /\ Enqueue(i, request[c].kind, request[c].token, FALSE, RpcTimeout)
        /\ UNCHANGED <<active, renewAt, expireAt, rpc, opc, now, renewToken, running,
                       upgrading, clock, stopping>>
        /\ running
    BY <1>6 DEF Submit, IInv, TypeOK
  <2> HIDE DEF i
  <2>3. /\ TableType' /\ LeaseType' /\ SerializedQueue' /\ UniqueIds'
        /\ active # 0 => ops'[active].id = ops[active].id
    BY <2>1, <2>2, EnqueueTable
  <2>4. /\ cpc' \in [Callers -> {"idle", "gate", "submit", "wait"}]
        /\ request' \in [Callers -> [kind : Kinds \cup {"none"}, token : Tokens \cup {0}]]
        /\ id' \in [Callers -> Nat]
    BY <1>6 DEF Submit, IInv, TypeOK, NoRequest
  <2>5. TypeOK'
    BY <2>2, <2>3, <2>4 DEF IInv, TypeOK, TableType, LeaseType
  <2>6. InFlight'
    BY <2>2, <2>3 DEF IInv, InFlight
  <2>7. Lifecycle'
    BY <2>2 DEF IInv, Lifecycle
  <2>8. QED
    BY <2>3, <2>5, <2>6, <2>7 DEF IInv
<1>7. CASE Take(c)
  <2>1. PICK i \in Slots : /\ ops[i].id = id[c] /\ ops[i].state \in TerminalStates
                           /\ ops' = [ops EXCEPT ![i] = FreeSlot]
    BY <1>7 DEF Take
  <2>2. /\ UNCHANGED <<active, nextId, lease, renewAt, expireAt, rpc, opc, now, renewToken,
                       request, running, upgrading, clock, stopping>>
        /\ cpc' \in [Callers -> {"idle", "gate", "submit", "wait"}] /\ id' \in [Callers -> Nat]
    BY <1>7 DEF Take, IInv, TypeOK
  <2>3. FreeSlot \in SlotType /\ FreeSlot.state = "Unknown"
    BY DEF FreeSlot, SlotType
  <2>4. /\ ops' \in [Slots -> SlotType] /\ ops'[i] = FreeSlot
        /\ \A j \in Slots : j # i => ops'[j] = ops[j]
    BY <2>1, <2>3 DEF IInv, TypeOK
  <2>5. TypeOK'
    BY <2>2, <2>4 DEF IInv, TypeOK
  <2>6. active # i
    BY <2>1 DEF IInv, SerializedQueue, TerminalStates
  <2>7. active # 0 => active \in Slots /\ ops'[active] = ops[active]
    BY <2>4, <2>6 DEF IInv, TypeOK, Slots
  <2>8. SerializedQueue'
    BY <2>1, <2>2, <2>3, <2>4, <2>6, <2>7 DEF IInv, SerializedQueue, Queued, TerminalStates
  <2>9. UniqueIds'
    BY <2>2, <2>3, <2>4 DEF IInv, UniqueIds, Used
  <2>10. InFlight'
    BY <2>2, <2>7 DEF IInv, InFlight
  <2>11. Lifecycle'
    BY <2>2, <2>3, <2>4 DEF IInv, Lifecycle, Queued
  <2>12. QED
    BY <2>5, <2>8, <2>9, <2>10, <2>11 DEF IInv
<1>8. CASE WaitExpires(c)
  <2>1. TypeOK'
    BY <1>8 DEF WaitExpires, IInv, TypeOK
  <2>2. QED
    BY <1>8, <2>1, OutsideStep DEF WaitExpires
<1>9. QED
  BY <1>1, <1>2, <1>3, <1>4, <1>5, <1>6, <1>7, <1>8 DEF CallerStep

(* Steps of a pass that change only the owner's place in it and, while the *)
(* endpoint runs, the lease.                                               *)
LEMMA PassOnly ==
    ASSUME IInv, TypeOK', running,
           UNCHANGED <<ops, active, nextId, rpc, running>>,
           opc # "admit", opc' \notin {"admit", "closing", "stopped"}
    PROVE  IInv'
BY DEF IInv, SerializedQueue, UniqueIds, InFlight, Lifecycle, Queued, Used

(* A pass that ends an operation.                                          *)
LEMMA FinalizeInPass ==
    ASSUME IInv, running,
           NEW i \in Slots, ops[i].state \in PendingStates,
           NEW s \in TerminalStates, NEW token \in Tokens \cup {0}, NEW grant \in Nat,
           Finalize(i, s, token, grant),
           UNCHANGED <<nextId, renewToken, callerVars, envVars>>,
           now' \in Nat, opc' \in {"sleep", "expire"},
           \/ rpc' = rpc /\ (opc = "admit" => active = i) /\ (rpc.slot # 0 => active # i)
           \/ rpc' = NoRpc /\ rpc.slot = i
    PROVE  IInv'
<1> USE DEF callerVars, envVars
<1>1. /\ TableType' /\ LeaseType' /\ SerializedQueue' /\ UniqueIds'
      /\ active' = IF active = i THEN 0 ELSE active
      /\ active' # 0 => ops'[active].id = ops[active].id
  BY FinalizeTable
<1>2. rpc' \in [slot : 0..Capacity, id : Nat, deadline : Nat]
  BY CapacityAssumption DEF IInv, TypeOK, NoRpc
<1>3. TypeOK'
  BY <1>1, <1>2 DEF IInv, TypeOK, TableType, LeaseType
<1>4. InFlight'
  BY <1>1 DEF IInv, InFlight, NoRpc, Slots
<1>5. Lifecycle'
  BY DEF IInv, Lifecycle
<1>6. QED
  BY <1>1, <1>3, <1>4, <1>5 DEF IInv

(* The owner's steps inside a pass preserve the invariant.                 *)
LEMMA PassInv == ASSUME IInv, PassStep PROVE IInv'
<1> USE DEF slotVars, leaseVars, ownerVars
<1>0. /\ running /\ opc \notin {"sleep", "closing", "stopped"}
  BY DEF PassStep, IInv, Lifecycle, ExpireQueued, ExpireLease, UpgradeGate, DropLease,
         RenewalCheck, RenewalGate, RenewalSubmit, StartNext, AdmitOk,
         AdmitBusy, AdmitFailed
<1>1. CASE ExpireQueued
  <2>1. CASE OverdueSlots # {}
    <3> DEFINE i == CHOOSE i \in OverdueSlots : \A j \in OverdueSlots : i <= j
    <3>1. OverdueSlots \in SUBSET Queued /\ Queued \in SUBSET Slots /\ Slots \in SUBSET Nat
      BY CapacityAssumption DEF OverdueSlots, Queued, Slots
    <3>2. i \in OverdueSlots
      BY <2>1, <3>1, LeastNatural
    <3>3. /\ Finalize(i, "TimedOut", 0, 0)
          /\ UNCHANGED <<nextId, opc, now, renewToken, rpc, callerVars, envVars>>
          /\ opc = "expire"
      BY <1>1, <2>1 DEF ExpireQueued
    <3> HIDE DEF i
    <3>4. i \in Slots /\ ops[i].state = "Queued" /\ active # i
      BY <3>1, <3>2 DEF Queued, IInv, SerializedQueue
    <3>5. QED
      BY <1>0, <3>3, <3>4, FinalizeInPass DEF IInv, TypeOK, PendingStates, TerminalStates
  <2>2. CASE OverdueSlots = {}
    <3>1. /\ opc' = "lease" /\ opc = "expire"
          /\ UNCHANGED <<ops, active, leaseVars, nextId, now, renewToken, rpc, callerVars, envVars>>
      BY <1>1, <2>2 DEF ExpireQueued
    <3>2. TypeOK'
      BY <3>1 DEF IInv, TypeOK, callerVars, envVars
    <3>3. QED
      BY <1>0, <3>1, <3>2, PassOnly DEF envVars
  <2>3. QED
    BY <2>1, <2>2
<1>2. CASE ExpireLease
  <2>1. TypeOK'
    BY <1>2 DEF ExpireLease, IInv, TypeOK, callerVars, envVars, LeaseStates
  <2>2. QED
    BY <1>0, <1>2, <2>1, PassOnly DEF ExpireLease, envVars
<1>3. CASE UpgradeGate
  <2>1. TypeOK'
    BY <1>3 DEF UpgradeGate, IInv, TypeOK, callerVars, envVars
  <2>2. QED
    BY <1>0, <1>3, <2>1, PassOnly DEF UpgradeGate, envVars
<1>4. CASE DropLease
  <2>1. TypeOK'
    BY <1>4 DEF DropLease, IInv, TypeOK, callerVars, envVars, ReleasedLease, LeaseStates
  <2>2. QED
    BY <1>0, <1>4, <2>1, PassOnly DEF DropLease, envVars
<1>5. CASE RenewalCheck
  <2>1. TypeOK'
    BY <1>5 DEF RenewalCheck, IInv, TypeOK, callerVars, envVars
  <2>2. QED
    BY <1>0, <1>5, <2>1, PassOnly DEF RenewalCheck, envVars
<1>6. CASE RenewalGate
  <2>1. TypeOK'
    BY <1>6 DEF RenewalGate, IInv, TypeOK, callerVars, envVars
  <2>2. QED
    BY <1>0, <1>6, <2>1, PassOnly DEF RenewalGate, envVars
<1>7. CASE RenewalSubmit
  <2>1. /\ opc = "renewSubmit" /\ opc' = "start" /\ renewToken' = 0
        /\ UNCHANGED <<active, renewAt, expireAt, now, rpc, callerVars, envVars>>
    BY <1>7 DEF RenewalSubmit
  <2>2. CASE running /\ s_allocateSlot(TRUE) # 0 /\ nextId <= MaxRequests
    <3> DEFINE i == s_allocateSlot(TRUE)
    <3>1. i \in Slots /\ ~Used(i)
      BY <2>2, AllocateFree
    <3>2. Enqueue(i, "acquire", renewToken, TRUE, LeaseTimeout) /\ renewToken \in Tokens \cup {0}
      BY <1>7, <2>2 DEF RenewalSubmit, IInv, TypeOK
    <3> HIDE DEF i
    <3>3. /\ TableType' /\ LeaseType' /\ SerializedQueue' /\ UniqueIds'
          /\ active # 0 => ops'[active].id = ops[active].id
      BY <2>1, <3>1, <3>2, EnqueueTable DEF Kinds
    <3>4. TypeOK'
      BY <2>1, <3>3 DEF IInv, TypeOK, TableType, LeaseType, callerVars, envVars
    <3>5. InFlight'
      BY <2>1, <3>3 DEF IInv, InFlight
    <3>6. Lifecycle'
      BY <1>0, <2>1 DEF IInv, Lifecycle, envVars
    <3>7. QED
      BY <3>3, <3>4, <3>5, <3>6 DEF IInv
  <2>3. CASE ~(running /\ s_allocateSlot(TRUE) # 0 /\ nextId <= MaxRequests)
    <3>1. UNCHANGED <<ops, nextId, lease>>
      BY <1>7, <2>3 DEF RenewalSubmit
    <3>2. TypeOK'
      BY <2>1, <3>1 DEF IInv, TypeOK, callerVars, envVars
    <3>3. QED
      BY <1>0, <2>1, <3>1, <3>2, PassOnly DEF envVars
  <2>4. QED
    BY <2>2, <2>3
<1>8. CASE StartNext
  <2>1. CASE active = 0 /\ Queued # {}
    <3> DEFINE i == s_findQueuedSlot
    <3>1. i \in Slots /\ ops[i].state = "Queued" /\ \A j \in Queued : ops[i].id <= ops[j].id
      BY <2>1, OldestQueued DEF IInv, Queued
    <3>2. /\ active' = i /\ opc = "start" /\ opc' = "admit"
          /\ ops' = [ops EXCEPT ![i].state = "LinkPending"]
          /\ UNCHANGED <<nextId, renewAt, expireAt, now, renewToken, rpc, callerVars, envVars>>
      BY <1>8, <2>1 DEF StartNext
    <3>3. lease' \in [state : LeaseStates, token : Tokens \cup {0}]
      BY <1>8, <2>1 DEF StartNext, IInv, TypeOK, LeaseStates, LeaseBusyStates
    <3> HIDE DEF i
    <3>4. /\ ops' \in [Slots -> SlotType] /\ ops'[i].state = "LinkPending"
          /\ \A j \in Slots : ops'[j].id = ops[j].id /\ (j # i => ops'[j] = ops[j])
      BY <3>1, <3>2 DEF IInv, TypeOK, SlotType, PendingStates
    <3>5. TypeOK'
      BY <3>1, <3>2, <3>3, <3>4 DEF IInv, TypeOK, callerVars, envVars, Slots
    <3>6. SerializedQueue'
      <4>1. ASSUME NEW j \in Slots
            PROVE  ops'[j].state = "LinkPending" <=> active' = j
        BY <2>1, <3>2, <3>4 DEF IInv, SerializedQueue, Slots
      <4>2. ASSUME NEW j \in Slots, ops'[j].state = "Queued"
            PROVE  ops'[i].id < ops'[j].id
        <5>1. j # i /\ j \in Queued
          BY <3>4, <4>2 DEF Queued
        <5>2. ops[i].id # ops[j].id /\ ops[i].id <= ops[j].id
          BY <3>1, <5>1 DEF IInv, UniqueIds, Used, Queued
        <5>3. ops[i].id \in Nat /\ ops[j].id \in Nat
          BY <3>1 DEF IInv, TypeOK, SlotType
        <5>4. QED
          BY <3>1, <3>4, <5>2, <5>3
      <4>3. QED
        BY <3>2, <4>1, <4>2 DEF SerializedQueue, Queued
    <3>7. UniqueIds'
      BY <3>1, <3>2, <3>4 DEF IInv, UniqueIds, Used
    <3>8. InFlight'
      BY <2>1, <3>1, <3>2 DEF IInv, InFlight, Slots
    <3>9. Lifecycle'
      BY <1>0, <3>2 DEF IInv, Lifecycle, envVars
    <3>10. QED
      BY <3>5, <3>6, <3>7, <3>8, <3>9 DEF IInv
  <2>2. CASE ~(active = 0 /\ Queued # {})
    <3>1. TypeOK'
      BY <1>8, <2>2 DEF StartNext, EndPass, IInv, TypeOK, callerVars, envVars
    <3>2. QED
      BY <1>0, <1>8, <2>2, <3>1, PassOnly DEF StartNext, EndPass, envVars
  <2>3. QED
    BY <2>1, <2>2
<1>9. CASE AdmitOk
  <2>1. /\ opc = "admit" /\ active \in Slots /\ ops[active].state = "LinkPending"
        /\ rpc.slot = 0
    BY <1>9 DEF AdmitOk, IInv, TypeOK, SerializedQueue, InFlight, Slots
  <2>2. Remaining(active) \in Nat
    <3>1. /\ now \in Nat /\ ops[active].submitted \in Nat /\ ops[active].timeout \in Nat
      BY <2>1, TimeoutAssumption DEF IInv, TypeOK, SlotType
    <3>2. QED
      BY <3>1, RemainingNatural DEF Remaining
  <2>3. /\ rpc' = [slot |-> active, id |-> ops[active].id, deadline |-> clock + Remaining(active)]
        /\ opc' = "sleep" /\ now' = 0
        /\ UNCHANGED <<slotVars, leaseVars, renewToken, callerVars, envVars>>
    BY <1>9 DEF AdmitOk, EndPass
  <2>4. rpc' \in [slot : 0..Capacity, id : Nat, deadline : Nat]
    BY <2>1, <2>2, <2>3 DEF IInv, TypeOK, SlotType
  <2>5. TypeOK'
    BY <2>3, <2>4 DEF IInv, TypeOK, callerVars, envVars
  <2>6. InFlight'
    BY <2>1, <2>3 DEF IInv, InFlight, Slots
  <2>7. SerializedQueue' /\ UniqueIds' /\ Lifecycle'
    BY <1>0, <2>3 DEF IInv, SerializedQueue, UniqueIds, Lifecycle, Used, Queued, envVars
  <2>8. QED
    BY <2>5, <2>6, <2>7 DEF IInv
<1>10. CASE AdmitBusy
  <2>1. /\ opc = "admit" /\ active \in Slots /\ ops[active].state = "LinkPending"
        /\ rpc.slot = 0
    BY <1>10 DEF AdmitBusy, IInv, TypeOK, SerializedQueue, InFlight, Slots
  <2>2. /\ ops' = [ops EXCEPT ![active].state = "Queued"] /\ active' = 0
        /\ opc' = "sleep" /\ now' = 0
        /\ UNCHANGED <<nextId, leaseVars, renewToken, rpc, callerVars, envVars>>
    BY <1>10 DEF AdmitBusy, EndPass
  <2>3. /\ ops' \in [Slots -> SlotType] /\ ops'[active].state = "Queued"
        /\ \A j \in Slots : ops'[j].id = ops[j].id /\ (j # active => ops'[j] = ops[j])
    <3> DEFINE new == [ops[active] EXCEPT !.state = "Queued"]
    <3>1. ops \in [Slots -> SlotType] /\ ops[active] \in SlotType
      BY <2>1 DEF IInv, TypeOK
    <3>2. new \in SlotType /\ new.state = "Queued" /\ new.id = ops[active].id
      BY <3>1 DEF SlotType, PendingStates
    <3>3. ops' = [ops EXCEPT ![active] = new]
      BY <2>2
    <3> HIDE DEF new
    <3>4. QED
      BY <2>1, <3>1, <3>2, <3>3
  <2>4. TypeOK'
    BY <2>2, <2>3, CapacityAssumption DEF IInv, TypeOK, callerVars, envVars
  <2>5. SerializedQueue'
    BY <2>1, <2>2, <2>3 DEF IInv, SerializedQueue, Slots
  <2>6. UniqueIds'
    BY <2>1, <2>2, <2>3 DEF IInv, UniqueIds, Used
  <2>7. InFlight' /\ Lifecycle'
    BY <1>0, <2>1, <2>2 DEF IInv, InFlight, Lifecycle, envVars
  <2>8. QED
    BY <2>4, <2>5, <2>6, <2>7 DEF IInv
<1>11. CASE AdmitFailed
  <2>1. opc = "admit" /\ active \in Slots /\ ops[active].state = "LinkPending" /\ rpc.slot = 0
    BY <1>11 DEF AdmitFailed, IInv, TypeOK, SerializedQueue, InFlight, Slots
  <2>2. QED
    BY <1>0, <1>11, <2>1, FinalizeInPass
       DEF AdmitFailed, EndPass, PendingStates, TerminalStates
<1>12. QED
  BY <1>1, <1>2, <1>3, <1>4, <1>5, <1>6, <1>7, <1>8, <1>9, <1>10, <1>11 DEF PassStep

(* The owner's steps between passes, and stop(), preserve the invariant.   *)
LEMMA OwnerInv == ASSUME IInv, OwnerStep PROVE IInv'
<1> USE DEF slotVars, leaseVars
<1>1. CASE BeginPass
  <2>1. TypeOK'
    BY <1>1 DEF BeginPass, IInv, TypeOK, callerVars, envVars
  <2>2. QED
    BY <1>1, <2>1, PassOnly DEF BeginPass, envVars
<1>2. CASE PassStep
  BY <1>2, PassInv
<1>3. CASE RpcCompletes
  <2>1. PICK s \in TerminalStates, token \in Tokens, grant \in Grants : Complete(s, token, grant)
    BY <1>3 DEF RpcCompletes
  <2>2. /\ opc = "sleep" /\ rpc # NoRpc /\ Finalize(rpc.slot, s, token, grant) /\ rpc' = NoRpc
        /\ UNCHANGED <<nextId, opc, now, renewToken, callerVars, envVars>>
    BY <2>1 DEF Complete
  <2>3. /\ rpc.slot = active /\ active \in Slots /\ ops[active].state = "LinkPending"
        /\ running /\ grant \in Nat /\ now \in Nat
    BY <2>2, TimeoutAssumption
       DEF IInv, TypeOK, SerializedQueue, InFlight, Lifecycle, Slots
  <2>4. QED
    BY <2>2, <2>3, FinalizeInPass DEF PendingStates
<1>4. CASE s_stopOnOwner
  <2>1. /\ opc = "sleep" /\ opc' = "closing" /\ running' = FALSE /\ lease' = ReleasedLease
        /\ UNCHANGED <<active, nextId, renewAt, expireAt, now, renewToken, rpc, callerVars,
                       upgrading, clock, stopping>>
    BY <1>4 DEF s_stopOnOwner
  <2>2. ASSUME NEW j \in Slots
        PROVE  /\ ops'[j] \in SlotType /\ ops'[j].state # "Queued"
               /\ ops[j].state # "Queued" => ops'[j] = ops[j]
               /\ ops[j].state = "Queued" => ops'[j].state # "LinkPending"
               /\ Used(j)' => Used(j) /\ ops'[j].id = ops[j].id
    <3>1. ops[j] \in SlotType
      BY DEF IInv, TypeOK
    <3>2. /\ FreeSlot \in SlotType /\ FreeSlot.state = "Unknown"
          /\ [ops[j] EXCEPT !.state = "Cancelled"] \in SlotType
          /\ [ops[j] EXCEPT !.state = "Cancelled"].state = "Cancelled"
          /\ [ops[j] EXCEPT !.state = "Cancelled"].id = ops[j].id
      BY <3>1 DEF FreeSlot, SlotType, TerminalStates
    <3>3. ops'[j] = IF ops[j].state # "Queued" THEN ops[j]
                    ELSE IF ops[j].internal THEN FreeSlot
                    ELSE [ops[j] EXCEPT !.state = "Cancelled"]
      BY <1>4 DEF s_stopOnOwner
    <3>4. QED
      BY <3>1, <3>2, <3>3 DEF Used
  <2>3. ops' \in [Slots -> SlotType]
    <3>1. ops' = [j \in Slots |-> ops'[j]]
      BY <1>4 DEF s_stopOnOwner
    <3>2. QED
      BY <2>2, <3>1
  <2>4. TypeOK'
    <3>1. running' \in BOOLEAN
      BY <2>1, Zenon
    <3>2. lease' \in [state : LeaseStates, token : Tokens \cup {0}]
      BY <2>1 DEF ReleasedLease, LeaseStates
    <3>3. QED
      BY <2>1, <2>3, <3>1, <3>2 DEF IInv, TypeOK, callerVars
  <2>5. active # 0 => active \in Slots /\ ops'[active] = ops[active]
    BY <2>2 DEF IInv, TypeOK, SerializedQueue, Slots
  <2>6. SerializedQueue'
    BY <2>1, <2>2 DEF IInv, SerializedQueue, Queued
  <2>7. UniqueIds'
    BY <2>1, <2>2 DEF IInv, UniqueIds
  <2>8. InFlight'
    BY <2>1, <2>5 DEF IInv, InFlight
  <2>9. Lifecycle'
    BY <2>1, <2>2 DEF Lifecycle, Queued
  <2>10. QED
    BY <2>4, <2>6, <2>7, <2>8, <2>9 DEF IInv
<1>5. CASE CancelInFlight
  <2>1. /\ opc = "closing" /\ opc' = "stopped" /\ rpc' = NoRpc
        /\ UNCHANGED <<nextId, now, renewToken, callerVars, envVars>>
    BY <1>5 DEF CancelInFlight
  <2>2. ~running /\ Queued = {} /\ lease = ReleasedLease
    BY <2>1 DEF IInv, Lifecycle
  <2>3. rpc' \in [slot : 0..Capacity, id : Nat, deadline : Nat] /\ rpc'.slot = 0
    BY <2>1, CapacityAssumption DEF NoRpc
  <2>4. /\ TableType' /\ LeaseType' /\ SerializedQueue' /\ UniqueIds'
        /\ active' = 0 /\ lease' = ReleasedLease /\ Queued' = {}
    <3>1. CASE rpc # NoRpc
      <4>1. rpc.slot = active /\ active \in Slots /\ ops[active].state = "LinkPending"
        BY <3>1 DEF IInv, TypeOK, SerializedQueue, InFlight, Slots
      <4>2. Finalize(active, "Cancelled", 0, 0)
        BY <1>5, <3>1, <4>1 DEF CancelInFlight
      <4>3. /\ TableType' /\ LeaseType' /\ SerializedQueue' /\ UniqueIds'
            /\ active' = 0 /\ lease' = ReleasedLease
            /\ \A j \in Slots : ops'[j].state = "Queued" => ops[j].state = "Queued"
        BY <2>1, <2>2, <4>1, <4>2, FinalizeTable DEF PendingStates, TerminalStates
      <4>4. QED
        BY <2>2, <4>3 DEF Queued
    <3>2. CASE rpc = NoRpc
      <4>1. active = 0
        BY <2>1, <3>2 DEF IInv, InFlight, NoRpc
      <4>2. UNCHANGED <<ops, active, nextId, lease, renewAt, expireAt>>
        BY <1>5, <2>1, <3>2 DEF CancelInFlight
      <4>3. QED
        BY <2>2, <4>1, <4>2
           DEF IInv, TypeOK, TableType, LeaseType, SerializedQueue, UniqueIds, Used, Queued
    <3>3. QED
      BY <3>1, <3>2
  <2>5. TypeOK'
    BY <2>1, <2>3, <2>4 DEF IInv, TypeOK, TableType, LeaseType, callerVars, envVars
  <2>6. InFlight'
    BY <2>1, <2>3, <2>4 DEF InFlight
  <2>7. Lifecycle'
    BY <2>1, <2>2, <2>3, <2>4 DEF Lifecycle, envVars
  <2>8. QED
    BY <2>4, <2>5, <2>6, <2>7 DEF IInv
<1>6. QED
  BY <1>1, <1>2, <1>3, <1>4, <1>5 DEF OwnerStep

(* Every step preserves the invariant.                                     *)
LEMMA NextInv == IInv /\ [Next]_vars => IInv'
<1> SUFFICES ASSUME IInv, [Next]_vars PROVE IInv'
  OBVIOUS
<1> USE DEF slotVars, leaseVars, ownerVars, callerVars, envVars
<1>1. CASE \E c \in Callers : CallerStep(c)
  BY <1>1, CallerInv
<1>2. CASE OwnerStep
  BY <1>2, OwnerInv
<1>3. CASE Stop
  <2>1. stopping' \in BOOLEAN
    BY <1>3, Zenon DEF Stop
  <2>2. TypeOK'
    BY <1>3, <2>1 DEF Stop, IInv, TypeOK
  <2>3. QED
    BY <1>3, <2>2, OutsideStep DEF Stop
<1>4. CASE UpgradeSwitch
  <2>1. upgrading' \in BOOLEAN
    BY <1>4, Zenon DEF UpgradeSwitch
  <2>2. TypeOK'
    BY <1>4, <2>1 DEF UpgradeSwitch, IInv, TypeOK
  <2>3. QED
    BY <1>4, <2>2, OutsideStep DEF UpgradeSwitch
<1>5. CASE Tick
  <2>1. TypeOK'
    BY <1>5 DEF Tick, IInv, TypeOK
  <2>2. QED
    BY <1>5, <2>1, OutsideStep DEF Tick
<1>6. CASE UNCHANGED vars
  <2>1. TypeOK'
    BY <1>6 DEF vars, IInv, TypeOK
  <2>2. QED
    BY <1>6, <2>1, OutsideStep DEF vars
<1>7. QED
  BY <1>1, <1>2, <1>3, <1>4, <1>5, <1>6 DEF Next

-----------------------------------------------------------------------------
(* The inductive invariant holds in every reachable state.                 *)
THEOREM EndpointInvariant == Spec => []IInv
BY InitInv, NextInv, PTL DEF Spec

(* Type correctness, for every capacity, set of callers and timing.        *)
THEOREM EndpointTypeCorrect == Spec => []TypeOK
<1>1. IInv => TypeOK
  BY DEF IInv
<1>2. QED
  BY <1>1, EndpointInvariant, PTL

(* s_startNext serializes the queue: one operation at most is with the     *)
(* runtime, and nothing that waits is older.                               *)
THEOREM EndpointSerialized == Spec => []SerializedQueue
<1>1. IInv => SerializedQueue
  BY DEF IInv
<1>2. QED
  BY <1>1, EndpointInvariant, PTL

(* s_complete, which is given the address of a slot, always finds the      *)
(* operation it was started for in it.                                     *)
THEOREM EndpointOwnsSlot == Spec => []RpcOwnsSlot
<1>1. IInv => RpcOwnsSlot
  BY DEF IInv, RpcOwnsSlot, InFlight, TypeOK, SerializedQueue, Slots
<1>2. QED
  BY <1>1, EndpointInvariant, PTL

(* After s_stopOnOwner and the cancellation of the RPC in flight nothing   *)
(* is pending, no lease is held, and that stays so.                        *)
THEOREM EndpointSettles == Spec => []StoppedIsSettled
<1>1. IInv => StoppedIsSettled
  BY DEF IInv, StoppedIsSettled, InFlight, SerializedQueue, Lifecycle, TypeOK, Slots,
         Queued, PendingStates
<1>2. QED
  BY <1>1, EndpointInvariant, PTL

-----------------------------------------------------------------------------
(* What a step may do to the slot table: nothing, or one of six things.    *)

\* The owner is in a pass, and now is when it began.
InPass == opc \notin {"sleep", "closing", "stopped"}

\* Also when an expiry or an upgrade ends the lease.
TableStays ==
    /\ UNCHANGED <<ops, active, nextId, running>>
    /\ lease' = lease \/ lease'.state \in {"Expired", "Released"}
Enters(i, kind, token, internal, timeout) ==
    /\ running /\ ~Used(i) /\ Enqueue(i, kind, token, internal, timeout)
    /\ IF internal THEN kind = "acquire" ELSE i <= PublicCapacity
    /\ UNCHANGED <<active, running>>
Taken(c, i) ==
    /\ cpc[c] = "wait" /\ id[c] = ops[i].id /\ ops[i].state \in TerminalStates
    /\ ops' = [ops EXCEPT ![i] = FreeSlot]
    /\ UNCHANGED <<active, nextId, running, lease>>
Started(i) ==
    /\ active = 0 /\ i \in Queued /\ \A j \in Queued : ops[i].id <= ops[j].id
    /\ active' = i /\ ops' = [ops EXCEPT ![i].state = "LinkPending"]
    /\ lease' = CASE ops[i].kind = "acquire" ->
                       [lease EXCEPT !.state = IF Renews(i) THEN "Renewing" ELSE "Acquiring"]
                  [] ops[i].kind = "release" -> [lease EXCEPT !.state = "Releasing"]
                  [] OTHER -> lease
    /\ UNCHANGED <<nextId, running>>
PutBack ==
    /\ running /\ active \in Slots /\ active' = 0
    /\ ops' = [ops EXCEPT ![active].state = "Queued"]
    /\ UNCHANGED <<nextId, running, lease>>
Ends(i, s, token, grant) ==
    /\ ops[i].state \in PendingStates /\ (active # i => ops[i].state = "Queued" /\ s = "TimedOut")
    /\ s = "TimedOut" => \/ InPass /\ Remaining(i) = 0
                         \/ rpc.slot = i /\ clock >= rpc.deadline
    /\ Finalize(i, s, token, grant)
    /\ UNCHANGED <<nextId, running>>

\* All slots but one keep what is in them.
Elsewhere(i) == \A j \in Slots : j # i => ops'[j] = ops[j]
\* What was asked for stays in the slot.
SameRequest(i) ==
    /\ ops'[i].id = ops[i].id /\ ops'[i].kind = ops[i].kind /\ ops'[i].token = ops[i].token
    /\ ops'[i].internal = ops[i].internal
    /\ ops'[i].submitted = ops[i].submitted /\ ops'[i].timeout = ops[i].timeout

(* s_submit fills a free slot with a request of the next id.               *)
LEMMA EnteredSlot ==
    ASSUME IInv, NEW i \in Slots, NEW kind, NEW token, NEW internal, NEW timeout,
           Enters(i, kind, token, internal, timeout)
    PROVE  /\ ops'[i].state = "Queued" /\ ops'[i].id = nextId /\ ops'[i].kind = kind
           /\ ops'[i].token = token /\ ops'[i].internal = internal
           /\ ops'[i].submitted = clock /\ ops'[i].timeout = timeout
           /\ Elsewhere(i) /\ ops[i].state = "Unknown" /\ nextId' = nextId + 1
BY DEF Enters, Enqueue, IInv, TypeOK, Elsewhere, Used

(* takeOperation frees a slot that holds a result.                         *)
LEMMA TakenSlot ==
    ASSUME IInv, NEW c \in Callers, NEW i \in Slots, Taken(c, i)
    PROVE  ops'[i] = FreeSlot /\ Elsewhere(i) /\ ops[i].state \in TerminalStates
BY DEF Taken, IInv, TypeOK, Elsewhere

(* s_startNext changes nothing but the state of the slot it starts.        *)
LEMMA StartedSlot ==
    ASSUME IInv, NEW i \in Slots, Started(i)
    PROVE  /\ SameRequest(i) /\ ops'[i].state = "LinkPending"
           /\ Elsewhere(i) /\ ops[i].state = "Queued"
<1>1. ops \in [Slots -> SlotType] /\ ops[i] \in SlotType
  BY DEF IInv, TypeOK
<1>2. ops'[i] = [ops[i] EXCEPT !.state = "LinkPending"] /\ Elsewhere(i)
  BY <1>1 DEF Started, Elsewhere
<1> QED BY <1>1, <1>2 DEF Started, Queued, SlotType, SameRequest

(* A busy transport takes that back.                                       *)
LEMMA PutBackSlot ==
    ASSUME IInv, PutBack
    PROVE  /\ SameRequest(active) /\ ops'[active].state = "Queued"
           /\ Elsewhere(active) /\ ops[active].state = "LinkPending"
<1>1. active \in Slots /\ ops \in [Slots -> SlotType] /\ ops[active] \in SlotType
  BY DEF PutBack, IInv, TypeOK
<1>2. ops'[active] = [ops[active] EXCEPT !.state = "Queued"] /\ Elsewhere(active)
  BY <1>1 DEF PutBack, Elsewhere
<1> QED BY <1>1, <1>2 DEF SlotType, IInv, SerializedQueue, SameRequest

(* s_finalize ends a pending slot; an internal one is free at once.        *)
LEMMA EndedSlot ==
    ASSUME IInv, NEW i \in Slots, NEW s \in TerminalStates, NEW token, NEW grant,
           Ends(i, s, token, grant)
    PROVE  /\ IF ops[i].internal THEN ops'[i] = FreeSlot
              ELSE SameRequest(i) /\ ops'[i].state = s
           /\ Elsewhere(i) /\ ops[i].state \in PendingStates
<1>1. ops \in [Slots -> SlotType] /\ ops[i] \in SlotType
  BY DEF IInv, TypeOK
<1>2. /\ ops'[i] = IF ops[i].internal THEN FreeSlot ELSE [ops[i] EXCEPT !.state = s]
      /\ Elsewhere(i)
  BY <1>1 DEF Ends, Finalize, Elsewhere
<1> QED BY <1>1, <1>2 DEF SlotType, Ends, SameRequest

(* s_stopOnOwner ends the slots that wait and no others.                   *)
LEMMA StoppedSlots ==
    ASSUME IInv, s_stopOnOwner, NEW i \in Slots
    PROVE  /\ ops[i].state # "Queued" => ops'[i] = ops[i]
           /\ ops[i].state = "Queued" =>
                IF ops[i].internal THEN ops'[i] = FreeSlot
                ELSE SameRequest(i) /\ ops'[i].state = "Cancelled"
<1>1. ops[i] \in SlotType
  BY DEF IInv, TypeOK
<1>2. ops'[i] = IF ops[i].state # "Queued" THEN ops[i]
                ELSE IF ops[i].internal THEN FreeSlot
                ELSE [ops[i] EXCEPT !.state = "Cancelled"]
  BY DEF s_stopOnOwner
<1> QED BY <1>1, <1>2 DEF SlotType, SameRequest

(* Every step of the endpoint is one of these.                             *)
LEMMA TableSteps ==
    ASSUME IInv, [Next]_vars
    PROVE  \/ TableStays
           \/ \E i \in Slots, kind \in Kinds \cup {"none"}, token \in Tokens \cup {0},
                 internal \in BOOLEAN, timeout \in {RpcTimeout, LeaseTimeout} :
                 Enters(i, kind, token, internal, timeout)
           \/ \E c \in Callers, i \in Slots : Taken(c, i)
           \/ \E i \in Slots : Started(i)
           \/ PutBack
           \/ \E i \in Slots, s \in TerminalStates, token \in Tokens \cup {0}, grant \in Nat :
                 Ends(i, s, token, grant)
           \/ s_stopOnOwner
<1> USE DEF slotVars, leaseVars, ownerVars, callerVars, envVars
<1>1. ASSUME NEW c \in Callers,
             AcquireCheck(c) \/ ReleaseCheck(c)
             \/ (\E kind \in {"query", "config"} \cap Calls : CallOther(c, kind))
             \/ SubmitGate(c) \/ SubmitRefused(c) \/ WaitExpires(c)
      PROVE  TableStays
  <2>1. CASE AcquireCheck(c) \/ ReleaseCheck(c)
    BY <2>1 DEF AcquireCheck, ReleaseCheck, TableStays
  <2>2. CASE \E kind \in {"query", "config"} \cap Calls : CallOther(c, kind)
    BY <2>2 DEF CallOther, TableStays
  <2>3. CASE SubmitGate(c)
    BY <2>3 DEF SubmitGate, TableStays
  <2>4. CASE SubmitRefused(c) \/ WaitExpires(c)
    BY <2>4 DEF SubmitRefused, WaitExpires, TableStays
  <2> QED BY <1>1, <2>1, <2>2, <2>3, <2>4
<1>2. ASSUME NEW c \in Callers, Submit(c)
      PROVE  \E i \in Slots, kind \in Kinds \cup {"none"}, token \in Tokens \cup {0} :
                Enters(i, kind, token, FALSE, RpcTimeout)
  <2> DEFINE i == s_allocateSlot(FALSE)
  <2>1. i \in Slots /\ ~Used(i) /\ i <= PublicCapacity
    <3>1. i # 0
      BY <1>2 DEF Submit
    <3>2. i \in Slots /\ ~Used(i) /\ i \in 1..PublicCapacity
      BY <3>1, AllocateFree, AllocatePublic
    <3> HIDE DEF i
    <3> QED BY <3>2, CapacityAssumption
  <2>2. /\ running /\ Enqueue(i, request[c].kind, request[c].token, FALSE, RpcTimeout)
        /\ UNCHANGED <<active, running>>
    BY <1>2 DEF Submit
  <2> HIDE DEF i
  <2>3. request[c].kind \in Kinds \cup {"none"} /\ request[c].token \in Tokens \cup {0}
    BY DEF IInv, TypeOK
  <2>4. Enters(i, request[c].kind, request[c].token, FALSE, RpcTimeout)
    BY <2>1, <2>2 DEF Enters
  <2> QED BY <2>1, <2>3, <2>4
<1>3. ASSUME NEW c \in Callers, Take(c) PROVE \E i \in Slots : Taken(c, i)
  BY <1>3 DEF Take, Taken
<1>4. CASE BeginPass \/ ExpireLease \/ UpgradeGate \/ DropLease \/ RenewalCheck \/ RenewalGate
           \/ AdmitOk \/ Stop \/ UpgradeSwitch \/ Tick \/ UNCHANGED vars
  BY <1>4 DEF BeginPass, ExpireLease, UpgradeGate, DropLease, RenewalCheck, RenewalGate,
     AdmitOk, Stop, UpgradeSwitch, Tick, vars, TableStays, ReleasedLease
<1>5. CASE ExpireQueued
  <2>1. CASE OverdueSlots # {}
    <3> DEFINE i == CHOOSE i \in OverdueSlots : \A j \in OverdueSlots : i <= j
    <3>1. OverdueSlots \in SUBSET Queued /\ Queued \in SUBSET Slots /\ Slots \in SUBSET Nat
      BY CapacityAssumption DEF OverdueSlots, Queued, Slots
    <3>2. i \in OverdueSlots
      BY <2>1, <3>1, LeastNatural
    <3>3. Finalize(i, "TimedOut", 0, 0) /\ UNCHANGED <<nextId, running>>
      BY <1>5, <2>1 DEF ExpireQueued
    <3> HIDE DEF i
    <3>4. i \in Slots /\ ops[i].state = "Queued"
      BY <3>1, <3>2 DEF Queued
    <3>5. Ends(i, "TimedOut", 0, 0)
      <4>1. InPass /\ Remaining(i) = 0
        BY <1>5, <3>2 DEF ExpireQueued, OverdueSlots, InPass, Remaining
      <4> QED BY <3>3, <3>4, <4>1 DEF Ends, PendingStates
    <3> QED BY <3>4, <3>5 DEF TerminalStates
  <2>2. CASE OverdueSlots = {}
    BY <1>5, <2>2 DEF ExpireQueued, TableStays
  <2> QED BY <2>1, <2>2
<1>6. CASE RenewalSubmit
  <2>1. CASE running /\ s_allocateSlot(TRUE) # 0 /\ nextId <= MaxRequests
    <3> DEFINE i == s_allocateSlot(TRUE)
    <3>1. i \in Slots /\ ~Used(i)
      BY <2>1, AllocateFree
    <3>2. /\ Enqueue(i, "acquire", renewToken, TRUE, LeaseTimeout)
          /\ UNCHANGED <<active, running>> /\ renewToken \in Tokens \cup {0}
      BY <1>6, <2>1 DEF RenewalSubmit, IInv, TypeOK
    <3> HIDE DEF i
    <3>3. Enters(i, "acquire", renewToken, TRUE, LeaseTimeout)
      BY <2>1, <3>1, <3>2 DEF Enters
    <3> QED BY <3>1, <3>2, <3>3 DEF Kinds
  <2>2. CASE ~(running /\ s_allocateSlot(TRUE) # 0 /\ nextId <= MaxRequests)
    BY <1>6, <2>2 DEF RenewalSubmit, TableStays
  <2> QED BY <2>1, <2>2
<1>7. CASE StartNext
  <2>1. CASE active = 0 /\ Queued # {}
    <3>1. s_findQueuedSlot \in Slots /\ Started(s_findQueuedSlot)
      BY <1>7, <2>1, OldestQueued DEF StartNext, Started, Renews, IInv, Queued
    <3> QED BY <3>1
  <2>2. CASE ~(active = 0 /\ Queued # {})
    BY <1>7, <2>2 DEF StartNext, TableStays
  <2> QED BY <2>1, <2>2
<1>8. CASE AdmitBusy
  BY <1>8 DEF AdmitBusy, PutBack, IInv, TypeOK, Lifecycle, Slots
<1>9. CASE AdmitFailed
  <2> DEFINE s == IF Remaining(active) = 0 THEN "TimedOut" ELSE "Failed"
  <2>1. active \in Slots /\ ops[active].state = "LinkPending"
    BY <1>9 DEF AdmitFailed, IInv, TypeOK, SerializedQueue, Slots
  <2>2. /\ s \in TerminalStates /\ Finalize(active, s, 0, 0) /\ InPass
        /\ s = "TimedOut" => Remaining(active) = 0
    BY <1>9 DEF AdmitFailed, TerminalStates, InPass
  <2>3. UNCHANGED <<nextId, running>>
    BY <1>9 DEF AdmitFailed
  <2> HIDE DEF s
  <2>4. Ends(active, s, 0, 0)
    BY <2>1, <2>2, <2>3 DEF Ends, PendingStates
  <2> QED BY <2>1, <2>2, <2>4
<1>10. CASE RpcCompletes
  <2>1. PICK s \in TerminalStates, token \in Tokens, grant \in Grants : Complete(s, token, grant)
    BY <1>10 DEF RpcCompletes
  <2>2. /\ rpc.slot \in Slots /\ ops[rpc.slot].state = "LinkPending" /\ rpc.slot = active
        /\ grant \in Nat
    BY <2>1, TimeoutAssumption
       DEF Complete, IInv, TypeOK, SerializedQueue, InFlight, Slots
  <2>3. Ends(rpc.slot, s, token, grant)
    BY <2>1, <2>2 DEF Complete, Ends, PendingStates
  <2> QED BY <2>2, <2>3
<1>11. CASE CancelInFlight
  <2>1. CASE rpc # NoRpc
    <3>1. rpc.slot \in Slots /\ ops[rpc.slot].state = "LinkPending" /\ rpc.slot = active
      BY <2>1 DEF IInv, TypeOK, SerializedQueue, InFlight, Slots
    <3>2. Ends(rpc.slot, "Cancelled", 0, 0)
      BY <1>11, <2>1, <3>1 DEF CancelInFlight, Ends, PendingStates
    <3> QED BY <3>1, <3>2 DEF TerminalStates
  <2>2. CASE rpc = NoRpc
    BY <1>11, <2>2 DEF CancelInFlight, TableStays
  <2> QED BY <2>1, <2>2
<1> QED
  BY <1>1, <1>2, <1>3, <1>4, <1>5, <1>6, <1>7, <1>8, <1>9, <1>10, <1>11
  DEF Next, CallerStep, OwnerStep, PassStep

-----------------------------------------------------------------------------
(* A result is only ever taken.                                            *)
LEMMA ResultsKept ==
    ASSUME IInv, [Next]_vars, NEW j \in Slots, ops[j].state \in TerminalStates
    PROVE  ops'[j] = ops[j] \/ \E c \in Callers : cpc[c] = "wait" /\ id[c] = ops[j].id
                                                  /\ ops'[j] = FreeSlot
<1> USE DEF TerminalStates, PendingStates
<1>1. CASE TableStays
  BY <1>1 DEF TableStays
<1>2. ASSUME NEW i \in Slots, NEW kind, NEW token, NEW internal, NEW timeout,
             Enters(i, kind, token, internal, timeout)
      PROVE  ops'[j] = ops[j]
  BY <1>2, EnteredSlot DEF Elsewhere
<1>3. ASSUME NEW c \in Callers, NEW i \in Slots, Taken(c, i)
      PROVE  ops'[j] = ops[j] \/ (cpc[c] = "wait" /\ id[c] = ops[j].id /\ ops'[j] = FreeSlot)
  BY <1>3, TakenSlot DEF Elsewhere, Taken
<1>4. ASSUME NEW i \in Slots, Started(i) PROVE ops'[j] = ops[j]
  BY <1>4, StartedSlot DEF Elsewhere
<1>5. CASE PutBack
  BY <1>5, PutBackSlot DEF Elsewhere
<1>6. ASSUME NEW i \in Slots, NEW s \in TerminalStates, NEW token, NEW grant,
             Ends(i, s, token, grant)
      PROVE  ops'[j] = ops[j]
  BY <1>6, EndedSlot DEF Elsewhere
<1>7. CASE s_stopOnOwner
  BY <1>7, StoppedSlots
<1> QED
  BY <1>1, <1>2, <1>3, <1>4, <1>5, <1>6, <1>7, TableSteps

(* Nothing but the caller who waits for it touches a result: for every     *)
(* interleaving of submissions, completions, expiries and stop().          *)
THEOREM EndpointResultsStable == Spec => ResultsStable
<1>1. IInv /\ [Next]_vars
      => [\A i \in Slots : ops[i].state \in TerminalStates =>
             ops'[i] = ops[i] \/ \E c \in Callers : cpc[c] = "wait" /\ id[c] = ops[i].id
                                                    /\ ops'[i] = FreeSlot]_vars
  BY ResultsKept
<1> QED BY <1>1, EndpointInvariant, PTL DEF Spec, ResultsStable

-----------------------------------------------------------------------------
\* The slots past the public ones hold renewals only, and a renewal is an
\* acquisition that has not ended.
Reserved ==
    \A i \in Slots :
        /\ Used(i) /\ i > PublicCapacity => ops[i].internal
        /\ ops[i].internal => ops[i].kind = "acquire" /\ ops[i].state \in PendingStates

(* Every step keeps the reserved slots for renewals.                       *)
LEMMA ReservedInv == ASSUME IInv, Reserved, [Next]_vars PROVE Reserved'
<1> SUFFICES ASSUME NEW j \in Slots
             PROVE  /\ Used(j)' /\ j > PublicCapacity => ops'[j].internal
                    /\ ops'[j].internal => ops'[j].kind = "acquire"
                                           /\ ops'[j].state \in PendingStates
  BY DEF Reserved
<1> USE DEF TerminalStates, PendingStates, FreeSlot, Used
<1>0. /\ Used(j) /\ j > PublicCapacity => ops[j].internal
      /\ ops[j].internal => ops[j].kind = "acquire" /\ ops[j].state \in PendingStates
      /\ ops[j] \in SlotType /\ j \in Nat /\ PublicCapacity \in Nat
  BY CapacityAssumption DEF Reserved, IInv, TypeOK, Slots
<1>1. CASE TableStays
  BY <1>0, <1>1 DEF TableStays
<1>2. ASSUME NEW i \in Slots, NEW kind, NEW token, NEW internal \in BOOLEAN, NEW timeout,
             Enters(i, kind, token, internal, timeout)
      PROVE  /\ Used(j)' /\ j > PublicCapacity => ops'[j].internal
             /\ ops'[j].internal => ops'[j].kind = "acquire" /\ ops'[j].state \in PendingStates
  <2>1. /\ ops'[i].internal = internal /\ ops'[i].kind = kind /\ ops'[i].state = "Queued"
        /\ Elsewhere(i)
    BY <1>2, EnteredSlot
  <2>2. IF internal THEN kind = "acquire" ELSE i <= PublicCapacity
    BY <1>2 DEF Enters
  <2> QED BY <1>0, <2>1, <2>2 DEF Elsewhere
<1>3. ASSUME NEW c \in Callers, NEW i \in Slots, Taken(c, i)
      PROVE  /\ Used(j)' /\ j > PublicCapacity => ops'[j].internal
             /\ ops'[j].internal => ops'[j].kind = "acquire" /\ ops'[j].state \in PendingStates
  BY <1>0, <1>3, TakenSlot DEF Elsewhere
<1>4. ASSUME NEW i \in Slots, Started(i)
      PROVE  /\ Used(j)' /\ j > PublicCapacity => ops'[j].internal
             /\ ops'[j].internal => ops'[j].kind = "acquire" /\ ops'[j].state \in PendingStates
  BY <1>0, <1>4, StartedSlot DEF Elsewhere, SameRequest
<1>5. CASE PutBack
  BY <1>0, <1>5, PutBackSlot DEF Elsewhere, SameRequest
<1>6. ASSUME NEW i \in Slots, NEW s \in TerminalStates, NEW token, NEW grant,
             Ends(i, s, token, grant)
      PROVE  /\ Used(j)' /\ j > PublicCapacity => ops'[j].internal
             /\ ops'[j].internal => ops'[j].kind = "acquire" /\ ops'[j].state \in PendingStates
  BY <1>0, <1>6, EndedSlot DEF Elsewhere, SameRequest
<1>7. CASE s_stopOnOwner
  BY <1>0, <1>7, StoppedSlots DEF SameRequest
<1> QED
  BY <1>1, <1>2, <1>3, <1>4, <1>5, <1>6, <1>7, TableSteps

(* However many public operations fill the table, and however many were    *)
(* abandoned, a renewal finds a slot or there is a renewal already.        *)
THEOREM EndpointRenewalFindsSlot == Spec => []RenewalFindsSlot
<1>1. Init => Reserved
  BY DEF Init, Reserved, FreeSlot, Used
<1>2. IInv /\ Reserved /\ [Next]_vars => Reserved'
  BY ReservedInv
<1>3. IInv /\ Reserved => RenewalFindsSlot
  <2> SUFFICES ASSUME IInv, Reserved, ~ \E i \in Slots : ops[i].internal
               PROVE  s_allocateSlot(TRUE) # 0
    BY DEF RenewalFindsSlot
  <2>1. Capacity \in Slots /\ Capacity > PublicCapacity /\ Capacity # 0
    BY CapacityAssumption DEF Slots
  <2>2. ~Used(Capacity)
    BY <2>1 DEF Reserved
  <2> QED BY <2>1, <2>2 DEF s_allocateSlot
<1> QED BY <1>1, <1>2, <1>3, EndpointInvariant, PTL DEF Spec

-----------------------------------------------------------------------------
(* Every step leaves a busy lease with a request of its kind.              *)
LEMMA BusyLeaseInv ==
    ASSUME IInv, BusyLeaseHasRequest, [Next]_vars PROVE BusyLeaseHasRequest'
<1> DEFINE Want(l, o) ==
      /\ l.state \in {"RenewQueued", "Renewing"} =>
           \E j \in Slots : /\ o[j].kind = "acquire" /\ o[j].state \in PendingStates
                            /\ o[j].internal \/ o[j].token # 0
      /\ l.state \in {"AcquireQueued", "Acquiring"} =>
           \E j \in Slots : /\ o[j].kind = "acquire" /\ o[j].state \in PendingStates
                            /\ ~(o[j].internal \/ o[j].token # 0)
      /\ l.state \in {"ReleaseQueued", "Releasing"} =>
           \E j \in Slots : o[j].kind = "release" /\ o[j].state \in PendingStates
<1>0. Want(lease, ops) /\ (Want(lease', ops') => BusyLeaseHasRequest')
  BY DEF BusyLeaseHasRequest, Pending, Renews
<1>a. lease \in [state : LeaseStates, token : Tokens \cup {0}] /\ ops \in [Slots -> SlotType]
  BY DEF IInv, TypeOK
<1>b. ASSUME lease' = lease,
             NEW i \in Slots,
             Elsewhere(i),
             \/ ops[i].state \notin PendingStates
             \/ ops[i].kind \notin {"acquire", "release"}
             \/ /\ ops'[i].state \in PendingStates /\ ops'[i].kind = ops[i].kind
                /\ ops'[i].internal = ops[i].internal /\ ops'[i].token = ops[i].token
      PROVE  Want(lease', ops')
  <2>1. \A j \in Slots : ops[j].state \in PendingStates /\ ops[j].kind \in {"acquire", "release"} =>
            /\ ops'[j].state \in PendingStates /\ ops'[j].kind = ops[j].kind
            /\ ops'[j].internal = ops[j].internal /\ ops'[j].token = ops[j].token
    BY <1>b DEF Elsewhere
  <2> QED BY <1>0, <1>b, <2>1
<1>1. CASE TableStays
  BY <1>0, <1>1 DEF TableStays
<1>2. ASSUME NEW i \in Slots, NEW kind, NEW token, NEW internal \in BOOLEAN, NEW timeout,
             Enters(i, kind, token, internal, timeout)
      PROVE  Want(lease', ops')
  <2>1. /\ ops'[i].internal = internal /\ ops'[i].kind = kind /\ ops'[i].state = "Queued"
        /\ ops'[i].token = token
        /\ Elsewhere(i) /\ ops[i].state \notin PendingStates
    BY <1>2, EnteredSlot DEF PendingStates
  <2>2. lease' = CASE kind = "acquire" /\ (internal \/ token # 0) ->
                       [lease EXCEPT !.state = "RenewQueued"]
                  [] kind = "acquire" /\ ~internal /\ token = 0 ->
                       [lease EXCEPT !.state = "AcquireQueued"]
                  [] kind = "release" -> [lease EXCEPT !.state = "ReleaseQueued"]
                  [] OTHER -> lease
    BY <1>2 DEF Enters, Enqueue
  <2>3. CASE kind = "acquire" /\ (internal \/ token # 0)
    <3>1. lease'.state = "RenewQueued"
      BY <1>a, <2>2, <2>3
    <3> QED BY <2>1, <2>3, <3>1 DEF PendingStates
  <2>4. CASE kind = "acquire" /\ ~internal /\ token = 0
    <3>1. lease'.state = "AcquireQueued"
      BY <1>a, <2>2, <2>4
    <3> QED BY <2>1, <2>4, <3>1 DEF PendingStates
  <2>5. CASE kind = "release"
    <3>1. lease'.state = "ReleaseQueued"
      BY <1>a, <2>2, <2>5
    <3> QED BY <2>1, <2>5, <3>1 DEF PendingStates
  <2>6. CASE kind \notin {"acquire", "release"}
    <3>1. lease' = lease
      BY <2>2, <2>6
    <3> QED BY <1>b, <2>1, <3>1
  <2> QED BY <2>3, <2>4, <2>5, <2>6
<1>3. ASSUME NEW c \in Callers, NEW i \in Slots, Taken(c, i) PROVE Want(lease', ops')
  <2>1. lease' = lease /\ Elsewhere(i) /\ ops[i].state \notin PendingStates
    BY <1>3, TakenSlot DEF Taken, TerminalStates, PendingStates
  <2> QED BY <1>b, <2>1
<1>4. ASSUME NEW i \in Slots, Started(i) PROVE Want(lease', ops')
  <2>1. /\ ops'[i].state \in PendingStates /\ ops'[i].kind = ops[i].kind
        /\ ops'[i].internal = ops[i].internal /\ ops'[i].token = ops[i].token
        /\ Elsewhere(i)
    BY <1>a, <1>4, StartedSlot DEF SameRequest, PendingStates
  <2>2. lease' = CASE ops[i].kind = "acquire" ->
                       [lease EXCEPT !.state = IF Renews(i) THEN "Renewing" ELSE "Acquiring"]
                  [] ops[i].kind = "release" -> [lease EXCEPT !.state = "Releasing"]
                  [] OTHER -> lease
    BY <1>4 DEF Started
  <2>3. CASE ops[i].kind = "acquire"
    <3>1. lease'.state = IF Renews(i) THEN "Renewing" ELSE "Acquiring"
      BY <1>a, <2>2, <2>3
    <3> QED BY <2>1, <2>3, <3>1 DEF Renews
  <2>4. CASE ops[i].kind = "release"
    <3>1. lease'.state = "Releasing"
      BY <1>a, <2>2, <2>4
    <3> QED BY <2>1, <2>4, <3>1
  <2>5. CASE ops[i].kind \notin {"acquire", "release"}
    BY <1>b, <2>1, <2>2, <2>5
  <2> QED BY <2>3, <2>4, <2>5
<1>5. CASE PutBack
  <2>1. /\ ops'[active].state \in PendingStates /\ ops'[active].kind = ops[active].kind
        /\ ops'[active].internal = ops[active].internal
        /\ ops'[active].token = ops[active].token
        /\ Elsewhere(active) /\ active \in Slots /\ lease' = lease
    BY <1>a, <1>5, PutBackSlot DEF SameRequest, PendingStates, PutBack
  <2> QED BY <1>0, <1>b, <2>1
<1>6. ASSUME NEW i \in Slots, NEW s \in TerminalStates, NEW token, NEW grant,
             Ends(i, s, token, grant)
      PROVE  Want(lease', ops')
  <2>1. Elsewhere(i)
    BY <1>6, EndedSlot
  <2>2. CASE running /\ ops[i].kind \notin {"acquire", "release"}
    <3>1. lease' = lease
      BY <1>6, <2>2 DEF Ends, Finalize
    <3> QED BY <1>b, <2>1, <2>2, <3>1
  <2>3. CASE ~(running /\ ops[i].kind \notin {"acquire", "release"})
    <3>1. lease'.state \in {"Released", "Held", "Expired", "Failed"}
      BY <1>6, <2>3 DEF Ends, Finalize, ReleasedLease
    <3> QED BY <3>1
  <2> QED BY <2>2, <2>3
<1>7. CASE s_stopOnOwner
  BY <1>0, <1>7 DEF s_stopOnOwner, ReleasedLease
<1> HIDE DEF Want
<1> QED
  BY <1>0, <1>1, <1>2, <1>3, <1>4, <1>5, <1>6, <1>7, TableSteps

(* No lease stays busy after the request that made it so: whatever overlaps *)
(* and ends in between, a busy state has a pending request of its kind.    *)
THEOREM EndpointBusyLease == Spec => []BusyLeaseHasRequest
<1>1. Init => BusyLeaseHasRequest
  BY DEF Init, BusyLeaseHasRequest, ReleasedLease
<1>2. IInv /\ BusyLeaseHasRequest /\ [Next]_vars => BusyLeaseHasRequest'
  BY BusyLeaseInv
<1> QED BY <1>1, <1>2, EndpointInvariant, PTL DEF Spec

-----------------------------------------------------------------------------
\* Ids start at 1, so no request is mistaken for none.
PositiveIds ==
    /\ nextId # 0
    /\ \A i \in Slots : Used(i) => ops[i].id # 0

(* Every step keeps ids positive.                                          *)
LEMMA PositiveInv == ASSUME IInv, PositiveIds, [Next]_vars PROVE PositiveIds'
<1> USE DEF TerminalStates, PendingStates, FreeSlot, Used
<1>0. nextId \in Nat
  BY DEF IInv, TypeOK
<1> SUFFICES ASSUME NEW j \in Slots
             PROVE  nextId' # 0 /\ (Used(j)' => ops'[j].id # 0)
  BY CapacityAssumption DEF PositiveIds, Slots
<1>1. CASE TableStays
  BY <1>1 DEF TableStays, PositiveIds
<1>2. ASSUME NEW i \in Slots, NEW kind, NEW token, NEW internal \in BOOLEAN, NEW timeout,
             Enters(i, kind, token, internal, timeout)
      PROVE  nextId' # 0 /\ (Used(j)' => ops'[j].id # 0)
  BY <1>0, <1>2, EnteredSlot DEF Elsewhere, PositiveIds
<1>3. ASSUME NEW c \in Callers, NEW i \in Slots, Taken(c, i)
      PROVE  nextId' # 0 /\ (Used(j)' => ops'[j].id # 0)
  <2>1. nextId' = nextId
    BY <1>3 DEF Taken
  <2> QED BY <1>3, <2>1, TakenSlot DEF Elsewhere, PositiveIds
<1>4. ASSUME NEW i \in Slots, Started(i)
      PROVE  nextId' # 0 /\ (Used(j)' => ops'[j].id # 0)
  <2>1. nextId' = nextId
    BY <1>4 DEF Started
  <2> QED BY <1>4, <2>1, StartedSlot DEF Elsewhere, SameRequest, PositiveIds
<1>5. CASE PutBack
  BY <1>5, PutBackSlot DEF Elsewhere, PutBack, SameRequest, PositiveIds
<1>6. ASSUME NEW i \in Slots, NEW s \in TerminalStates, NEW token, NEW grant,
             Ends(i, s, token, grant)
      PROVE  nextId' # 0 /\ (Used(j)' => ops'[j].id # 0)
  BY <1>6, EndedSlot DEF Elsewhere, Ends, SameRequest, PositiveIds
<1>7. CASE s_stopOnOwner
  BY <1>7, StoppedSlots DEF s_stopOnOwner, SameRequest, PositiveIds
<1> QED
  BY <1>1, <1>2, <1>3, <1>4, <1>5, <1>6, <1>7, TableSteps

\* The queue without one of its slots.
OtherWaiting(i) == {Asked(j) : j \in Queued \ {i}}
OtherResults(i) == {Outcome(j) : j \in Ended \ {i}}

(* When one slot changes, the queue changes by what is in that slot.       *)
LEMMA OneSlot ==
    ASSUME IInv, NEW i \in Slots, Elsewhere(i)
    PROVE  /\ Waiting = OtherWaiting(i) \cup IF ops[i].state = "Queued" THEN {Asked(i)} ELSE {}
           /\ Waiting' = OtherWaiting(i)
                         \cup IF ops'[i].state = "Queued" THEN {Asked(i)'} ELSE {}
           /\ Results = OtherResults(i)
                        \cup IF ops[i].state \in TerminalStates THEN {Outcome(i)} ELSE {}
           /\ Results' = OtherResults(i)
                         \cup IF ops'[i].state \in TerminalStates THEN {Outcome(i)'} ELSE {}
           /\ Used(i) => Asked(i) \notin OtherWaiting(i) /\ Outcome(i) \notin OtherResults(i)
<1>1. Waiting = OtherWaiting(i) \cup IF ops[i].state = "Queued" THEN {Asked(i)} ELSE {}
  BY DEF Waiting, OtherWaiting, Queued
<1>2. Waiting' = OtherWaiting(i) \cup IF ops'[i].state = "Queued" THEN {Asked(i)'} ELSE {}
  <2>1. \A j \in Slots : j # i => ops'[j] = ops[j] /\ Asked(j)' = Asked(j)
    BY DEF Elsewhere, Asked
  <2>2. Queued' \ {i} = Queued \ {i}
    BY <2>1 DEF Queued
  <2>3. i \in Queued' <=> ops'[i].state = "Queued"
    BY DEF Queued
  <2> QED BY <2>1, <2>2, <2>3 DEF Waiting, OtherWaiting, Queued
<1>3. Results = OtherResults(i)
                \cup IF ops[i].state \in TerminalStates THEN {Outcome(i)} ELSE {}
  BY DEF Results, OtherResults, Ended
<1>4. Results' = OtherResults(i)
                 \cup IF ops'[i].state \in TerminalStates THEN {Outcome(i)'} ELSE {}
  <2>1. \A j \in Slots : j # i => ops'[j] = ops[j] /\ Outcome(j)' = Outcome(j)
    BY DEF Elsewhere, Outcome
  <2>2. Ended' \ {i} = Ended \ {i}
    BY <2>1 DEF Ended
  <2>3. i \in Ended' <=> ops'[i].state \in TerminalStates
    BY DEF Ended
  <2> QED BY <2>1, <2>2, <2>3 DEF Results, OtherResults, Ended
<1>5. Used(i) => Asked(i) \notin OtherWaiting(i) /\ Outcome(i) \notin OtherResults(i)
  <2> SUFFICES ASSUME Used(i) PROVE Asked(i) \notin OtherWaiting(i) /\ Outcome(i) \notin OtherResults(i)
    OBVIOUS
  <2>1. ASSUME NEW j \in Slots, j # i, Used(j) PROVE ops[j].id # ops[i].id
    BY <2>1 DEF IInv, UniqueIds
  <2>2. ASSUME NEW j \in Queued \ {i} PROVE Asked(j) # Asked(i)
    BY <2>1 DEF Asked, Queued, Used
  <2>3. ASSUME NEW j \in Ended \ {i} PROVE Outcome(j) # Outcome(i)
    BY <2>1 DEF Outcome, Ended, Used, TerminalStates
  <2> QED BY <2>2, <2>3 DEF OtherWaiting, OtherResults
<1> QED BY <1>1, <1>2, <1>3, <1>4, <1>5

(* Every step is a step of the queue, or does not concern it.              *)
LEMMA QueueSteps ==
    ASSUME IInv, PositiveIds, [Next]_vars
    PROVE  [Queue!QueueNext]_(Queue!queueVars)
<1> USE DEF PendingStates, TerminalStates, Queue!queueVars
<1>0. /\ \A i \in Slots : ops[i].internal \in BOOLEAN /\ i # 0
      /\ active # 0 => active \in Slots /\ ops[active].state = "LinkPending"
      /\ \A i \in Slots : ops[i].state = "LinkPending" => active = i
  BY DEF IInv, TypeOK, SlotType, SerializedQueue, Slots
<1>1. CASE TableStays
  BY <1>1 DEF TableStays, Waiting, Serving, Results, Asked, Outcome, Queued, Ended
<1>2. ASSUME NEW i \in Slots, NEW kind, NEW token, NEW internal \in BOOLEAN, NEW timeout,
             Enters(i, kind, token, internal, timeout)
      PROVE  \E public \in BOOLEAN : Queue!Accept(public)
  <2>1. /\ ops'[i].state = "Queued" /\ ops'[i].id = nextId /\ ops'[i].internal = internal
        /\ Elsewhere(i) /\ ops[i].state = "Unknown" /\ nextId' = nextId + 1
    BY <1>2, EnteredSlot
  <2>2. running /\ UNCHANGED <<active, running>>
    BY <1>2 DEF Enters
  <2>3. Asked(i)' = [id |-> nextId, public |-> ~internal]
    BY <2>1 DEF Asked
  <2>4. Waiting' = Waiting \cup {[id |-> nextId, public |-> ~internal]} /\ Results' = Results
    BY <2>1, <2>3, OneSlot
  <2>5. Serving' = Serving
    BY <1>0, <2>1, <2>2 DEF Serving, Asked, Elsewhere
  <2>6. Queue!Accept(~internal)
    BY <2>1, <2>2, <2>4, <2>5 DEF Queue!Accept
  <2> QED BY <2>6
<1>3. ASSUME NEW c \in Callers, NEW i \in Slots, Taken(c, i)
      PROVE  \E result \in Results : Queue!TakeResult(result)
  <2>1. /\ ops'[i].state = "Unknown" /\ Elsewhere(i) /\ ops[i].state \in TerminalStates
        /\ UNCHANGED <<active, nextId, running>>
    <3>1. UNCHANGED <<active, nextId, running>>
      BY <1>3 DEF Taken
    <3> QED BY <1>3, <3>1, TakenSlot DEF FreeSlot
  <2>2. Waiting' = Waiting /\ Results' = Results \ {Outcome(i)} /\ Outcome(i) \in Results
    BY <2>1, OneSlot DEF Used
  <2>3. Serving' = Serving
    BY <1>0, <2>1 DEF Serving, Asked, Elsewhere
  <2> QED BY <2>1, <2>2, <2>3 DEF Queue!TakeResult
<1>4. ASSUME NEW i \in Slots, Started(i) PROVE Queue!Serve
  <2>1. /\ SameRequest(i) /\ ops'[i].state = "LinkPending" /\ Elsewhere(i)
        /\ ops[i].state = "Queued"
    BY <1>4, StartedSlot
  <2>2. active = 0 /\ active' = i /\ (\A j \in Queued : ops[i].id <= ops[j].id)
        /\ UNCHANGED <<nextId, running>>
    BY <1>4 DEF Started
  <2>3. Asked(i)' = Asked(i)
    BY <2>1 DEF Asked, SameRequest
  <2>4. Waiting' = Waiting \ {Asked(i)} /\ Results' = Results /\ Asked(i) \in Waiting
    BY <2>1, OneSlot DEF Used
  <2>5. Serving = Queue!Nobody /\ Serving' = Asked(i)
    BY <1>0, <2>2, <2>3 DEF Serving, Queue!Nobody
  <2>6. \A q \in Waiting : Asked(i).id <= q.id
    BY <2>2 DEF Waiting, Asked
  <2> QED BY <2>2, <2>4, <2>5, <2>6 DEF Queue!Serve
<1>5. ASSUME active # 0
      PROVE  Serving = Asked(active) /\ Serving # Queue!Nobody
  <2>1. ops[active].id # 0
    BY <1>0, <1>5 DEF PositiveIds, Used
  <2> QED BY <1>5, <2>1 DEF Serving, Asked, Queue!Nobody
<1>6. ASSUME NEW i \in Slots, active = i, PutBack PROVE Queue!PutBack
  <2>1. /\ SameRequest(i) /\ ops'[i].state = "Queued"
        /\ Elsewhere(i) /\ ops[i].state = "LinkPending"
    BY <1>6, PutBackSlot
  <2>2. running /\ active # 0 /\ active' = 0 /\ UNCHANGED <<nextId, running>>
    BY <1>0, <1>6 DEF PutBack
  <2>3. Asked(i)' = Asked(i)
    BY <2>1 DEF Asked, SameRequest
  <2>4. Waiting' = Waiting \cup {Asked(i)} /\ Results' = Results
    BY <2>1, <2>3, OneSlot
  <2>5. Serving' = Queue!Nobody
    BY <2>2 DEF Serving, Queue!Nobody
  <2> QED BY <1>5, <1>6, <2>2, <2>4, <2>5 DEF Queue!PutBack
<1>7. ASSUME NEW i \in Slots, NEW s \in TerminalStates, NEW token, NEW grant,
             Ends(i, s, token, grant)
      PROVE  Queue!Finish(s) \/ \E r \in Waiting : Queue!Expire(r)
  <2> DEFINE reported == IF ops[i].internal THEN {} ELSE {[id |-> ops[i].id, outcome |-> s]}
  <2>1. /\ IF ops[i].internal THEN ops'[i] = FreeSlot
           ELSE SameRequest(i) /\ ops'[i].state = s
        /\ Elsewhere(i) /\ ops[i].state \in PendingStates
    BY <1>7, EndedSlot
  <2>2. /\ active # i => ops[i].state = "Queued" /\ s = "TimedOut"
        /\ active' = (IF active = i THEN 0 ELSE active) /\ UNCHANGED <<nextId, running>>
    BY <1>7 DEF Ends, Finalize
  <2>3. ops'[i].state # "Queued"
    BY <2>1 DEF FreeSlot
  <2>4. IF ops[i].internal THEN ops'[i].state \notin TerminalStates
        ELSE ops'[i].state \in TerminalStates /\ Outcome(i)' = [id |-> ops[i].id, outcome |-> s]
    BY <2>1 DEF FreeSlot, Outcome, SameRequest
  <2>5. Results' = Results \cup reported
    BY <2>1, <2>4, OneSlot
  <2>6. Queue!Reported({Asked(i)}, s) = reported
    <3>1. Asked(i).public = ~ops[i].internal /\ Asked(i).id = ops[i].id
      BY DEF Asked
    <3>2. {q \in {Asked(i)} : q.public} = IF ops[i].internal THEN {} ELSE {Asked(i)}
      BY <3>1
    <3> QED BY <3>1, <3>2 DEF Queue!Reported
  <2> HIDE DEF reported
  <2>7. CASE active = i
    <3>1. Serving = Asked(i) /\ Serving # Queue!Nobody /\ Serving' = Queue!Nobody
      BY <1>0, <1>5, <2>2, <2>7 DEF Serving, Queue!Nobody
    <3>2. Waiting' = Waiting
      BY <1>0, <2>1, <2>3, <2>7, OneSlot
    <3> QED BY <2>2, <2>5, <2>6, <3>1, <3>2 DEF Queue!Finish
  <2>8. CASE active # i
    <3>1. Waiting' = Waiting \ {Asked(i)} /\ Asked(i) \in Waiting
      BY <2>1, <2>2, <2>3, <2>8, OneSlot DEF Used
    <3>2. Serving' = Serving
      BY <1>0, <2>1, <2>2, <2>8 DEF Serving, Asked, Elsewhere
    <3>3. Queue!Expire(Asked(i))
      BY <2>2, <2>5, <2>6, <2>8, <3>1, <3>2 DEF Queue!Expire
    <3> QED BY <3>1, <3>3
  <2> QED BY <2>7, <2>8
<1>8. CASE s_stopOnOwner
  <2>1. running /\ running' = FALSE /\ UNCHANGED <<active, nextId>>
    BY <1>8 DEF s_stopOnOwner, IInv, Lifecycle
  <2>2. \A i \in Slots :
          /\ ops[i].state # "Queued" => ops'[i] = ops[i]
          /\ ops[i].state = "Queued" => IF ops[i].internal THEN ops'[i] = FreeSlot
                                        ELSE SameRequest(i) /\ ops'[i].state = "Cancelled"
    BY <1>8, StoppedSlots
  <2>3. Waiting' = {}
    BY <2>2 DEF Waiting, Queued, FreeSlot
  <2>4. Serving' = Serving
    BY <1>0, <2>1, <2>2 DEF Serving, Asked
  <2>5. ASSUME NEW i \in Slots
        PROVE  /\ ops'[i].state \in TerminalStates <=>
                    ops[i].state \in TerminalStates \/ (ops[i].state = "Queued" /\ ~ops[i].internal)
               /\ ops[i].state \in TerminalStates => Outcome(i)' = Outcome(i)
               /\ ops[i].state = "Queued" /\ ~ops[i].internal =>
                     Outcome(i)' = [id |-> ops[i].id, outcome |-> "Cancelled"]
    BY <2>2 DEF FreeSlot, Outcome, SameRequest
  <2> DEFINE C == {k \in Queued : ~ops[k].internal}
  <2>6. Queue!Reported(Waiting, "Cancelled") =
          {[id |-> ops[i].id, outcome |-> "Cancelled"] : i \in C}
    <3>1. \A i \in Queued : Asked(i).public = ~ops[i].internal /\ Asked(i).id = ops[i].id
      BY DEF Asked
    <3>2. {q \in Waiting : q.public} = {Asked(i) : i \in C}
      BY <3>1 DEF Waiting
    <3> QED BY <3>1, <3>2 DEF Queue!Reported
  <2>7. Results' = Results \cup Queue!Reported(Waiting, "Cancelled")
    <3>1. Ended' = Ended \cup C
      BY <2>5 DEF Ended, Queued
    <3>2. \A i \in Ended : Outcome(i)' = Outcome(i)
      BY <2>5 DEF Ended
    <3>3. \A i \in C : Outcome(i)' = [id |-> ops[i].id, outcome |-> "Cancelled"]
      BY <2>5 DEF Queued
    <3> HIDE DEF C
    <3> QED BY <2>6, <3>1, <3>2, <3>3 DEF Results
  <2>8. Queue!CloseQueue
    BY <2>1, <2>3, <2>4, <2>7 DEF Queue!CloseQueue
  <2> QED BY <2>8 DEF Queue!QueueNext
<1>9. PutBack => Queue!PutBack
  BY <1>6 DEF PutBack
<1> QED
  BY <1>1, <1>2, <1>3, <1>4, <1>7, <1>8, <1>9, TableSteps DEF Queue!QueueNext, Queue!Outcomes

(* The endpoint implements OperationQueue.                                 *)
THEOREM EndpointImplementsQueue == Spec => ImplementsQueue
<1>1. Init => PositiveIds
  BY DEF Init, PositiveIds, Used, FreeSlot
<1>2. IInv /\ PositiveIds /\ [Next]_vars => PositiveIds'
  BY PositiveInv
<1>3. Init => Queue!QueueInit
  BY DEF Init, Queue!QueueInit, Waiting, Serving, Results, Queued, Ended, FreeSlot,
         TerminalStates, Queue!Nobody
<1>4. IInv /\ PositiveIds /\ [Next]_vars => [Queue!QueueNext]_(Queue!queueVars)
  BY QueueSteps
<1> QED
  BY <1>1, <1>2, <1>3, <1>4, EndpointInvariant, PTL DEF Spec, ImplementsQueue, Queue!QueueSpec

-----------------------------------------------------------------------------
\* No pass of the owner takes longer than half a turn of the clock (24 days):
\* it is a handful of critical sections and waits only for m_mutex.
PromptPasses == InPass => clock - now <= Half

\* The clock readings in use lie in the past, and the runtime's deadline is not
\* before the operation's own.
PastTimes ==
    /\ InPass => now <= clock
    /\ \A i \in Slots : Used(i) => ops[i].submitted <= clock
    /\ rpc.slot # 0 => rpc.deadline >= ops[rpc.slot].submitted + ops[rpc.slot].timeout

(* The clock never goes back, a pass keeps its reading of it, and the RPC  *)
(* in flight changes only when the runtime takes one or ends it.           *)
LEMMA ClockSteps ==
    ASSUME IInv, [Next]_vars
    PROVE  /\ clock' \in Nat /\ clock <= clock'
           /\ InPass' => now' = clock \/ (InPass /\ now' = now)
           /\ rpc' = rpc \/ rpc' = NoRpc \/ AdmitOk
<1> USE DEF slotVars, leaseVars, ownerVars, callerVars, envVars, InPass
<1>0. clock \in Nat
  BY DEF IInv, TypeOK
<1>1. ASSUME NEW c \in Callers, CallerStep(c) PROVE UNCHANGED <<clock, opc, now, rpc>>
  <2>1. CASE AcquireCheck(c) \/ ReleaseCheck(c)
    BY <2>1 DEF AcquireCheck, ReleaseCheck
  <2>2. CASE \E kind \in {"query", "config"} \cap Calls : CallOther(c, kind)
    BY <2>2 DEF CallOther
  <2>3. CASE SubmitGate(c) \/ SubmitRefused(c) \/ WaitExpires(c)
    BY <2>3 DEF SubmitGate, SubmitRefused, WaitExpires
  <2>4. CASE Submit(c) \/ Take(c)
    BY <2>4 DEF Submit, Take
  <2> QED BY <1>1, <2>1, <2>2, <2>3, <2>4 DEF CallerStep
<1>2. CASE BeginPass
  BY <1>0, <1>2 DEF BeginPass
<1>3. CASE ExpireQueued \/ ExpireLease \/ UpgradeGate \/ DropLease
           \/ RenewalCheck \/ RenewalGate \/ RenewalSubmit
  <2>1. UNCHANGED <<clock, now, rpc>> /\ InPass
    <3>1. CASE ExpireQueued
      BY <3>1 DEF ExpireQueued
    <3>2. CASE ExpireLease \/ UpgradeGate \/ DropLease
      BY <3>2 DEF ExpireLease, UpgradeGate, DropLease
    <3>3. CASE RenewalCheck \/ RenewalGate
      BY <3>3 DEF RenewalCheck, RenewalGate
    <3>4. CASE RenewalSubmit
      BY <3>4 DEF RenewalSubmit
    <3> QED BY <1>3, <3>1, <3>2, <3>3, <3>4
  <2> QED BY <1>0, <2>1
<1>4. CASE StartNext
  BY <1>0, <1>4 DEF StartNext, EndPass
<1>5. CASE AdmitOk \/ AdmitBusy \/ AdmitFailed
  BY <1>0, <1>5 DEF AdmitOk, AdmitBusy, AdmitFailed, EndPass
<1>6. CASE RpcCompletes \/ s_stopOnOwner \/ CancelInFlight
  BY <1>0, <1>6 DEF RpcCompletes, Complete, s_stopOnOwner, CancelInFlight
<1>7. CASE Stop \/ UpgradeSwitch \/ Tick \/ UNCHANGED vars
  BY <1>0, <1>7 DEF Stop, UpgradeSwitch, Tick, vars
<1> QED
  BY <1>0, <1>1, <1>2, <1>3, <1>4, <1>5, <1>6, <1>7 DEF Next, OwnerStep, PassStep

(* Every step keeps the clock readings in the past.                        *)
LEMMA PastTimesInv ==
    ASSUME IInv, IInv', PastTimes, PromptPasses, [Next]_vars PROVE PastTimes'
<1> USE DEF TerminalStates, PendingStates, FreeSlot, Used
<1>0. /\ clock \in Nat /\ clock' \in Nat /\ now \in Nat /\ now' \in Nat /\ clock <= clock'
      /\ InPass' => now' = clock \/ (InPass /\ now' = now)
      /\ rpc' = rpc \/ rpc' = NoRpc \/ AdmitOk
  BY ClockSteps DEF IInv, TypeOK
<1>1. InPass' => now' <= clock'
  BY <1>0 DEF PastTimes
<1> DEFINE InTime(j) == /\ Used(j)' => ops'[j].submitted <= clock'
                        /\ rpc.slot = j /\ rpc'.slot = j => /\ ops'[j].submitted = ops[j].submitted
                                           /\ ops'[j].timeout = ops[j].timeout
<1>2. ASSUME NEW j \in Slots PROVE InTime(j)
  <2>0. /\ Used(j) => ops[j].submitted <= clock'
        /\ rpc.slot = j => active = j /\ ops[j].state = "LinkPending"
    <3>1. Used(j) => ops[j].submitted \in Nat /\ ops[j].submitted <= clock
      BY DEF PastTimes, IInv, TypeOK, SlotType
    <3>2. rpc.slot = j => active = j /\ ops[j].state = "LinkPending"
      BY DEF IInv, InFlight, SerializedQueue, Slots
    <3> QED BY <1>0, <3>1, <3>2
  <2>1. CASE TableStays
    BY <2>0, <2>1 DEF TableStays
  <2>2. ASSUME NEW i \in Slots, NEW kind, NEW token, NEW internal, NEW timeout,
               Enters(i, kind, token, internal, timeout)
        PROVE  InTime(j)
    BY <1>0, <2>0, <2>2, EnteredSlot DEF Elsewhere
  <2>3. ASSUME NEW c \in Callers, NEW i \in Slots, Taken(c, i) PROVE InTime(j)
    BY <2>0, <2>3, TakenSlot DEF Elsewhere
  <2>4. ASSUME NEW i \in Slots, Started(i) PROVE InTime(j)
    BY <2>0, <2>4, StartedSlot DEF Elsewhere, SameRequest
  <2>5. CASE PutBack
    BY <2>0, <2>5, PutBackSlot DEF Elsewhere, SameRequest
  <2>6. ASSUME NEW i \in Slots, NEW s \in TerminalStates, NEW token, NEW grant,
               Ends(i, s, token, grant)
        PROVE  InTime(j)
    <3>1. rpc.slot = j /\ rpc'.slot = j => j # i
      <4>1. active' = IF active = i THEN 0 ELSE active
        BY <2>6 DEF Ends, Finalize
      <4>2. rpc'.slot = j => active' = j /\ j # 0
        BY DEF IInv, InFlight, Slots
      <4> QED BY <2>0, <4>1, <4>2
    <3> QED BY <2>0, <2>6, <3>1, EndedSlot DEF Elsewhere, SameRequest
  <2>7. CASE s_stopOnOwner
    BY <2>0, <2>7, StoppedSlots DEF SameRequest
  <2> HIDE DEF InTime
  <2> QED BY <2>1, <2>2, <2>3, <2>4, <2>5, <2>6, <2>7, TableSteps
<1>3. ASSUME rpc'.slot # 0
      PROVE  rpc'.deadline >= ops'[rpc'.slot].submitted + ops'[rpc'.slot].timeout
  <2>1. CASE rpc' = rpc
    <3>1. rpc.slot \in Slots
      BY <1>3, <2>1 DEF IInv, TypeOK, Slots
    <3> QED BY <1>2, <1>3, <2>1, <3>1 DEF PastTimes
  <2>2. CASE rpc' = NoRpc
    BY <1>3, <2>2 DEF NoRpc
  <2>3. CASE AdmitOk
    <3>1. /\ rpc'.slot = active /\ rpc'.deadline = clock + Remaining(active)
          /\ ops' = ops /\ InPass
      BY <2>3 DEF AdmitOk, slotVars, InPass
    <3>2. active \in Slots /\ ops[active].state = "LinkPending"
      BY <2>3 DEF AdmitOk, IInv, TypeOK, SerializedQueue, Slots
    <3>3. /\ ops[active].submitted \in Nat /\ ops[active].timeout \in Nat
          /\ ops[active].submitted <= clock /\ now <= clock /\ clock - now <= Half
      BY <3>1, <3>2, TimeoutAssumption DEF IInv, TypeOK, SlotType, PastTimes, PromptPasses
    <3>4. clock + Remaining(active) >= ops[active].submitted + ops[active].timeout
      BY <1>0, <3>3, NoTimeLost DEF Remaining
    <3> QED BY <3>1, <3>4
  <2> QED BY <1>0, <2>1, <2>2, <2>3
<1> QED BY <1>1, <1>2, <1>3 DEF PastTimes

(* A step that times an operation out does so after its deadline.          *)
LEMMA TimeoutStep ==
    ASSUME IInv, PastTimes, PromptPasses, [Next]_vars,
           NEW j \in Slots, ops[j].state \in PendingStates, ops'[j].state = "TimedOut"
    PROVE  clock >= ops[j].submitted + ops[j].timeout
<1> USE DEF TerminalStates, PendingStates, FreeSlot
<1>0. /\ ops[j].submitted \in Nat /\ ops[j].timeout \in Nat
      /\ ops[j].submitted <= clock /\ clock \in Nat /\ now \in Nat
  BY TimeoutAssumption DEF IInv, TypeOK, SlotType, PastTimes, Used
<1>1. CASE TableStays
  BY <1>1 DEF TableStays
<1>2. ASSUME NEW i \in Slots, NEW kind, NEW token, NEW internal, NEW timeout,
             Enters(i, kind, token, internal, timeout)
      PROVE  FALSE
  BY <1>2, EnteredSlot DEF Elsewhere
<1>3. ASSUME NEW c \in Callers, NEW i \in Slots, Taken(c, i) PROVE FALSE
  BY <1>3, TakenSlot DEF Elsewhere
<1>4. ASSUME NEW i \in Slots, Started(i) PROVE FALSE
  BY <1>4, StartedSlot DEF Elsewhere
<1>5. CASE PutBack
  BY <1>5, PutBackSlot DEF Elsewhere
<1>6. ASSUME NEW i \in Slots, NEW s \in TerminalStates, NEW token, NEW grant,
             Ends(i, s, token, grant)
      PROVE  clock >= ops[j].submitted + ops[j].timeout
  <2>1. i = j /\ s = "TimedOut"
    BY <1>6, EndedSlot DEF Elsewhere
  <2>2. \/ InPass /\ Remaining(j) = 0
        \/ rpc.slot = j /\ clock >= rpc.deadline
    BY <1>6, <2>1 DEF Ends
  <2>3. CASE InPass /\ Remaining(j) = 0
    <3>1. now <= clock /\ clock - now <= Half
      BY <2>3 DEF PastTimes, PromptPasses
    <3>2. clock + Remaining(j) >= ops[j].submitted + ops[j].timeout
      BY <1>0, <3>1, NoTimeLost DEF Remaining
    <3> QED BY <1>0, <2>3, <3>2
  <2>4. CASE rpc.slot = j /\ clock >= rpc.deadline
    <3>1. rpc.deadline \in Nat /\ rpc.deadline >= ops[j].submitted + ops[j].timeout
      BY <2>4 DEF PastTimes, IInv, TypeOK, Slots
    <3> QED BY <1>0, <2>4, <3>1
  <2> QED BY <2>2, <2>3, <2>4
<1>7. CASE s_stopOnOwner
  BY <1>7, StoppedSlots
<1> QED
  BY <1>1, <1>2, <1>3, <1>4, <1>5, <1>6, <1>7, TableSteps

(* s_queueRemaining and the deadline given to the runtime: no operation is *)
(* reported kTimedOut before its own deadline, whatever the width of the   *)
(* clock and however often it turns over, if the owner's passes are        *)
(* prompt.                                                                 *)
THEOREM EndpointNoEarlyTimeout == Spec /\ []PromptPasses => NoEarlyTimeout
<1>1. Init => PastTimes
  BY DEF Init, PastTimes, InPass, Used, FreeSlot, NoRpc
<1>2. IInv /\ IInv' /\ PastTimes /\ PromptPasses /\ [Next]_vars => PastTimes'
  BY PastTimesInv
<1>3. IInv /\ PastTimes /\ PromptPasses /\ [Next]_vars
      => [\A i \in Slots :
            ops[i].state \in PendingStates /\ ops'[i].state = "TimedOut" =>
               clock >= ops[i].submitted + ops[i].timeout]_vars
  BY TimeoutStep
<1> QED BY <1>1, <1>2, <1>3, EndpointInvariant, PTL DEF Spec, NoEarlyTimeout

-----------------------------------------------------------------------------
\* The owner that sleeps at t for as long as it is told wakes by the deadline.
WakesBy(t, deadline) ==
    t + s_applicationDeadline(t) <= deadline \/ s_applicationDeadline(t) = 0

(* s_applicationDeadline is a lower bound of everything that falls due:    *)
(* the owner sleeps through no deadline of a waiting operation, no renewal *)
(* and no expiry, also when the clock turns over meanwhile.                *)
THEOREM EndpointWakesInTime ==
    ASSUME TypeOK, NEW t \in Nat
    PROVE  /\ s_applicationDeadline(t) \in Nat
           /\ \A i \in Queued : ops[i].submitted <= t /\ t - ops[i].submitted < Half =>
                WakesBy(t, ops[i].submitted + ops[i].timeout)
           /\ lease.state = "Held" /\ renewAt - t < Half /\ t - renewAt <= Half =>
                WakesBy(t, renewAt)
           /\ lease.state \in {"RenewQueued", "Renewing"}
              /\ expireAt - t < Half /\ t - expireAt <= Half => WakesBy(t, expireAt)
<1> DEFINE queue == {s_queueRemaining(t, ops[i].submitted, ops[i].timeout) : i \in Queued}
           held == IF lease.state = "Held" THEN {s_until(t, renewAt)} ELSE {}
           renewing == IF lease.state \in {"RenewQueued", "Renewing"}
                       THEN {s_until(t, expireAt)} ELSE {}
           all == {NoDeadline} \cup queue \cup held \cup renewing
           least == CHOOSE d \in all : \A e \in all : d <= e
<1>0. /\ \A i \in Queued : ops[i].submitted \in Nat /\ ops[i].timeout \in Nat
      /\ renewAt \in Nat /\ expireAt \in Nat
  BY TimeoutAssumption DEF TypeOK, SlotType, Queued
<1>1. s_applicationDeadline(t) = least
  BY DEF s_applicationDeadline
<1>2. queue \in SUBSET Nat
  <2>1. ASSUME NEW i \in Queued
        PROVE  s_queueRemaining(t, ops[i].submitted, ops[i].timeout) \in Nat
    BY <1>0, RemainingNatural
  <2> QED BY <2>1
<1>3. ASSUME NEW target \in Nat PROVE s_until(t, target) \in Nat
  <2>1. (target - t) % TimeModulus \in Int
    BY TimeModulusAssumption
  <2>2. SignedDifference(target, t) \in Int
    BY <2>1, TimeModulusAssumption DEF SignedDifference, Half
  <2> QED BY <2>2 DEF s_until
<1>4. NoDeadline \in Nat
  BY TimeModulusAssumption DEF NoDeadline
<1>5. all \in SUBSET Nat /\ all # {}
  BY <1>0, <1>2, <1>3, <1>4
<1> HIDE DEF queue, held, renewing
<1>6. \E d \in all : \A e \in all : d <= e
  BY <1>5, LeastNatural
<1>7. least \in Nat /\ \A e \in all : least <= e
  BY <1>5, <1>6
<1>8. ASSUME NEW i \in Queued, ops[i].submitted <= t, t - ops[i].submitted < Half
      PROVE  WakesBy(t, ops[i].submitted + ops[i].timeout)
  <2>1. s_queueRemaining(t, ops[i].submitted, ops[i].timeout) \in all
    BY DEF queue
  <2>2. least <= s_queueRemaining(t, ops[i].submitted, ops[i].timeout)
    BY <1>7, <2>1
  <2> HIDE DEF least
  <2>3. s_queueRemaining(t, ops[i].submitted, ops[i].timeout)
          = IF ops[i].submitted + ops[i].timeout > t
            THEN ops[i].submitted + ops[i].timeout - t ELSE 0
    BY <1>0, <1>8, RemainingOfAge
  <2> QED BY <1>0, <1>1, <1>7, <2>2, <2>3 DEF WakesBy
<1>9. ASSUME NEW target \in Nat, s_until(t, target) \in all,
             target - t < Half, t - target <= Half
      PROVE  WakesBy(t, target)
  <2>1. least <= s_until(t, target)
    BY <1>7, <1>9
  <2> HIDE DEF least
  <2>2. s_until(t, target) = IF target > t THEN target - t ELSE 0
    BY <1>9, UntilTarget
  <2> QED BY <1>1, <1>7, <2>1, <2>2 DEF WakesBy
<1>10. lease.state = "Held" => s_until(t, renewAt) \in all
  BY DEF held
<1>11. lease.state \in {"RenewQueued", "Renewing"} => s_until(t, expireAt) \in all
  BY DEF renewing
<1> QED BY <1>0, <1>1, <1>7, <1>8, <1>9, <1>10, <1>11

=============================================================================
