---------------------------- MODULE FciEndpoint ----------------------------
(***************************************************************************)
(* FciWirelinkEndpoint: the fixed table of operation slots, the serialized *)
(* queue the owner thread works off, and the renewable control lease.      *)
(*                                                                         *)
(* Threads: API callers (any user thread, also ArmImpl's destructor) and   *)
(* one owner thread (the executor).  A step is one critical section of     *)
(* m_mutex, or one read of FciUpgradeClient::active() between two of them. *)
(* The RPC client, the link and the device are external: an RPC that was   *)
(* admitted ends with any outcome, a time-out not before its deadline.     *)
(***************************************************************************)
EXTENDS WireTime, FiniteSets

CONSTANTS Callers,
          Calls,            \* the operations they call: a subset of Kinds
          MayUpgrade,       \* whether firmware upgrades happen
          Capacity,         \* s_kOperationCapacity
          PublicCapacity,   \* s_kPublicOperationCapacity
          Tokens,           \* lease tokens the device may grant
          RpcTimeout,       \* time-out of a public operation
          LeaseTimeout,     \* requested lease time, and time-out of its renewal
          Grants,           \* lease times the device may grant
          MaxRequests,      \* bound on request ids
          MaxTime           \* bound on the clock

ASSUME CapacityAssumption ==
    /\ Capacity \in Nat /\ PublicCapacity \in Nat
    /\ 0 < PublicCapacity /\ PublicCapacity < Capacity
ASSUME TokensAssumption == Tokens \subseteq Nat \ {0}
ASSUME TimeoutAssumption ==
    /\ RpcTimeout \in 1..(Half - 1)
    /\ LeaseTimeout \in 1..(Half - 1)
    /\ Grants \subseteq 1..(Half - 1)
ASSUME EnvironmentAssumption ==
    /\ Calls \subseteq {"acquire", "release", "query", "config"}
    /\ MayUpgrade \in BOOLEAN
ASSUME BoundsAssumption == MaxRequests \in Nat /\ MaxTime \in Nat

VARIABLES ops,              \* m_operations
          active,           \* m_active_operation, 0 for s_kNoSlot
          nextId,           \* m_next_request_id
          lease,            \* m_lease: its state and its token
          renewAt, expireAt, \* m_lease_renew_at_ms, m_lease_expire_at_ms
          running,          \* m_running
          upgrading,        \* m_upgrade.active()
          clock,            \* the steady clock
          opc,              \* where the owner thread is in its pass
          now,              \* s_now_ms of that pass
          renewToken,       \* s_token of s_scheduleRenewal
          rpc,              \* the RPC the runtime has in flight
          stopping,         \* stop() was called
          cpc, request, id  \* each caller: label, OperationRequest, its request id

slotVars == <<ops, active, nextId>>
leaseVars == <<lease, renewAt, expireAt>>
ownerVars == <<opc, now, renewToken, rpc>>
callerVars == <<cpc, request, id>>
envVars == <<running, upgrading, clock, stopping>>
vars == <<slotVars, leaseVars, ownerVars, callerVars, envVars>>

Slots == 1..Capacity
Kinds == {"acquire", "release", "query", "config"}
\* Kinds s_submit lets through while an upgrade runs: identity, settings, e-stop.
UpgradeSafeKinds == {"query"}

\* s_terminal.  "Completed" is kCompleted with status kOk; "Failed" stands for
\* kLinkFailed, kDomainError and a kCompleted whose response was malformed.
TerminalStates == {"Completed", "TimedOut", "Cancelled", "Failed"}
PendingStates == {"Queued", "LinkPending"}
LeaseBusyStates == {"AcquireQueued", "Acquiring", "RenewQueued", "Renewing",
                    "ReleaseQueued", "Releasing"}
LeaseUsableStates == {"Held", "RenewQueued", "Renewing"}
LeaseStates == LeaseBusyStates \cup {"Released", "Held", "Expired", "Failed"}

\* OperationSlot{}: m_used is false exactly when the state is kUnknown.
FreeSlot == [state |-> "Unknown", id |-> 0, kind |-> "none", token |-> 0,
             internal |-> FALSE, submitted |-> 0, timeout |-> 0]
NoRpc == [slot |-> 0, id |-> 0, deadline |-> 0]
NoRequest == [kind |-> "none", token |-> 0]
ReleasedLease == [state |-> "Released", token |-> 0]

Used(i) == ops[i].state # "Unknown"
Queued == {i \in Slots : ops[i].state = "Queued"}
Usable(l) == l.state \in LeaseUsableStates /\ l.token # 0

Init ==
    /\ ops = [i \in Slots |-> FreeSlot] /\ active = 0 /\ nextId = 1
    /\ lease = ReleasedLease /\ renewAt = 0 /\ expireAt = 0
    /\ opc = "sleep" /\ now = 0 /\ renewToken = 0 /\ rpc = NoRpc
    /\ cpc = [c \in Callers |-> "idle"]
    /\ request = [c \in Callers |-> NoRequest]
    /\ id = [c \in Callers |-> 0]
    /\ running = TRUE /\ upgrading = FALSE /\ clock = 0 /\ stopping = FALSE

-----------------------------------------------------------------------------
(* Slot allocation and s_submit's critical section, shared by both sides.  *)

\* A bug: no slot kept back for renewals.
AllocateFromPublic(internal) ==
    LET free == {i \in 1..PublicCapacity : ~Used(i)}
    IN  IF free = {} THEN 0 ELSE CHOOSE i \in free : \A j \in free : i <= j

\* The first free slot the request may use, or 0; internal requests prefer
\* the last slot, which no public request can take.
s_allocateSlot(internal) ==
    LET free == {i \in (IF internal THEN Slots ELSE 1..PublicCapacity) : ~Used(i)}
    IN  IF internal /\ Capacity \in free THEN Capacity
        ELSE IF free = {} THEN 0
        ELSE CHOOSE i \in free : \A j \in free : i <= j

\* s_submit under the lock, once a slot is there.
Enqueue(i, kind, token, internal, timeout) ==
    /\ nextId <= MaxRequests
    /\ ops' = [ops EXCEPT ![i] =
                 [state |-> "Queued", id |-> nextId, kind |-> kind, token |-> token,
                  internal |-> internal, submitted |-> clock, timeout |-> timeout]]
    /\ nextId' = nextId + 1
    /\ lease' = CASE kind = "acquire" /\ (internal \/ token # 0) ->
                       [lease EXCEPT !.state = "RenewQueued"]
                  [] kind = "acquire" /\ ~internal /\ token = 0 ->
                       [lease EXCEPT !.state = "AcquireQueued"]
                  [] kind = "release" -> [lease EXCEPT !.state = "ReleaseQueued"]
                  [] OTHER -> lease

\* s_finalize under the lock: the slot gets its terminal state s, the lease
\* follows the outcome of lease operations, and internal slots are freed.
Finalize(i, s, token, grant) ==
    LET op == ops[i]
        ok == s = "Completed"
    IN
    /\ ops' = [ops EXCEPT ![i] =
                 IF op.internal THEN FreeSlot ELSE [op EXCEPT !.state = s]]
    /\ lease' = CASE ~running -> ReleasedLease
                  [] running /\ op.kind = "acquire" /\ ok ->
                       [state |-> "Held", token |-> token]
                  [] running /\ op.kind = "acquire" /\ ~ok ->
                       [state |-> IF s = "TimedOut" THEN "Expired" ELSE "Failed",
                        token |-> 0]
                  [] running /\ op.kind = "release" ->
                       [state |-> IF ok THEN "Released" ELSE "Failed", token |-> 0]
                  [] OTHER -> lease
    /\ IF running /\ op.kind = "acquire" /\ ok
       THEN /\ renewAt' = clock + (IF grant >= 2 THEN grant \div 2 ELSE 1)
            /\ expireAt' = clock + grant
       ELSE UNCHANGED <<renewAt, expireAt>>
    /\ active' = IF active = i THEN 0 ELSE active

-----------------------------------------------------------------------------
(* API callers.                                                            *)

\* acquireControlLease, up to the unlock: kBusy while a lease request is
\* under way; the token of a held lease makes it an extension.
AcquireCheck(c) ==
    /\ cpc[c] = "idle" /\ "acquire" \in Calls
    /\ lease.state \notin LeaseBusyStates
    /\ request' = [request EXCEPT ![c] =
         [kind |-> "acquire", token |-> IF lease.state = "Held" THEN lease.token ELSE 0]]
    /\ cpc' = [cpc EXCEPT ![c] = "gate"]
    /\ UNCHANGED <<slotVars, leaseVars, ownerVars, id, envVars>>

\* releaseControlLease, up to the unlock: kNoLease without a usable lease.
ReleaseCheck(c) ==
    /\ cpc[c] = "idle" /\ "release" \in Calls
    /\ Usable(lease)
    /\ request' = [request EXCEPT ![c] = [kind |-> "release", token |-> lease.token]]
    /\ cpc' = [cpc EXCEPT ![c] = "gate"]
    /\ UNCHANGED <<slotVars, leaseVars, ownerVars, id, envVars>>

\* Every other typed submission only validates its arguments.
CallOther(c, kind) ==
    /\ cpc[c] = "idle"
    /\ request' = [request EXCEPT ![c] = [kind |-> kind, token |-> 0]]
    /\ cpc' = [cpc EXCEPT ![c] = "gate"]
    /\ UNCHANGED <<slotVars, leaseVars, ownerVars, id, envVars>>

\* s_submit's test of m_upgrade.active(), outside m_mutex.
SubmitGate(c) ==
    /\ cpc[c] = "gate"
    /\ cpc' = [cpc EXCEPT ![c] =
                 IF upgrading /\ request[c].kind \notin UpgradeSafeKinds
                 THEN "idle" ELSE "submit"]
    /\ request' = IF cpc'[c] = "idle" THEN [request EXCEPT ![c] = NoRequest] ELSE request
    /\ UNCHANGED <<slotVars, leaseVars, ownerVars, id, envVars>>

\* kNotReady or kQueueFull: nothing is queued.
SubmitRefused(c) ==
    /\ cpc[c] = "submit"
    /\ ~running \/ s_allocateSlot(FALSE) = 0
    /\ cpc' = [cpc EXCEPT ![c] = "idle"]
    /\ request' = [request EXCEPT ![c] = NoRequest]
    /\ UNCHANGED <<slotVars, leaseVars, ownerVars, id, envVars>>

\* A bug: accepting work after the owner has stopped.
SubmitUnguarded(c) ==
    /\ cpc[c] = "submit"
    /\ s_allocateSlot(FALSE) # 0
    /\ Enqueue(s_allocateSlot(FALSE), request[c].kind, request[c].token, FALSE, RpcTimeout)
    /\ id' = [id EXCEPT ![c] = nextId]
    /\ cpc' = [cpc EXCEPT ![c] = "wait"]
    /\ request' = [request EXCEPT ![c] = NoRequest]
    /\ UNCHANGED <<active, renewAt, expireAt, ownerVars, envVars>>

Submit(c) ==
    /\ cpc[c] = "submit"
    /\ running
    /\ s_allocateSlot(FALSE) # 0
    /\ Enqueue(s_allocateSlot(FALSE), request[c].kind, request[c].token, FALSE, RpcTimeout)
    /\ id' = [id EXCEPT ![c] = nextId]
    /\ cpc' = [cpc EXCEPT ![c] = "wait"]
    /\ request' = [request EXCEPT ![c] = NoRequest]
    /\ UNCHANGED <<active, renewAt, expireAt, ownerVars, envVars>>

\* waitOperation saw a terminal state; takeOperation frees the slot.
Take(c) ==
    /\ cpc[c] = "wait"
    /\ \E i \in Slots :
         /\ ops[i].id = id[c] /\ ops[i].state \in TerminalStates
         /\ ops' = [ops EXCEPT ![i] = FreeSlot]
    /\ cpc' = [cpc EXCEPT ![c] = "idle"]
    /\ id' = [id EXCEPT ![c] = 0]
    /\ UNCHANGED <<active, nextId, leaseVars, ownerVars, request, envVars>>

\* The local wait expired (kBusy): the RPC stays live and, as in ArmImpl's
\* s_requireOperation, nobody takes it any more.
WaitExpires(c) ==
    /\ cpc[c] = "wait"
    /\ \E i \in Slots : ops[i].id = id[c] /\ ops[i].state \in PendingStates
    /\ cpc' = [cpc EXCEPT ![c] = "idle"]
    /\ id' = [id EXCEPT ![c] = 0]
    /\ UNCHANGED <<slotVars, leaseVars, ownerVars, request, envVars>>

CallerStep(c) ==
    \/ AcquireCheck(c) \/ ReleaseCheck(c)
    \/ \E kind \in {"query", "config"} \cap Calls : CallOther(c, kind)
    \/ SubmitGate(c) \/ SubmitRefused(c) \/ Submit(c) \/ Take(c) \/ WaitExpires(c)

-----------------------------------------------------------------------------
(* The owner thread: s_progress is one pass.                               *)

EndPass == opc' = "sleep" /\ now' = 0

BeginPass ==
    /\ opc = "sleep" /\ running
    /\ now' = clock
    /\ opc' = "expire"
    /\ UNCHANGED <<slotVars, leaseVars, renewToken, rpc, callerVars, envVars>>

\* A bug: timing out the operation the runtime still works on as well.
PendingOverdue ==
    {i \in Slots : /\ ops[i].state \in PendingStates
                   /\ s_queueRemaining(now, ops[i].submitted, ops[i].timeout) = 0}

OverdueSlots ==
    {i \in Queued : s_queueRemaining(now, ops[i].submitted, ops[i].timeout) = 0}

\* One expired slot at a time, in index order; then on to the lease.
ExpireQueued ==
    /\ opc = "expire"
    /\ \/ /\ OverdueSlots # {}
          /\ Finalize(CHOOSE i \in OverdueSlots : \A j \in OverdueSlots : i <= j,
                      "TimedOut", 0, 0)
          /\ UNCHANGED opc
       \/ /\ OverdueSlots = {}
          /\ opc' = "lease"
          /\ UNCHANGED <<ops, active, leaseVars>>
    /\ UNCHANGED <<nextId, now, renewToken, rpc, callerVars, envVars>>

ExpireLease ==
    /\ opc = "lease"
    /\ lease' = IF lease.state \in {"RenewQueued", "Renewing"} /\ s_until(now, expireAt) = 0
                THEN [state |-> "Expired", token |-> 0] ELSE lease
    /\ opc' = "gate"
    /\ UNCHANGED <<slotVars, renewAt, expireAt, now, renewToken, rpc, callerVars, envVars>>

\* s_progress tests m_upgrade.active(), then acts on the answer.
UpgradeGate ==
    /\ opc = "gate"
    /\ opc' = IF upgrading THEN "drop" ELSE "renew"
    /\ UNCHANGED <<slotVars, leaseVars, now, renewToken, rpc, callerVars, envVars>>

\* A bug: the snapshot of the lease survives the upgrade.
KeepLease ==
    /\ opc = "drop"
    /\ opc' = "start"
    /\ UNCHANGED <<slotVars, leaseVars, now, renewToken, rpc, callerVars, envVars>>

DropLease ==
    /\ opc = "drop"
    /\ lease' = ReleasedLease
    /\ opc' = "start"
    /\ UNCHANGED <<slotVars, renewAt, expireAt, now, renewToken, rpc, callerVars, envVars>>

\* s_scheduleRenewal, up to the unlock.
RenewalCheck ==
    /\ opc = "renew"
    /\ IF lease.state = "Held" /\ lease.token # 0 /\ s_until(now, renewAt) = 0
       THEN renewToken' = lease.token /\ opc' = "renewGate"
       ELSE opc' = "start" /\ UNCHANGED renewToken
    /\ UNCHANGED <<slotVars, leaseVars, now, rpc, callerVars, envVars>>

RenewalGate ==
    /\ opc = "renewGate"
    /\ opc' = IF upgrading THEN "start" ELSE "renewSubmit"
    /\ renewToken' = IF upgrading THEN 0 ELSE renewToken
    /\ UNCHANGED <<slotVars, leaseVars, now, rpc, callerVars, envVars>>

RenewalSubmit ==
    /\ opc = "renewSubmit"
    /\ IF running /\ s_allocateSlot(TRUE) # 0 /\ nextId <= MaxRequests
       THEN Enqueue(s_allocateSlot(TRUE), "acquire", renewToken, TRUE, LeaseTimeout)
       ELSE UNCHANGED <<ops, nextId, lease>>
    /\ opc' = "start" /\ renewToken' = 0
    /\ UNCHANGED <<active, renewAt, expireAt, now, rpc, callerVars, envVars>>

\* A bug: the first slot of the table instead of the oldest request.
FirstQueuedSlot == CHOOSE i \in Queued : \A j \in Queued : i <= j

\* s_findQueuedSlot: the oldest request.
s_findQueuedSlot == CHOOSE i \in Queued : \A j \in Queued : ops[i].id <= ops[j].id

\* A bug: m_active_operation is neither tested nor set.
StartWithoutActive ==
    /\ opc = "start" /\ Queued # {}
    /\ ops' = [ops EXCEPT ![s_findQueuedSlot].state = "LinkPending"]
    /\ opc' = "admit"
    /\ UNCHANGED <<active, nextId, leaseVars, now, renewToken, rpc, callerVars, envVars>>

\* s_startNext, first critical section.
StartNext ==
    /\ opc = "start"
    /\ IF active = 0 /\ Queued # {}
       THEN LET i == s_findQueuedSlot IN
            /\ active' = i
            /\ ops' = [ops EXCEPT ![i].state = "LinkPending"]
            /\ lease' = CASE ops[i].kind = "acquire" ->
                               [lease EXCEPT !.state = IF ops[i].internal \/ ops[i].token # 0
                                                       THEN "Renewing" ELSE "Acquiring"]
                          [] ops[i].kind = "release" -> [lease EXCEPT !.state = "Releasing"]
                          [] OTHER -> lease
            /\ opc' = "admit" /\ UNCHANGED now
       ELSE EndPass /\ UNCHANGED <<ops, active, lease>>
    /\ UNCHANGED <<nextId, renewAt, expireAt, renewToken, rpc, callerVars, envVars>>

Remaining(i) == s_queueRemaining(now, ops[i].submitted, ops[i].timeout)

\* The runtime took the call.
AdmitOk ==
    /\ opc = "admit" /\ Remaining(active) # 0
    /\ rpc' = [slot |-> active, id |-> ops[active].id, deadline |-> clock + Remaining(active)]
    /\ EndPass
    /\ UNCHANGED <<slotVars, leaseVars, renewToken, callerVars, envVars>>

\* WL_ERR_BUSY or WL_ERR_WOULD_BLOCK: back to the queue, the lease state stays.
AdmitBusy ==
    /\ opc = "admit" /\ Remaining(active) # 0
    /\ ops' = [ops EXCEPT ![active].state = "Queued"]
    /\ active' = 0
    /\ EndPass
    /\ UNCHANGED <<nextId, leaseVars, renewToken, rpc, callerVars, envVars>>

\* A bug: the slot is ended past s_finalize, and the lease is not told.
AdmitFailedSilently ==
    /\ opc = "admit"
    /\ ops' = [ops EXCEPT ![active] = IF @.internal THEN FreeSlot
                                      ELSE [@ EXCEPT !.state = "Failed"]]
    /\ active' = 0
    /\ EndPass
    /\ UNCHANGED <<nextId, leaseVars, renewToken, rpc, callerVars, envVars>>

\* No time is left, or the runtime answers any other error: the operation
\* ends without having been sent.
AdmitFailed ==
    /\ opc = "admit"
    /\ Finalize(active, IF Remaining(active) = 0 THEN "TimedOut" ELSE "Failed", 0, 0)
    /\ EndPass
    /\ UNCHANGED <<nextId, renewToken, rpc, callerVars, envVars>>

\* s_complete, called by the runtime on the owner thread between passes.
Complete(s, token, grant) ==
    /\ opc = "sleep" /\ rpc # NoRpc
    /\ s = "TimedOut" => clock >= rpc.deadline
    /\ Finalize(rpc.slot, s, token, grant)
    /\ rpc' = NoRpc
    /\ UNCHANGED <<nextId, opc, now, renewToken, callerVars, envVars>>

RpcCompletes ==
    \E s \in TerminalStates \ {"Cancelled"}, token \in Tokens, grant \in Grants :
        Complete(s, token, grant)

-----------------------------------------------------------------------------
(* When the executor must wake the owner, if nothing else does.            *)

NoDeadline == TimeModulus      \* WL_RPC_NO_DEADLINE_MS

\* A bug: leaving it to the admission of the next RPC.
LeaseDeadlineOnly(t) ==
    IF lease.state = "Held" THEN s_until(t, renewAt) ELSE NoDeadline

s_applicationDeadline(t) ==
    LET queue == {s_queueRemaining(t, ops[i].submitted, ops[i].timeout) : i \in Queued}
        held == IF lease.state = "Held" THEN {s_until(t, renewAt)} ELSE {}
        renewing == IF lease.state \in {"RenewQueued", "Renewing"}
                    THEN {s_until(t, expireAt)} ELSE {}
        all == {NoDeadline} \cup queue \cup held \cup renewing
    IN  CHOOSE d \in all : \A e \in all : d <= e

-----------------------------------------------------------------------------
(* stop(): the executor runs s_stopOnOwner on the owner thread and closes  *)
(* the runtime, which cancels the RPC in flight.                           *)

Stop ==
    /\ ~stopping
    /\ stopping' = TRUE
    /\ UNCHANGED <<slotVars, leaseVars, ownerVars, callerVars, running, upgrading, clock>>

\* A bug: cancelling the operation the runtime still works on as well.
StopCancelsAll ==
    /\ opc = "sleep" /\ stopping
    /\ running' = FALSE
    /\ ops' = [i \in Slots |->
                 IF ops[i].state \notin PendingStates THEN ops[i]
                 ELSE IF ops[i].internal THEN FreeSlot
                 ELSE [ops[i] EXCEPT !.state = "Cancelled"]]
    /\ lease' = ReleasedLease
    /\ opc' = "closing"
    /\ UNCHANGED <<active, nextId, renewAt, expireAt, now, renewToken, rpc, callerVars,
                   upgrading, clock, stopping>>

\* A bug: waiting until the queue has drained instead of cancelling it.
StopDrains ==
    /\ opc = "sleep" /\ stopping /\ Queued = {}
    /\ running' = FALSE
    /\ lease' = ReleasedLease
    /\ opc' = "closing"
    /\ UNCHANGED <<slotVars, renewAt, expireAt, now, renewToken, rpc, callerVars,
                   upgrading, clock, stopping>>

s_stopOnOwner ==
    /\ opc = "sleep" /\ stopping
    /\ running' = FALSE
    /\ ops' = [i \in Slots |->
                 IF ops[i].state # "Queued" THEN ops[i]
                 ELSE IF ops[i].internal THEN FreeSlot
                 ELSE [ops[i] EXCEPT !.state = "Cancelled"]]
    /\ lease' = ReleasedLease
    /\ opc' = "closing"
    /\ UNCHANGED <<active, nextId, renewAt, expireAt, now, renewToken, rpc, callerVars,
                   upgrading, clock, stopping>>

CancelInFlight ==
    /\ opc = "closing"
    /\ IF rpc # NoRpc
       THEN Finalize(rpc.slot, "Cancelled", 0, 0)
       ELSE UNCHANGED <<ops, active, leaseVars>>
    /\ rpc' = NoRpc
    /\ opc' = "stopped"
    /\ UNCHANGED <<nextId, now, renewToken, callerVars, envVars>>

-----------------------------------------------------------------------------
(* The upgrade client switches on and off from its own threads.            *)
UpgradeSwitch ==
    /\ MayUpgrade
    /\ upgrading' = ~upgrading
    /\ UNCHANGED <<slotVars, leaseVars, ownerVars, callerVars, running, clock, stopping>>

Tick ==
    /\ clock < MaxTime
    /\ clock' = clock + 1
    /\ UNCHANGED <<slotVars, leaseVars, ownerVars, callerVars, running, upgrading, stopping>>

PassStep ==
    \/ ExpireQueued \/ ExpireLease \/ UpgradeGate \/ DropLease
    \/ RenewalCheck \/ RenewalGate \/ RenewalSubmit \/ StartNext
    \/ AdmitOk \/ AdmitBusy \/ AdmitFailed

OwnerStep == BeginPass \/ PassStep \/ RpcCompletes \/ s_stopOnOwner \/ CancelInFlight

Next ==
    \/ \E c \in Callers : CallerStep(c)
    \/ OwnerStep
    \/ Stop
    \/ UpgradeSwitch
    \/ Tick

Spec == Init /\ [][Next]_vars

\* Time passes; the owner finishes the pass it is in, and begins one when its
\* application deadline is due (wake-ups by traffic or notify() are possible
\* but never relied on); between passes it serves the runtime, which ends
\* every RPC, and a stop request.  API callers owe nothing.
FairSpec ==
    /\ Spec
    /\ WF_vars(Tick)
    /\ WF_vars(PassStep)
    /\ WF_vars(s_applicationDeadline(clock) = 0 /\ BeginPass)
    /\ SF_vars(RpcCompletes)
    /\ SF_vars(s_stopOnOwner)
    /\ WF_vars(CancelInFlight)

-----------------------------------------------------------------------------
SlotType ==
    [state : {"Unknown"} \cup PendingStates \cup TerminalStates, id : Nat,
     kind : Kinds \cup {"none"}, token : Tokens \cup {0}, internal : BOOLEAN,
     submitted : Nat, timeout : {0, RpcTimeout, LeaseTimeout}]

TypeOK ==
    /\ ops \in [Slots -> SlotType]
    /\ active \in 0..Capacity /\ (opc = "admit" => active # 0)
    /\ nextId \in Nat
    /\ lease \in [state : LeaseStates, token : Tokens \cup {0}]
    /\ renewAt \in Nat /\ expireAt \in Nat
    /\ opc \in {"sleep", "expire", "lease", "gate", "drop", "renew", "renewGate",
                "renewSubmit", "start", "admit", "closing", "stopped"}
    /\ now \in Nat /\ renewToken \in Tokens \cup {0}
    /\ rpc \in [slot : 0..Capacity, id : Nat, deadline : Nat]
    /\ cpc \in [Callers -> {"idle", "gate", "submit", "wait"}]
    /\ request \in [Callers -> [kind : Kinds \cup {"none"}, token : Tokens \cup {0}]]
    /\ id \in [Callers -> Nat]
    /\ running \in BOOLEAN /\ upgrading \in BOOLEAN /\ stopping \in BOOLEAN
    /\ clock \in Nat

(* s_startNext: the business queue is serialized.  The operation handed to *)
(* the runtime is m_active_operation, it is the only one, and no request   *)
(* that still waits is older than it, whatever was retried, expired or     *)
(* cancelled in between.                                                   *)
SerializedQueue ==
    /\ \A i \in Slots : ops[i].state = "LinkPending" <=> (active = i)
    /\ active # 0 => \A i \in Queued : ops[active].id < ops[i].id

(* s_complete finds its operation by the address of the slot: the slot of  *)
(* the RPC in flight is never cancelled, freed or reused under it.         *)
RpcOwnsSlot ==
    rpc # NoRpc => /\ rpc.slot = active
                   /\ ops[rpc.slot].state = "LinkPending"
                   /\ ops[rpc.slot].id = rpc.id

(* s_stopOnOwner and the completions that follow it: once the owner has    *)
(* stopped nothing is pending, so every waiter was answered, nothing holds *)
(* a lease, and no late completion or submission brings either back.       *)
StoppedIsSettled ==
    opc = "stopped" =>
        /\ rpc = NoRpc /\ active = 0
        /\ \A i \in Slots : ops[i].state \notin PendingStates
        /\ lease = ReleasedLease

(* s_allocateSlot: however many public operations wait, and however many   *)
(* were abandoned by their callers, a due renewal finds a slot, unless an  *)
(* earlier renewal is still in the queue.                                  *)
RenewalFindsSlot ==
    opc = "renewSubmit" =>
        s_allocateSlot(TRUE) # 0 \/ \E i \in Slots : ops[i].internal

\* Operations in the table that have not ended.
Pending(kind) == {i \in Slots : ops[i].kind = kind /\ ops[i].state \in PendingStates}
Renews(i) == ops[i].internal \/ ops[i].token # 0

(* acquireControlLease answers kBusy in these states, s_finalize is what   *)
(* leaves them: a busy lease has a request of its kind in the table,       *)
(* although requests overlap, run out of time in the queue or are put      *)
(* back, and an expiry or an upgrade changes the lease in between.  So no  *)
(* lease stays busy for good.                                              *)
BusyLeaseHasRequest ==
    /\ lease.state \in {"RenewQueued", "Renewing"} => \E i \in Pending("acquire") : Renews(i)
    /\ lease.state \in {"AcquireQueued", "Acquiring"} => \E i \in Pending("acquire") : ~Renews(i)
    /\ lease.state \in {"ReleaseQueued", "Releasing"} => Pending("release") # {}

(* The result of a public operation is decided once: after it is terminal  *)
(* nothing but the caller's takeOperation touches the slot.                *)
ResultsStable ==
    [][\A i \in Slots : ops[i].state \in TerminalStates =>
         ops'[i] = ops[i] \/ \E c \in Callers : cpc[c] = "wait" /\ id[c] = ops[i].id
                                                /\ ops'[i] = FreeSlot]_vars

(* s_queueRemaining: an operation is reported kTimedOut only once its own  *)
(* deadline has passed, also when it was submitted after the owner had     *)
(* read the clock of the pass, or waited behind others before it was sent. *)
NoEarlyTimeout ==
    [][\A i \in Slots :
         ops[i].state \in PendingStates /\ ops'[i].state = "TimedOut" =>
            clock >= ops[i].submitted + ops[i].timeout]_vars

(* s_progress, "A serialized business queue must not extend a caller's RPC *)
(* deadline": an operation whose deadline comes gets its result, even if   *)
(* nothing but the owner's own deadline hint wakes it and the transport    *)
(* refuses the RPC for ever.                                               *)
DeadlineEnforced ==
    \A k \in 1..MaxRequests :
        (\E i \in Slots : ops[i].id = k /\ ops[i].submitted + ops[i].timeout <= MaxTime)
            ~> (\A i \in Slots : ops[i].id = k => ops[i].state \in TerminalStates)

(* stop() always gets through, in whatever pass it meets the owner.        *)
StopCompletes == stopping ~> (opc = "stopped")

(* s_progress, "StartUpgrade revokes control": when an upgrade runs on,    *)
(* the endpoint ends up without a usable lease, although requests that had *)
(* passed the test of active() before the upgrade began still complete.    *)
(* (For leases that run out within the bound on the clock.)                *)
UpgradeEndsControl ==
    <>[]upgrading => <>[](Usable(lease) => expireAt > MaxTime)

-----------------------------------------------------------------------------
(* The promise of OperationQueue: a slot stands for the request or for the *)
(* outcome in it.                                                          *)

Asked(i) == [id |-> ops[i].id, public |-> ~ops[i].internal]
Outcome(i) == [id |-> ops[i].id, outcome |-> ops[i].state]
Ended == {i \in Slots : ops[i].state \in TerminalStates}

Waiting == {Asked(i) : i \in Queued}
Serving == IF active = 0 THEN [id |-> 0, public |-> FALSE] ELSE Asked(active)
Results == {Outcome(i) : i \in Ended}

Queue == INSTANCE OperationQueue WITH
    nextRequest <- nextId, waiting <- Waiting, serving <- Serving,
    results <- Results, accepting <- running

(* What those who submit rely on: slots that are reused, renewals that use *)
(* the same table, retries and stop() keep the promise of one queue.       *)
ImplementsQueue == Queue!QueueSpec

-----------------------------------------------------------------------------
(* What the repository says and the code does not do.                      *)

(* ArmImpl::connectionState reports kReady, and waitUntilReady returns     *)
(* true, in these states; Arm.hpp:140 says the lease is reacquired if it   *)
(* expired.  A renewal that is restarted after the lease expired puts the  *)
(* lease back into kRenewing without a token.                              *)
ReadyHoldsLease == lease.state \in LeaseUsableStates => lease.token # 0

(* test_fci_wirelink_endpoint.cpp:1181: after a release has completed no   *)
(* command is accepted.  The caller still waits for this release, so that  *)
(* it has not asked for the lease again, and with one caller nobody has.   *)
ReleaseIsFinal ==
    \A i \in Slots :
        /\ ops[i].kind = "release" /\ ops[i].state = "Completed"
        /\ \E c \in Callers : cpc[c] = "wait" /\ id[c] = ops[i].id
        => ~Usable(lease)

=============================================================================
