-------------------------- MODULE FciUpgradeClient --------------------------
(***************************************************************************)
(* FciUpgradeClient: firmware upload, boot status and reboot as one        *)
(* service of the endpoint's owner thread.                                 *)
(*                                                                         *)
(* Every method and every owner callback is one critical section of        *)
(* m_mutex; callers of bootStatus() and reboot() then sleep on m_changed.  *)
(* m_boot_call_mutex and m_reboot_call_mutex refuse a second caller at     *)
(* once, so there is one of each.  The RPC runtime, the bulk sender and    *)
(* the device are external: an RPC ends with any outcome, a sender reports *)
(* what the device told it.                                                *)
(***************************************************************************)
EXTENDS WireTime

CONSTANTS Timeout,          \* of uploads, boot queries and reboots
          MaxCalls,         \* bound on uploads, boot queries and reboots together
          MaxStarts,        \* bound on starts of the endpoint
          MaxTime           \* bound on the clock

ASSUME UpgradeTimeoutAssumption == Timeout \in 1..(Half - 1)
ASSUME UpgradeBoundsAssumption ==
    MaxCalls \in Nat /\ MaxStarts \in Nat /\ MaxTime \in Nat

VARIABLES phase,            \* the endpoint: "down", "starting", "up", "closing"
          upload,           \* m_progress, m_since_ms and m_cancel
          sender,           \* m_sender (external)
          boot, reboot,     \* m_boot_* and m_reboot_*
          startRpc, bootRpc, rebootRpc, \* the RPCs behind m_start_id, m_boot_id, m_reboot_id
          verifying,        \* m_verifying
          bpc, rpc,         \* labels of bootStatus() and reboot()
          opc, now,         \* the owner: label, and s_now_ms of its pass
          clock,
          starts, uploads, boots, reboots, \* numbers of calls made
          transfer, restart \* history: what became of the upload and the reboot

serviceVars == <<upload, sender, boot, reboot, startRpc, bootRpc, rebootRpc>>
countVars == <<starts, uploads, boots, reboots>>
callerVars == <<verifying, bpc, rpc>>
vars == <<phase, serviceVars, callerVars, opc, now, clock, countVars, transfer, restart>>

m_running == phase \in {"starting", "up"}
online == phase \in {"up", "closing"}

ActiveStates == {"Queued", "Starting", "Uploading", "Cancelling"}
uploading == upload.state \in ActiveStates
active == uploading \/ reboot.pending \/ verifying

NoRpc == [state |-> "none", call |-> 0]
Request(call) == [state |-> "sent", call |-> call]

MoreCalls == uploads + boots + reboots < MaxCalls

\* Whether the device reserved and got this upload, and it was cancelled; how
\* often this reboot was asked for, whether the answer came and the device left.
NoTransfer == [reserved |-> FALSE, delivered |-> FALSE, cancelled |-> FALSE]
NoRestart == [asked |-> 0, answered |-> FALSE, left |-> FALSE]

Init ==
    /\ phase = "down"
    /\ upload = [state |-> "Idle", error |-> "None", since |-> 0, cancel |-> FALSE]
    /\ sender = "none"
    /\ boot = [pending |-> FALSE, done |-> FALSE, error |-> "None", since |-> 0, answers |-> 0]
    /\ reboot = [pending |-> FALSE, done |-> FALSE, error |-> "None", since |-> 0,
                 accepted |-> FALSE, departed |-> FALSE]
    /\ startRpc = NoRpc /\ bootRpc = NoRpc /\ rebootRpc = NoRpc
    /\ verifying = FALSE /\ bpc = "idle" /\ rpc = "idle"
    /\ opc = "idle" /\ now = 0 /\ clock = 0
    /\ starts = 0 /\ uploads = 0 /\ boots = 0 /\ reboots = 0
    /\ transfer = NoTransfer /\ restart = NoRestart

s_elapsed(t, since) ==
    LET d == SignedDifference(t, since) IN IF d < 0 THEN 0 ELSE d
Late(t, since) == s_elapsed(t, since) >= Timeout

\* What a finished RPC means to its caller.
Outcomes == {"ok", "rejected", "timedOut", "bad"}
Error(state) ==
    CASE state = "ok" -> "None" [] state = "rejected" -> "DeviceRejected"
      [] state = "timedOut" -> "Timeout" [] OTHER -> "ProtocolError"

\* The start of what is over is forgotten.
s_finish(u, error) ==
    [u EXCEPT !.error = error, !.since = 0,
              !.state = CASE error = "None" -> "Completed"
                          [] error = "Cancelled" -> "Cancelled" [] OTHER -> "Failed"]

BootDone(error, call) ==
    [pending |-> FALSE, done |-> TRUE, error |-> error, since |-> 0, answers |-> call]
RebootDone(r, error) ==
    [r EXCEPT !.pending = FALSE, !.done = TRUE, !.error = error, !.since = 0]

-----------------------------------------------------------------------------
(* API callers.  A call that is refused changes nothing.                   *)

StartUpload ==
    /\ m_running /\ ~active /\ MoreCalls
    /\ upload' = [state |-> "Queued", error |-> "None", since |-> clock, cancel |-> FALSE]
    /\ uploads' = uploads + 1 /\ transfer' = NoTransfer
    /\ UNCHANGED <<phase, sender, boot, reboot, startRpc, bootRpc, rebootRpc,
                   callerVars, opc, now, clock, starts, boots, reboots, restart>>

Cancel ==
    /\ uploading /\ ~upload.cancel
    /\ upload' = [upload EXCEPT !.cancel = TRUE]
    /\ transfer' = [transfer EXCEPT !.cancelled = TRUE]
    /\ UNCHANGED <<phase, sender, boot, reboot, startRpc, bootRpc, rebootRpc,
                   callerVars, opc, now, clock, countVars, restart>>

\* A bug: a query that its caller gave up is not waited for.
BootStatusOverlaps ==
    /\ bpc = "idle" /\ m_running /\ MoreCalls
    /\ boot' = [boot EXCEPT !.pending = TRUE, !.done = FALSE, !.since = clock]
    /\ bpc' = "wait" /\ boots' = boots + 1
    /\ UNCHANGED <<phase, upload, sender, reboot, startRpc, bootRpc, rebootRpc,
                   verifying, rpc, opc, now, clock, starts, uploads, reboots, transfer, restart>>

bootStatus ==
    /\ bpc = "idle" /\ m_running /\ ~boot.pending /\ MoreCalls
    /\ boot' = [boot EXCEPT !.pending = TRUE, !.done = FALSE, !.since = clock]
    /\ bpc' = "wait" /\ boots' = boots + 1
    /\ UNCHANGED <<phase, upload, sender, reboot, startRpc, bootRpc, rebootRpc,
                   verifying, rpc, opc, now, clock, starts, uploads, reboots, transfer, restart>>

\* wait_for: the result, or kTimeout with the request left to the owner.
BootReturns ==
    /\ bpc = "wait" /\ (boot.done \/ clock >= boot.since + Timeout)
    /\ bpc' = "idle"
    /\ UNCHANGED <<phase, serviceVars, verifying, rpc, opc, now, clock,
                   countVars, transfer, restart>>

\* FirmwareUpdateSession::rebootAndWait reboots with s_verification set.
RebootCall(verification) ==
    /\ rpc = "idle" /\ m_running /\ MoreCalls
    /\ ~uploading /\ ~reboot.pending /\ verifying = verification
    /\ reboot' = [pending |-> TRUE, done |-> FALSE, error |-> "None", since |-> clock,
                  accepted |-> FALSE, departed |-> FALSE]
    /\ rpc' = (IF verification THEN "verify" ELSE "wait") /\ reboots' = reboots + 1
    /\ restart' = NoRestart
    /\ UNCHANGED <<phase, upload, sender, boot, startRpc, bootRpc, rebootRpc,
                   verifying, bpc, opc, now, clock, starts, uploads, boots, transfer>>

RebootReturns ==
    /\ rpc # "idle" /\ (reboot.done \/ clock >= reboot.since + Timeout)
    /\ rpc' = "idle"
    /\ UNCHANGED <<phase, serviceVars, verifying, bpc, opc, now, clock,
                   countVars, transfer, restart>>

\* The guard of rebootAndWait, which ends it after its own reboot() returned.
Verification ==
    /\ \/ m_running /\ ~active /\ verifying' = TRUE
       \/ verifying /\ rpc # "verify" /\ verifying' = FALSE
    /\ UNCHANGED <<phase, serviceVars, bpc, rpc, opc, now, clock, countVars, transfer, restart>>

CallReturns == BootReturns \/ RebootReturns
CallerStep ==
    \/ StartUpload \/ Cancel \/ bootStatus \/ Verification \/ CallReturns
    \/ \E v \in BOOLEAN : RebootCall(v)

-----------------------------------------------------------------------------
(* The service pass.                                                       *)

BeginPass ==
    /\ online /\ opc = "idle"
    /\ opc' = "pass" /\ now' = clock
    /\ UNCHANGED <<phase, serviceVars, callerVars, clock, countVars, transfer, restart>>

\* Starting an RPC: admitted, refused for now (s_retryable), or failed.
s_pollBoot ==
    \/ /\ ~boot.pending
       /\ UNCHANGED <<boot, bootRpc>>
    \/ /\ boot.pending /\ Late(now, boot.since)
       /\ boot' = BootDone("Timeout", boots) /\ bootRpc' = NoRpc
    \/ /\ boot.pending /\ ~Late(now, boot.since) /\ bootRpc = NoRpc
       /\ \/ bootRpc' = Request(boots) /\ UNCHANGED boot
          \/ UNCHANGED <<boot, bootRpc>>
          \/ boot' = BootDone("TransportError", boots) /\ UNCHANGED bootRpc
    \/ /\ boot.pending /\ ~Late(now, boot.since) /\ bootRpc # NoRpc
       /\ IF bootRpc.state = "sent" THEN UNCHANGED <<boot, bootRpc>>
          ELSE /\ boot' = BootDone(Error(bootRpc.state), bootRpc.call)
               /\ bootRpc' = NoRpc

\* m_reboot after s_pollReboot at time t, unless it has a request to start.
PolledReboot(t) ==
    IF Late(t, reboot.since) THEN RebootDone(reboot, "Timeout")
    ELSE IF rebootRpc.state \in {"none", "sent"} THEN reboot
    ELSE IF rebootRpc.state = "ok" THEN [reboot EXCEPT !.accepted = TRUE]
    ELSE RebootDone(reboot, Error(rebootRpc.state))

RebootToStart(t) ==
    reboot.pending /\ ~Late(t, reboot.since) /\ ~reboot.accepted /\ rebootRpc = NoRpc

\* A bug: an accepted reboot is waited for without a deadline.
PollUntilDeparture ==
    \/ /\ ~reboot.pending \/ reboot.accepted
       /\ UNCHANGED <<reboot, rebootRpc, restart>>
    \/ /\ reboot.pending /\ ~reboot.accepted /\ ~RebootToStart(now)
       /\ reboot' = PolledReboot(now)
       /\ rebootRpc' = IF reboot' = reboot THEN rebootRpc ELSE NoRpc
       /\ UNCHANGED restart
    \/ /\ RebootToStart(now)
       /\ rebootRpc' = Request(reboots)
       /\ restart' = [restart EXCEPT !.asked = @ + 1]
       /\ UNCHANGED reboot

s_pollReboot ==
    \/ /\ ~reboot.pending
       /\ UNCHANGED <<reboot, rebootRpc, restart>>
    \/ /\ reboot.pending /\ ~RebootToStart(now)
       /\ reboot' = PolledReboot(now)
       /\ rebootRpc' = IF reboot' = reboot THEN rebootRpc ELSE NoRpc
       /\ UNCHANGED restart
    \/ /\ RebootToStart(now)
       /\ \/ /\ rebootRpc' = Request(reboots)
             /\ restart' = [restart EXCEPT !.asked = @ + 1]
             /\ UNCHANGED reboot
          \/ UNCHANGED <<reboot, rebootRpc, restart>>
          \/ reboot' = RebootDone(reboot, "TransportError") /\ UNCHANGED <<rebootRpc, restart>>

\* The bulk sender (external).  Its steps: a status from the device or a time-out.
SenderMoves(s) ==
    CASE s = "running" -> {"running", "completed", "failed"}
      [] s = "aborting" -> {"aborting", "aborted", "completed", "failed"}
      [] OTHER -> {s}
\* wl_bulk_sender_request_abort: a failed sender may not be able to.
AbortOutcomes(s) ==
    CASE s = "running" -> {"aborting"} [] s = "failed" -> {"aborting", "failed"} [] OTHER -> {s}

\* A completed or aborted transfer, as the device has confirmed it.
Confirm(before, after) ==
    transfer' = CASE before = after -> transfer
                  [] after = "completed" -> [transfer EXCEPT !.reserved = FALSE, !.delivered = TRUE]
                  [] after = "aborted" -> [transfer EXCEPT !.reserved = FALSE]
                  [] OTHER -> transfer

\* s_status: a status counts only during a transfer.
BulkStatus ==
    /\ online /\ opc = "idle" /\ upload.state \in {"Uploading", "Cancelling"}
    /\ sender' \in SenderMoves(sender) /\ Confirm(sender, sender')
    /\ UNCHANGED <<phase, upload, boot, reboot, startRpc, bootRpc, rebootRpc,
                   callerVars, opc, now, clock, countVars, restart>>

\* The response gives the transfer ID; the sender starts over with it, or refuses.
s_pollStart ==
    \/ /\ startRpc = NoRpc
       /\ \/ /\ startRpc' = Request(uploads)
             /\ upload' = [upload EXCEPT !.state = "Starting"]
          \/ UNCHANGED <<upload, startRpc>>
          \/ upload' = s_finish(upload, "TransportError") /\ UNCHANGED startRpc
       /\ UNCHANGED sender
    \/ /\ startRpc.state = "sent"
       /\ UNCHANGED <<upload, startRpc, sender>>
    \/ /\ startRpc.state \in Outcomes
       /\ startRpc' = NoRpc
       /\ \/ /\ startRpc.state = "ok"
             /\ upload' = [upload EXCEPT !.state = "Uploading"] /\ sender' = "running"
          \/ /\ upload' = s_finish(upload, IF startRpc.state = "ok" THEN "ProtocolError"
                                            ELSE Error(startRpc.state))
             /\ UNCHANGED sender

\* The abort a cancellation asks for, the sender's own progress, its result;
\* a failed sender gets to abort before the upload ends.
PollSender ==
    LET u == IF upload.cancel THEN [upload EXCEPT !.state = "Cancelling"] ELSE upload
        First == IF u = upload THEN {sender} ELSE AbortOutcomes(sender)
    IN  \E s1 \in First : \E s2 \in SenderMoves(s1) :
          /\ Confirm(s1, s2)
          /\ \/ /\ s2 \in {"running", "aborting"}
                /\ upload' = u /\ sender' = s2
             \/ /\ s2 = "completed"
                /\ upload' = s_finish(u, "None") /\ sender' = s2
             \/ /\ s2 = "aborted"
                /\ upload' = s_finish(u, IF u.error = "None" THEN "Cancelled" ELSE u.error)
                /\ sender' = s2
             \/ /\ s2 = "failed" /\ u.state = "Cancelling"
                /\ upload' = s_finish(u, "TransportError") /\ sender' = s2
             \/ /\ s2 = "failed" /\ u.state # "Cancelling"
                /\ upload' = [u EXCEPT !.error = "ProtocolError", !.state = "Cancelling"]
                /\ sender' \in AbortOutcomes(s2)

\* A bug: the Start of a cancelled upload is cancelled with it.
CancelDropsStart ==
    /\ upload.cancel /\ upload.state \in {"Queued", "Starting"}
    /\ upload' = s_finish(upload, "Cancelled")
    /\ startRpc' = NoRpc
    /\ UNCHANGED <<sender, transfer>>

\* A cancelled Start is resolved first: only then the transfer can be aborted.
CancelQueued ==
    /\ upload.cancel /\ upload.state = "Queued"
    /\ upload' = s_finish(upload, "Cancelled")
    /\ UNCHANGED <<sender, startRpc, transfer>>

\* A bug: the Start of an upload that timed out is left behind.
TimeOutForgetsStart ==
    /\ upload' = s_finish(upload, "Timeout")
    /\ UNCHANGED <<sender, startRpc, transfer>>

TimeOutUpload ==
    /\ upload' = s_finish(upload, "Timeout")
    /\ startRpc' = NoRpc
    /\ UNCHANGED <<sender, transfer>>

PollUpload ==
    \/ /\ ~uploading
       /\ UNCHANGED <<upload, startRpc, sender, transfer>>
    \/ uploading /\ Late(now, upload.since) /\ TimeOutUpload
    \/ /\ uploading /\ ~Late(now, upload.since)
       /\ \/ CancelQueued
          \/ /\ upload.state = "Starting" \/ (upload.state = "Queued" /\ ~upload.cancel)
             /\ s_pollStart /\ UNCHANGED transfer
          \/ /\ upload.state \in {"Uploading", "Cancelling"}
             /\ PollSender /\ UNCHANGED startRpc

s_progress ==
    /\ opc = "pass"
    /\ s_pollBoot /\ s_pollReboot /\ PollUpload
    /\ opc' = "idle" /\ now' = 0
    /\ UNCHANGED <<phase, callerVars, clock, countVars>>

-----------------------------------------------------------------------------
(* Loss of the peer, and the endpoint's life.                              *)

\* A bug: any disconnection of an accepted reboot counts as its departure.
AcceptedIsDeparted(r, departed) ==
    [RebootDone(r, IF r.accepted THEN "None" ELSE "TransportError") EXCEPT !.departed = departed]

LostReboot(r, departed) ==
    [RebootDone(r, IF departed /\ r.accepted THEN "None" ELSE "TransportError")
        EXCEPT !.departed = departed]

\* An answer the runtime has decoded but nobody has collected still counts.
Disconnected(departed) ==
    LET r == IF reboot.pending /\ rebootRpc # NoRpc THEN PolledReboot(clock) ELSE reboot
    IN  /\ reboot' = IF r.pending THEN LostReboot(r, departed) ELSE r
        /\ upload' = IF uploading THEN s_finish(upload, "TransportError") ELSE upload
        /\ boot' = IF boot.pending THEN BootDone("TransportError", boots) ELSE boot
        /\ startRpc' = NoRpc /\ bootRpc' = NoRpc /\ rebootRpc' = NoRpc
        /\ restart' = [restart EXCEPT !.left = @ \/ (departed /\ reboot.pending)]
        /\ UNCHANGED <<sender, callerVars, now, clock, uploads, boots, reboots, transfer>>

\* transportState sees the transport go (later passes without it change nothing),
\* or on_peer_session a different peer, which may happen at any time.
Departure ==
    /\ online /\ opc = "idle"
    /\ Disconnected(TRUE)
    /\ UNCHANGED <<phase, opc, starts>>

\* FciWirelinkEndpoint::start, which may fail after connected(true), and stop.
Lifecycle ==
    /\ \/ phase = "down" /\ starts < MaxStarts /\ phase' = "starting" /\ starts' = starts + 1
       \/ phase = "starting" /\ phase' \in {"up", "down"} /\ UNCHANGED starts
       \/ phase = "up" /\ phase' = "closing" /\ UNCHANGED starts
    /\ UNCHANGED <<serviceVars, callerVars, opc, now, clock, uploads, boots,
                   reboots, transfer, restart>>

\* on_close: a local close is not a reboot.
Close ==
    /\ phase = "closing" /\ opc = "idle"
    /\ phase' = "down"
    /\ Disconnected(FALSE)
    /\ UNCHANGED <<opc, starts>>

\* The device or the runtime ends an RPC.  The device may have acted on one
\* whose answer is lost.
RpcEnds(o) ==
    /\ online /\ opc = "idle"
    /\ \/ /\ startRpc.state = "sent" /\ startRpc' = [startRpc EXCEPT !.state = o]
          /\ \/ /\ o # "rejected"
                /\ transfer' = [transfer EXCEPT !.reserved = startRpc.call = uploads]
             \/ o # "ok" /\ UNCHANGED transfer
          /\ UNCHANGED <<bootRpc, rebootRpc, restart>>
       \/ /\ bootRpc.state = "sent" /\ bootRpc' = [bootRpc EXCEPT !.state = o]
          /\ UNCHANGED <<startRpc, rebootRpc, transfer, restart>>
       \/ /\ rebootRpc.state = "sent" /\ rebootRpc' = [rebootRpc EXCEPT !.state = o]
          /\ restart' = [restart EXCEPT !.answered = o = "ok" /\ rebootRpc.call = reboots]
          /\ UNCHANGED <<startRpc, bootRpc, transfer>>
    /\ UNCHANGED <<phase, upload, sender, boot, reboot, callerVars, opc, now,
                   clock, countVars>>

Tick ==
    /\ clock < MaxTime
    /\ clock' = clock + 1
    /\ UNCHANGED <<phase, serviceVars, callerVars, opc, now, countVars, transfer, restart>>

OwnerStep ==
    \/ BeginPass \/ s_progress \/ BulkStatus \/ Departure \/ Close
    \/ \E o \in Outcomes : RpcEnds(o)

Next == CallerStep \/ OwnerStep \/ Lifecycle \/ Tick

Spec == Init /\ [][Next]_vars

\* Time passes, the owner serves its passes (the deadline hint is 10 ms while
\* anything is pending).  Nobody else owes anything.
FairSpec == Spec /\ WF_vars(Tick) /\ WF_vars(BeginPass \/ s_progress)

-----------------------------------------------------------------------------
Errors == {"None", "Timeout", "DeviceRejected", "ProtocolError", "TransportError", "Cancelled"}
RpcType == [state : {"none", "sent"} \cup Outcomes, call : Nat]

\* An RPC exists only as long as somebody is going to collect it.
TypeOK ==
    /\ phase \in {"down", "starting", "up", "closing"}
    /\ upload \in [state : ActiveStates \cup {"Idle", "Completed", "Failed", "Cancelled"},
                   error : Errors, since : Nat, cancel : BOOLEAN]
    /\ sender \in {"none", "running", "aborting", "completed", "aborted", "failed"}
    /\ boot \in [pending : BOOLEAN, done : BOOLEAN, error : Errors, since : Nat, answers : Nat]
    /\ reboot \in [pending : BOOLEAN, done : BOOLEAN, error : Errors, since : Nat,
                   accepted : BOOLEAN, departed : BOOLEAN]
    /\ startRpc \in RpcType /\ (startRpc # NoRpc => upload.state = "Starting")
    /\ bootRpc \in RpcType /\ (bootRpc # NoRpc => boot.pending)
    /\ rebootRpc \in RpcType /\ (rebootRpc # NoRpc => reboot.pending)
    /\ verifying \in BOOLEAN /\ bpc \in {"idle", "wait"} /\ rpc \in {"idle", "wait", "verify"}
    /\ opc \in {"idle", "pass"} /\ now \in Nat /\ clock \in Nat
    /\ starts \in Nat /\ uploads \in Nat /\ boots \in Nat /\ reboots \in Nat
    /\ transfer \in [reserved : BOOLEAN, delivered : BOOLEAN, cancelled : BOOLEAN]
    /\ restart \in [asked : Nat, answered : BOOLEAN, left : BOOLEAN]

(* s_progress, "Cancelling its RPC would strand the device reservation":   *)
(* an upload that ends as kCancelled was cancelled itself, not an earlier  *)
(* one, and the device holds nothing for it; one that ends as kCompleted   *)
(* is the one the device confirmed, although the sender is reused.         *)
UploadEndIsTrue ==
    /\ upload.state = "Cancelled" => transfer.cancelled /\ ~transfer.reserved
    /\ upload.state = "Completed" => transfer.delivered

(* reboot(): the request is never sent twice; success means that this very *)
(* request was accepted and the device then seen to leave, not a local     *)
(* close; and an answer that came in time is not lost to the departure     *)
(* that follows it.                                                        *)
RebootIsTrue ==
    /\ restart.asked <= 1
    /\ reboot.done /\ reboot.error = "None" => restart.answered /\ restart.left
    /\ reboot.done /\ reboot.error = "TransportError" => ~(restart.answered /\ restart.left)

(* bootStatus() returns the answer to its own request, also after earlier  *)
(* callers gave up on theirs.                                              *)
BootAnswersOwnCall == boot.done => boot.answers = boots

(* Whatever is asked of a running endpoint is settled by its deadline,     *)
(* even if the device accepts and never leaves, or never answers.          *)
UpgradeSettles ==
    LET Due(since) == online /\ since + Timeout <= MaxTime
    IN  /\ (uploading /\ Due(upload.since)) ~> ~uploading
        /\ (boot.pending /\ Due(boot.since)) ~> ~boot.pending
        /\ (reboot.pending /\ Due(reboot.since)) ~> ~reboot.pending

=============================================================================
