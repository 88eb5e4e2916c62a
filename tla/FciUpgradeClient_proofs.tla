---------------------- MODULE FciUpgradeClient_proofs ----------------------
(***************************************************************************)
(* Proofs for FciUpgradeClient: every time-out, clock modulus and number   *)
(* of calls and restarts.                                                  *)
(***************************************************************************)
EXTENDS FciUpgradeClient, TLAPS

\* The upload in progress: whose answer is awaited, what the device holds, and
\* why a transfer is being aborted.
UploadInv ==
    /\ startRpc # NoRpc => startRpc.call = uploads
    /\ upload.state = "Queued" => ~transfer.reserved /\ startRpc = NoRpc
    /\ uploading /\ upload.cancel => transfer.cancelled
    /\ upload.state \in {"Queued", "Starting", "Uploading"} => upload.error = "None"
    /\ upload.state \in {"Uploading", "Cancelling"} =>
         /\ sender # "none"
         /\ sender = "completed" => transfer.delivered
         /\ sender = "aborted" => ~transfer.reserved
    /\ upload.state = "Uploading" => sender \in {"running", "completed", "failed"}
    /\ upload.state = "Cancelling" =>
         upload.cancel \/ upload.error \notin {"None", "Cancelled"}

\* The reboot in progress: asked for once, and accepted only by its own answer.
RebootInv ==
    /\ reboot.pending =>
         /\ ~reboot.done /\ ~restart.left
         /\ rebootRpc # NoRpc => rebootRpc.call = reboots /\ ~reboot.accepted
         /\ reboot.accepted => restart.answered
         /\ restart.answered => reboot.accepted \/ rebootRpc.state = "ok"
         /\ rebootRpc.state = "ok" => restart.answered
         /\ rebootRpc = NoRpc /\ ~reboot.accepted => restart.asked = 0
    /\ restart.asked \in {0, 1}

BootInv ==
    /\ bootRpc # NoRpc => bootRpc.call = boots
    /\ boot.pending => ~boot.done

\* The three parts, each with the variables only it is about, and the rest.
UploadType ==
    [state : ActiveStates \cup {"Idle", "Completed", "Failed", "Cancelled"},
     error : Errors, since : Nat, cancel : BOOLEAN]
Uploads ==
    /\ upload \in UploadType
    /\ sender \in {"none", "running", "aborting", "completed", "aborted", "failed"}
    /\ startRpc \in RpcType /\ (startRpc # NoRpc => upload.state = "Starting")
    /\ transfer \in [reserved : BOOLEAN, delivered : BOOLEAN, cancelled : BOOLEAN]
    /\ uploads \in Nat
    /\ UploadInv /\ UploadEndIsTrue
RebootType ==
    [pending : BOOLEAN, done : BOOLEAN, error : Errors, since : Nat,
     accepted : BOOLEAN, departed : BOOLEAN]
Reboots ==
    /\ reboot \in RebootType
    /\ rebootRpc \in RpcType /\ (rebootRpc # NoRpc => reboot.pending)
    /\ restart \in [asked : Nat, answered : BOOLEAN, left : BOOLEAN]
    /\ reboots \in Nat
    /\ RebootInv /\ RebootIsTrue
Boots ==
    /\ boot \in [pending : BOOLEAN, done : BOOLEAN, error : Errors, since : Nat, answers : Nat]
    /\ bootRpc \in RpcType /\ (bootRpc # NoRpc => boot.pending)
    /\ boots \in Nat
    /\ BootInv /\ BootAnswersOwnCall
Others ==
    /\ phase \in {"down", "starting", "up", "closing"}
    /\ verifying \in BOOLEAN /\ bpc \in {"idle", "wait"} /\ rpc \in {"idle", "wait", "verify"}
    /\ opc \in {"idle", "pass"} /\ now \in Nat /\ clock \in Nat /\ starts \in Nat

IInv == Uploads /\ Reboots /\ Boots /\ Others

uploadVars == <<upload, sender, startRpc, transfer, uploads>>
rebootVars == <<reboot, rebootRpc, restart, reboots>>
bootVars == <<boot, bootRpc, boots>>

(* A part is preserved by what leaves its variables alone.                 *)
LEMMA UploadsStay == ASSUME Uploads, UNCHANGED uploadVars PROVE Uploads'
  BY DEF Uploads, uploadVars, UploadInv, UploadEndIsTrue, uploading
LEMMA RebootsStay == ASSUME Reboots, UNCHANGED rebootVars PROVE Reboots'
  BY DEF Reboots, rebootVars, RebootInv, RebootIsTrue
LEMMA BootsStay == ASSUME Boots, UNCHANGED bootVars PROVE Boots'
  BY DEF Boots, bootVars, BootInv, BootAnswersOwnCall

(* An answer that is not "ok" is an error, and none that only the client   *)
(* itself reports.                                                         *)
LEMMA ErrorType ==
    ASSUME NEW r \in RpcType
    PROVE  /\ Error(r.state) \in Errors \ {"TransportError", "Cancelled"}
           /\ Error(r.state) = "None" <=> r.state = "ok"
  BY DEF Error, Errors, Outcomes, RpcType

(* What s_finish makes of an upload.                                       *)
LEMMA FinishType ==
    ASSUME NEW u \in UploadType, NEW e \in Errors
    PROVE  LET f == s_finish(u, e)
           IN  /\ f \in UploadType /\ f.state \notin ActiveStates
               /\ f.state = "Completed" <=> e = "None"
               /\ f.state = "Cancelled" <=> e = "Cancelled"
<1>1. CASE e = "None"
  BY <1>1 DEF s_finish, UploadType, ActiveStates
<1>2. CASE e = "Cancelled"
  BY <1>2 DEF s_finish, UploadType, ActiveStates
<1>3. CASE e \notin {"None", "Cancelled"}
  BY <1>3 DEF s_finish, UploadType, ActiveStates
<1>4. QED
  BY <1>1, <1>2, <1>3

-----------------------------------------------------------------------------
(* The boot query.                                                         *)

LEMMA BootStarts == ASSUME Boots, clock \in Nat, bootStatus PROVE Boots'
<1>1. bootRpc = NoRpc /\ bootRpc' = NoRpc /\ boots' \in Nat
  BY DEF Boots, bootStatus
<1>2. boot' \in [pending : BOOLEAN, done : BOOLEAN, error : Errors, since : Nat, answers : Nat]
  BY DEF Boots, bootStatus
<1>3. boot'.pending /\ ~boot'.done
  BY DEF Boots, bootStatus
<1>4. QED
  BY <1>1, <1>2, <1>3 DEF Boots, BootInv, BootAnswersOwnCall, bootStatus

LEMMA BootPolled == ASSUME Boots, s_pollBoot, UNCHANGED boots PROVE Boots'
<1>1. ASSUME NEW e \in Errors, NEW k \in Nat, k = boots, boot' = BootDone(e, k), bootRpc' = NoRpc
      PROVE  Boots'
  BY <1>1 DEF Boots, BootInv, BootAnswersOwnCall, BootDone, NoRpc, RpcType
<1>2. CASE UNCHANGED <<boot, bootRpc>>
  BY <1>2, BootsStay DEF bootVars
<1>3. CASE boot.pending /\ boot' = BootDone("Timeout", boots) /\ bootRpc' = NoRpc
  BY <1>1, <1>3 DEF Boots, Errors
<1>4. CASE boot.pending /\ bootRpc' = Request(boots) /\ UNCHANGED boot
  BY <1>4 DEF Boots, BootInv, BootAnswersOwnCall, Request, RpcType
<1>5. CASE bootRpc = NoRpc /\ boot' = BootDone("TransportError", boots) /\ UNCHANGED bootRpc
  BY <1>1, <1>5 DEF Boots, Errors
<1>6. CASE /\ bootRpc # NoRpc /\ bootRpc.state # "sent" /\ bootRpc' = NoRpc
           /\ boot' = BootDone(Error(bootRpc.state), bootRpc.call)
  <2>1. Error(bootRpc.state) \in Errors /\ bootRpc.call = boots /\ boots \in Nat
    BY <1>6, ErrorType DEF Boots, BootInv
  <2>2. QED
    BY <1>1, <1>6, <2>1
<1>7. QED
  BY <1>2, <1>3, <1>4, <1>5, <1>6 DEF s_pollBoot

LEMMA BootLost == ASSUME Boots, NEW d \in BOOLEAN, Disconnected(d) PROVE Boots'
  BY DEF Boots, BootInv, BootAnswersOwnCall, Disconnected, BootDone, NoRpc, RpcType, Errors

LEMMA BootAnswered == ASSUME Boots, NEW o \in Outcomes, RpcEnds(o) PROVE Boots'
  BY DEF Boots, BootInv, BootAnswersOwnCall, RpcEnds, NoRpc, RpcType, countVars, Outcomes

-----------------------------------------------------------------------------
(* The reboot.                                                             *)

LEMMA RebootStarts ==
    ASSUME Reboots, clock \in Nat, NEW v \in BOOLEAN, RebootCall(v) PROVE Reboots'
  BY DEF Reboots, RebootType, RebootInv, RebootIsTrue, RebootCall, NoRestart, NoRpc, RpcType, Errors

(* What the end of a reboot leaves of it.                                  *)
LEMMA DoneType ==
    ASSUME NEW r \in RebootType, NEW e \in Errors
    PROVE  LET d == RebootDone(r, e)
           IN  /\ d \in RebootType /\ ~d.pending /\ d.done /\ d.error = e
               /\ d.accepted = r.accepted /\ d.departed = r.departed
  BY DEF RebootDone, RebootType

(* What collecting the answer of a reboot leaves: still pending and        *)
(* unanswered, accepted, or ended without success.                         *)
LEMMA PolledType ==
    ASSUME Reboots, reboot.pending, NEW t
    PROVE  LET r == PolledReboot(t)
           IN  /\ r \in RebootType
               /\ r.departed = reboot.departed
               /\ \/ r = reboot /\ rebootRpc.state \in {"none", "sent"}
                  \/ /\ r.pending /\ r.accepted /\ rebootRpc.state = "ok"
                     /\ ~r.done /\ r.error = reboot.error
                  \/ /\ ~r.pending /\ r.done /\ r.accepted = reboot.accepted
                     /\ r.error \notin {"None", "TransportError"}
<1>1. CASE Late(t, reboot.since)
  BY <1>1 DEF PolledReboot, RebootDone, Reboots, RebootType, Errors
<1>2. CASE ~Late(t, reboot.since) /\ rebootRpc.state \in {"none", "sent"}
  BY <1>2 DEF PolledReboot, Reboots
<1>3. CASE ~Late(t, reboot.since) /\ rebootRpc.state = "ok"
  BY <1>3 DEF PolledReboot, Reboots, RebootInv, RebootType
<1>4. CASE ~Late(t, reboot.since) /\ rebootRpc.state \notin {"none", "sent", "ok"}
  <2>1. Error(rebootRpc.state) \in Errors \ {"None", "TransportError"}
    BY <1>4, ErrorType DEF Reboots
  <2>2. PolledReboot(t) = RebootDone(reboot, Error(rebootRpc.state))
    BY <1>4 DEF PolledReboot
  <2>3. QED
    BY <2>1, <2>2, DoneType DEF Reboots
<1>5. QED
  BY <1>1, <1>2, <1>3, <1>4

LEMMA RebootPolled == ASSUME Reboots, s_pollReboot, UNCHANGED reboots PROVE Reboots'
<1>1. CASE UNCHANGED <<reboot, rebootRpc, restart>>
  BY <1>1, RebootsStay DEF rebootVars
<1>2. CASE /\ reboot.pending /\ ~RebootToStart(now) /\ reboot' = PolledReboot(now)
           /\ rebootRpc' = (IF reboot' = reboot THEN rebootRpc ELSE NoRpc)
           /\ UNCHANGED restart
  <2>1. CASE reboot' = reboot
    BY <1>2, <2>1, RebootsStay DEF rebootVars
  <2>2. CASE reboot' # reboot
    <3>1. rebootRpc' = NoRpc /\ rebootRpc' \in RpcType /\ rebootRpc'.state = "none"
      BY <1>2, <2>2 DEF NoRpc, RpcType
    <3>2. QED
      BY <1>2, <2>2, <3>1, PolledType DEF Reboots, RebootInv, RebootIsTrue
  <2>3. QED
    BY <2>1, <2>2
<1>3. CASE /\ RebootToStart(now) /\ rebootRpc' = Request(reboots)
           /\ restart' = [restart EXCEPT !.asked = @ + 1] /\ UNCHANGED reboot
  BY <1>3 DEF Reboots, RebootInv, RebootIsTrue, RebootToStart, Request, RpcType, NoRpc
<1>4. CASE /\ RebootToStart(now) /\ reboot' = RebootDone(reboot, "TransportError")
           /\ UNCHANGED <<rebootRpc, restart>>
  <2>1. /\ reboot' \in RebootType /\ ~reboot'.pending /\ reboot'.done
        /\ reboot'.error = "TransportError"
    BY <1>4 DEF Reboots, RebootType, RebootDone, Errors
  <2>2. rebootRpc = NoRpc /\ rebootRpc.state = "none" /\ ~reboot.accepted /\ reboot.pending
    BY <1>4 DEF RebootToStart, NoRpc
  <2>3. QED
    BY <1>4, <2>1, <2>2 DEF Reboots, RebootInv, RebootIsTrue
<1>5. QED
  BY <1>1, <1>2, <1>3, <1>4 DEF s_pollReboot

LEMMA RebootLost == ASSUME Reboots, NEW d \in BOOLEAN, Disconnected(d) PROVE Reboots'
<1> DEFINE r == IF reboot.pending /\ rebootRpc # NoRpc THEN PolledReboot(clock) ELSE reboot
<1>1. /\ rebootRpc' = NoRpc /\ rebootRpc' \in RpcType /\ UNCHANGED reboots
      /\ reboot' = IF r.pending THEN LostReboot(r, d) ELSE r
      /\ restart' = [restart EXCEPT !.left = @ \/ (d /\ reboot.pending)]
  BY DEF Disconnected, NoRpc, RpcType
<1>2. CASE ~reboot.pending
  BY <1>1, <1>2 DEF Reboots, RebootInv, RebootIsTrue
<1>3. CASE reboot.pending
  <2>1. /\ restart' \in [asked : Nat, answered : BOOLEAN, left : BOOLEAN]
        /\ restart'.asked = restart.asked /\ restart'.answered = restart.answered
        /\ restart'.left <=> d
    BY <1>1, <1>3 DEF Reboots, RebootInv
  <2>2. CASE r.pending
    <3>1. /\ r \in RebootType
          /\ r.accepted <=> restart.answered
      BY <1>3, <2>2, PolledType DEF Reboots, RebootInv, RebootType, NoRpc
    <3>2. /\ reboot' \in RebootType /\ ~reboot'.pending /\ reboot'.done
          /\ reboot'.error = IF d /\ r.accepted THEN "None" ELSE "TransportError"
      BY <1>1, <2>2, <3>1 DEF LostReboot, RebootDone, RebootType, Errors
    <3>3. QED
      BY <1>1, <2>1, <3>1, <3>2 DEF Reboots, RebootInv, RebootIsTrue
  <2>3. CASE ~r.pending
    <3>1. /\ reboot' \in RebootType /\ ~reboot'.pending /\ reboot'.done
          /\ reboot'.error \notin {"None", "TransportError"}
      BY <1>1, <1>3, <2>3, PolledType DEF Reboots
    <3>2. QED
      BY <1>1, <2>1, <3>1 DEF Reboots, RebootInv, RebootIsTrue
  <2>4. QED
    BY <2>2, <2>3
<1>4. QED
  BY <1>2, <1>3

LEMMA RebootAnswered == ASSUME Reboots, NEW o \in Outcomes, RpcEnds(o) PROVE Reboots'
<1>1. UNCHANGED <<reboot, reboots>>
  BY DEF RpcEnds, countVars
<1>2. CASE UNCHANGED <<rebootRpc, restart>>
  BY <1>1, <1>2, RebootsStay DEF rebootVars
<1>3. CASE /\ rebootRpc.state = "sent" /\ rebootRpc' = [rebootRpc EXCEPT !.state = o]
           /\ restart' = [restart EXCEPT !.answered = o = "ok" /\ rebootRpc.call = reboots]
  <2>1. /\ rebootRpc # NoRpc /\ reboot.pending /\ rebootRpc.call = reboots
        /\ ~reboot.accepted /\ ~reboot.done
    BY <1>3 DEF Reboots, RebootInv, NoRpc
  <2>2. rebootRpc' \in RpcType /\ rebootRpc'.state = o /\ rebootRpc'.call = reboots
    BY <1>3, <2>1 DEF Reboots, RpcType, Outcomes
  <2>3. /\ restart' \in [asked : Nat, answered : BOOLEAN, left : BOOLEAN]
        /\ restart'.asked = restart.asked /\ restart'.left = restart.left
        /\ restart'.answered <=> o = "ok"
    BY <1>3, <2>1 DEF Reboots
  <2>4. rebootRpc' # NoRpc
    BY <2>2 DEF NoRpc, Outcomes
  <2>5. QED
    BY <1>1, <2>1, <2>2, <2>3, <2>4 DEF Reboots, RebootInv, RebootIsTrue
<1>4. QED
  BY <1>2, <1>3 DEF RpcEnds

-----------------------------------------------------------------------------
(* The upload.                                                             *)

LEMMA UploadStarts == ASSUME Uploads, clock \in Nat, StartUpload PROVE Uploads'
  BY DEF Uploads, UploadType, UploadInv, UploadEndIsTrue, StartUpload, active, uploading, ActiveStates,
     NoTransfer, NoRpc, RpcType, Errors

LEMMA UploadCancelled == ASSUME Uploads, Cancel PROVE Uploads'
  BY DEF Uploads, UploadType, UploadInv, UploadEndIsTrue, Cancel, uploading, ActiveStates, countVars

LEMMA UploadStatus == ASSUME Uploads, BulkStatus PROVE Uploads'
  BY DEF Uploads, UploadType, UploadInv, UploadEndIsTrue, BulkStatus, SenderMoves, Confirm, uploading,
     ActiveStates, countVars

(* An upload may end, with its Start collected, in any way that the device *)
(* bears out.                                                              *)
LEMMA UploadEnds ==
    ASSUME Uploads, NEW u \in UploadType, NEW e \in Errors, upload' = s_finish(u, e),
           startRpc' = NoRpc, UNCHANGED uploads,
           sender' \in {"none", "running", "aborting", "completed", "aborted", "failed"},
           transfer' \in [reserved : BOOLEAN, delivered : BOOLEAN, cancelled : BOOLEAN],
           e = "None" => transfer'.delivered,
           e = "Cancelled" => transfer'.cancelled /\ ~transfer'.reserved
    PROVE  Uploads'
<1>1. /\ upload' \in UploadType /\ upload'.state \notin ActiveStates
      /\ upload'.state = "Completed" <=> e = "None"
      /\ upload'.state = "Cancelled" <=> e = "Cancelled"
  BY FinishType
<1>2. startRpc' \in RpcType
  BY DEF NoRpc, RpcType
<1>3. QED
  BY <1>1, <1>2 DEF Uploads, UploadInv, UploadEndIsTrue, uploading, ActiveStates

(* What the device confirms: a completed transfer is delivered, an aborted *)
(* one reserves nothing; whether it was cancelled is not the device's.     *)
LEMMA Confirmed ==
    ASSUME Uploads, upload.state \in {"Uploading", "Cancelling"},
           NEW s1 \in {"running", "aborting", "completed", "aborted", "failed"},
           s1 \in {"completed", "aborted"} => s1 = sender,
           NEW s2 \in SenderMoves(s1), Confirm(s1, s2)
    PROVE  /\ s2 \in {"running", "aborting", "completed", "aborted", "failed"}
           /\ transfer' \in [reserved : BOOLEAN, delivered : BOOLEAN, cancelled : BOOLEAN]
           /\ transfer'.cancelled = transfer.cancelled
           /\ s2 = "completed" => transfer'.delivered
           /\ s2 = "aborted" => ~transfer'.reserved
<1>1. CASE s1 = s2
  BY <1>1 DEF Uploads, UploadInv, Confirm
<1>2. CASE s1 # s2
  BY <1>2 DEF Uploads, SenderMoves, Confirm
<1>3. QED
  BY <1>1, <1>2

LEMMA StartPolled ==
    ASSUME Uploads, upload.state \in {"Queued", "Starting"}, s_pollStart,
           UNCHANGED <<transfer, uploads>>
    PROVE  Uploads'
<1>1. CASE UNCHANGED <<upload, startRpc, sender>>
  BY <1>1, UploadsStay DEF uploadVars
<1>2. ASSUME NEW e \in Errors \ {"None", "Cancelled"}, upload' = s_finish(upload, e),
             startRpc' = NoRpc, UNCHANGED sender
      PROVE  Uploads'
  BY <1>2, UploadEnds DEF Uploads
<1>3. CASE /\ startRpc' = Request(uploads) /\ upload' = [upload EXCEPT !.state = "Starting"]
           /\ UNCHANGED sender
  <2>1. startRpc' \in RpcType /\ startRpc'.call = uploads
    BY <1>3 DEF Uploads, Request, RpcType
  <2>2. /\ upload' \in UploadType /\ upload'.state = "Starting"
        /\ upload'.cancel = upload.cancel /\ upload'.error = upload.error
    BY <1>3 DEF Uploads, UploadType, ActiveStates
  <2>3. QED
    BY <1>3, <2>1, <2>2 DEF Uploads, UploadInv, UploadEndIsTrue, uploading, ActiveStates
<1>4. CASE /\ startRpc = NoRpc /\ upload' = s_finish(upload, "TransportError")
           /\ UNCHANGED <<startRpc, sender>>
  BY <1>2, <1>4 DEF Errors
<1>5. CASE /\ startRpc' = NoRpc /\ upload' = [upload EXCEPT !.state = "Uploading"]
           /\ sender' = "running"
  <2>1. startRpc' \in RpcType
    BY <1>5 DEF NoRpc, RpcType
  <2>2. /\ upload' \in UploadType /\ upload'.state = "Uploading"
        /\ upload'.cancel = upload.cancel /\ upload'.error = upload.error
    BY <1>5 DEF Uploads, UploadType, ActiveStates
  <2>3. QED
    BY <1>5, <2>1, <2>2 DEF Uploads, UploadInv, UploadEndIsTrue, uploading, ActiveStates
<1>6. CASE /\ startRpc.state \in Outcomes /\ startRpc' = NoRpc /\ UNCHANGED sender
           /\ upload' = s_finish(upload, IF startRpc.state = "ok" THEN "ProtocolError"
                                          ELSE Error(startRpc.state))
  <2>1. (IF startRpc.state = "ok" THEN "ProtocolError" ELSE Error(startRpc.state))
            \in Errors \ {"None", "Cancelled"}
    BY ErrorType DEF Uploads, Errors
  <2>2. QED
    BY <1>2, <1>6, <2>1
<1>7. QED
  BY <1>1, <1>3, <1>4, <1>5, <1>6 DEF s_pollStart

LEMMA SenderPolled ==
    ASSUME Uploads, upload.state \in {"Uploading", "Cancelling"}, PollSender,
           UNCHANGED <<startRpc, uploads>>
    PROVE  Uploads'
<1> DEFINE u == IF upload.cancel THEN [upload EXCEPT !.state = "Cancelling"] ELSE upload
           First == IF u = upload THEN {sender} ELSE AbortOutcomes(sender)
           Result(s2) ==
             \/ /\ s2 \in {"running", "aborting"}
                /\ upload' = u /\ sender' = s2
             \/ /\ s2 = "completed"
                /\ upload' = s_finish(u, "None") /\ sender' = s2
             \/ /\ s2 = "aborted"
                /\ upload' = s_finish(u, IF u.error = "None" THEN "Cancelled" ELSE u.error)
                /\ sender' = s2
             \/ /\ s2 = "failed" /\ u.state = "Cancelling"
                /\ upload' = s_finish(u, "TransportError") /\ sender' = s2
             \/ /\ s2 = "failed" /\ u.state # "Cancelling"
                /\ upload' = [u EXCEPT !.error = "ProtocolError", !.state = "Cancelling"]
                /\ sender' \in AbortOutcomes(s2)
<1>1. /\ u \in UploadType /\ u.state \in {"Uploading", "Cancelling"}
      /\ u.cancel = upload.cancel /\ u.error = upload.error
      /\ u.state = "Uploading" => ~u.cancel /\ u.error = "None"
      /\ u.state = "Cancelling" => u.cancel \/ u.error \notin {"None", "Cancelled"}
      /\ u.cancel => transfer.cancelled
  <2>1. CASE upload.cancel
    BY <2>1 DEF Uploads, UploadInv, UploadType, uploading, ActiveStates
  <2>2. CASE ~upload.cancel
    BY <2>2 DEF Uploads, UploadInv, UploadType, uploading, ActiveStates
  <2>3. QED
    BY <2>1, <2>2
<1>2. PICK s1 \in First : \E s2 \in SenderMoves(s1) : Confirm(s1, s2) /\ Result(s2)
  BY DEF PollSender
<1>3. PICK s2 \in SenderMoves(s1) : Confirm(s1, s2) /\ Result(s2)
  BY <1>2
<1>4. /\ s1 \in {"running", "aborting", "completed", "aborted", "failed"}
      /\ s1 \in {"completed", "aborted"} => s1 = sender
  <2>1. s1 = sender \/ s1 \in AbortOutcomes(sender)
    BY <1>2
  <2>2. sender \in {"running", "aborting", "completed", "aborted", "failed"}
    BY DEF Uploads, UploadInv
  <2>3. QED
    BY <2>1, <2>2 DEF AbortOutcomes
<1>5. /\ s2 \in {"running", "aborting", "completed", "aborted", "failed"}
      /\ transfer' \in [reserved : BOOLEAN, delivered : BOOLEAN, cancelled : BOOLEAN]
      /\ transfer'.cancelled = transfer.cancelled
      /\ s2 = "completed" => transfer'.delivered
      /\ s2 = "aborted" => ~transfer'.reserved
  BY <1>3, <1>4, Confirmed
<1>6. startRpc = NoRpc /\ startRpc' = NoRpc /\ startRpc' \in RpcType /\ uploads' \in Nat
  BY DEF Uploads, NoRpc, RpcType
<1>7. u.state = "Uploading" => s2 \in {"running", "completed", "failed"}
  <2>1. SUFFICES ASSUME u.state = "Uploading" PROVE s2 \in {"running", "completed", "failed"}
    OBVIOUS
  <2>2. u = upload
    BY <2>1 DEF Uploads, UploadType
  <2>3. s1 \in {"running", "completed", "failed"}
    BY <1>2, <2>1, <2>2 DEF Uploads, UploadInv
  <2>4. QED
    BY <1>3, <2>3 DEF SenderMoves
<1> HIDE DEF u, First, Result
<1>8. CASE s2 \in {"running", "aborting"} /\ upload' = u /\ sender' = s2
  BY <1>1, <1>5, <1>6, <1>7, <1>8 DEF Uploads, UploadInv, UploadEndIsTrue, uploading, ActiveStates
<1>9. CASE s2 = "completed" /\ upload' = s_finish(u, "None") /\ sender' = s2
  BY <1>1, <1>5, <1>6, <1>9, UploadEnds DEF Errors
<1>10. CASE /\ s2 = "aborted" /\ sender' = s2
           /\ upload' = s_finish(u, IF u.error = "None" THEN "Cancelled" ELSE u.error)
  <2>1. u.error = "Cancelled" => u.cancel
    BY <1>1
  <2>2. CASE u.error = "None"
    <3>1. u.cancel
      BY <1>1, <1>10, <1>7, <2>2
    <3>2. QED
      <4>1. upload' = s_finish(u, "Cancelled") /\ sender' = "aborted"
        BY <1>10, <2>2
      <4>2. transfer'.cancelled /\ ~transfer'.reserved
        BY <1>1, <1>5, <1>10, <3>1
      <4>3. QED
        BY <1>1, <1>5, <1>6, <4>1, <4>2, UploadEnds DEF Errors
  <2>3. CASE u.error # "None"
    BY <1>1, <1>5, <1>6, <1>10, <2>1, <2>3, UploadEnds DEF UploadType
  <2>4. QED
    BY <2>2, <2>3
<1>11. CASE s2 = "failed" /\ upload' = s_finish(u, "TransportError") /\ sender' = s2
  BY <1>1, <1>5, <1>6, <1>11, UploadEnds DEF Errors
<1>12. CASE /\ s2 = "failed" /\ u.state # "Cancelling" /\ sender' \in AbortOutcomes(s2)
            /\ upload' = [u EXCEPT !.error = "ProtocolError", !.state = "Cancelling"]
  <2>1. /\ upload' \in UploadType /\ upload'.state = "Cancelling"
        /\ upload'.error = "ProtocolError" /\ upload'.cancel = u.cancel
    BY <1>1, <1>12 DEF UploadType, Errors, ActiveStates
  <2>2. sender' \in {"aborting", "failed"}
    BY <1>12 DEF AbortOutcomes
  <2>3. QED
    BY <1>1, <1>5, <1>6, <2>1, <2>2 DEF Uploads, UploadInv, UploadEndIsTrue, uploading, ActiveStates
<1>13. QED
  BY <1>3, <1>8, <1>9, <1>10, <1>11, <1>12 DEF Result

LEMMA UploadPolled == ASSUME Uploads, PollUpload, UNCHANGED uploads PROVE Uploads'
<1>1. CASE ~uploading
  BY <1>1, UploadsStay DEF PollUpload, uploadVars, CancelQueued, uploading, ActiveStates
<1>2. CASE uploading /\ TimeOutUpload
  BY <1>2, UploadEnds DEF Uploads, TimeOutUpload, Errors
<1>3. CASE uploading /\ CancelQueued
  BY <1>3, UploadEnds DEF Uploads, UploadInv, CancelQueued, uploading, ActiveStates, Errors
<1>4. CASE upload.state \in {"Queued", "Starting"} /\ s_pollStart /\ UNCHANGED transfer
  BY <1>4, StartPolled
<1>5. CASE upload.state \in {"Uploading", "Cancelling"} /\ PollSender /\ UNCHANGED startRpc
  BY <1>5, SenderPolled
<1>6. QED
  BY <1>1, <1>2, <1>3, <1>4, <1>5 DEF PollUpload

LEMMA UploadLost == ASSUME Uploads, NEW d \in BOOLEAN, Disconnected(d) PROVE Uploads'
  BY DEF Uploads, UploadType, UploadInv, UploadEndIsTrue, Disconnected, s_finish, uploading,
     ActiveStates, NoRpc, RpcType, Errors

LEMMA UploadAnswered == ASSUME Uploads, NEW o \in Outcomes, RpcEnds(o) PROVE Uploads'
<1>1. UNCHANGED <<upload, sender, uploads>>
  BY DEF RpcEnds, countVars
<1>2. CASE UNCHANGED <<startRpc, transfer>>
  BY <1>1, <1>2, UploadsStay DEF uploadVars
<1>3. CASE /\ startRpc.state = "sent" /\ startRpc' = [startRpc EXCEPT !.state = o]
           /\ \/ transfer' = [transfer EXCEPT !.reserved = startRpc.call = uploads]
              \/ UNCHANGED transfer
  <2>1. upload.state = "Starting" /\ startRpc.call = uploads
    BY <1>3 DEF Uploads, UploadInv, NoRpc
  <2>2. startRpc' \in RpcType /\ startRpc'.call = uploads
    BY <1>3, <2>1 DEF Uploads, RpcType, Outcomes
  <2>3. /\ transfer' \in [reserved : BOOLEAN, delivered : BOOLEAN, cancelled : BOOLEAN]
        /\ transfer'.cancelled = transfer.cancelled
    BY <1>3, <2>1 DEF Uploads
  <2>4. QED
    BY <1>1, <2>1, <2>2, <2>3 DEF Uploads, UploadInv, UploadEndIsTrue, uploading, ActiveStates
<1>4. QED
  BY <1>2, <1>3 DEF RpcEnds

-----------------------------------------------------------------------------
(* The whole service.                                                      *)

(* The parts hold at the start.                                            *)
LEMMA InitInv == Init => IInv
<1>1. ASSUME Init PROVE Uploads
  BY <1>1 DEF Init, Uploads, UploadType, UploadInv, UploadEndIsTrue, uploading, ActiveStates,
     NoTransfer, NoRpc, RpcType, Errors
<1>2. ASSUME Init PROVE Reboots
  BY <1>2 DEF Init, Reboots, RebootType, RebootInv, RebootIsTrue, NoRestart, NoRpc, RpcType, Errors
<1>3. ASSUME Init PROVE Boots
  BY <1>3 DEF Init, Boots, BootInv, BootAnswersOwnCall, NoRpc, RpcType, Errors
<1>4. ASSUME Init PROVE Others
  BY <1>4 DEF Init, Others
<1>5. QED
  BY <1>1, <1>2, <1>3, <1>4 DEF IInv

(* Every step of a caller, of the owner and of the endpoint keeps them.    *)
LEMMA NextInv == IInv /\ [Next]_vars => IInv'
<1> SUFFICES ASSUME IInv, [Next]_vars PROVE IInv'
  OBVIOUS
<1>0. Uploads /\ Reboots /\ Boots /\ Others /\ clock \in Nat
  BY DEF IInv, Others
<1> USE DEF uploadVars, rebootVars, bootVars, serviceVars, callerVars, countVars
<1>1. CASE StartUpload
  BY <1>0, <1>1, UploadStarts, RebootsStay, BootsStay DEF IInv, StartUpload, Others
<1>2. CASE Cancel
  BY <1>0, <1>2, UploadCancelled, RebootsStay, BootsStay DEF IInv, Cancel, Others
<1>3. CASE bootStatus
  BY <1>0, <1>3, UploadsStay, RebootsStay, BootStarts DEF IInv, bootStatus, Others
<1>4. CASE Verification \/ CallReturns
  BY <1>0, <1>4, UploadsStay, RebootsStay, BootsStay
     DEF IInv, Verification, CallReturns, BootReturns, RebootReturns, Others
<1>5. ASSUME NEW v \in BOOLEAN, RebootCall(v) PROVE IInv'
  BY <1>0, <1>5, UploadsStay, RebootStarts, BootsStay DEF IInv, RebootCall, Others
<1>6. CASE BeginPass
  BY <1>0, <1>6, UploadsStay, RebootsStay, BootsStay DEF IInv, BeginPass, Others
<1>7. CASE s_progress
  BY <1>0, <1>7, UploadPolled, RebootPolled, BootPolled DEF IInv, s_progress, Others
<1>8. CASE BulkStatus
  BY <1>0, <1>8, UploadStatus, RebootsStay, BootsStay DEF IInv, BulkStatus, Others
<1>9. CASE Departure
  <2>1. Uploads' /\ Reboots' /\ Boots'
    BY <1>0, <1>9, UploadLost, RebootLost, BootLost DEF Departure
  <2>2. Others'
    BY <1>0, <1>9 DEF Departure, Disconnected, Others
  <2>3. QED
    BY <2>1, <2>2 DEF IInv
<1>10. CASE Close
  <2>1. Uploads' /\ Reboots' /\ Boots'
    BY <1>0, <1>10, UploadLost, RebootLost, BootLost DEF Close
  <2>2. Others'
    BY <1>0, <1>10 DEF Close, Disconnected, Others
  <2>3. QED
    BY <2>1, <2>2 DEF IInv
<1>11. ASSUME NEW o \in Outcomes, RpcEnds(o) PROVE IInv'
  <2>1. Others'
    BY <1>0, <1>11 DEF RpcEnds, Others
  <2>2. QED
    BY <1>0, <1>11, <2>1, UploadAnswered, RebootAnswered, BootAnswered DEF IInv
<1>12. CASE Lifecycle
  BY <1>0, <1>12, UploadsStay, RebootsStay, BootsStay DEF IInv, Lifecycle, Others
<1>13. CASE Tick
  BY <1>0, <1>13, UploadsStay, RebootsStay, BootsStay DEF IInv, Tick, Others
<1>14. CASE UNCHANGED vars
  BY <1>0, <1>14, UploadsStay, RebootsStay, BootsStay DEF IInv, vars, Others
<1>15. QED
  BY <1>1, <1>2, <1>3, <1>4, <1>5, <1>6, <1>7, <1>8, <1>9, <1>10, <1>11, <1>12, <1>13, <1>14
     DEF Next, CallerStep, OwnerStep

(* The inductive invariant of the upgrade client.                          *)
THEOREM Inductive == Spec => []IInv
  BY InitInv, NextInv, PTL DEF Spec

(* Every RPC the client started belongs to a call that will collect it.    *)
THEOREM TypeCorrect == Spec => []TypeOK
<1>1. IInv => TypeOK
  BY DEF IInv, Uploads, UploadType, Reboots, RebootType, Boots, Others, TypeOK
<1>2. QED
  BY <1>1, Inductive, PTL

(* What cancel() and upload() report is what became of the transfer.       *)
THEOREM UploadsEndTruly == Spec => []UploadEndIsTrue
<1>1. IInv => UploadEndIsTrue
  BY DEF IInv, Uploads
<1>2. QED
  BY <1>1, Inductive, PTL

(* reboot() is sent once and reports success only for the departure of a   *)
(* device that accepted it.                                                *)
THEOREM RebootsEndTruly == Spec => []RebootIsTrue
<1>1. IInv => RebootIsTrue
  BY DEF IInv, Reboots
<1>2. QED
  BY <1>1, Inductive, PTL

(* bootStatus() never returns the answer to an earlier query.              *)
THEOREM BootsAnswerOwnCall == Spec => []BootAnswersOwnCall
<1>1. IInv => BootAnswersOwnCall
  BY DEF IInv, Boots
<1>2. QED
  BY <1>1, Inductive, PTL

=============================================================================
