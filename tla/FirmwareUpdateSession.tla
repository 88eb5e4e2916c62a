------------------------ MODULE FirmwareUpdateSession ------------------------
(***************************************************************************)
(* FirmwareUpdateSession: deviceInfo() and rebootAndWait() on top of the   *)
(* endpoint and its upgrade client, while the device restarts at any time. *)
(*                                                                         *)
(* The code knows the device by its Wirelink session and tells sessions    *)
(* apart only by equality; here a session is the number of the start that  *)
(* opened it.  What the device runs after each start is decided by         *)
(* bootImages.  Who really gave an answer is kept beside it ("from") and   *)
(* read by the properties only.                                            *)
(***************************************************************************)
EXTENDS Naturals, FiniteSets

CONSTANTS Images,           \* what a device may run: identity, version, protocol
          Nobody,           \* the identity of a device without serial or board name
          Expected,         \* s_expected, the version the caller installs
          Slots,            \* operation slots of the endpoint
          MaxBoots          \* bound on the starts of the device

ASSUME ImagesAssumption ==
    \A i \in Images : i = [id |-> i.id, version |-> i.version, compatible |-> i.compatible]
ASSUME BootsAssumption == MaxBoots \in Nat \ {0}
ASSUME SlotsAssumption == Slots \subseteq Nat \ {0}

VARIABLES up,               \* the endpoint runs
          device, settled,  \* number of the running start; its boot is final
          bootImages,       \* what it runs after each start
          peer,             \* FciUpgradeClient::m_peer_session, 0 before the first
          ops,              \* the endpoint's slots
          request,          \* m_info_request
          query,            \* the s_deviceInfo that holds m_call_mutex
          boot,             \* the boot query of rebootAndWait
          install,          \* rebootAndWait
          result            \* its last result

deviceVars == <<device, settled, bootImages>>
linkVars == <<up, deviceVars, peer>>
queryVars == <<ops, request, query>>
installVars == <<boot, install, result>>
vars == <<linkVars, queryVars, installVars>>

Free == [state |-> "free", from |-> 0]
NoQuery == [by |-> "none", at |-> "idle", peer |-> 0, from |-> 0]
NoBoot == [state |-> "none", from |-> 0, settled |-> FALSE]
\* s_previous_peer and the start that gave s_before; s_peer and the start that
\* gave s_info; whether the boot timeout is over.
NoInstall == [at |-> "idle", previous |-> 0, before |-> 0, peer |-> 0, from |-> 0,
              late |-> FALSE]
NoResult == [state |-> "Unknown", before |-> 0, from |-> 0, boot |-> NoBoot, resets |-> 0]

Pending(op) == op.state \in {"sent", "answered"}

Init ==
    /\ up = TRUE /\ device = 1 /\ settled \in BOOLEAN
    /\ bootImages \in [1..MaxBoots -> Images]
    /\ peer = 0 /\ ops = [s \in Slots |-> Free] /\ request = 0
    /\ query = NoQuery /\ boot = NoBoot
    /\ install = NoInstall /\ result = NoResult

-----------------------------------------------------------------------------
(* deviceInfo().  m_call_mutex refuses a second caller at once.            *)

Enter(caller) == [by |-> caller, at |-> "begin", peer |-> 0, from |-> 0]

OtherCalls ==
    /\ query = NoQuery
    /\ query' = Enter("other")
    /\ UNCHANGED <<linkVars, ops, request, installVars>>

\* s_deviceInfo fails: the caller gets an error.
Fails == query' = [query EXCEPT !.at = "failed", !.peer = 0, !.from = 0]

\* A bug: a query that is still outstanding is forgotten.
QueryForgetsLeftover ==
    /\ query.at = "begin"
    /\ request' = 0
    /\ query' = [query EXCEPT !.at = "submit", !.peer = peer]
    /\ UNCHANGED <<linkVars, ops, installVars>>

\* m_info_request, if it is set.
Leftover == {request} \ {0}

\* The query a former call gave up: taken, or still outstanding (kBusy).
QueryBegins ==
    /\ query.at = "begin"
    /\ IF \E s \in Leftover : Pending(ops[s])
       THEN Fails /\ UNCHANGED <<ops, request>>
       ELSE /\ ops' = [s \in Slots |-> IF s \in Leftover THEN Free ELSE ops[s]]
            /\ request' = 0
            /\ query' = [query EXCEPT !.at = "submit", !.peer = peer]
    /\ UNCHANGED <<linkVars, installVars>>

\* getDeviceInfo: refused by a stopped endpoint or a full queue, which others may fill.
QuerySubmits ==
    /\ query.at = "submit"
    /\ \/ \E s \in Slots :
            /\ up /\ ops[s] = Free /\ \A t \in Slots : t < s => ops[t] # Free
            /\ ops' = [ops EXCEPT ![s].state = "sent"]
            /\ request' = s
            /\ query' = [query EXCEPT !.at = "wait"]
       \/ Fails /\ UNCHANGED <<ops, request>>
    /\ UNCHANGED <<linkVars, installVars>>

\* The wait ends with the operation or with its own timeout; takeDeviceInfo
\* looks again, and an operation that is still pending stays in m_info_request.
QueryTakes ==
    /\ query.at = "wait"
    /\ LET op == ops[request]
       IN  IF Pending(op) THEN Fails /\ UNCHANGED <<ops, request>>
           ELSE /\ ops' = [ops EXCEPT ![request] = Free]
                /\ request' = 0
                /\ IF op.state = "done"
                   THEN query' = [query EXCEPT !.at = "check", !.from = op.from]
                   ELSE Fails
    /\ UNCHANGED <<linkVars, installVars>>

\* A bug: the first answer is tagged with the session seen after it.
QueryTrustsFirstAnswer ==
    /\ query.at = "check"
    /\ IF peer = 0 \/ (query.peer # 0 /\ query.peer # peer) THEN Fails
       ELSE query' = [query EXCEPT !.at = "ok", !.peer = peer]
    /\ UNCHANGED <<linkVars, ops, request, installVars>>

\* The session must be the one seen before the submission.  If none was known
\* then, the query is made once more, unless its time is over.
QueryChecks ==
    /\ query.at = "check"
    /\ \/ peer = 0 /\ Fails
       \/ peer # 0 /\ query.peer # 0 /\ query.peer # peer /\ Fails
       \/ /\ peer # 0 /\ query.peer = 0
          /\ Fails \/ query' = Enter(query.by)
       \/ /\ peer # 0 /\ query.peer = peer
          /\ query' = [query EXCEPT !.at = "ok"]
    /\ UNCHANGED <<linkVars, ops, request, installVars>>

OtherReturns ==
    /\ query.by = "other" /\ query.at \in {"ok", "failed"}
    /\ query' = NoQuery
    /\ UNCHANGED <<linkVars, ops, request, installVars>>

QueryStep == QueryBegins \/ QuerySubmits \/ QueryTakes \/ QueryChecks \/ OtherReturns

-----------------------------------------------------------------------------
(* rebootAndWait().  Its guard ends the verification on every return.      *)

Image(start) == bootImages[start]

\* beginVerification, refused by a stopped or busy client without a trace.
InstallBegins ==
    /\ install.at = "idle" /\ up
    /\ install' = [NoInstall EXCEPT !.at = "before"]
    /\ result' = NoResult
    /\ UNCHANGED <<linkVars, queryVars, boot>>

Return(state) ==
    /\ install' = NoInstall /\ boot' = NoBoot
    /\ result' = [state |-> state, before |-> install.before, from |-> install.from,
                  boot |-> boot, resets |-> result.resets]

\* The query before the reset; m_call_mutex may be taken (kBusy).
AskBefore ==
    /\ install.at = "before" /\ query.by # "install"
    /\ IF query = NoQuery THEN query' = Enter("install") /\ UNCHANGED <<install, boot, result>>
       ELSE Return("Error") /\ UNCHANGED query
    /\ UNCHANGED <<linkVars, ops, request>>

\* Nothing is reset unless the device can be recognized afterwards.
HasBefore ==
    /\ install.at = "before" /\ query.by = "install" /\ query.at \in {"ok", "failed"}
    /\ query' = NoQuery
    /\ IF /\ query.at = "ok"
          /\ Image(query.from).compatible /\ Image(query.from).id # Nobody
          /\ Image(query.from).version # Expected
          /\ query.peer = peer
       THEN /\ install' = [install EXCEPT !.at = "reboot", !.before = query.from,
                                          !.previous = query.peer]
            /\ UNCHANGED <<boot, result>>
       ELSE Return("Error")
    /\ UNCHANGED <<linkVars, ops, request>>

\* reboot(kTryBoot): the client sends it at most once (FciUpgradeClient).
RebootSends ==
    /\ install.at = "reboot"
    /\ install' = [install EXCEPT !.at = "rebooting"]
    /\ result' = [result EXCEPT !.resets = @ + 1]
    /\ UNCHANGED <<linkVars, queryVars, boot>>

\* kNone, kTimeout and kTransportError are observed; any other error is final.
RebootReturns ==
    /\ install.at = "rebooting"
    /\ \/ /\ install' = [install EXCEPT !.at = "poll"]
          /\ UNCHANGED <<boot, result>>
       \/ Return("Error")
    /\ UNCHANGED <<linkVars, queryVars>>

\* A bug: the loop does not look at its deadline.
PollForever ==
    /\ install.at = "poll" /\ query = NoQuery
    /\ query' = Enter("install") /\ install' = [install EXCEPT !.at = "info"]
    /\ UNCHANGED <<linkVars, ops, request, boot, result>>

\* The head of the loop: time is over, another caller queries, or a query.
Poll ==
    /\ install.at = "poll"
    /\ \/ install.late /\ Return("Error") /\ UNCHANGED query
       \/ ~install.late /\ query # NoQuery /\ UNCHANGED <<query, install, boot, result>>
       \/ /\ ~install.late /\ query = NoQuery
          /\ query' = Enter("install") /\ install' = [install EXCEPT !.at = "info"]
          /\ UNCHANGED <<boot, result>>
    /\ UNCHANGED <<linkVars, ops, request>>

\* Another session answered, and it is still the peer.
NewPeer == query.at = "ok" /\ query.peer # install.previous /\ query.peer = peer
SameDevice(a, b) == Image(a).id = Image(b).id

HasInfo ==
    /\ install.at = "info" /\ query.by = "install" /\ query.at \in {"ok", "failed"}
    /\ query' = NoQuery
    /\ \/ /\ ~NewPeer
          /\ install' = [install EXCEPT !.at = "poll"] /\ UNCHANGED <<boot, result>>
       \/ /\ NewPeer
          /\ ~SameDevice(query.from, install.before) \/ ~Image(query.from).compatible \/ install.late
          /\ Return("Error")
       \/ /\ NewPeer /\ ~install.late
          /\ SameDevice(query.from, install.before) /\ Image(query.from).compatible
          /\ install' = [install EXCEPT !.at = "boot", !.from = query.from, !.peer = query.peer]
          /\ UNCHANGED <<boot, result>>
    /\ UNCHANGED <<linkVars, ops, request>>

\* bootStatus(): refused (stopped, another caller's query), or asked by the client.
BootCalls ==
    /\ install.at = "boot"
    /\ \/ up /\ boot' = [NoBoot EXCEPT !.state = "sent"]
       \/ boot' = [NoBoot EXCEPT !.state = "failed"]
    /\ install' = [install EXCEPT !.at = "booting"]
    /\ UNCHANGED <<linkVars, queryVars, result>>

\* The result, or the caller's own timeout.  The client gives no late answer to
\* a later call (FciUpgradeClient).
BootReturns ==
    /\ install.at = "booting"
    /\ boot' = IF Pending(boot) THEN [NoBoot EXCEPT !.state = "failed"] ELSE boot
    /\ install' = [install EXCEPT !.at = "judge"]
    /\ UNCHANGED <<linkVars, queryVars, result>>

\* A bug: the boot status is not tied to the session of the information.
JudgeAnySession ==
    /\ install.at = "judge"
    /\ IF boot.state = "done" /\ boot.settled /\ Image(install.from).version = Expected
       THEN Return("TargetConfirmed")
       ELSE install' = [install EXCEPT !.at = "poll"] /\ UNCHANGED <<boot, result>>
    /\ UNCHANGED <<linkVars, queryVars>>

\* A verdict needs a final boot of the session that gave the information.
Judge ==
    /\ install.at = "judge"
    /\ LET final == install.peer = peer /\ boot.state = "done" /\ boot.settled
           version == Image(install.from).version
       IN  \/ final /\ version = Expected /\ Return("TargetConfirmed")
           \/ /\ final /\ version # Expected /\ version = Image(install.before).version
              /\ Return("PreviousFirmware")
           \/ /\ ~final \/ version \notin {Expected, Image(install.before).version}
              /\ install' = [install EXCEPT !.at = "poll", !.peer = 0, !.from = 0]
              /\ boot' = NoBoot /\ UNCHANGED result
    /\ UNCHANGED <<linkVars, queryVars>>

InstallStep ==
    \/ AskBefore \/ HasBefore \/ RebootSends \/ RebootReturns \/ Poll \/ HasInfo
    \/ BootCalls \/ BootReturns \/ Judge

DeadlinePasses ==
    /\ install.at \in {"poll", "info", "boot", "booting", "judge"} /\ ~install.late
    /\ install' = [install EXCEPT !.late = TRUE]
    /\ UNCHANGED <<linkVars, queryVars, boot, result>>

-----------------------------------------------------------------------------
(* Link, device and the owner thread (external but for the two handlers).  *)

\* on_peer_session: a different session fails what the client has pending.
Disconnected(b) == IF Pending(b) THEN [NoBoot EXCEPT !.state = "failed"] ELSE b
Received(session) ==
    /\ peer' = session
    /\ boot' = IF peer \notin {0, session} THEN Disconnected(boot) ELSE boot

\* Any frame: telemetry of the running start.
Observe ==
    /\ up /\ peer # device /\ Received(device)
    /\ UNCHANGED <<up, deviceVars, queryVars, install, result>>

InfoAnswered(s) ==
    /\ ops[s].state = "sent"
    /\ ops' = [ops EXCEPT ![s] = [state |-> "answered", from |-> device]]
    /\ UNCHANGED <<linkVars, request, query, installVars>>

\* The link keeps its order: nothing of a start arrives after something of the next.
InfoArrives(s) ==
    /\ up /\ ops[s].state = "answered" /\ ops[s].from >= peer
    /\ ops' = [ops EXCEPT ![s].state = "done"] /\ Received(ops[s].from)
    /\ UNCHANGED <<up, deviceVars, request, query, install, result>>

\* Timeout of the operation, a link error, a malformed or negative answer.
InfoFails(s) ==
    /\ up /\ Pending(ops[s])
    /\ ops' = [ops EXCEPT ![s] = [state |-> "failed", from |-> 0]]
    /\ UNCHANGED <<linkVars, request, query, installVars>>

BootAnswered ==
    /\ boot.state = "sent"
    /\ boot' = [state |-> "answered", from |-> device, settled |-> settled]
    /\ UNCHANGED <<linkVars, queryVars, install, result>>

BootArrives ==
    /\ up /\ boot.state = "answered" /\ boot.from >= peer
    /\ peer' = boot.from
    /\ boot' = IF peer = boot.from THEN [boot EXCEPT !.state = "done"] ELSE Disconnected(boot)
    /\ UNCHANGED <<up, deviceVars, queryVars, install, result>>

\* The client's timeout, an error, or transportState seeing the cable go, which
\* leaves information queries alone.
BootFails ==
    /\ Pending(boot) /\ boot' = Disconnected(boot)
    /\ UNCHANGED <<linkVars, queryVars, install, result>>

\* The device restarts, asked to or not, with what its boot loader chooses.
Restart ==
    /\ device < MaxBoots
    /\ device' = device + 1 /\ settled' \in BOOLEAN
    /\ UNCHANGED <<up, bootImages, peer, queryVars, installVars>>

Confirm ==
    /\ ~settled /\ settled' = TRUE
    /\ UNCHANGED <<up, device, bootImages, peer, queryVars, installVars>>

\* FciWirelinkEndpoint::stop cancels what is pending.
Stop ==
    /\ up /\ up' = FALSE
    /\ ops' = [s \in Slots |-> IF Pending(ops[s]) THEN [state |-> "failed", from |-> 0] ELSE ops[s]]
    /\ boot' = Disconnected(boot)
    /\ UNCHANGED <<deviceVars, peer, request, query, install, result>>

LinkStep ==
    \/ Observe \/ BootAnswered \/ BootArrives \/ BootFails
    \/ \E s \in Slots : InfoAnswered(s) \/ InfoArrives(s) \/ InfoFails(s)

Next ==
    \/ OtherCalls \/ QueryStep \/ InstallBegins \/ InstallStep \/ DeadlinePasses
    \/ LinkStep \/ Restart \/ Confirm \/ Stop

Spec == Init /\ [][Next]_vars

\* Calls go on, since each of their waits has a timeout, and time passes.  The
\* device, the link and the owner thread owe nothing.
FairSpec == Spec /\ WF_vars(QueryStep) /\ WF_vars(InstallStep) /\ WF_vars(DeadlinePasses)

-----------------------------------------------------------------------------
Starts == 0..MaxBoots
OpType == [state : {"free", "sent", "answered", "done", "failed"}, from : Starts]
QueryType == [by : {"none", "other", "install"}, peer : Starts, from : Starts,
              at : {"idle", "begin", "submit", "wait", "check", "ok", "failed"}]
BootType == [state : {"none", "sent", "answered", "done", "failed"}, from : Starts,
             settled : BOOLEAN]
InstallType == [at : {"idle", "before", "reboot", "rebooting", "poll", "info", "boot",
                      "booting", "judge"},
                previous : Starts, before : Starts, peer : Starts, from : Starts,
                late : BOOLEAN]
ResultType == [state : {"Unknown", "Error", "TargetConfirmed", "PreviousFirmware"},
               before : Starts, from : Starts, boot : BootType, resets : Nat]

TypeOK ==
    /\ up \in BOOLEAN /\ settled \in BOOLEAN
    /\ device \in 1..MaxBoots /\ peer \in Starts
    /\ bootImages \in [1..MaxBoots -> Images]
    /\ ops \in [Slots -> OpType]
    /\ request \in Slots \cup {0}
    /\ query \in QueryType
    /\ boot \in BootType
    /\ install \in InstallType
    /\ result \in ResultType

(* s_deviceInfo, "otherwise a restart between completion and take could    *)
(* tag old info with the new session": what deviceInfo() returns was said  *)
(* by the session it is tagged with.                                       *)
InfoIsOfItsSession == query.at = "ok" => query.from = query.peer /\ query.peer # 0

(* m_info_request, "at most one outstanding query, including local         *)
(* timeout": offline polling never piles up queries in the endpoint.       *)
OneOutstandingQuery ==
    \A s, t \in Slots : (ops[s] # Free /\ ops[t] # Free) => s = t

(* rebootAndWait reports a verdict only if one and the same start of the   *)
(* device, other than the one that was asked to reboot, gave both the      *)
(* identity and version and a final boot status; it is the same device;    *)
(* and the request was sent at most once, never to an unrecognizable one.  *)
InstallIsTrue ==
    /\ result.resets <= 1
    /\ result.resets = 1 /\ install.before # 0 =>
         Image(install.before).compatible /\ Image(install.before).id # Nobody
    /\ result.state \in {"TargetConfirmed", "PreviousFirmware"} =>
         /\ result.resets = 1
         /\ result.before # 0 /\ result.from > result.before
         /\ result.boot.from = result.from /\ result.boot.settled
         /\ Image(result.from).compatible
         /\ Image(result.from).id = Image(result.before).id
         /\ Image(result.from).id # Nobody
         /\ result.state = "TargetConfirmed" <=> Image(result.from).version = Expected

(* rebootAndWait returns, whatever the device does, and with it the        *)
(* verification ends that keeps the endpoint from holding control.         *)
InstallReturns == install.at # "idle" ~> install.at = "idle"

=============================================================================
