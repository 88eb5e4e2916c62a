# libflorid: TLA+ models, model checks and proofs

libflorid is a C++20 SDK that drives a six-axis arm over USB or UDP. This
directory models the parts of it in which threads, deadlines and failures meet,
checks them with TLC on small instances, and proves the central invariants with
TLAPS for every value of the constants. Every definition is a translation of
code under `src/`; the lines are in `PROJECT.json`, "map".

## 1. Inventory

| Component | State | Operations | Interacts with |
|---|---|---|---|
| `FciWirelinkEndpoint` (operations, lease) | a fixed table of operation slots, the active slot, the next request id, the control lease and its two deadlines, `m_running` | typed submissions, `waitOperation`, `takeOperation`, `stop`; on the owner thread one pass of `s_progress`, RPC completions, `s_stopOnOwner` | executor (wake-up by deadline hint), RPC runtime (completion callbacks), upgrade client (`active()`), ArmImpl (caller) |
| `FciWirelinkEndpoint` (command lanes) | none of its own | `send*` validate a command, read the lease token, hand the message to the outbox | executor's coalescing outbox (external) |
| `FciUpgradeClient` | upload, boot-status and reboot records, three RPC ids, cancel and verification flags | `startUpload`, `cancel`, `bootStatus`, `reboot`, verification bracket; owner: one service pass, disconnection, bulk status | endpoint (`active()`), bulk sender (external) |
| `FirmwareUpdateSession`, `FirmwareUpdater` | the id of the outstanding identity query, the identity read before the reboot | `deviceInfo`, `rebootAndWait`; admission of uploads and reboots beside an arm | endpoint (operations), upgrade client (boot query, reboot, peer session), ArmImpl (`firmwareUploadAllowed`) |
| `ControlGeneration` | generation, in-flight count, draining flag (atomics) | `send`, `invalidate` | ArmImpl's control handles and lifecycle calls |
| `ReceiveCallbackGate` | one atomic word (closed bit and count), callback and user pointer | `set`, `clear`, `invoke` | every transport's receive path |
| `ArmImpl` | session mutex, running flags, current mode, latest states, wake-up token | control loops, mode switches, `home`, `stop`, `waitUntilReady` | endpoint, gate, MPC session |
| `MPCSession` | stop reason, four latest-value mailboxes, two wake semaphores, two worker threads | `write`, `stop`, `status`; planner loop, output loop | ArmImpl (`m_send` goes to the endpoint, past the gate; `stop()` joins instead) |
| Discovery | candidate lists | enumerate, probe, select | transports |
| `LatencyEstimator` | a ring of samples | add, percentile | ArmImpl |
| Transports | library handles | open, send, receive, close | gate, Astrial and sockets (external) |
| Solver, traits, vendored acados, bindings, examples | | | not modelled: generated or third-party numerics, or no state |

What is hard here: user threads call into an owner thread that sleeps on a
deadline hint; every critical section is short, so decisions are taken on values
read before an unlock; a lease is renewed behind the caller's back while it is
being released or has run out; an RPC may be refused by the transport any number
of times; lifecycle calls must not return while a command of the old session is
still going out; loops that know nothing of each other share one wake-up token
and two flags; the device restarts while its identity is being compared; the wire
clock is 32 bits and wraps. `PROJECT.json`, "hazards", lists each of these at its
line with the properties that would catch it.

## 2. Modules

| Module | Models | Status |
|---|---|---|
| `SessionBarrier` | the promise of `ControlGeneration`, without atomics | abstract specification |
| `ControlGeneration` | `ControlGeneration.hpp`, a step per atomic operation | checked, proved, refines `SessionBarrier` |
| `ReceiveCallbackGate` | `ReceiveCallbackGate.hpp`, a step per atomic operation | checked, proved |
| `OperationQueue` | the promise of the endpoint's operations, without slots, lease or clock | abstract specification |
| `WireTime` | `s_queueRemaining` and `s_until`, arithmetic modulo the clock | proved equal to true time; used by `FciEndpoint` |
| `FciEndpoint` | the slot table, the owner's pass, the lease, `stop()` | checked, proved, refines `OperationQueue` |
| `MPCSession` | planner, output loop, `write()`, `stop()`, the wake-up tokens | checked, invariants proved |
| `FciUpgradeClient` | upload, boot query and reboot, the service pass, loss of the peer | checked, invariants proved |
| `FirmwareUpdateSession` | identity query, reboot and verification while the device restarts | checked, invariants proved |
| `ArmImpl` | lifecycle calls, arm loop, handles, gripper loop, MPC output, the wake-up token, the mode cache; extends `SessionBarrier` | checked, invariants proved |
| `MC*` | symmetry and sets of records for TLC | |
| `*_proofs` | theorems | |

### ControlGeneration

Senders hold the generation their handle was issued with. `send()` is the first
check (`SendCheck` or `SendExpired`), the increment (`SendEnter`), the second
check (`SendRecheck`), the submission, the decrement (`SendLeave`), the read of
`m_draining` and the notification. `invalidate()` raises `m_draining`, bumps the
generation, loads the count and waits while it is not zero, then clears the flag.
`InvalidateWait` is the futex comparison and sleep of `std::atomic::wait`;
spurious wake-ups are an action. Lifecycle callers are serialized by ArmImpl's
session mutex, so there is one invalidating thread. All operations are
sequentially consistent in the code (default memory order), which is what an
interleaving model assumes.

### ReceiveCallbackGate

`m_state` is the closed bit and the count of entered threads, bounded by
`CountMask` as in the code. `set()` and `clear()` close the gate, wait for the
count to fall to zero, write the two fields one after the other and open it.
Updaters are serialized by the gate's mutex. `RunsRegisteredPair` says a receiver
never calls one registration's function with another's user pointer;
`Quiescent` that nothing of the old registration runs once the update is past
its wait.

### WireTime and FciEndpoint

`WireTime` keeps the code's arithmetic: unsigned subtraction modulo the clock,
read as signed. `FciEndpoint` uses these operators for every deadline.

A step is one critical section of `m_mutex`, or one read of `m_upgrade.active()`
that the code makes outside it. Callers go `idle -> gate -> submit -> wait`:
`AcquireCheck`/`ReleaseCheck`/`CallOther` are the typed submissions up to their
unlock, `SubmitGate` and `Submit`/`SubmitRefused` are `s_submit`, `Take` is a
successful `waitOperation` followed by the take, `WaitExpires` is a local wait
that ran out, after which nobody takes the slot. The owner's pass is
`BeginPass`, `ExpireQueued` (repeated), `ExpireLease`, `UpgradeGate` with either
`DropLease` or `RenewalCheck`/`RenewalGate`/`RenewalSubmit`, then `StartNext`
and one of the four outcomes of handing the RPC to the runtime. `RpcCompletes`
is `s_complete`; `s_stopOnOwner` and `CancelInFlight` are the two halves of
`stop()` on the owner thread. `s_applicationDeadline` is the hint that wakes the
owner.

`OperationQueue` is what those who submit may rely on: requests wait, the oldest
is served and nobody beside it, a request that is put back keeps its place, each
ends once, and its outcome stays until it is taken. The mapping reads the table:
a queued slot stands for a waiting request, the active slot for the one in
service, a finished slot for an outcome; a renewal is a request nobody asks the
outcome of. `ImplementsQueue` says that the endpoint does only what this queue
may do, although it reuses slots, renews the lease through the same table and is
stopped at any moment.

Abstractions:
* A request is its kind: `acquire`, `release`, `query` (allowed during an
  upgrade) or `config` (everything else). Payloads are left out.
* "Failed" stands for `kLinkFailed`, `kDomainError` and a `kCompleted` whose
  response was malformed; all three leave the lease in `kFailed`.
* The RPC runtime, link and device are external: an admitted RPC ends with any
  outcome, a time-out not before its deadline. The device may grant any token of
  `Tokens` and any lease time of `Grants`.
* An operation with no time left when its turn comes ends like a refused one;
  `AdmitFailed` covers both. It joins the code's requeue and the `s_finalize` that
  follows it without giving up the pass; callers between the two could only see the
  operation as queued.
* Locals are reset when they are dead, so that equal states are equal.
* Upgrades switch on and off at any moment (`UpgradeSwitch`), which is more than
  `FciUpgradeClient` can do; that module has the client itself.
* Request ids are 64 bits in the code and are not reused: `Nat` here, bounded by
  `MaxRequests` in the guards. The clock is bounded by `MaxTime`.

### MPCSession

Two worker threads and any number of API callers share one atomic stop reason,
the time stamp of the last target, two counting semaphores and latest-value
mailboxes. Callers go `idle -> stamp -> start -> wake` through `write()` and
`idle -> release -> join` through `stop()`; a caller that loses the
compare-exchange goes straight to `join`. The planner goes
`start -> read -> solve -> wait`, the output worker
`timer -> start -> begin -> target -> measure -> plan -> command -> send ->
finish -> wait`, one step for each reading of the clock or of shared state; a fault is
`release`, then `exit` (the scope guard that publishes the last status), `done`.

Abstractions:
* A plan is its generation and the reception time of the feedback behind it;
  targets are their time stamps. Poses, knots, splines and joint limits are left
  out: the tests of them (validity of feedback, acceptance of a plan, tracking
  error, an exception of `m_send`) may go either way.
* `TimerResolution` (label `timer`) fails on Windows only; the model lets it fail
  anywhere, before the worker waits for its first token.
* Three stop reasons: `None`, `Stopped` (`kStopped`, `kMotionFinished`) and
  `Fault` (all others), the distinction `status()` makes.
* A mailbox read yields the last publication; that `Wirelink`'s triple buffer
  provides this is external. Mailbox errors (`kInternalError`) are left out.
* The two `release()` calls of one caller are one step: each worker sees only its
  own semaphore.
* Feedback is received at any time that makes a difference to its age test.
* `joined` (some `stop()` has returned) and `sentNow` (a command was sent at this
  reading of the clock) are history variables.

### FciUpgradeClient

Every method and every owner callback is one critical section of `m_mutex` and
one action: `StartUpload`, `Cancel`, `bootStatus`, `RebootCall`, the two halves of
`Verification`; `BeginPass` samples the clock and `s_progress` is the pass under
the lock, so a call made in between is younger than the pass (`s_elapsed`);
`BulkStatus` is `s_status`; `Departure` is `disconnected(true)`, from
`transportState` or `on_peer_session`; `Close` is `on_close`, and `Lifecycle` the
endpoint's `start` and `stop` around it. `BootReturns` and `RebootReturns` are the
ends of the two waits, with the result or by time-out, in which case the request
stays with the owner. The two call mutexes are `try_to_lock`, so at most one
caller is inside each of the two methods and a second one changes nothing.

Abstractions:
* An RPC is its outcome and the call it was sent for. "rejected" is a non-zero
  application status, "bad" anything that cannot be inspected or decoded.
* The bulk sender, the runtime and the device are external. A sender moves from
  running to completed or failed, from aborting to aborted, completed or failed.
  What it sends (lines 357-389 of the pass) is its own business; that it asks for
  an unknown phase is left out.
* The device may have acted on a request whose answer is lost: a Start that ends
  as timed out or undecodable may or may not have reserved a transfer.
* Image, boot status contents and peer session id are left out.
* One time-out serves all calls. The start of what is over is forgotten.
* `transfer` and `restart` are history variables: what the device holds and got
  of the current upload, how often the current reboot was sent, whether it was
  accepted and the peer was then lost.

### FirmwareUpdateSession

`deviceInfo()` goes `begin -> submit -> wait -> check`, one step for each call
into the endpoint or reading of `peerSession()`; `query` is the one call that
holds `m_call_mutex`, made by `rebootAndWait` or by somebody else, and a second
caller is refused at once. The recursion for an unknown peer is a return to
`begin`. `rebootAndWait()` goes `before -> reboot -> rebooting -> poll -> info ->
boot -> booting -> judge`. The device restarts at any time, up to `MaxBoots`
starts, each with an arbitrary image of `Images` and with a boot that is final or
not yet; answers are given by the start that runs when the request reaches it,
arrive later, or never.

Abstractions:
* A Wirelink session is the number of the start that opened it. The code compares
  sessions for equality only.
* What a device says of itself is one record: identity (serial number, board
  name, firmware type), version, protocol compatibility. A final boot is the
  conjunction of lines 149-152.
* The link keeps its order: nothing of a start arrives after something of a later
  one.
* Every wait may end by its timeout; durations are left out, except that the boot
  timeout of the whole call passes at some time (`late`).
* The operations and the upgrade client are the promises of `FciEndpoint` and
  `FciUpgradeClient`: an operation ends in its own slot, a reboot is sent at most
  once, a boot query gets its own answer. Other users of the endpoint may fill
  its table, so a submission may always be refused.
* The starts that gave an answer (`from`, `before`) are history: no guard reads
  them, except through the image they name.

### ArmImpl

One lifecycle call at a time holds `m_session_mutex`. All of them begin with
`s_stopControlLocked`, a step per atomic operation (`RaiseStopFlag`,
`ClearRunning`, `StopWakes`, `StopReleases`, `Invalidate`, `InvalidateReturns`,
`MpcStopped`), and which one it is matters only then (`Proceed`): `stop`, a mode
operation, `home` or error recovery, or the start of a session, which asks for PC
mode, ensures the motor mode, lowers the flag and issues the handle. The arm loop
goes `head -> wait -> woken -> cleared -> callback -> send -> sending`, then
`head` or `cleanup`; the gripper loop has its own start and end and no test
between callback and command. The owner thread is in `s_onArmStatus`.

The module extends `SessionBarrier`, not `ControlGeneration`: `invalidate()` is
`EndGeneration` and `Drained`, a submission lasts from `BeginSubmit` to
`EndSubmit`. That the code's atomics implement this is `ImplementsBarrier`. In
the same way `MpcStopped` waits for the output of the MPC session to be gone
because `MPCSession` has `StopIsFinal`.

Abstractions:
* Commands are `joint` (any command through the gate, motor mode MIT here) and
  `pose` (MPC, motor mode PVT); two motor modes are what a wrong cache needs.
* `fresh` is: the latest state is newer than `m_consumed_state_generation`.
* An RPC is refused, done, or carried out with its answer lost. One that the
  device carries out after its caller gave up precedes the next one, because the
  endpoint's queue is serialized and ordered (`ImplementsQueue`).
* `m_control_mutex`, diagnostics, latency and the capability checks are left out;
  a refused check leaves no trace. A gripper handle has no state to model.
* `doubt` (of each of the two modes: the device restarted, or an answer was lost,
  since the last answered request for it) and `dismissed` (a consumer that was
  told to stop left the state unread) are history variables. `Restart` is bounded
  by `doubt`: not again before one of the modes has been asked for.

What the model shows of the code beside the properties: a gripper loop that fails
in its mode RPC or its callback leaves `m_running` set; a gripper loop survives
`stop()` if a new session begins before it has looked at the flags; the end
of a gripper loop ends an arm loop silently; and `m_current_mode` is told neither
of a restart of the device nor of a request that was carried out with its answer
lost, so that a session of the cached mode is then started without asking for it.
`SessionFitsDevice` leaves out exactly that: the motor mode, until it is next
asked for and answered. PC mode is asked for by every session and is right again
from the next one on.

## 3. Runs

| Run | Instance | Shows |
|---|---|---|
| `control_generation` | 3 senders, 2 invalidations, fair | no command of an ended session goes out after `invalidate()` returned; `invalidate()` returns; refines `SessionBarrier` |
| `receive_gate` | 3 receivers, 2 updaters, count saturating at 2, 3 updates, fair | pair consistency, quiescence, updates return |
| `endpoint_queue` | 2 callers, 4 requests, 2 public and 1 reserved slot | refines `OperationQueue`: serialized and in order; completions own their slot, results final, no early time-out |
| `endpoint_lease` | 1 caller, 3 requests, 1 public and 1 reserved slot, renewals, upgrades, fair | renewals find a slot; a lease that answers busy has its request in the table; deadlines are enforced with no wake-up but the hint; `stop()` completes and settles everything; an upgrade that goes on ends control |
| `mpc_stop` | 2 callers, 2 writes, time 3, fair | at most two tokens, no worker without a target, `stop()` is final and returns |
| `mpc_deadlines` | 1 caller, 1 write, time 5, fair | bounded age of what a command rests on; no catch-up bursts; a session whose target or plan is not renewed stops |
| `upgrade_client` | any 2 uploads, boot queries and reboots, 2 starts, time 2, fair | reported results are true of the device; a query gets its own answer; everything is settled by its deadline |
| `firmware_install` | any calls, 2 slots, 3 starts, 4 images, fair | an answer is of the session it is tagged with; one outstanding query; a verdict rests on one later start of the same device; `rebootAndWait` returns |
| `arm_sessions` | 1 arm loop, 1 handle, MPC output, gripper loop, 2 lifecycle calls, restarts, fair | one wake-up token; no unread state without one; no command while modes change; commands in their mode only; loops of ended sessions return |
| `ready_without_lease`, `release_revived` | 1 caller, lease operations | disagreements, section 5 |
| `upload_during_session` | 1 handle, gripper loop | disagreement, section 5 |

Why the bounds are enough. The atomics races need one thread per position
(before the second check, inside, leaving) and a second round to meet leftovers
of the first. The endpoint's interesting cases need a request waiting behind an
active one, one abandoned by its caller, a full public table with a renewal due,
and a lease that is granted, renewed and expires: two slots for callers, three to
four request ids, lease times of 2 ticks and time-outs of 1 reach all of them,
and the mutants of `PROJECT.json` show each property to be violated in these
instances by a plausible slip in the code. The wrap of the clock is proved
(section 4) and not left to an instance. The MPC instances have
periods of 1 and 2 ticks and the shortest time-outs `validateConfig` accepts with
them; in `mpc_deadlines` the clock runs long enough for a plan to be executed,
replaced and expire, and for the target to run out. Two callers are needed only
for the races of `stop()` with `stop()` and with `write()`. `upgrade_client` makes
two calls of any kinds: what one call leaves behind meets at most one other, and
two starts carry leftovers across a stop. `firmware_install` needs the start that
is asked to reboot, one that answers the identity query and one that answers the
boot query; its images differ from the old one in version only, in identity, and
in having none. `arm_sessions` needs a session, the call that ends it and one
more while the first loop has not looked yet: generations up to 3. One loop and
one handle are the two ways through the gate; the races among handles are those
of `control_generation`. Its motors start in MIT mode and the arm in drag mode, so
that a mode that was not asked for is noticed.

Deadlock is not checked: callers may stop calling, the bounds end request ids
and time, and a stopped endpoint has nothing left to do.

### Fairness

`ControlGeneration` and `ReceiveCallbackGate`: weak fairness of a thread inside a
call; no fairness for making a call, and none for spurious wake-ups.
`FciEndpoint`: time passes (`Tick`); the owner finishes a pass it has begun
(`PassStep`) and begins one when its own hint is due, which is the executor's
contract: wake-ups by traffic are possible but never relied on; the runtime ends
every RPC (`RpcCompletes`, strong because passes interrupt it) since it owns a
timer for each; a pending stop is served between passes (`s_stopOnOwner`, strong
for the same reason) and closing the runtime cancels what is in flight. Callers
owe nothing. `UpgradeEndsControl` is stated for leases that run out within the
bound on the clock, since time stops there. `MPCSession`: time passes, both
workers run (the solver and `m_send` return, timed waits end), and a caller goes
on with a `write()` or `stop()` it has begun; nobody has to call. The two
watchdogs are stated, like `UpgradeEndsControl`, for time-outs within the bound.
`FciUpgradeClient`: time passes and the owner of a running endpoint makes its
passes, for which the service asks by a hint of 10 ms as long as anything is
pending; device, transport and callers owe nothing. `UpgradeSettles` is stated for
deadlines within the bound; a stop of the endpoint settles everything as well.
`FirmwareUpdateSession`: the calls go on, since each of their waits has a
timeout, and the boot timeout passes; device, link and owner thread owe nothing,
so `InstallReturns` holds for a device that never returns. `ArmImpl`: a thread
inside a lifecycle call, a loop or `s_onArmStatus` goes on, RPCs, callbacks and
submissions return; no call, status or MPC command has to come. `GripperEndsToo`
says what `s_gripperLoop` relies on, since its wait has no time limit: either no
arm loop takes its token, or statuses keep coming.

## 4. Proofs

`ControlGeneration_proofs` holds for every finite set of senders and every bound
on generations. The properties are not inductive: the invariant adds that
`m_inflight` is the cardinality of the set of threads between increment and
decrement, that a submitting thread of an old generation implies `invalidate()`
has not seen zero, and that a blocked caller has either a thread inside or one on
its way to the notification. From it follow `GateTypeCorrect`, `GateExpires`,
`GateWakes`, and `GateImplementsBarrier`: each step is a step of
`SessionBarrier` or a stutter.

`FciEndpoint_proofs` holds for every number of slots, callers, tokens, time-outs
and clock modulus permitted by the `ASSUME`s. The invariant `IInv` adds to the
type and to `SerializedQueue`:
* `UniqueIds`: used slots have different ids, all below `nextId`; without it a
  new request could be confused with an old one and "oldest" would be ambiguous;
* `InFlight`: an RPC in flight belongs to the active slot and no RPC is in
  flight while one is being admitted; without it a completion could reach a slot
  that was reused;
* `Lifecycle`: how `running`, `stopping` and the owner's label go together, and
  that nothing is queued once the endpoint stopped.

Lemmas describe what `s_allocateSlot`, `s_findQueuedSlot`, `Enqueue` and
`Finalize` return and preserve; there is one proof step per action. From `IInv`
follow `EndpointTypeCorrect`, `EndpointSerialized`, `EndpointOwnsSlot` and
`EndpointSettles`.

The other theorems of the module do not go through the actions again. `TableSteps`
says once, for every step of the specification, that it leaves the table alone or
is one of six things: a request enters a free slot (`Enters`), an outcome is taken
(`Taken`), the oldest request is started (`Started`), put back (`PutBack`) or ended
(`Ends`), or all that wait are ended (`s_stopOnOwner`); a lemma for each of them
says what it does to its slot and that the other slots keep what they hold. On
these rest
* `EndpointResultsStable`: an outcome is touched by nothing but its taking;
* `EndpointRenewalFindsSlot`, with the invariant `Reserved`: the slots past the
  public ones hold renewals only, and a renewal is gone once it has ended. It
  needs no bound on abandoned operations, only `PublicCapacity < Capacity`;
* `EndpointBusyLease`: `BusyLeaseHasRequest` is inductive as it stands. It rules
  out a lease that answers `kBusy` for good: the request that will change its
  state is in the table, and `DeadlineEnforced` ends that request;
* `EndpointImplementsQueue`, with `PositiveIds` (an id is never taken for "nobody
  in service"): every step maps to a step of `OperationQueue` or to a stutter
  (`QueueSteps`). `UniqueIds` is what makes the mapping from slots to requests
  one-to-one (`OneSlot`), so that removing one request removes one slot's;
* `EndpointNoEarlyTimeout`, with `PastTimes` (readings of the clock lie in the
  past, the deadline given to the runtime is not before the operation's own). It
  is proved under `[]PromptPasses`: no pass of the owner lasts longer than half a
  turn of the clock. That is an assumption on the scheduler, not on the program: a
  pass is a few critical sections, half a turn of the 32-bit millisecond clock is
  24 days, and an owner suspended for longer does read a long-waiting request
  wrongly. All instances of TLC satisfy it;
* `EndpointWakesInTime`: `s_applicationDeadline` is a lower bound of the deadlines
  of all waiting operations, of the renewal of a held lease and of the expiry of
  one being renewed, if these lie within half a turn. This is the part of
  `DeadlineEnforced` that is not about fairness: the owner does not sleep past a
  deadline.

`MPCSession_proofs` holds for every set of callers and every configuration
`validateConfig` accepts. Its invariant has these parts besides the type:
* `Stopping`, `Final`: which labels imply that a reason is set, and what a joined
  session looks like;
* `OneReleases`, `OneWrites`: at most one thread is between winning the
  compare-exchange and releasing, at most one between the locks of `write()`;
* `Tokens`: the tokens in each semaphore and those already consumed never exceed
  one for the first target and one for the first stop, which is what keeps the
  semaphores within two;
* `Targets`: a worker past its wake-up without a stop has a first target;
* `Times`: each time stamp a worker holds is bounded by the clock and by the
  limits it was tested against, which the last test before sending turns into the
  ages of `CommandsAreFresh`;
* `Spacing`: a worker about to send has not sent at this reading of the clock,
  because `Advance` (lemma `AdvanceLater`) goes beyond the time it was given.

Theorems: `SessionTypeCorrect`, `SessionStops`, `SessionWaitsForTarget`,
`SessionIsFresh`, `SessionSkips`.

`FciUpgradeClient_proofs` holds for every time-out, clock modulus and number of
calls and starts. `IInv` is `Uploads /\ Reboots /\ Boots /\ Others`; each part
concerns its own variables, so an action that leaves them alone keeps the part
(`UploadsStay`, `RebootsStay`, `BootsStay`) and the rest is one lemma for each
operation of a part. What the properties need besides the type:
* `UploadInv`: a Start belongs to the current upload, a queued upload has nothing
  reserved, a transfer is aborted only because of a cancellation or with an error
  on record, and what the sender reports is what the device confirmed;
* `RebootInv`: a pending reboot that has neither an RPC nor an acceptance was
  never sent, and it is accepted exactly when its own answer was collected;
* `BootInv`: the RPC of a boot query is that of the last call.

Theorems: `TypeCorrect`, `UploadsEndTruly`, `RebootsEndTruly`,
`BootsAnswerOwnCall`.

`WireTime_proofs` holds for every even modulus. The difference of two wire times,
read as signed, is the true difference whenever that lies within half a turn
(`DifferenceIsTrue`, from the uniqueness of remainders); from it follow
`RemainingIsTrue` and `UntilIsTrue`, for a sample taken before or after the time
it is compared with, and on either side of a wrap. `NoTimeLost` is the form the
endpoint needs: what is left at a reading of the clock, counted from any later
moment, reaches the deadline.

`ReceiveCallbackGate_proofs` is for any finite set of receivers, any width of the
count and any number of updates. `IInv` adds to the type that the count is the
cardinality of the set of receivers inside (`Counted`), what the updater's place
says of the gate (`Updating`: a count it has read as zero stays zero, because the
gate is closed), that an open gate has a whole registration (`Registered`), and
that whoever runs the callback runs the current one (`RunsCurrent`). From it
follow `RunsRegisteredPair`, `Quiescent` and the absence of lost wake-ups.

`FirmwareUpdateSession_proofs` is for any images, table of operations and number
of restarts. `IInv` orders the starts along the link (`Links`: what has arrived
is of a start no later than the one that is running), says whose answer an
operation holds and which operation a query waits for (`Operations`, `Queries`),
and what `rebootAndWait` has learnt at each of its places (`Installs`, `Boots`).
The point of `InstallIsTrue` is that two readings of `peerSession()` around the
identity query and the boot query leave no room for another start in between.

`ArmImpl_proofs` is for any loops, handles, modes and number of lifecycle calls.
`IInv` says of the token who holds it (`Tokens`; with it `StateWakesLoop` is
inductive), of the generations that a submission is one of the thread's own
session and that past the barrier every session is an old one (`Generations`),
and of the modes that the cache is right unless in doubt and that whatever can
submit, or still does, has its modes (`Modes`). `Generations` is where the
promise of `SessionBarrier` enters: a submission that began before `invalidate()`
belongs to an ended generation, so that `Drained` leaves none.
`UploadsNeedStop` is the positive side of the disagreement
`upload_during_session`: if the gripper loop is never started, uploads are
admitted only when no handle is valid. Its invariant `RunningTells` says that at
most one session is current and that `m_running` tells of it until a stop has
begun to end it. The hypothesis is one the program can meet, and the run shows
that it cannot be dropped.

Only model-checked: the liveness properties (`InvalidateReturns`, `UpdateReturns`,
`DeadlineEnforced`, `StopCompletes`, `UpgradeEndsControl`, `StopReturns`,
`TargetWatchdog`, `PlanWatchdog`, `UpgradeSettles`, `InstallReturns`,
`ExpiredLoopsEnd`, `GripperEndsToo`), since the prover has no fairness. Every
invariant, action property and refinement of the passing runs is proved. That
nobody sleeps without a wake-up on its way (`GateWakes`, `ReceiveGateWakes`), and
that the owner's hint is early enough (`EndpointWakesInTime`), is proved.

## 5. Disagreements

* `ready_without_lease`: when a renewal is refused by the transport until the
  lease expires, the next pass clears the token and then restarts the renewal,
  which puts the lease back into `kRenewing`. `connectionState()` reports
  `kReady` for that state without looking at the token, so `waitUntilReady()`
  returns true although every command is refused; `Arm.hpp:140` promises that the
  lease is reacquired.
* `release_revived`: `s_scheduleRenewal` unlocks between its test and its
  submission. A release that is queued in between completes first, and the
  renewal behind it takes the lease again, before the caller of the release has
  even taken its result (so that it cannot have asked for the lease anew).
* `upload_during_session`: `s_gripperLoop` clears `m_running` when it ends, also
  while a handle of an arm session is open and sending. The updater asks only
  `firmwareUploadAllowed()`, which is `!m_running`, and admits an upload or a
  reboot; `docs/device-upgrade-routing.md:110` says that the shared view of an
  Arm requires control to be stopped first. Without a gripper loop the code keeps
  that promise (`UploadsNeedStop`).

## 6. Not modelled, and the plan

Left out for good:
* Solver, kinematic traits and vendored code: numerics, generated or third-party.
  They and the generated Wirelink codec and runtime are about 96% of the lines of
  the repository; the SDK's own code is about 8400 lines, of which the map covers
  some 2400.
* The Wirelink and Astrial libraries: external (empty submodules), they appear
  through what the code relies on. The command lanes are a validation, a read of
  the lease token and a call into Wirelink's outbox.
* Device and USB discovery, `FirmwareUpdater::connect`, the constructor of
  `ArmImpl`: one call after the other on one thread, no state in between; what
  could be wrong there is a comparison, which the unit tests enumerate.
* `LatencyEstimator`: floating-point statistics nothing else depends on.
* Facade, bindings, examples, tools: no state.

Left for later:
1. `FciUpgradeClient` composed with the endpoint: its `active` in place of
   `UpgradeSwitch`, which allows more.
2. The lease calls of `home()` and `waitUntilReady()` against the renewal.
