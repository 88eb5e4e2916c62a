------------------------- MODULE ReceiveCallbackGate -------------------------
(***************************************************************************)
(* include/florid/detail/ReceiveCallbackGate.hpp: the receive callback is  *)
(* published to transport threads without a mutex on the receive path.     *)
(* m_state is one 32-bit word: the closed bit and the number of threads    *)
(* inside the callback; both parts change in the same atomic operation.    *)
(***************************************************************************)
EXTENDS Naturals, FiniteSets

CONSTANTS Receivers,      \* transport threads that call invoke()
          Updaters,       \* threads that call set() or clear()
          CountMask,      \* s_kCountMask: the largest number of entered threads
          MaxRegistrations \* bound on the calls of set()

ASSUME ThreadsAssumption == IsFiniteSet(Receivers) /\ Receivers \cap Updaters = {}
ASSUME CountMaskAssumption == CountMask \in Nat \ {0}
ASSUME RegistrationsAssumption == MaxRegistrations \in Nat

VARIABLES closed, entered,   \* the two parts of m_state
          callback, context, \* m_callback and m_context: 0 is nullptr, n the
                             \* pair given to the n-th call of set()
          rpc,               \* where each receiver is inside invoke()
          running,           \* the <<callback, context>> it is executing
          owner,             \* the updater that holds m_update_mutex
          upc,               \* where that updater is inside set()
          given,             \* the registration it was given: n, or 0 to clear
          seen,              \* the count it loaded last
          calls              \* calls of set() so far

vars == <<closed, entered, callback, context, rpc, running,
          owner, upc, given, seen, calls>>

receiverVars == <<rpc, running>>
updaterVars == <<owner, upc, given, seen, calls>>

ReceiverLabels == {"idle", "entered", "running", "leaving", "notify"}
UpdaterLabels == {"free", "close", "test", "wait", "blocked", "load",
                  "storeCallback", "storeContext", "open", "unlock"}
NoOwner == "none"

\* Threads counted in m_state.
Inside == {r \in Receivers : rpc[r] \in {"entered", "running", "leaving"}}

Init ==
    /\ closed = TRUE /\ entered = 0
    /\ callback = 0 /\ context = 0
    /\ rpc = [r \in Receivers |-> "idle"]
    /\ running = [r \in Receivers |-> <<0, 0>>]
    /\ owner = NoOwner /\ upc = "free"
    /\ given = 0 /\ seen = 0 /\ calls = 0

-----------------------------------------------------------------------------
(* invoke(), lines 38-48 and 54-76.                                        *)

\* A bug: no test for saturation, so the count carries into the closed bit.
TryEnterUnbounded(r) ==
    /\ rpc[r] = "idle"
    /\ ~closed
    /\ entered' = entered + 1
    /\ rpc' = [rpc EXCEPT ![r] = "entered"]
    /\ UNCHANGED <<closed, callback, context, running, updaterVars>>

\* s_tryEnter: the exchange succeeds only on the value that passed the test,
\* so test and increment are one step; a failed exchange changes nothing.
TryEnter(r) ==
    /\ rpc[r] = "idle"
    /\ ~closed /\ entered # CountMask
    /\ entered' = entered + 1
    /\ rpc' = [rpc EXCEPT ![r] = "entered"]
    /\ UNCHANGED <<closed, callback, context, running, updaterVars>>

\* invoke() returns false and the frame is dropped.
Refused(r) ==
    /\ rpc[r] = "idle"
    /\ closed \/ entered = CountMask
    /\ UNCHANGED vars

\* The plain reads of m_callback and m_context, then the call.
CallCallback(r) ==
    /\ rpc[r] = "entered"
    /\ running' = [running EXCEPT ![r] = <<callback, context>>]
    /\ rpc' = [rpc EXCEPT ![r] = "running"]
    /\ UNCHANGED <<closed, entered, callback, context, updaterVars>>

CallbackReturns(r) ==
    /\ rpc[r] = "running"
    /\ rpc' = [rpc EXCEPT ![r] = "leaving"]
    /\ UNCHANGED <<closed, entered, callback, context, running, updaterVars>>

\* A bug: testing the value after the fetch_sub instead of the one before.
LeaveOffByOne(r) ==
    /\ rpc[r] = "leaving"
    /\ entered' = entered - 1
    /\ rpc' = [rpc EXCEPT ![r] = IF closed /\ entered = 0 THEN "notify" ELSE "idle"]
    /\ UNCHANGED <<closed, callback, context, running, updaterVars>>

\* s_leave: the last thread out of a closed gate owes the updater a wake-up.
Leave(r) ==
    /\ rpc[r] = "leaving"
    /\ entered' = entered - 1
    /\ rpc' = [rpc EXCEPT ![r] = IF closed /\ entered = 1 THEN "notify" ELSE "idle"]
    /\ UNCHANGED <<closed, callback, context, running, updaterVars>>

Notify(r) ==
    /\ rpc[r] = "notify"
    /\ rpc' = [rpc EXCEPT ![r] = "idle"]
    /\ upc' = IF upc = "blocked" THEN "wait" ELSE upc
    /\ UNCHANGED <<closed, entered, callback, context, running, owner, given, seen, calls>>

ReceiverStep(r) == CallCallback(r) \/ CallbackReturns(r) \/ Leave(r) \/ Notify(r)

-----------------------------------------------------------------------------
(* set() and clear(), lines 25-36 and 78-85.                               *)

\* Takes m_update_mutex; g = 0 is set(nullptr, ...) and clear().
LockUpdate(u, g) ==
    /\ owner = NoOwner
    /\ calls < MaxRegistrations
    /\ calls' = calls + 1
    /\ owner' = u
    /\ given' = g
    /\ upc' = "close"
    /\ UNCHANGED <<closed, entered, callback, context, receiverVars, seen>>

\* A bug: counting the entered threads without closing the gate first.
CloseForgotten ==
    /\ upc = "close"
    /\ seen' = entered
    /\ upc' = "test"
    /\ UNCHANGED <<closed, entered, callback, context, receiverVars, owner, given, calls>>

\* fetch_or: closes the gate and loads the count in one operation.
CloseGate ==
    /\ upc = "close"
    /\ closed' = TRUE
    /\ seen' = entered
    /\ upc' = "test"
    /\ UNCHANGED <<entered, callback, context, receiverVars, owner, given, calls>>

TestCount ==
    /\ upc = "test"
    /\ upc' = IF seen = 0 THEN "storeCallback" ELSE "wait"
    /\ UNCHANGED <<closed, entered, callback, context, receiverVars, owner, given, seen, calls>>

\* A bug: waiting once instead of until the count is zero.
WaitOnce ==
    /\ upc = "wait"
    /\ upc' = IF entered = seen THEN "blocked" ELSE "storeCallback"
    /\ UNCHANGED <<closed, entered, callback, context, receiverVars, owner, given, seen, calls>>

\* m_state.wait(s_state): sleeps only while the word is the one loaded.
WaitForLeave ==
    /\ upc = "wait"
    /\ upc' = IF entered = seen THEN "blocked" ELSE "load"
    /\ UNCHANGED <<closed, entered, callback, context, receiverVars, owner, given, seen, calls>>

LoadCount ==
    /\ upc = "load"
    /\ seen' = entered
    /\ upc' = "test"
    /\ UNCHANGED <<closed, entered, callback, context, receiverVars, owner, given, calls>>

SpuriousWake ==
    /\ upc = "blocked"
    /\ upc' = "wait"
    /\ UNCHANGED <<closed, entered, callback, context, receiverVars, owner, given, seen, calls>>

StoreCallback ==
    /\ upc = "storeCallback"
    /\ callback' = given
    /\ upc' = "storeContext"
    /\ UNCHANGED <<closed, entered, context, receiverVars, owner, given, seen, calls>>

StoreContext ==
    /\ upc = "storeContext"
    /\ context' = given
    /\ upc' = IF given # 0 THEN "open" ELSE "unlock"
    /\ UNCHANGED <<closed, entered, callback, receiverVars, owner, given, seen, calls>>

\* m_state.store(0) writes both parts of the word.
OpenGate ==
    /\ upc = "open"
    /\ closed' = FALSE /\ entered' = 0
    /\ upc' = "unlock"
    /\ UNCHANGED <<callback, context, receiverVars, owner, given, seen, calls>>

UnlockUpdate ==
    /\ upc = "unlock"
    /\ owner' = NoOwner
    /\ upc' = "free"
    /\ UNCHANGED <<closed, entered, callback, context, receiverVars, given, seen, calls>>

UpdaterStep ==
    \/ CloseGate \/ TestCount \/ WaitForLeave \/ LoadCount
    \/ StoreCallback \/ StoreContext \/ OpenGate \/ UnlockUpdate

Next ==
    \/ \E r \in Receivers : TryEnter(r) \/ Refused(r) \/ ReceiverStep(r)
    \/ \E u \in Updaters : \E g \in {0, calls + 1} : LockUpdate(u, g)
    \/ UpdaterStep
    \/ SpuriousWake

Spec == Init /\ [][Next]_vars

\* A thread inside a call keeps running, and a callback returns; nobody has
\* to receive a frame or to replace the callback.
FairSpec ==
    /\ Spec
    /\ \A r \in Receivers : WF_vars(ReceiverStep(r))
    /\ WF_vars(UpdaterStep)

-----------------------------------------------------------------------------
TypeOK ==
    /\ closed \in BOOLEAN
    /\ entered \in 0..CountMask
    /\ callback \in 0..MaxRegistrations
    /\ context \in 0..MaxRegistrations
    /\ rpc \in [Receivers -> ReceiverLabels]
    /\ running \in [Receivers -> (0..MaxRegistrations) \X (0..MaxRegistrations)]
    /\ owner \in Updaters \cup {NoOwner}
    /\ upc \in UpdaterLabels
    /\ given \in 0..MaxRegistrations
    /\ seen \in 0..CountMask
    /\ calls \in 0..MaxRegistrations

(* Lines 13-15: while the callback is being replaced, and after clear() has *)
(* returned, no thread is inside it; so a running invocation always executes*)
(* the registered callback with the context registered with it, never a    *)
(* null, retired or half-replaced pair.                                    *)
RunsRegisteredPair ==
    \A r \in Receivers : rpc[r] = "running" =>
        /\ running[r] = <<callback, context>>
        /\ callback = context
        /\ callback # 0

(* Transport.hpp:31-33: set(nullptr) is a quiescence barrier.  From the    *)
(* moment the wait is over until the gate is opened again nobody is inside,*)
(* and the count never loses a thread.                                     *)
Quiescent ==
    /\ upc \in {"storeCallback", "storeContext", "open"} => Inside = {}
    /\ owner = NoOwner /\ callback = 0 => Inside = {}

(* Lines 69-75 and 82: the sleeping updater is owed a notify_all.          *)
NoLostWakeup ==
    upc = "blocked" =>
        closed /\ (entered # 0 \/ \E r \in Receivers : rpc[r] = "notify")

(* A set() or clear() that got the mutex returns, however fast frames      *)
(* arrive, because a closed gate admits nobody.                            *)
UpdateReturns == (upc = "close") ~> (upc = "free")

=============================================================================
