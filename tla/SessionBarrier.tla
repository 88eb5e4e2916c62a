--------------------------- MODULE SessionBarrier ---------------------------
(***************************************************************************)
(* What ControlGeneration promises to the arm session (ArmImpl): a control *)
(* handle is usable only while the generation it was issued for is the     *)
(* current one, and a lifecycle caller that ends a generation gets control *)
(* back only when no command of an ended generation is being submitted.    *)
(* No atomics, no counters: only the promise.                              *)
(***************************************************************************)
EXTENDS Naturals

CONSTANT Senders          \* threads that submit control commands

VARIABLES current,        \* the generation whose handles are usable
          submitting,     \* generation each thread is submitting for, or 0
          phase           \* "open", or "draining" inside invalidate()

barrierVars == <<current, submitting, phase>>

BarrierInit ==
    /\ current = 1
    /\ submitting = [t \in Senders |-> 0]
    /\ phase = "open"

\* Only a handle of the current generation gets as far as submitting.
BeginSubmit(t) ==
    /\ submitting[t] = 0
    /\ submitting' = [submitting EXCEPT ![t] = current]
    /\ UNCHANGED <<current, phase>>

EndSubmit(t) ==
    /\ submitting[t] # 0
    /\ submitting' = [submitting EXCEPT ![t] = 0]
    /\ UNCHANGED <<current, phase>>

EndGeneration ==
    /\ phase = "open"
    /\ current' = current + 1
    /\ phase' = "draining"
    /\ UNCHANGED submitting

\* The barrier: invalidate() may return only when every old submission left.
Drained ==
    /\ phase = "draining"
    /\ \A t \in Senders : submitting[t] \in {0, current}
    /\ phase' = "open"
    /\ UNCHANGED <<current, submitting>>

BarrierNext ==
    \/ \E t \in Senders : BeginSubmit(t) \/ EndSubmit(t)
    \/ EndGeneration
    \/ Drained

BarrierSpec == BarrierInit /\ [][BarrierNext]_barrierVars

=============================================================================
