--------------------------- MODULE OperationQueue ---------------------------
(***************************************************************************)
(* What FciWirelinkEndpoint promises to those who submit operations: they  *)
(* are served one at a time and in the order of their ids, each ends once, *)
(* waiting or in service, and its outcome stays until it is taken.  No     *)
(* slots, no lease, no clock: only the promise.                            *)
(***************************************************************************)
EXTENDS Naturals

VARIABLES nextRequest,    \* the id of the next request
          waiting,        \* requests that wait
          serving,        \* the request in service
          results,        \* outcomes nobody has taken yet
          accepting       \* the endpoint has not been stopped

queueVars == <<nextRequest, waiting, serving, results, accepting>>

Outcomes == {"Completed", "TimedOut", "Cancelled", "Failed"}
\* A request of the endpoint itself is not public: nobody asks for its outcome.
Nobody == [id |-> 0, public |-> FALSE]

Reported(ended, outcome) ==
    {[id |-> r.id, outcome |-> outcome] : r \in {q \in ended : q.public}}

QueueInit ==
    /\ nextRequest = 1 /\ waiting = {} /\ serving = Nobody
    /\ results = {} /\ accepting = TRUE

Accept(public) ==
    /\ accepting
    /\ waiting' = waiting \cup {[id |-> nextRequest, public |-> public]}
    /\ nextRequest' = nextRequest + 1
    /\ UNCHANGED <<serving, results, accepting>>

\* The oldest, when nobody else is served.
Serve ==
    /\ serving = Nobody
    /\ \E r \in waiting :
         /\ \A q \in waiting : r.id <= q.id
         /\ serving' = r /\ waiting' = waiting \ {r}
    /\ UNCHANGED <<nextRequest, results, accepting>>

\* The transport is busy: the request keeps its place.
PutBack ==
    /\ accepting /\ serving # Nobody
    /\ waiting' = waiting \cup {serving} /\ serving' = Nobody
    /\ UNCHANGED <<nextRequest, results, accepting>>

Finish(outcome) ==
    /\ serving # Nobody /\ serving' = Nobody
    /\ results' = results \cup Reported({serving}, outcome)
    /\ UNCHANGED <<nextRequest, waiting, accepting>>

\* A request runs out of time before it is served.
Expire(r) ==
    /\ waiting' = waiting \ {r}
    /\ results' = results \cup Reported({r}, "TimedOut")
    /\ UNCHANGED <<nextRequest, serving, accepting>>

TakeResult(result) ==
    /\ results' = results \ {result}
    /\ UNCHANGED <<nextRequest, waiting, serving, accepting>>

\* stop() ends all who wait, and nobody waits afterwards.
CloseQueue ==
    /\ accepting /\ accepting' = FALSE
    /\ waiting' = {} /\ results' = results \cup Reported(waiting, "Cancelled")
    /\ UNCHANGED <<nextRequest, serving>>

QueueNext ==
    \/ \E public \in BOOLEAN : Accept(public)
    \/ Serve \/ PutBack \/ CloseQueue
    \/ \E outcome \in Outcomes : Finish(outcome)
    \/ \E r \in waiting : Expire(r)
    \/ \E result \in results : TakeResult(result)

QueueSpec == QueueInit /\ [][QueueNext]_queueVars

=============================================================================
