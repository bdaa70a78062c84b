---------------------------- MODULE RouteQuery -----------------------------
(***************************************************************************)
(* The contract of find_route and find_route_without_turn_around: a call   *)
(* is answered once, with an answer its documentation allows.              *)
(***************************************************************************)
EXTENDS Routing

CONSTANT Calls

VARIABLES call, result

vars == <<call, result>>

Pending == [outcome |-> "pending"]
Ok(route) == [outcome |-> "ok", route |-> route]
InvalidReference(id) == [outcome |-> "invalid_reference", node |-> id]
StepLimitExceeded == [outcome |-> "step_limit_exceeded"]

Init == /\ call \in Calls
        /\ result = Pending

\* The destination is checked before the origin.
Reject ==
    /\ result = Pending
    /\ ~ ValidTo(call) \/ ~ ValidFrom(call)
    /\ result' = InvalidReference(IF ValidTo(call) THEN call.from_id ELSE call.to_id)
    /\ UNCHANGED call

Answerable == result = Pending /\ ValidTo(call) /\ ValidFrom(call)

\* A cheapest route.  Which of several cheapest ones is not promised.
Route ==
    /\ Answerable
    /\ result'.outcome = "ok"
    /\ result' = Ok(result'.route)
    /\ Reachable(call)
    /\ IsRoute(call, result'.route)
    /\ RouteCost(call.graph, result'.route) = CostToGo(call)[Initial(call.from_id)]
    /\ UNCHANGED call

\* An empty route says that there is none.
NoRoute ==
    /\ Answerable
    /\ result' = Ok(<< >>)
    /\ ~ Reachable(call)
    /\ UNCHANGED call

\* The search may give up, but not when the start is the destination.
GiveUp ==
    /\ Answerable
    /\ ~ AtDestination(call, Initial(call.from_id))
    /\ result' = StepLimitExceeded
    /\ UNCHANGED call

Next == Reject \/ Route \/ NoRoute \/ GiveUp

Safety == Init /\ [][Next]_vars

\* Every call returns.
Answered == <>(result # Pending)

Spec == Safety /\ Answered

=============================================================================
