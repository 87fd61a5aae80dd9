--------------------------- MODULE TaskLifecycle ---------------------------
(***************************************************************************)
(* The promise of the queue to its users: a task is accepted at most once, *)
(* its handler starts at most MaxAttempts times, it gets one terminal      *)
(* outcome that never changes, and it is completed only by a handler.      *)
(* Delivery is at least once, so a handler may still start for a task that *)
(* another worker or the administrator has just closed.                    *)
(***************************************************************************)
EXTENDS Naturals

CONSTANTS Task, MaxAttempts
VARIABLES status, starts

Accept(t) ==
    /\ status[t] = "absent"
    /\ status' = [status EXCEPT ![t] = "live"]
    /\ UNCHANGED starts

StartHandler(t) ==
    /\ status[t] # "absent"
    /\ starts[t] < MaxAttempts
    /\ starts' = [starts EXCEPT ![t] = @ + 1]
    /\ UNCHANGED status

Close(t, outcome) ==
    /\ status[t] = "live"
    /\ outcome = "completed" => starts[t] > 0
    /\ status' = [status EXCEPT ![t] = outcome]
    /\ UNCHANGED starts

Init ==
    /\ status = [t \in Task |-> "absent"]
    /\ starts = [t \in Task |-> 0]

Next ==
    \E t \in Task :
        \/ Accept(t)
        \/ StartHandler(t)
        \/ \E outcome \in {"completed", "failed", "skipped", "cancelled"} :
               Close(t, outcome)

Spec == Init /\ [][Next]_<<status, starts>>
=============================================================================
