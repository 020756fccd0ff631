---------------------------- MODULE RolloutPromise ----------------------------
(***************************************************************************)
(* What a rollout promises to the traffic layer, whatever happens to        *)
(* goroutines, streams and processes: replicas pass their health check one  *)
(* by one and a pass is never taken back; EnsureTrafficForDeployment is     *)
(* started only when all have passed.                                       *)
(***************************************************************************)
CONSTANT Servers

VARIABLES
    passed,     \* replicas whose health check has passed
    promoted    \* EnsureTrafficForDeployment has been started

Init == passed = {} /\ promoted = FALSE

Pass(s) ==
    /\ passed' = passed \cup {s}
    /\ UNCHANGED promoted

Promote ==
    /\ passed = Servers
    /\ promoted' = TRUE
    /\ UNCHANGED passed

Next == Promote \/ \E s \in Servers : Pass(s)

Spec == Init /\ [][Next]_<<passed, promoted>>
=============================================================================
