-------------------------- MODULE MCManagedProcess --------------------------
(* Two requests, one process or two, and the calls that each run is about.   *)
EXTENDS ManagedProcess, TLC

CONSTANTS r1, r2, p1, p2

MCRequests == {r1, r2}
TwoProcesses == {p1, p2}
Changes == (r1 :> {"start", "cancel"}) @@ (r2 :> {"get", "cancel", "destroy"})
Starts == [r \in MCRequests |-> {"start"}]
StartsAndGets == [r \in MCRequests |-> {"start", "get"}]
Reads == (r1 :> {"start", "get", "list"}) @@ (r2 :> {"start", "get"})
Cancels == (r1 :> {"start"}) @@ (r2 :> {"cancel"})

SymmetricRequests == Permutations(MCRequests)
=============================================================================
