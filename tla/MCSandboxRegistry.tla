------------------------- MODULE MCSandboxRegistry -------------------------
(* Two requests, one name, two sandboxes and a snapshot; create is new without *)
(* the start of a process.                                                     *)
EXTENDS SandboxRegistry, TLC

CONSTANTS r1, r2, n1

MCRequests == {r1, r2}

\* One request may do anything, the other what gets in its way.
AnyCalls == (r1 :> Ops \ {"none", "create"}) @@ (r2 :> {"auto", "find", "destroy"})

\* Fewer calls where any of them may fail.
FailingCalls == (r1 :> {"auto", "snapshot"}) @@ (r2 :> {"resolve", "destroy"})
=============================================================================
