--------------------------- MODULE NameDirectory ---------------------------
(***************************************************************************)
(* What the control plane promises of affinity names, whatever requests    *)
(* race: a name stands for one sandbox or for none, and a sandbox is given *)
(* to a name at most once in its life.  A late request may take a name     *)
(* away from a sandbox, but never brings an old binding back.              *)
(* SandboxRegistry (runtime.rs) is shown to implement this.                *)
(***************************************************************************)
CONSTANTS Names,      \* affinity names
          Sandboxes,  \* sandbox ids
          None        \* no sandbox

VARIABLES bound,      \* the sandbox each name stands for, or None
          spent       \* sandboxes that can no longer be given to a name

dvars == <<bound, spent>>

DirectoryInit ==
    /\ bound = [n \in Names |-> None]
    /\ spent = {}

Bind(n) ==
    \E s \in Sandboxes \ spent :
        /\ bound' = [bound EXCEPT ![n] = s]
        /\ spent' = spent \cup {s}

\* Whatever name stands for s stands for nothing.
Unbind(s) ==
    /\ bound' = [n \in Names |-> IF bound[n] = s THEN None ELSE bound[n]]
    /\ UNCHANGED spent

\* Sandboxes that never had a name, or whose creation was given up, get none.
Spend ==
    /\ \E S \in SUBSET Sandboxes : spent' = spent \cup S
    /\ UNCHANGED bound

DirectoryNext == (\E n \in Names : Bind(n)) \/ (\E s \in Sandboxes : Unbind(s)) \/ Spend

DirectorySpec == DirectoryInit /\ [][DirectoryNext]_dvars
=============================================================================
