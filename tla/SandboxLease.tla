---------------------------- MODULE SandboxLease ----------------------------
(***************************************************************************)
(* What a pool of sandboxes promises its clients, whatever it keeps inside:*)
(* a sandbox is known once it has been created, is lent to at most one     *)
(* client at a time, and comes back only from the client that holds it.    *)
(* WarmPool (pool.rs) is shown to implement this.                          *)
(***************************************************************************)
CONSTANTS Clients,    \* whoever checks sandboxes out
          Sandboxes,  \* sandbox ids
          None        \* no sandbox

VARIABLES known,      \* every sandbox created so far
          holder      \* the sandbox each client has checked out, or None

lvars == <<known, holder>>

Lent == {holder[c] : c \in Clients} \ {None}

LeaseInit ==
    /\ known = {}
    /\ holder = [c \in Clients |-> None]

\* The backend creates a sandbox nobody knew.
Grow ==
    /\ \E s \in Sandboxes \ known : known' = known \cup {s}
    /\ UNCHANGED holder

\* A client receives a sandbox that no client holds.
Lend(c) ==
    /\ holder[c] = None
    /\ \E s \in known \ Lent : holder' = [holder EXCEPT ![c] = s]
    /\ UNCHANGED known

\* A client gives up the sandbox it holds.
Return(c) ==
    /\ holder[c] # None
    /\ holder' = [holder EXCEPT ![c] = None]
    /\ UNCHANGED known

LeaseNext == Grow \/ \E c \in Clients : Lend(c) \/ Return(c)

LeaseSpec == LeaseInit /\ [][LeaseNext]_lvars
=============================================================================
