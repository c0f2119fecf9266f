------------------------------ MODULE WarmPool ------------------------------
(***************************************************************************)
(* WarmPoolManager (crates/hyperbox-server/src/pool.rs): a queue of idle   *)
(* sandboxes kept near a target size, and the set of those in use.  The two*)
(* collections have a tokio mutex each.  A task keeps nothing locked across*)
(* an await except where the code's temporaries do: checkout_or_restore and*)
(* stats hold `available` while they wait for `in_use`.                    *)
(*                                                                         *)
(* `available` is a set: its order tells no property apart.  pc[t] is the  *)
(* await a task stands at, carry[t] the id it has in a local variable.     *)
(***************************************************************************)
EXTENDS Naturals, FiniteSets

CONSTANTS Clients,     \* tasks that call checkout, checkout_or_restore, release, stats
          Fillers,     \* tasks that call fill: start_auto_refill and fill itself
          Sandboxes,   \* ids the backend can hand out (bounds what it creates)
          Target,      \* target_size
          None         \* no sandbox, no task

ASSUME PoolAssumption ==
    /\ Target \in Nat
    /\ IsFiniteSet(Sandboxes)
    /\ Clients \cap Fillers = {}
    /\ None \notin Sandboxes \cup Clients \cup Fillers

Tasks == Clients \cup Fillers

VARIABLES available,   \* ids in the queue
          inUse,       \* ids in the in_use set
          created,     \* ids the backend (or restore) has created
          availLock,   \* the task that holds the `available` mutex, or None
          useLock,     \* the task that holds the `in_use` mutex, or None
          pc,          \* where each task stands
          carry,       \* the id a task holds in a local variable
          lent,        \* the id each client has checked out
          stat         \* the last stats() result of each client

vars == <<available, inUse, created, availLock, useLock, pc, carry, lent, stat>>

PoolInit ==
    /\ available = {}
    /\ inUse = {}
    /\ created = {}
    /\ availLock = None
    /\ useLock = None
    /\ pc = [t \in Tasks |-> "idle"]
    /\ carry = [t \in Tasks |-> None]
    /\ lent = [c \in Clients |-> None]
    /\ stat = [c \in Clients |-> [available |-> 0, in_use |-> 0]]

At(t, from) == pc[t] = from
Goto(t, to) == pc' = [pc EXCEPT ![t] = to]

-----------------------------------------------------------------------------
(* fill: look at the length, and while it is short create one and push it. *)

StartFill(t) ==
    /\ t \in Fillers
    /\ At(t, "idle")
    /\ Goto(t, "fill")
    /\ UNCHANGED <<available, inUse, created, availLock, useLock, carry, lent, stat>>

\* The length check; the mutex is released again before the create.
FillCheck(t) ==
    /\ At(t, "fill")
    /\ availLock = None
    /\ IF Cardinality(available) >= Target
       THEN Goto(t, IF t \in Clients THEN "pop" ELSE "idle")
       ELSE Goto(t, "create")
    /\ UNCHANGED <<available, inUse, created, availLock, useLock, carry, lent, stat>>

\* backend.create, or the restore closure, hands out an id nobody has.
NewSandbox(t, next) ==
    \E s \in Sandboxes \ created :
        /\ created' = created \cup {s}
        /\ carry' = [carry EXCEPT ![t] = s]
        /\ Goto(t, next)
        /\ UNCHANGED <<available, inUse, availLock, useLock, lent, stat>>

FillCreate(t) == At(t, "create") /\ NewSandbox(t, "push")

\* backend.create or restore fails: `?` ends the call (start_auto_refill ignores it).
CreateFails(t) ==
    /\ pc[t] \in {"create", "restore"}
    /\ Goto(t, "idle")
    /\ UNCHANGED <<available, inUse, created, availLock, useLock, carry, lent, stat>>

FillPush(t) ==
    /\ At(t, "push")
    /\ availLock = None
    /\ available' = available \cup {carry[t]}
    /\ carry' = [carry EXCEPT ![t] = None]
    /\ Goto(t, "fill")
    /\ UNCHANGED <<inUse, created, availLock, useLock, lent, stat>>

-----------------------------------------------------------------------------
(* checkout: an emptiness check, a fill if it was empty, a pop, an insert. *)

StartCheckout(t) ==
    /\ t \in Clients
    /\ At(t, "idle")
    /\ lent[t] = None
    /\ availLock = None
    /\ Goto(t, IF available = {} THEN "fill" ELSE "pop")
    /\ UNCHANGED <<available, inUse, created, availLock, useLock, carry, lent, stat>>

\* Mutant: an empty pop is not noticed.
PopUnchecked(t) ==
    /\ At(t, "pop")
    /\ availLock = None
    /\ \/ \E s \in available :
             /\ available' = available \ {s}
             /\ carry' = [carry EXCEPT ![t] = s]
       \/ available = {} /\ UNCHANGED <<available, carry>>
    /\ Goto(t, "insert")
    /\ UNCHANGED <<inUse, created, availLock, useLock, lent, stat>>

\* Mutant: front() for pop_front().
PopPeeks(t) ==
    /\ At(t, "pop")
    /\ availLock = None
    /\ \/ \E s \in available :
             /\ carry' = [carry EXCEPT ![t] = s]
             /\ Goto(t, "insert")
       \/ available = {} /\ Goto(t, "panicked") /\ UNCHANGED carry
    /\ UNCHANGED <<available, inUse, created, availLock, useLock, lent, stat>>

\* pop_front().expect(...): the queue may have been emptied since it was looked at.
Pop(t) ==
    /\ At(t, "pop")
    /\ availLock = None
    /\ \/ \E s \in available :
             /\ available' = available \ {s}
             /\ carry' = [carry EXCEPT ![t] = s]
             /\ Goto(t, "insert")
       \/ /\ available = {}
          /\ Goto(t, "panicked")
          /\ UNCHANGED <<available, carry>>
    /\ UNCHANGED <<inUse, created, availLock, useLock, lent, stat>>

\* The panic ends the caller's task; a later call is a new one.
Unwind(t) ==
    /\ At(t, "panicked")
    /\ Goto(t, "idle")
    /\ UNCHANGED <<available, inUse, created, availLock, useLock, carry, lent, stat>>

\* in_use.insert and return; drops `available` where the caller still holds it.
Insert(t) ==
    /\ At(t, "insert")
    /\ useLock = None
    /\ inUse' = inUse \cup {carry[t]}
    /\ lent' = [lent EXCEPT ![t] = carry[t]]
    /\ carry' = [carry EXCEPT ![t] = None]
    /\ availLock' = IF availLock = t THEN None ELSE availLock
    /\ Goto(t, "idle")
    /\ UNCHANGED <<available, created, useLock, stat>>

-----------------------------------------------------------------------------
(* checkout_or_restore: the `if let` keeps `available` locked in its body. *)

\* Mutant: the queue is read, not popped.
TakePeeks(t) ==
    /\ t \in Clients
    /\ At(t, "idle")
    /\ lent[t] = None
    /\ availLock = None
    /\ \/ \E s \in available :
             /\ carry' = [carry EXCEPT ![t] = s]
             /\ availLock' = t
             /\ Goto(t, "insert")
       \/ /\ available = {}
          /\ Goto(t, "restore")
          /\ UNCHANGED <<carry, availLock>>
    /\ UNCHANGED <<available, inUse, created, useLock, lent, stat>>

TakeOrRestore(t) ==
    /\ t \in Clients
    /\ At(t, "idle")
    /\ lent[t] = None
    /\ availLock = None
    /\ \/ \E s \in available :
             /\ available' = available \ {s}
             /\ carry' = [carry EXCEPT ![t] = s]
             /\ availLock' = t
             /\ Goto(t, "insert")
       \/ /\ available = {}
          /\ Goto(t, "restore")
          /\ UNCHANGED <<available, carry, availLock>>
    /\ UNCHANGED <<inUse, created, useLock, lent, stat>>

Restore(t) == At(t, "restore") /\ NewSandbox(t, "insert")

-----------------------------------------------------------------------------
(* release: remove under `in_use`, drop that mutex, then push.             *)

\* The client gives its sandbox back; remove() tells whether it was in use.
ReleaseRemove(t) ==
    /\ t \in Clients
    /\ At(t, "idle")
    /\ lent[t] # None
    /\ useLock = None
    /\ IF lent[t] \in inUse
       THEN /\ inUse' = inUse \ {lent[t]}
            /\ carry' = [carry EXCEPT ![t] = lent[t]]
            /\ useLock' = t
            /\ Goto(t, "drop")
       ELSE UNCHANGED <<inUse, carry, useLock, pc>>
    /\ lent' = [lent EXCEPT ![t] = None]
    /\ UNCHANGED <<available, created, availLock, stat>>

\* Mutant: no drop(in_use), so the guard lives to the end of release().
ReleaseKeeps(t) ==
    /\ At(t, "drop")
    /\ Goto(t, "push_back")
    /\ UNCHANGED <<available, inUse, created, availLock, useLock, carry, lent, stat>>

\* drop(in_use), before the other mutex is asked for.
ReleaseDrop(t) ==
    /\ At(t, "drop")
    /\ useLock' = None
    /\ Goto(t, "push_back")
    /\ UNCHANGED <<available, inUse, created, availLock, carry, lent, stat>>

\* Mutant: a released sandbox is not queued again.
ReleaseForgets(t) ==
    /\ At(t, "push_back")
    /\ availLock = None
    /\ carry' = [carry EXCEPT ![t] = None]
    /\ useLock' = IF useLock = t THEN None ELSE useLock
    /\ Goto(t, "idle")
    /\ UNCHANGED <<available, inUse, created, availLock, lent, stat>>

\* Without the explicit drop, the end of release() would free `in_use` here.
ReleasePush(t) ==
    /\ At(t, "push_back")
    /\ availLock = None
    /\ available' = available \cup {carry[t]}
    /\ carry' = [carry EXCEPT ![t] = None]
    /\ useLock' = IF useLock = t THEN None ELSE useLock
    /\ Goto(t, "idle")
    /\ UNCHANGED <<inUse, created, availLock, lent, stat>>

-----------------------------------------------------------------------------
(* stats: one struct expression, so `available` stays locked to its end.   *)

\* Mutant: the two lengths are read one after the other, each under its own lock.
StatsUnlocked(t) ==
    /\ t \in Clients
    /\ At(t, "idle")
    /\ availLock = None
    /\ stat' = [stat EXCEPT ![t] = [available |-> Cardinality(available), in_use |-> 0]]
    /\ Goto(t, "stats")
    /\ UNCHANGED <<available, inUse, created, availLock, useLock, carry, lent>>

StatsAvailable(t) ==
    /\ t \in Clients
    /\ At(t, "idle")
    /\ availLock = None
    /\ availLock' = t
    /\ stat' = [stat EXCEPT ![t] = [available |-> Cardinality(available), in_use |-> 0]]
    /\ Goto(t, "stats")
    /\ UNCHANGED <<available, inUse, created, useLock, carry, lent>>

StatsInUse(t) ==
    /\ At(t, "stats")
    /\ useLock = None
    /\ stat' = [stat EXCEPT ![t].in_use = Cardinality(inUse)]
    /\ availLock' = IF availLock = t THEN None ELSE availLock
    /\ Goto(t, "idle")
    /\ UNCHANGED <<available, inUse, created, useLock, carry, lent>>

-----------------------------------------------------------------------------
\* What a call does once it has begun; a client's next call is its own choice.
Continue(t) ==
    \/ FillCheck(t) \/ FillCreate(t) \/ CreateFails(t) \/ FillPush(t)
    \/ Pop(t) \/ Unwind(t) \/ Insert(t) \/ Restore(t)
    \/ ReleaseDrop(t) \/ ReleasePush(t) \/ StatsInUse(t)

Begin(t) ==
    \/ StartFill(t) \/ StartCheckout(t) \/ TakeOrRestore(t)
    \/ ReleaseRemove(t) \/ StatsAvailable(t)

PoolNext == \E t \in Tasks : Begin(t) \/ Continue(t)

PoolSpec == PoolInit /\ [][PoolNext]_vars

\* tokio runs every ready task, and its mutex queues waiters first come first
\* served, so a call that can go on again and again does go on.
FairPoolSpec == PoolSpec /\ \A t \in Tasks : SF_vars(Continue(t))

-----------------------------------------------------------------------------
Places == {"idle", "fill", "create", "push", "pop", "panicked", "insert",
           "restore", "drop", "push_back", "stats"}

\* Every variable keeps its shape.
PoolTypeOK ==
    /\ available \in SUBSET Sandboxes
    /\ inUse \in SUBSET Sandboxes
    /\ created \in SUBSET Sandboxes
    /\ availLock \in Clients \cup {None}
    /\ useLock \in Clients \cup {None}
    /\ pc \in [Tasks -> Places]
    /\ carry \in [Tasks -> Sandboxes \cup {None}]
    /\ lent \in [Clients -> Sandboxes \cup {None}]
    /\ stat \in [Clients -> [available : Nat, in_use : Nat]]

\* The sandboxes that are only in some call's local variable.
Carried == {carry[t] : t \in Tasks} \ {None}

\* No sandbox is lost between the two mutexes and none is in two places: what has
\* been created is in the queue, in use, or in exactly one call's hands (pool.rs
\* pops and inserts, and removes and pushes, under different locks).
OnePlaceEach ==
    /\ created = available \cup inUse \cup Carried
    /\ available \cap inUse = {}
    /\ available \cap Carried = {}
    /\ inUse \cap Carried = {}
    /\ \A t, u \in Tasks : carry[t] = carry[u] /\ carry[t] # None => t = u

\* Two clients never hold the same sandbox, and what a client holds is in use, so
\* that its release is honoured (checkout, checkout_or_restore, release).
ExclusiveLease ==
    /\ \A c \in Clients : lent[c] # None => lent[c] \in inUse
    /\ \A c, d \in Clients : lent[c] = lent[d] /\ lent[c] # None => c = d

\* stats() never counts a sandbox twice, although it reads the two collections one
\* after the other: it keeps `available` locked while it reads `in_use`.
StatsCountOnce ==
    \A c \in Clients :
        At(c, "idle") => stat[c].available + stat[c].in_use <= Cardinality(created)

\* The pool implements the abstract lease: a client's `lent` changes only as
\* Lend and Return allow.
Lease == INSTANCE SandboxLease WITH known <- created, holder <- lent
ImplementsLease == Lease!LeaseSpec

\* Every call returns: no two calls wait on each other's mutex (release drops
\* `in_use` before it asks for `available`), and the refill loop ends.
CallsReturn == \A t \in Tasks : (pc[t] # "idle") ~> (pc[t] = "idle")

\* The assertion of checkout: "pool refill should create at least one sandbox".
RefillLeavesOne == \A t \in Tasks : pc[t] # "panicked"
=============================================================================
