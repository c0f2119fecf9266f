-------------------------- MODULE SandboxRegistry --------------------------
(***************************************************************************)
(* The control plane's knowledge of sandboxes (hyperbox-server/src/        *)
(* runtime.rs): what the backend really runs, the memory map, the store's  *)
(* active_sandboxes, affinities and snapshots, and the requests that       *)
(* change them.  A request keeps no lock over an await, so each action is  *)
(* one store statement, one backend call or one use of the map.            *)
(*                                                                         *)
(* A sandbox's configuration matters only by its affinity name.  Ids are   *)
(* handed out in order; their order means nothing to the code.  The        *)
(* processes of a sandbox are ManagedProcess's; here only those count that *)
(* will take their sandbox along (owned).                                  *)
(***************************************************************************)
EXTENDS Naturals, FiniteSets

CONSTANTS Requests,      \* tasks serving gRPC requests
          Serves,        \* which calls each task may serve (a bound)
          Names,         \* affinity names
          Unnamed,       \* the configuration without a name
          Absent,        \* no entry
          MaxSandboxes,  \* how many sandboxes are ever created (a bound)
          MaxSnapshots,  \* how many snapshots are ever recorded (a bound)
          MaxAborts,     \* failures and deaths (a bound)
          MaxRestarts    \* restarts of the server (a bound)

\* create_sandbox; restore_snapshot; create_snapshot; resolve_affinity without and with
\* restore; start_run by name, by auto session, by id and with a configuration; the
\* clean-up of an expired owner; destroy_sandbox.
Ops == {"none", "create", "restore", "snapshot", "find", "resolve", "run", "auto", "target",
        "new", "expire", "destroy"}

ASSUME RegistryAssumption ==
    /\ Serves \in [Requests -> SUBSET Ops]
    /\ MaxSandboxes \in Nat /\ MaxSnapshots \in Nat
    /\ MaxAborts \in Nat /\ MaxRestarts \in Nat
    /\ Unnamed \notin Names
    /\ Absent \notin Names \cup {Unnamed}
    /\ 0 \notin Requests

Sandboxes == 1 .. MaxSandboxes
Snapshots == 1 .. MaxSnapshots
None == 0
Configs == Names \cup {Unnamed}

VARIABLES live,          \* the sandboxes that the backend runs
          named,         \* the name each sandbox was created with
          known,         \* the memory map `sandboxes`
          rows,          \* active_sandboxes
          affinity,      \* affinities: name -> sandbox and snapshot
          snaps,         \* snapshots: metadata
          artifacts,     \* snapshots whose artifact file exists
          owned,         \* sandboxes that an expiring process will take along
          hydrated,      \* hydration_complete is set
          hydrating,     \* the request that is initialising it, or None
          told,          \* which ids clients have got, and when
          req,           \* each request's local state
          intact,        \* no request has failed half way since the server started
          damaged,       \* sandboxes that died or whose own call was cut off half way
          aborts,        \* how many failures there have been so far
          restarts       \* ... and restarts

store == <<rows, affinity, snaps, artifacts, owned>>
hydration == <<hydrated, hydrating>>
failures == <<damaged, aborts, restarts>>
vars == <<live, named, known, store, hydration, told, req, intact, failures>>

-----------------------------------------------------------------------------
Places == {"idle", "enter", "hydrate", "create", "restore", "bind", "row", "map", "load",
           "affinity", "inspect", "clear", "config", "prepare", "start", "processes", "purge",
           "reclaim", "destroy", "unmap", "unbind", "unrow", "forget", "lookup", "record",
           "archive", "remember"}

\* name, s and k are the name, sandbox and snapshot in hand; todo the records left to
\* hydrate; flaky tells that an inspect failed for another reason than "not found";
\* overflow that a run left a busy sandbox alone; purging that a process takes its
\* sandbox along.
Request == [op : Ops, pc : Places, name : Configs, s : Sandboxes \cup {None},
            k : Snapshots \cup {None}, todo : SUBSET Sandboxes, flaky : BOOLEAN,
            overflow : BOOLEAN, purging : BOOLEAN]

Idle == [op |-> "none", pc |-> "idle", name |-> Unnamed, s |-> None, k |-> None,
         todo |-> {}, flaky |-> FALSE, overflow |-> FALSE, purging |-> FALSE]

RegistryInit ==
    /\ live = {}
    /\ named = [s \in Sandboxes |-> Absent]
    /\ known = [s \in Sandboxes |-> Absent]
    /\ rows = [s \in Sandboxes |-> Absent]
    /\ affinity = [n \in Names |-> [sandbox |-> None, snapshot |-> None]]
    /\ snaps = [k \in Snapshots |-> Absent]
    /\ artifacts = {}
    /\ owned = {}
    /\ hydrated = FALSE
    /\ hydrating = None
    /\ told = [s \in Sandboxes |-> "no"]
    /\ req = [r \in Requests |-> Idle]
    /\ intact = TRUE
    /\ damaged = {}
    /\ aborts = 0
    /\ restarts = 0

At(r, place) == req[r].pc = place
Set(r, next) == req' = [req EXCEPT ![r] = next]
Goto(r, place) == Set(r, [req[r] EXCEPT !.pc = place])
Return(r) == Set(r, Idle)

\* A new id: the first that was not used.
Fresh(f) == {i \in DOMAIN f : f[i] = Absent /\ \A j \in DOMAIN f : j < i => f[j] # Absent}

OnlyRequest == UNCHANGED <<live, named, known, store, hydration, told, intact, failures>>
NoFailure == UNCHANGED <<intact, failures>>

\* A client gets to know s: too early while another request still creates it.
InCreation(s) == \E r \in Requests : req[r].pc \in {"bind", "row", "map"} /\ req[r].s = s
Tell(s) == told' = [told EXCEPT ![s] = IF @ = "early" \/ InCreation(s) THEN "early" ELSE "yes"]

-----------------------------------------------------------------------------
(* Calls.  Each begins with ensure_hydrated.                               *)

First(op) ==
    IF op \in {"create", "new"} THEN "create"
    ELSE IF op = "restore" THEN "load"
    ELSE IF op = "snapshot" THEN "lookup"
    ELSE IF op \in {"find", "resolve", "run", "auto"} THEN "affinity"
    ELSE IF op = "target" THEN "config"
    ELSE IF op = "expire" THEN "purge"
    ELSE "processes"   \* destroy

Call(r, op, q) ==
    /\ At(r, "idle")
    /\ op \in Serves[r]
    /\ Set(r, [q EXCEPT !.op = op, !.pc = IF hydrated THEN First(op) ELSE "enter"])
    /\ OnlyRequest

\* create_sandbox, and start_run with a configuration and no session.
Create(r) == \E op \in {"create", "new"}, c \in Configs : Call(r, op, [Idle EXCEPT !.name = c])

RestoreSnapshot(r) ==
    \E k \in Snapshots : snaps[k] # Absent /\ Call(r, "restore", [Idle EXCEPT !.k = k])

\* resolve_affinity, and start_run with a name or with an automatic session.
Resolve(r) ==
    \E op \in {"find", "resolve", "run", "auto"}, n \in Names :
        Call(r, op, [Idle EXCEPT !.name = n])

\* create_snapshot, start_run and destroy_sandbox with an id that a client has got.
OnSandbox(r) ==
    \E op \in {"snapshot", "target", "destroy"}, s \in Sandboxes :
        told[s] # "no" /\ Call(r, op, [Idle EXCEPT !.s = s])

\* cleanup_expired_processes finds a process that takes its sandbox along.
Expire(r) ==
    \E s \in owned : Call(r, "expire", [Idle EXCEPT !.s = s, !.purging = TRUE])

-----------------------------------------------------------------------------
(* ensure_hydrated: one request initialises the cell and the others wait.  *)

Enter(r) ==
    /\ At(r, "enter")
    /\ hydrated
    /\ Goto(r, First(req[r].op))
    /\ OnlyRequest

Hydrate(r) ==
    /\ At(r, "enter")
    /\ ~hydrated
    /\ hydrating = None
    /\ hydrating' = r
    /\ Set(r, [req[r] EXCEPT !.pc = "hydrate", !.todo = {s \in Sandboxes : rows[s] # Absent}])
    /\ UNCHANGED <<live, named, known, store, hydrated, told>>
    /\ NoFailure

\* Inspect the next record: known to the backend, or kept as it is.
HydrateOne(r) ==
    /\ At(r, "hydrate")
    /\ \E s \in req[r].todo :
          /\ known' = IF s \in live THEN [known EXCEPT ![s] = rows[s]] ELSE known
          /\ Set(r, [req[r] EXCEPT !.todo = @ \ {s}])
    /\ UNCHANGED <<live, named, store, hydration, told>>
    /\ NoFailure

\* An inspect that fails for another reason.
HydrateFlakes(r) ==
    /\ At(r, "hydrate")
    /\ aborts < MaxAborts
    /\ aborts' = aborts + 1
    /\ \E s \in req[r].todo : Set(r, [req[r] EXCEPT !.todo = @ \ {s}, !.flaky = TRUE])
    /\ UNCHANGED <<live, named, known, store, hydration, told, intact, damaged, restarts>>

\* A mutant of Hydrated: records that could not be inspected are left out for good.
HydratedAnyway(r) ==
    /\ At(r, "hydrate")
    /\ req[r].todo = {}
    /\ hydrating' = None
    /\ hydrated' = TRUE
    /\ Set(r, [req[r] EXCEPT !.pc = First(req[r].op), !.flaky = FALSE])
    /\ UNCHANGED <<live, named, known, store, told>>
    /\ NoFailure

\* A mutant of Hydrated: the cell stays locked when its initialisation fails.
HydratedLocked(r) ==
    /\ At(r, "hydrate")
    /\ req[r].todo = {}
    /\ hydrating' = IF req[r].flaky THEN r ELSE None
    /\ hydrated' = ~req[r].flaky
    /\ IF req[r].flaky THEN Return(r) ELSE Goto(r, First(req[r].op))
    /\ UNCHANGED <<live, named, known, store, told>>
    /\ NoFailure

Hydrated(r) ==
    /\ At(r, "hydrate")
    /\ req[r].todo = {}
    /\ hydrating' = None
    /\ hydrated' = ~req[r].flaky
    /\ IF req[r].flaky THEN Return(r) ELSE Goto(r, First(req[r].op))
    /\ UNCHANGED <<live, named, known, store, told>>
    /\ NoFailure

-----------------------------------------------------------------------------
(* create_sandbox and the second half of restore_snapshot: the backend,    *)
(* then the binding, the row, the map.                                     *)

NewSandbox(r) ==
    /\ \/ \E s \in Fresh(named) :
             /\ live' = live \cup {s}
             /\ named' = [named EXCEPT ![s] = req[r].name]
             /\ Set(r, [req[r] EXCEPT !.s = s,
                            !.pc = IF req[r].name = Unnamed THEN "row" ELSE "bind"])
       \/ Fresh(named) = {} /\ Return(r) /\ UNCHANGED <<live, named>>
    /\ UNCHANGED <<known, store, hydration, told>>
    /\ NoFailure

BackendCreate(r) == At(r, "create") /\ NewSandbox(r)
BackendRestore(r) == At(r, "restore") /\ NewSandbox(r)

BindSandbox(r) ==
    /\ At(r, "bind")
    /\ affinity' = [affinity EXCEPT ![req[r].name].sandbox = req[r].s]
    /\ Goto(r, "row")
    /\ UNCHANGED <<live, named, known, rows, snaps, artifacts, owned, hydration, told>>
    /\ NoFailure

UpsertActive(r) ==
    /\ At(r, "row")
    /\ rows' = [rows EXCEPT ![req[r].s] = req[r].name]
    /\ Goto(r, "map")
    /\ UNCHANGED <<live, named, known, affinity, snaps, artifacts, owned, hydration, told>>
    /\ NoFailure

\* Where a call goes on with its new sandbox; run may have restored it or overflowed.
AfterCreation(r) ==
    \/ req[r].op \in {"create", "restore", "resolve"} /\ Return(r)
    \/ req[r].op = "run" /\ ~req[r].overflow /\ Goto(r, "config")
    \/ (req[r].op \in {"new", "auto"} \/ req[r].overflow) /\ Goto(r, "start")

\* A mutant of InsertKnown: the binding is refreshed when the creation is complete.
InsertAndBind(r) ==
    /\ At(r, "map")
    /\ known' = [known EXCEPT ![req[r].s] = req[r].name]
    /\ affinity' = [n \in Names |-> IF n = req[r].name
                                    THEN [affinity[n] EXCEPT !.sandbox = req[r].s]
                                    ELSE affinity[n]]
    /\ told' = [told EXCEPT ![req[r].s] = IF @ = "early" THEN "early" ELSE "yes"]
    /\ AfterCreation(r)
    /\ UNCHANGED <<live, named, rows, snaps, artifacts, owned, hydration>>
    /\ NoFailure

InsertKnown(r) ==
    /\ At(r, "map")
    /\ known' = [known EXCEPT ![req[r].s] = req[r].name]
    /\ told' = [told EXCEPT ![req[r].s] = IF @ = "early" THEN "early" ELSE "yes"]
    /\ AfterCreation(r)
    /\ UNCHANGED <<live, named, store, hydration>>
    /\ NoFailure

-----------------------------------------------------------------------------
(* restore_snapshot and create_snapshot.                                   *)

LoadSnapshot(r) ==
    LET k == req[r].k IN
    /\ At(r, "load")
    /\ IF k \in artifacts
       THEN Set(r, [req[r] EXCEPT !.name = snaps[k], !.pc = "restore"])
       ELSE Return(r)
    /\ OnlyRequest

\* A mutant of LookUp: a sandbox that the map does not know is taken as it comes.
LookUpUnchecked(r) ==
    /\ At(r, "lookup")
    /\ Set(r, [req[r] EXCEPT !.name = known[req[r].s], !.pc = "record"])
    /\ OnlyRequest

LookUp(r) ==
    LET c == known[req[r].s] IN
    /\ At(r, "lookup")
    /\ IF c = Absent THEN Return(r) ELSE Set(r, [req[r] EXCEPT !.name = c, !.pc = "record"])
    /\ OnlyRequest

\* The metadata first ...
RecordSnapshot(r) ==
    /\ At(r, "record")
    /\ \/ \E k \in Fresh(snaps) :
             /\ snaps' = [snaps EXCEPT ![k] = req[r].name]
             /\ Set(r, [req[r] EXCEPT !.k = k, !.pc = "archive"])
       \/ Fresh(snaps) = {} /\ Return(r) /\ UNCHANGED snaps
    /\ UNCHANGED <<live, named, known, rows, affinity, artifacts, owned, hydration, told>>
    /\ NoFailure

\* A mutant of Archive: the error of the backend is not looked at.
ArchiveAnyway(r) ==
    /\ At(r, "archive")
    /\ artifacts' = IF req[r].s \in live THEN artifacts \cup {req[r].k} ELSE artifacts
    /\ IF req[r].name = Unnamed THEN Return(r) ELSE Goto(r, "remember")
    /\ UNCHANGED <<live, named, known, rows, affinity, snaps, owned, hydration, told>>
    /\ NoFailure

\* ... then the artifact, where the backend still has the sandbox ...
Archive(r) ==
    /\ At(r, "archive")
    /\ IF req[r].s \in live
       THEN /\ artifacts' = artifacts \cup {req[r].k}
            /\ IF req[r].name = Unnamed THEN Return(r) ELSE Goto(r, "remember")
       ELSE Return(r) /\ UNCHANGED artifacts
    /\ UNCHANGED <<live, named, known, rows, affinity, snaps, owned, hydration, told>>
    /\ NoFailure

\* ... and only then is it the snapshot of its name.
Remember(r) ==
    /\ At(r, "remember")
    /\ affinity' = [affinity EXCEPT ![req[r].name].snapshot = req[r].k]
    /\ Return(r)
    /\ UNCHANGED <<live, named, known, rows, snaps, artifacts, owned, hydration, told>>
    /\ NoFailure

-----------------------------------------------------------------------------
(* resolve_affinity, and what start_run does with what it finds.           *)

\* Without a sandbox: a new one, the snapshot of the copy read, or an error.
NoSandbox(r, q) ==
    \/ q.op = "auto" /\ Set(r, [q EXCEPT !.pc = "create", !.s = None, !.k = None])
    \/ /\ q.op \in {"resolve", "run"}
       /\ q.k # None
       /\ Set(r, [q EXCEPT !.pc = "load", !.s = None])
    \/ /\ q.op = "find" \/ (q.op # "auto" /\ q.k = None)
       /\ Return(r)

ReadAffinity(r) ==
    LET a == affinity[req[r].name]
        q == [req[r] EXCEPT !.s = a.sandbox, !.k = a.snapshot]
    IN
    /\ At(r, "affinity")
    /\ IF a.sandbox = None THEN NoSandbox(r, q) ELSE Set(r, [q EXCEPT !.pc = "inspect"])
    /\ OnlyRequest

InspectBound(r) ==
    LET s == req[r].s IN
    /\ At(r, "inspect")
    /\ \/ s \notin live /\ Goto(r, "clear") /\ UNCHANGED told
       \/ s \in live /\ req[r].op \in {"find", "resolve"} /\ Return(r) /\ Tell(s)
       \/ s \in live /\ req[r].op \in {"run", "auto"} /\ Goto(r, "config") /\ UNCHANGED told
    /\ UNCHANGED <<live, named, known, store, hydration>>
    /\ NoFailure

\* An inspect that fails for another reason counts as "missing" as well.
InspectFlakes(r) ==
    /\ At(r, "inspect")
    /\ aborts < MaxAborts
    /\ aborts' = aborts + 1
    /\ Set(r, [req[r] EXCEPT !.pc = "clear", !.flaky = TRUE])
    /\ UNCHANGED <<live, named, known, store, hydration, told, intact, damaged, restarts>>

\* clear_sandbox_binding: by sandbox, whatever the name.
Unbound(s) ==
    [n \in Names |-> IF affinity[n].sandbox = s THEN [affinity[n] EXCEPT !.sandbox = None]
                     ELSE affinity[n]]

\* A mutant of ClearBinding: the name is cleared, whatever it stands for by now.
ClearName(r) ==
    /\ At(r, "clear")
    /\ affinity' = [affinity EXCEPT ![req[r].name].sandbox = None]
    /\ NoSandbox(r, [req[r] EXCEPT !.flaky = FALSE])
    /\ UNCHANGED <<live, named, known, rows, snaps, artifacts, owned, hydration, told>>
    /\ NoFailure

ClearBinding(r) ==
    /\ At(r, "clear")
    /\ affinity' = Unbound(req[r].s)
    /\ NoSandbox(r, [req[r] EXCEPT !.flaky = FALSE])
    /\ UNCHANGED <<live, named, known, rows, snaps, artifacts, owned, hydration, told>>
    /\ NoFailure

\* sandbox_config: what only the backend and the store know is not found.
SandboxConfig(r) ==
    /\ At(r, "config")
    /\ IF known[req[r].s] = Absent THEN Return(r) ELSE Goto(r, "prepare")
    /\ OnlyRequest

\* prepare_run_sandbox: a busy sandbox is left alone and a nameless one created.
PrepareRun(r) ==
    /\ At(r, "prepare")
    /\ \/ req[r].s \in live /\ Goto(r, "start")
       \/ req[r].s \in live /\ Set(r, [req[r] EXCEPT !.name = Unnamed, !.s = None, !.k = None,
                                                     !.overflow = TRUE, !.pc = "create"])
       \/ req[r].s \notin live /\ Return(r)
    /\ OnlyRequest

\* start_process, which may leave behind a process that takes its sandbox along, and does
\* so in an overflow sandbox.
StartProcess(r) ==
    LET s == req[r].s IN
    /\ At(r, "start")
    /\ \/ s \in live /\ owned' = owned \cup {s} /\ Tell(s)
       \/ s \in live /\ ~req[r].overflow /\ Tell(s) /\ UNCHANGED owned
       \/ s \notin live /\ UNCHANGED <<owned, told>>
    /\ Return(r)
    /\ UNCHANGED <<live, named, known, rows, affinity, snaps, artifacts, hydration>>
    /\ NoFailure

-----------------------------------------------------------------------------
(* destroy_sandbox, and purge_process of a process that takes its sandbox  *)
(* along: the backend, then the map, the binding, the row.                 *)

\* The processes of the sandbox; to refresh an active one fails without the sandbox.
PurgeProcesses(r) ==
    LET s == req[r].s IN
    /\ At(r, "processes")
    /\ \/ s \in owned /\ Set(r, [req[r] EXCEPT !.pc = "purge", !.purging = TRUE])
       \/ s \notin owned /\ Goto(r, "destroy")
       \/ s \notin live /\ Return(r)
    /\ OnlyRequest

InspectOwned(r) ==
    /\ At(r, "purge")
    /\ Goto(r, IF req[r].s \in live THEN "reclaim" ELSE "unmap")
    /\ OnlyRequest

\* backend.destroy, which knows each sandbox once.
BackendDestroy(r) ==
    /\ req[r].pc \in {"reclaim", "destroy"}
    /\ IF req[r].s \in live
       THEN live' = live \ {req[r].s} /\ Goto(r, "unmap")
       ELSE UNCHANGED live /\ Return(r)
    /\ UNCHANGED <<named, known, store, hydration, told>>
    /\ NoFailure

\* A mutant of Unmap: the map keeps its entry.
UnmapForgotten(r) ==
    /\ At(r, "unmap")
    /\ Goto(r, "unbind")
    /\ UNCHANGED <<live, named, known, store, hydration, told>>
    /\ NoFailure

Unmap(r) ==
    /\ At(r, "unmap")
    /\ known' = [known EXCEPT ![req[r].s] = Absent]
    /\ Goto(r, "unbind")
    /\ UNCHANGED <<live, named, store, hydration, told>>
    /\ NoFailure

Unbind(r) ==
    /\ At(r, "unbind")
    /\ affinity' = Unbound(req[r].s)
    /\ Goto(r, "unrow")
    /\ UNCHANGED <<live, named, known, rows, snaps, artifacts, owned, hydration, told>>
    /\ NoFailure

\* A mutant of RemoveActive: the row of a destroyed sandbox stays.
RemoveActiveForgotten(r) ==
    /\ At(r, "unrow")
    /\ IF req[r].purging THEN Goto(r, "forget") ELSE Return(r)
    /\ UNCHANGED <<live, named, known, store, hydration, told>>
    /\ NoFailure

RemoveActive(r) ==
    /\ At(r, "unrow")
    /\ rows' = [rows EXCEPT ![req[r].s] = Absent]
    /\ IF req[r].purging THEN Goto(r, "forget") ELSE Return(r)
    /\ UNCHANGED <<live, named, known, affinity, snaps, artifacts, owned, hydration, told>>
    /\ NoFailure

\* remove_process; destroy_sandbox goes on to destroy what the purge has destroyed.
ForgetProcess(r) ==
    /\ At(r, "forget")
    /\ owned' = owned \ {req[r].s}
    /\ IF req[r].op = "destroy"
       THEN Set(r, [req[r] EXCEPT !.pc = "destroy", !.purging = FALSE])
       ELSE Return(r)
    /\ UNCHANGED <<live, named, known, rows, affinity, snaps, artifacts, hydration, told>>
    /\ NoFailure

-----------------------------------------------------------------------------
(* Failures.                                                               *)

\* The sandbox that request r has half created or half destroyed.
Halfway == {"bind", "row", "map", "unmap", "unbind", "unrow"}
HalfDone(r) == IF req[r].pc \in Halfway THEN {req[r].s} ELSE {}

\* A store or backend call fails, or the client goes away: the request ends where it is,
\* and a hydration cell that it was initialising is free again.
CallFails(r) ==
    /\ req[r].pc \notin {"idle", "enter"}
    /\ aborts < MaxAborts
    /\ aborts' = aborts + 1
    /\ intact' = (intact /\ At(r, "hydrate"))
    /\ damaged' = damaged \cup HalfDone(r)
    /\ hydrating' = IF hydrating = r THEN None ELSE hydrating
    /\ Return(r)
    /\ UNCHANGED <<live, named, known, store, hydrated, told, restarts>>

\* backend.destroy forgets the sandbox and then fails.
DestroyFails(r) ==
    /\ req[r].pc \in {"reclaim", "destroy"}
    /\ req[r].s \in live
    /\ aborts < MaxAborts
    /\ aborts' = aborts + 1
    /\ intact' = FALSE
    /\ damaged' = damaged \cup {req[r].s}
    /\ live' = live \ {req[r].s}
    /\ Return(r)
    /\ UNCHANGED <<named, known, store, hydration, told, restarts>>

\* A sandbox ends without hyperbox.
Die(s) ==
    /\ s \in live
    /\ aborts < MaxAborts
    /\ aborts' = aborts + 1
    /\ damaged' = damaged \cup {s}
    /\ live' = live \ {s}
    /\ UNCHANGED <<named, known, store, hydration, told, req, intact, restarts>>

\* The server starts again; a backend that keeps its sandboxes in memory has lost them.
Restart ==
    /\ restarts < MaxRestarts
    /\ restarts' = restarts + 1
    /\ live' \in {live, {}}
    /\ damaged' = damaged \cup (live \ live') \cup UNION {HalfDone(r) : r \in Requests}
    /\ known' = [s \in Sandboxes |-> Absent]
    /\ hydrated' = FALSE
    /\ hydrating' = None
    /\ req' = [r \in Requests |-> Idle]
    /\ intact' = TRUE
    /\ UNCHANGED <<named, store, told, aborts>>

-----------------------------------------------------------------------------
Begin(r) == Create(r) \/ RestoreSnapshot(r) \/ Resolve(r) \/ OnSandbox(r) \/ Expire(r)

Proceed(r) ==
    \/ Enter(r) \/ Hydrate(r) \/ HydrateOne(r) \/ Hydrated(r)
    \/ BackendCreate(r) \/ BackendRestore(r) \/ BindSandbox(r) \/ UpsertActive(r)
    \/ InsertKnown(r) \/ LoadSnapshot(r)
    \/ LookUp(r) \/ RecordSnapshot(r) \/ Archive(r) \/ Remember(r)
    \/ ReadAffinity(r) \/ InspectBound(r) \/ ClearBinding(r)
    \/ SandboxConfig(r) \/ PrepareRun(r) \/ StartProcess(r)
    \/ PurgeProcesses(r) \/ InspectOwned(r) \/ BackendDestroy(r) \/ Unmap(r) \/ Unbind(r)
    \/ RemoveActive(r) \/ ForgetProcess(r)

Fail(r) == HydrateFlakes(r) \/ InspectFlakes(r) \/ CallFails(r) \/ DestroyFails(r)

RegistryNext ==
    \/ \E r \in Requests : Begin(r) \/ Proceed(r) \/ Fail(r)
    \/ \E s \in Sandboxes : Die(s)
    \/ Restart

RegistrySpec == RegistryInit /\ [][RegistryNext]_vars

-----------------------------------------------------------------------------
\* Every variable keeps its shape.
RegistryTypeOK ==
    /\ live \in SUBSET Sandboxes
    /\ named \in [Sandboxes -> Configs \cup {Absent}]
    /\ known \in [Sandboxes -> Configs \cup {Absent}]
    /\ rows \in [Sandboxes -> Configs \cup {Absent}]
    /\ affinity \in [Names -> [sandbox : Sandboxes \cup {None}, snapshot : Snapshots \cup {None}]]
    /\ snaps \in [Snapshots -> Configs \cup {Absent}]
    /\ artifacts \in SUBSET Snapshots
    /\ owned \in SUBSET Sandboxes
    /\ hydrated \in BOOLEAN
    /\ hydrating \in Requests \cup {None}
    /\ told \in [Sandboxes -> {"no", "early", "yes"}]
    /\ req \in [Requests -> Request]
    /\ intact \in BOOLEAN
    /\ damaged \in SUBSET Sandboxes
    /\ aborts \in 0 .. MaxAborts
    /\ restarts \in 0 .. MaxRestarts

\* What the map knows survives a restart: it has the same row in active_sandboxes, at
\* every moment of a creation and of a destruction and after every failure.  Only a
\* sandbox that a client found by its name and destroyed while another request was
\* still creating it escapes.
MapIsPersisted ==
    \A s \in Sandboxes : known[s] # Absent /\ told[s] # "early" => rows[s] = known[s]

\* A name stands for a sandbox that was created under it, and its snapshot is one of that
\* name whose artifact exists, whichever of the calls that led there have failed.
AffinityIsOwn ==
    \A n \in Names :
        /\ affinity[n].sandbox # None => named[affinity[n].sandbox] = n
        /\ affinity[n].snapshot # None =>
               snaps[affinity[n].snapshot] = n /\ affinity[n].snapshot \in artifacts

Rest == \A r \in Requests : req[r].pc = "idle"

\* A failure or a restart spoils nothing but the sandbox whose own creation or destruction
\* it cut off half way, or that died of it.  Of every other sandbox, when no request is
\* under way, all agree however creations, destructions, failures and restarts have
\* interleaved: what the backend runs is in the rows and, once the server has hydrated, in
\* the map, and what it does not run has no name and is in neither.  There is one
\* exception: a sandbox that a client found by its name and destroyed while another
\* request was still creating it may be left in the map and in the rows.
AtRestAllAgree ==
    Rest => \A s \in Sandboxes \ damaged :
        \/ /\ s \in live /\ rows[s] = named[s]
           /\ hydrated => known[s] = named[s]
        \/ /\ s \notin live
           /\ \A n \in Names : affinity[n].sandbox # s
           /\ told[s] = "early" \/ (known[s] = Absent /\ rows[s] = Absent)

\* A server that has hydrated knows every sandbox that has a row and still runs, whatever
\* failed before it started or while it hydrated.
HydratedKnowsLive ==
    hydrated /\ intact /\ Rest =>
        \A s \in live : rows[s] # Absent => known[s] = rows[s]

\* A sandbox that runs loses its name for two reasons only.  Either another sandbox, created
\* under that name, is bound to it as the first thing that anybody records of it (whichever
\* of the two was created first), or a resolve whose own inspect of that sandbox failed for
\* another reason than "not found" takes it for gone.  A late answer about one sandbox
\* never clears the binding of another.
CauseOfLoss(n) ==
    LET s == affinity[n].sandbox
        t == affinity'[n].sandbox
    IN
    \/ t # None /\ named[t] = n /\ rows[t] = Absent /\ known[t] = Absent
    \/ t = None /\ \E r \in Requests : At(r, "clear") /\ req[r].flaky /\ req[r].s = s
LosesNameWithCause ==
    \A n \in Names :
        affinity[n].sandbox \in live /\ affinity'[n].sandbox # affinity[n].sandbox
            => CauseOfLoss(n)
NameLostWithCause == [][LosesNameWithCause]_vars

\* Who waits for the hydration waits for a request that performs it: a failed, dropped or
\* restarted one gives the cell back.
HydrationHasWorker == hydrating # None => At(hydrating, "hydrate") /\ ~hydrated

\* The names implement the abstract directory: a sandbox is bound at most once, by the
\* request that created it.
BeforeBind == {req[r].s : r \in {q \in Requests : At(q, "bind")}}
Directory == INSTANCE NameDirectory WITH
                 bound <- [n \in Names |-> affinity[n].sandbox],
                 spent <- {s \in Sandboxes : named[s] # Absent} \ BeforeBind
ImplementsDirectory == Directory!DirectorySpec
=============================================================================
