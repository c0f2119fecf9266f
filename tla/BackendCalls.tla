---------------------------- MODULE BackendCalls ----------------------------
(***************************************************************************)
(* What the sandbox backends have in common: the SandboxBackend trait      *)
(* (crates/hyperbox-core/src/backend.rs), the map of sandboxes each keeps  *)
(* behind a mutex, the workspace directories they make, and the calls that *)
(* the control plane has under way.  A call is a task; it ends with a      *)
(* result or is dropped at an await when its client goes away.             *)
(*                                                                         *)
(* status, blame and faults are history: what the callers were told of a   *)
(* sandbox, what went wrong for it, and how often anything did.            *)
(***************************************************************************)
EXTENDS Naturals, Sequences

CONSTANTS Boxes,         \* sandbox ids, each used once
          Networked,     \* those created with a network: NetworkMode::Full, or
          Allowlisted,   \* ... those created with NetworkMode::Allowlist
          Ephemeral,     \* those created without a workspace_dir
          Calls,         \* concurrent calls of the backend
          Serves,        \* which operations of a backend each call may be (a bound)
          MaxFaults      \* commands, calls and processes that may fail (a bound)

Backends == {"apple", "firecracker", "local"}
Operations == {"create", "restore", "snapshot", "exec", "read", "write", "inspect", "destroy"}

ASSUME BackendAssumption ==
    /\ Allowlisted \subseteq Networked
    /\ Networked \subseteq Boxes
    /\ Ephemeral \subseteq Boxes
    /\ Serves \in [Backends -> [Calls -> SUBSET Operations]]
    /\ MaxFaults \in Nat
    /\ "none" \notin Boxes \cup Calls

VARIABLES entry,         \* the backend's map: how it runs a sandbox, or "none"
          workspaces,    \* sandboxes whose own workspace directory exists
          call,          \* what each call is doing
          status,        \* what the callers have been told of each sandbox
          blame,         \* what went wrong for each sandbox
          faults         \* how many things have gone wrong

callVars == <<entry, workspaces, call, status, blame, faults>>

NoCall == [op |-> "none", box |-> "none", pc |-> "idle", todo |-> <<>>, undo |-> FALSE]

CallsInit ==
    /\ entry = [b \in Boxes |-> "none"]
    /\ workspaces = {}
    /\ call = [c \in Calls |-> NoCall]
    /\ status = [b \in Boxes |-> "unborn"]
    /\ blame = [b \in Boxes |-> {}]
    /\ faults = 0

Fault(b, cause) ==
    /\ faults < MaxFaults
    /\ faults' = faults + 1
    /\ blame' = [blame EXCEPT ![b] = @ \cup {cause}]

NoFault == UNCHANGED <<faults, blame>>

CallAt(c, place) == call[c].pc = place
Place(c, place) == call' = [call EXCEPT ![c].pc = place] /\ UNCHANGED status
Own(b) == {b} \cap Ephemeral

\* A call begins: a create or restore with an id that is new, the others with one that a
\* create has returned.
BeginCall(backend, c, op, b, todo) ==
    /\ CallAt(c, "idle")
    /\ op \in Serves[backend][c]
    /\ IF op \in {"create", "restore"}
       THEN status[b] = "unborn" /\ status' = [status EXCEPT ![b] = "pending"]
       ELSE status[b] = "live" /\ UNCHANGED status
    /\ call' = [call EXCEPT ![c] = [op |-> op, box |-> b, pc |-> "dispatch", todo |-> todo,
                                    undo |-> FALSE]]

Told(c, ok) ==
    LET b == call[c].box IN
    IF call[c].op \in {"create", "restore"}
    THEN [status EXCEPT ![b] = IF ok THEN "live" ELSE "failed"]
    ELSE IF call[c].op = "destroy" /\ ok THEN [status EXCEPT ![b] = "destroyed"] ELSE status

ReturnCall(c, ok) ==
    /\ call' = [call EXCEPT ![c] = NoCall]
    /\ status' = Told(c, ok)

\* The end of a part of a call: the next part, or the end of the call.  A restore that
\* undoes destroys the sandbox it has created, and fails whatever becomes of that.
Part(c) == Head(call[c].todo)
At(c, part) == CallAt(c, "dispatch") /\ Part(c) = part

EndPart(c, ok, undoes) ==
    LET last == Len(call[c].todo) = 1 IN
    \/ /\ call[c].undo
       /\ ReturnCall(c, FALSE)
    \/ /\ ~call[c].undo /\ ~ok /\ undoes
       /\ call' = [call EXCEPT ![c].todo = <<"destroy">>, ![c].undo = TRUE,
                               ![c].pc = "dispatch"]
       /\ UNCHANGED status
    \/ /\ ~call[c].undo /\ ok /\ ~last
       /\ call' = [call EXCEPT ![c].todo = Tail(@), ![c].pc = "dispatch"]
       /\ UNCHANGED status
    \/ /\ ~call[c].undo /\ (IF ok THEN last ELSE ~undoes)
       /\ ReturnCall(c, ok)

\* A call that is dropped tells nobody anything.
DropCall(c) ==
    LET b == call[c].box IN
    /\ ~CallAt(c, "idle")
    /\ Fault(b, "dropped")
    /\ call' = [call EXCEPT ![c] = NoCall]
    /\ status' = IF status[b] = "pending" THEN [status EXCEPT ![b] = "failed"] ELSE status

\* The server stops and starts again: its map and its calls are gone.
Pending == {b \in Boxes : status[b] = "pending"}

ForgetCalls ==
    /\ entry' = [b \in Boxes |-> "none"]
    /\ call' = [c \in Calls |-> NoCall]
    /\ status' = [b \in Boxes |-> IF b \in Pending THEN "failed" ELSE status[b]]

CallsTypeOK ==
    /\ entry \in [Boxes -> {"none", "direct", "helper", "vm", "local"}]
    /\ workspaces \subseteq Boxes
    /\ \A c \in Calls : call[c].op \in Operations \cup {"none"}
    /\ \A c \in Calls : call[c].box \in Boxes \cup {"none"}
    /\ status \in [Boxes -> {"unborn", "pending", "live", "failed", "destroyed"}]
    /\ faults \in 0 .. MaxFaults
=============================================================================
