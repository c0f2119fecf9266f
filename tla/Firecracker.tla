----------------------------- MODULE Firecracker -----------------------------
(***************************************************************************)
(* FirecrackerBackend (crates/hyperbox-firecracker/src/backend.rs), the    *)
(* firewall commands it runs (crates/hyperbox-network/src/firewall.rs) and *)
(* the embedded agent that serves the files and commands of its sandboxes. *)
(*                                                                         *)
(* A sandbox is a VM process, nftables rules and an ipset, a task that     *)
(* refreshes the set, and a directory under the agent's root.  create      *)
(* makes them one after another and undoes none when a later one fails;    *)
(* destroy removes them one after another with the map's mutex held.       *)
(* The host does enforce its firewall here: in a dry run, validate_config  *)
(* refuses every network.                                                  *)
(***************************************************************************)
EXTENDS BackendCalls

VARIABLES vms,           \* sandboxes whose firecracker process runs
          rules,         \* the firewall commands in force for each
          syncs,         \* sandboxes whose refresh task runs
          held,          \* the call that holds the map's mutex over an await
          agent,         \* the embedded agent: "off", "starting" or "on"
          started,       \* AgentRuntimeState::started
          rooted         \* AgentService::sandboxes: roots the agent has prepared

fcOwn == <<vms, rules, syncs, held, agent, started, rooted>>
fcVars == <<callVars, fcOwn>>

\* build_apply_plan, by what each command adds; the place of a call names the next one.
Commands == {"set", "table", "chain", "allow", "drop", "accept", "masquerade"}

\* A mutant of AfterCommand: what is not allowed is not dropped.
AfterCommandOpen(b, r) ==
    IF r = "set" THEN "table"
    ELSE IF r = "table" THEN "chain"
    ELSE IF r = "chain" THEN IF b \in Allowlisted THEN "allow" ELSE "accept"
    ELSE IF r \in {"allow", "drop", "accept"} THEN "masquerade"
    ELSE IF b \in Allowlisted THEN "resolve" ELSE "prepare"

AfterCommand(b, r) ==
    IF r = "set" THEN "table"
    ELSE IF r = "table" THEN "chain"
    ELSE IF r = "chain" THEN IF b \in Allowlisted THEN "allow" ELSE "accept"
    ELSE IF r = "allow" THEN "drop"
    ELSE IF r \in {"drop", "accept"} THEN "masquerade"
    ELSE IF b \in Allowlisted THEN "resolve" ELSE "prepare"

\* build_teardown_plan: the table goes with what is in it; the masquerade rule stays.
InTable == {"table", "chain", "allow", "drop", "accept"}

FcParts(op) == IF op = "restore" THEN <<"create", "clear", "unpack">> ELSE <<op>>

FcInit ==
    /\ CallsInit
    /\ vms = {} /\ syncs = {} /\ rooted = {}
    /\ rules = [b \in Boxes |-> {}]
    /\ held = "none"
    /\ agent = "off" /\ started = FALSE

Free == held = "none"
AgentAlone == UNCHANGED <<agent, started, rooted>>
VmAlone == UNCHANGED <<vms, rules, syncs>>

FcBegin(c, op, b) ==
    /\ BeginCall("firecracker", c, op, b, FcParts(op))
    /\ NoFault
    /\ UNCHANGED <<entry, workspaces, fcOwn>>

-----------------------------------------------------------------------------
(* create                                                                  *)

\* start_vm: the process runs from its spawn on, whatever its API answers.
StartVm(c) ==
    LET b == call[c].box IN
    /\ At(c, "create")
    /\ \/ /\ vms' = vms \cup {b}
          /\ Place(c, IF b \in Networked THEN "set" ELSE "prepare")
          /\ NoFault
       \/ /\ vms' \in {vms, vms \cup {b}}
          /\ Fault(b, "boot") /\ EndPart(c, FALSE, FALSE)
    /\ AgentAlone
    /\ UNCHANGED <<entry, workspaces, rules, syncs, held>>

\* FirewallManager::apply, command by command.
ApplyCommand(c) ==
    LET b == call[c].box IN
    \E r \in Commands :
        /\ CallAt(c, r)
        /\ \/ /\ rules' = [rules EXCEPT ![b] = @ \cup {r}]
              /\ Place(c, AfterCommand(b, r)) /\ NoFault
           \/ Fault(b, "rule") /\ EndPart(c, FALSE, FALSE) /\ UNCHANGED rules
        /\ AgentAlone
        /\ UNCHANGED <<entry, workspaces, vms, syncs, held>>

\* The addresses of the allowed domains, then the task that refreshes them.
ResolveAllowlist(c) ==
    LET b == call[c].box IN
    /\ CallAt(c, "resolve")
    /\ \/ syncs' = syncs \cup {b} /\ Place(c, "prepare") /\ NoFault
       \/ Fault(b, "resolve") /\ EndPart(c, FALSE, FALSE) /\ UNCHANGED syncs
    /\ AgentAlone
    /\ UNCHANGED <<entry, workspaces, vms, rules, held>>

\* prepare_agent_workspace: a directory, or a link to the workspace that is shared.
PrepareWorkspace(c) ==
    LET b == call[c].box IN
    /\ CallAt(c, "prepare")
    /\ \/ workspaces' = workspaces \cup {b} /\ Place(c, "insert") /\ NoFault
       \/ Fault(b, "workspace") /\ EndPart(c, FALSE, FALSE) /\ UNCHANGED workspaces
    /\ UNCHANGED <<entry, fcOwn>>

InsertEntry(c) ==
    /\ CallAt(c, "insert") /\ Free
    /\ entry' = [entry EXCEPT ![call[c].box] = "vm"]
    /\ EndPart(c, TRUE, FALSE) /\ NoFault
    /\ UNCHANGED <<workspaces, fcOwn>>

-----------------------------------------------------------------------------
(* exec, read_file and write_file, through the agent.                      *)

Lookup(c) ==
    /\ CallAt(c, "dispatch") /\ Part(c) \in {"exec", "read", "write"} /\ Free
    /\ IF entry[call[c].box] = "none" THEN EndPart(c, FALSE, FALSE) ELSE Place(c, "connect")
    /\ NoFault
    /\ UNCHANGED <<entry, workspaces, fcOwn>>

\* connect_agent and ensure_agent_running.
ConnectAgent(c) ==
    /\ CallAt(c, "connect")
    /\ IF agent = "on"
       THEN Place(c, "ask") /\ UNCHANGED <<agent, started>>
       ELSE /\ Place(c, "retry")
            /\ started' = TRUE
            /\ agent' = IF started THEN agent ELSE "starting"
    /\ NoFault
    /\ UNCHANGED <<entry, workspaces, vms, rules, syncs, held, rooted>>

\* Twenty attempts later the call gives up, and the next one may start an agent again.
RetryAgent(c) ==
    /\ CallAt(c, "retry")
    /\ IF agent = "on"
       THEN Place(c, "ask") /\ UNCHANGED started
       ELSE started' = FALSE /\ EndPart(c, FALSE, FALSE)
    /\ NoFault
    /\ UNCHANGED <<entry, workspaces, vms, rules, syncs, held, agent, rooted>>

\* AgentService: the first request for a sandbox makes its root, be the sandbox there or
\* not; when it fails or its client goes away meanwhile, the directory may be there and the
\* agent not know of it.  The history "late" tells that the sandbox was gone by then.
AskAgent(c) ==
    LET b == call[c].box
        fresh == agent = "on" /\ b \notin rooted
    IN
    /\ CallAt(c, "ask")
    /\ EndPart(c, agent = "on" /\ (fresh \/ b \in workspaces), FALSE)
    /\ \/ fresh /\ workspaces' = workspaces \cup {b} /\ rooted' \in {rooted, rooted \cup {b}}
       \/ UNCHANGED <<workspaces, rooted>>
    /\ blame' = IF entry[b] = "none" THEN [blame EXCEPT ![b] = @ \cup {"late"}] ELSE blame
    /\ UNCHANGED <<entry, faults, vms, rules, syncs, held, agent, started>>

AgentComesUp ==
    /\ agent = "starting"
    /\ \/ agent' = "on" /\ rooted' = {} /\ UNCHANGED faults
       \/ /\ faults < MaxFaults /\ faults' = faults + 1
          /\ agent' = "off" /\ UNCHANGED rooted
    /\ UNCHANGED <<entry, workspaces, call, status, blame, vms, rules, syncs, held, started>>

AgentDies ==
    /\ agent = "on"
    /\ agent' = "off"
    /\ faults < MaxFaults /\ faults' = faults + 1
    /\ UNCHANGED <<entry, workspaces, call, status, blame, vms, rules, syncs, held, started,
                   rooted>>

-----------------------------------------------------------------------------
(* inspect, create_snapshot and what restore_snapshot does after create.   *)

FcInspect(c) ==
    /\ At(c, "inspect") /\ Free
    /\ EndPart(c, entry[call[c].box] # "none", FALSE) /\ NoFault
    /\ UNCHANGED <<entry, workspaces, fcOwn>>

FcArchive(c) ==
    LET b == call[c].box IN
    /\ At(c, "snapshot") /\ Free
    /\ \/ EndPart(c, entry[b] # "none" /\ b \in workspaces, FALSE) /\ NoFault
       \/ EndPart(c, FALSE, FALSE) /\ Fault(b, "archive")
    /\ UNCHANGED <<entry, workspaces, fcOwn>>

\* A shared workspace is refused only now, and the sandbox destroyed; when its own cannot
\* be emptied the sandbox stays.
FcClear(c) ==
    LET b == call[c].box IN
    /\ At(c, "clear") /\ Free
    /\ \/ EndPart(c, b \in Ephemeral, TRUE) /\ NoFault /\ UNCHANGED workspaces
       \/ /\ b \in Ephemeral
          /\ workspaces' \in {workspaces, workspaces \ {b}}
          /\ EndPart(c, FALSE, FALSE) /\ Fault(b, "clear")
    /\ UNCHANGED <<entry, fcOwn>>

FcUnpack(c) ==
    /\ At(c, "unpack")
    /\ \/ EndPart(c, TRUE, FALSE) /\ NoFault
       \/ EndPart(c, FALSE, TRUE) /\ Fault(call[c].box, "unpack")
    /\ UNCHANGED <<entry, workspaces, fcOwn>>

-----------------------------------------------------------------------------
(* destroy: the mutex is held from the first step to the last.             *)

\* A mutant of RemoveEntry: the refresh task is not aborted.
RemoveEntryOnly(c) ==
    LET b == call[c].box IN
    /\ At(c, "destroy") /\ Free
    /\ IF entry[b] = "none"
       THEN EndPart(c, FALSE, FALSE) /\ UNCHANGED <<entry, held>>
       ELSE /\ entry' = [entry EXCEPT ![b] = "none"]
            /\ held' = c
            /\ Place(c, IF b \in Networked THEN "untable" ELSE "kill")
    /\ NoFault /\ AgentAlone
    /\ UNCHANGED <<workspaces, vms, rules, syncs>>

RemoveEntry(c) ==
    LET b == call[c].box IN
    /\ At(c, "destroy") /\ Free
    /\ IF entry[b] = "none"
       THEN EndPart(c, FALSE, FALSE) /\ UNCHANGED <<entry, syncs, held>>
       ELSE /\ entry' = [entry EXCEPT ![b] = "none"]
            /\ syncs' = syncs \ {b}
            /\ held' = c
            /\ Place(c, IF b \in Networked THEN "untable" ELSE "kill")
    /\ NoFault /\ AgentAlone
    /\ UNCHANGED <<workspaces, vms, rules>>

\* FirewallManager::teardown; its error ends the destroy, and the VM runs on.
Teardown(c) ==
    LET b == call[c].box
        off == IF CallAt(c, "untable") THEN InTable ELSE {"set"}
    IN
    /\ CallAt(c, "untable") \/ CallAt(c, "unset")
    /\ \/ /\ rules' = [rules EXCEPT ![b] = @ \ off]
          /\ Place(c, IF CallAt(c, "untable") THEN "unset" ELSE "kill")
          /\ NoFault /\ UNCHANGED held
       \/ /\ Fault(b, "teardown") /\ EndPart(c, FALSE, FALSE)
          /\ held' = "none" /\ UNCHANGED rules
    /\ AgentAlone
    /\ UNCHANGED <<entry, workspaces, vms, syncs>>

TerminateVm(c) ==
    LET b == call[c].box IN
    /\ CallAt(c, "kill")
    /\ \/ vms' = vms \ {b} /\ Place(c, "clean") /\ NoFault /\ UNCHANGED held
       \/ /\ Fault(b, "terminate") /\ EndPart(c, FALSE, FALSE)
          /\ held' = "none" /\ UNCHANGED vms
    /\ AgentAlone
    /\ UNCHANGED <<entry, workspaces, rules, syncs>>

\* cleanup_agent_workspace
CleanWorkspace(c) ==
    LET b == call[c].box IN
    /\ CallAt(c, "clean")
    /\ held' = "none"
    /\ \/ workspaces' = workspaces \ {b} /\ EndPart(c, TRUE, FALSE) /\ NoFault
       \/ Fault(b, "workspace") /\ EndPart(c, FALSE, FALSE) /\ UNCHANGED workspaces
    /\ AgentAlone /\ VmAlone
    /\ UNCHANGED entry

-----------------------------------------------------------------------------
(* What goes wrong from outside.                                           *)

\* The client goes away.  What the call had under way on the host goes on by itself: a
\* process that is started or killed, a command of the firewall, a directory that is made or
\* removed; AskAgent says what the agent does.
FcDrop(c) ==
    LET b == call[c].box IN
    /\ DropCall(c)
    /\ held' = IF held = c THEN "none" ELSE held
    /\ vms' \in {vms, IF At(c, "create") THEN vms \cup {b}
                      ELSE IF CallAt(c, "kill") THEN vms \ {b} ELSE vms}
    /\ rules' \in {rules, [rules EXCEPT ![b] =
                              IF call[c].pc \in Commands THEN @ \cup {call[c].pc}
                              ELSE IF CallAt(c, "untable") THEN @ \ InTable
                              ELSE IF CallAt(c, "unset") THEN @ \ {"set"} ELSE @]}
    /\ workspaces' \in {workspaces, IF CallAt(c, "prepare") THEN workspaces \cup {b}
                                    ELSE IF CallAt(c, "clean") \/ (At(c, "clear") /\ b \in Ephemeral)
                                    THEN workspaces \ {b} ELSE workspaces}
    /\ AgentAlone
    /\ UNCHANGED <<entry, syncs>>

\* The VMs and the rules of the host outlive the server.
FcRestarts ==
    /\ faults < MaxFaults /\ faults' = faults + 1
    /\ blame' = [b \in Boxes |-> IF entry[b] # "none" \/ status[b] \in {"pending", "live"}
                                 THEN blame[b] \cup {"lost"} ELSE blame[b]]
    /\ ForgetCalls
    /\ syncs' = {} /\ rooted' = {}
    /\ held' = "none"
    /\ agent' = "off" /\ started' = FALSE
    /\ UNCHANGED <<workspaces, vms, rules>>

-----------------------------------------------------------------------------
FcGoesOn(c) ==
    \/ StartVm(c) \/ ApplyCommand(c) \/ ResolveAllowlist(c) \/ PrepareWorkspace(c)
    \/ InsertEntry(c) \/ Lookup(c) \/ ConnectAgent(c) \/ RetryAgent(c) \/ AskAgent(c)
    \/ FcInspect(c) \/ FcArchive(c) \/ FcClear(c) \/ FcUnpack(c)
    \/ RemoveEntry(c) \/ Teardown(c) \/ TerminateVm(c) \/ CleanWorkspace(c)

FcNext ==
    \/ \E c \in Calls :
          \/ \E op \in Operations, b \in Boxes : FcBegin(c, op, b)
          \/ FcGoesOn(c) \/ FcDrop(c)
    \/ AgentComesUp \/ AgentDies \/ FcRestarts

FcFairness == \A c \in Calls : SF_fcVars(FcGoesOn(c))

FcSpec == FcInit /\ [][FcNext]_fcVars /\ FcFairness

-----------------------------------------------------------------------------
FcTypeOK ==
    /\ CallsTypeOK
    /\ vms \subseteq Boxes /\ syncs \subseteq Boxes /\ rooted \subseteq Boxes
    /\ rules \in [Boxes -> SUBSET Commands]
    /\ held \in Calls \cup {"none"}
    /\ agent \in {"off", "starting", "on"}
    /\ started \in BOOLEAN

\* A sandbox that was created with an allowlist and is not destroyed has its drop rule in
\* force as long as its VM runs, but for the time between the tear-down and the end of a
\* destroy, which one that fails or is dropped there draws out for good (destroy).
Destroying(b) == \E c \in Calls : held = c /\ call[c].box = b

UnfilteredOnlyInPassing ==
    \A b \in Allowlisted \cap vms :
        status[b] = "live" /\ {"allow", "drop"} \cap rules[b] # {"allow", "drop"}
        => Destroying(b) \/ blame[b] \cap {"teardown", "terminate", "dropped", "lost"} # {}

\* A sandbox that destroy reported gone has no VM, no refresh task and no rule but the
\* shared masquerading, and no directory unless a call that had looked it up before came
\* to the agent after: AgentService makes the root of any id it is asked for.
FcDestroyedIsGone ==
    \A b \in Boxes :
        status[b] = "destroyed" =>
            /\ b \notin vms \cup syncs
            /\ rules[b] \subseteq {"masquerade"}
            /\ b \in workspaces => "late" \in blame[b]

\* A restore that was refused for its shared workspace, or whose archive could not be
\* unpacked, leaves nothing of the sandbox it created (restore_snapshot).
FcRestoreUndone ==
    \A b \in Boxes :
        status[b] = "failed" /\ blame[b] \subseteq {"unpack"} =>
            /\ b \notin vms \cup syncs \cup workspaces
            /\ rules[b] \subseteq {"masquerade"}

FcCallsReturn == \A c \in Calls : ~CallAt(c, "idle") ~> CallAt(c, "idle")
=============================================================================
