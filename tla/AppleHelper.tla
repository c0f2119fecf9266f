----------------------------- MODULE AppleHelper -----------------------------
(***************************************************************************)
(* The built-in Apple helper (crates/hyperbox-cli/src/apple_helper.rs): a  *)
(* process that reads one request line after another, runs the container   *)
(* CLI for each and writes one response line.  What the CLI keeps are a    *)
(* container per sandbox, and for a sandbox with an allowlist a network    *)
(* and a DNS sidecar; on the host's disk there is a workspace directory.   *)
(*                                                                         *)
(* Every CLI command may fail, or be killed at its timeout when it may     *)
(* have done its work all the same: the set it changes is then left either *)
(* way.  blame remembers which commands failed for a sandbox; no action    *)
(* looks at it.                                                            *)
(***************************************************************************)
EXTENDS BackendCalls

VARIABLES containers, networks, sidecars,  \* what the container CLI keeps, by sandbox
          known,         \* AppleHelper::sandboxes
          running,       \* the helper process is alive
          inbox, outbox, \* its standard input and output, in lines
          job            \* the request in hand and the step it is at

world == <<containers, networks, sidecars>>
pipes == <<inbox, outbox>>
helperVars == <<world, known, running, pipes, job>>

Replies == {"ack", "exec", "exit", "read", "inspect", "error"}
Steps == {"idle", "workspace", "network", "gateway", "sidecar", "address", "container",
          "sidecar_off", "network_off", "delete", "workspace_off", "command", "blocked"}

NoJob == [op |-> "none", box |-> "none", for |-> "none", step |-> "idle"]

HelperInit ==
    /\ containers = {} /\ networks = {} /\ sidecars = {}
    /\ known = {}
    /\ running = FALSE
    /\ inbox = <<>> /\ outbox = <<>>
    /\ job = NoJob

\* What no step of the helper touches.
BackendAlone == UNCHANGED <<entry, call, status>>

-----------------------------------------------------------------------------
\* handle_request and the write that follows it in run_loop.
Reply(kind) ==
    /\ outbox' = Append(outbox, [kind |-> kind, for |-> job.for])
    /\ job' = NoJob

Step(next) ==
    /\ job' = [job EXCEPT !.step = next]
    /\ UNCHANGED outbox

HelperAt(step) == running /\ job.step = step

\* run_loop takes a line off its input: a request that cannot be served is answered at
\* once, a line that is no request is answered by an error too.
Answered(request) ==
    \/ request.op = "torn"
    \/ request.op = "create" /\ request.box \in known
    \/ request.op # "create" /\ request.box \notin known

FirstStep(op) ==
    CASE op = "create" -> "workspace"
      [] op = "destroy" -> "delete"
      [] OTHER -> "command"

\* A mutant of NextLine: a line that is no request is passed over.
NextLineSkips ==
    LET request == Head(inbox) IN
    /\ HelperAt("idle")
    /\ inbox # <<>>
    /\ inbox' = Tail(inbox)
    /\ IF request.op = "torn"
       THEN UNCHANGED <<outbox, job, known>>
       ELSE IF Answered(request)
       THEN /\ outbox' = Append(outbox, [kind |-> IF request.op = "destroy" THEN "ack" ELSE "error",
                                         for |-> request.for])
            /\ UNCHANGED <<job, known>>
       ELSE /\ job' = [op |-> request.op, box |-> request.box, for |-> request.for,
                       step |-> FirstStep(request.op)]
            /\ known' = IF request.op = "destroy" THEN known \ {request.box} ELSE known
            /\ UNCHANGED outbox
    /\ NoFault
    /\ BackendAlone
    /\ UNCHANGED <<world, workspaces, running>>

NextLine ==
    LET request == Head(inbox) IN
    /\ HelperAt("idle")
    /\ inbox # <<>>
    /\ inbox' = Tail(inbox)
    /\ IF Answered(request)
       THEN /\ outbox' = Append(outbox, [kind |-> IF request.op = "destroy" THEN "ack" ELSE "error",
                                         for |-> request.for])
            /\ UNCHANGED <<job, known>>
       ELSE /\ job' = [op |-> request.op, box |-> request.box, for |-> request.for,
                       step |-> FirstStep(request.op)]
            /\ known' = IF request.op = "destroy" THEN known \ {request.box} ELSE known
            /\ UNCHANGED outbox
    /\ NoFault
    /\ BackendAlone
    /\ UNCHANGED <<world, workspaces, running>>

-----------------------------------------------------------------------------
(* create_sandbox, with setup_allowlist_runtime and start_container.       *)

MakeWorkspace ==
    /\ HelperAt("workspace")
    /\ \/ /\ workspaces' = workspaces \cup Own(job.box)
          /\ Step(IF job.box \in Allowlisted THEN "network" ELSE "container")
          /\ NoFault
       \/ Fault(job.box, "workspace") /\ Reply("error") /\ UNCHANGED workspaces
    /\ BackendAlone
    /\ UNCHANGED <<world, known, running, inbox>>

\* Up to here a failure undoes nothing.
CreateNetwork ==
    /\ HelperAt("network")
    /\ \/ networks' = networks \cup {job.box} /\ Step("gateway") /\ NoFault
       \/ /\ networks' \in {networks, networks \cup {job.box}}
          /\ Reply("error") /\ Fault(job.box, "network")
    /\ BackendAlone
    /\ UNCHANGED <<containers, sidecars, workspaces, known, running, inbox>>

\* inspect_network_gateway and inspect_container_ipv4, around the start of the sidecar.
InspectRuntime ==
    /\ HelperAt("gateway") \/ HelperAt("address")
    /\ \/ Step(IF job.step = "gateway" THEN "sidecar" ELSE "container") /\ NoFault
       \/ Step("sidecar_off") /\ Fault(job.box, "inspect")
    /\ BackendAlone
    /\ UNCHANGED <<world, workspaces, known, running, inbox>>

RunSidecar ==
    /\ HelperAt("sidecar")
    /\ \/ sidecars' = sidecars \cup {job.box} /\ Step("address") /\ NoFault
       \/ /\ sidecars' \in {sidecars, sidecars \cup {job.box}}
          /\ Step("sidecar_off") /\ Fault(job.box, "sidecar")
    /\ BackendAlone
    /\ UNCHANGED <<containers, networks, workspaces, known, running, inbox>>

\* A mutant of RunContainer: the allowlist runtime is not torn down again.
RunContainerOnly ==
    /\ HelperAt("container")
    /\ \/ /\ containers' = containers \cup {job.box}
          /\ known' = known \cup {job.box}
          /\ Reply("ack") /\ NoFault
       \/ /\ containers' \in {containers, containers \cup {job.box}}
          /\ Fault(job.box, "run") /\ Reply("error") /\ UNCHANGED known
    /\ BackendAlone
    /\ UNCHANGED <<networks, sidecars, workspaces, running, inbox>>

RunContainer ==
    /\ HelperAt("container")
    /\ \/ /\ containers' = containers \cup {job.box}
          /\ known' = known \cup {job.box}
          /\ Reply("ack") /\ NoFault
       \/ /\ containers' \in {containers, containers \cup {job.box}}
          /\ Fault(job.box, "run")
          /\ IF job.box \in Allowlisted THEN Step("sidecar_off") ELSE Reply("error")
          /\ UNCHANGED known
    /\ BackendAlone
    /\ UNCHANGED <<networks, sidecars, workspaces, running, inbox>>

-----------------------------------------------------------------------------
(* teardown_allowlist_runtime, whose errors nobody sees: after a create that *)
(* failed and in a destroy.                                                  *)

RemoveSidecar ==
    /\ HelperAt("sidecar_off")
    /\ \/ sidecars' = sidecars \ {job.box} /\ NoFault
       \/ sidecars' \in {sidecars, sidecars \ {job.box}} /\ Fault(job.box, "teardown")
    /\ Step("network_off")
    /\ BackendAlone
    /\ UNCHANGED <<containers, networks, workspaces, known, running, inbox>>

RemoveNetwork ==
    /\ HelperAt("network_off")
    /\ \/ networks' = networks \ {job.box} /\ NoFault
       \/ networks' \in {networks, networks \ {job.box}} /\ Fault(job.box, "teardown")
    /\ IF job.op = "create" THEN Reply("error") ELSE Step("workspace_off")
    /\ BackendAlone
    /\ UNCHANGED <<containers, sidecars, workspaces, known, running, inbox>>

-----------------------------------------------------------------------------
(* destroy_sandbox: the sandbox is out of the map before the delete.       *)

DeleteContainer ==
    /\ HelperAt("delete")
    /\ \/ /\ containers' = containers \ {job.box}
          /\ Step(IF job.box \in Allowlisted THEN "sidecar_off" ELSE "workspace_off")
          /\ NoFault
       \/ /\ containers' \in {containers, containers \ {job.box}}
          /\ Reply("error") /\ Fault(job.box, "delete")
    /\ BackendAlone
    /\ UNCHANGED <<networks, sidecars, workspaces, known, running, inbox>>

RemoveWorkspace ==
    /\ HelperAt("workspace_off")
    /\ \/ workspaces' = workspaces \ Own(job.box) /\ Reply("ack") /\ NoFault
       \/ /\ job.box \in Ephemeral
          /\ Reply("error") /\ Fault(job.box, "workspace") /\ UNCHANGED workspaces
    /\ BackendAlone
    /\ UNCHANGED <<world, known, running, inbox>>

-----------------------------------------------------------------------------
(* exec, read_file, write_file and inspect_sandbox.                        *)

\* exec reports an exit code, here that of a CLI that found no container too; the others
\* report an error.
ReplyTo(op, up) ==
    CASE op = "exec" -> IF up THEN "exec" ELSE "exit"
      [] op = "read" /\ up -> "read"
      [] op = "write" /\ up -> "ack"
      [] op = "inspect" /\ up -> "inspect"
      [] OTHER -> "error"

\* A mutant of RunCommand: a sandbox is forgotten whose command was killed at its timeout.
RunCommandForgets ==
    /\ HelperAt("command")
    /\ \/ /\ Reply(ReplyTo(job.op, job.box \in containers))
          /\ known' = IF job.op = "inspect" /\ job.box \notin containers
                      THEN known \ {job.box} ELSE known
          /\ NoFault
       \/ Reply("error") /\ Fault(job.box, "timeout") /\ known' = known \ {job.box}
    /\ BackendAlone
    /\ UNCHANGED <<world, workspaces, running, inbox>>

\* A write hands its data to tee, in full and under no timeout, before anybody reads what
\* tee repeats of them: more than the pipes hold block it as long as the container is up.
RunCommand ==
    LET up == job.box \in containers IN
    /\ HelperAt("command") \/ (HelperAt("blocked") /\ ~up)
    /\ \/ /\ Reply(ReplyTo(job.op, up))
          /\ known' = IF job.op = "inspect" /\ ~up THEN known \ {job.box} ELSE known
          /\ NoFault
       \/ /\ HelperAt("command")
          /\ Reply("error") /\ Fault(job.box, "timeout") /\ UNCHANGED known
       \/ /\ job.op = "write" /\ up
          /\ Step("blocked") /\ NoFault /\ UNCHANGED known
    /\ BackendAlone
    /\ UNCHANGED <<world, workspaces, running, inbox>>

HelperStep ==
    \/ NextLine \/ MakeWorkspace \/ CreateNetwork \/ InspectRuntime \/ RunSidecar
    \/ RunContainer \/ RemoveSidecar \/ RemoveNetwork \/ DeleteContainer
    \/ RemoveWorkspace \/ RunCommand

\* The process dies, of itself or with the server.  The command in hand runs on without
\* it; what the helper knew is lost, what it has written can still be read.
Unfinished ==
    CASE job.step = "container" -> containers \cup {job.box}
      [] job.step = "delete" -> containers \ {job.box}
      [] OTHER -> containers

Dies(also) ==
    /\ running' = FALSE
    /\ known' = {}
    /\ inbox' = <<>>
    /\ job' = NoJob
    /\ containers' \in {containers, Unfinished}
    /\ faults < MaxFaults
    /\ faults' = faults + 1
    /\ blame' = [b \in Boxes |-> IF b \in known \cup also \cup {job.box}
                                 THEN blame[b] \cup {"lost"} ELSE blame[b]]
    /\ UNCHANGED <<networks, sidecars, workspaces>>

HelperTypeOK ==
    /\ containers \subseteq Boxes
    /\ networks \subseteq Allowlisted
    /\ sidecars \subseteq Allowlisted
    /\ known \subseteq Boxes
    /\ running \in BOOLEAN
    /\ job.op \in Operations \cup {"none"}
    /\ job.box \in Boxes \cup {"none"}
    /\ job.step \in Steps

\* No allowlist network and no DNS sidecar outlives its sandbox, whichever command of
\* create_sandbox failed, unless the network's creation itself, the container's deletion
\* or the tear-down failed, the helper died, a call was dropped (a destroy may be, when
\* it has deleted the container and not yet the network), or the container went by itself:
\* an inspect then forgets the session and with it what was set up beside the container.
NoStrayNetwork ==
    \A b \in networks \cup sidecars :
        b \in known \/ b = job.box
        \/ blame[b] \cap {"network", "delete", "teardown", "lost", "dropped", "vanished"} # {}
=============================================================================
