----------------------------- MODULE Deployment -----------------------------
(***************************************************************************)
(* A server and the parts of hyperbox around it.  The server starts on a   *)
(* host and selects its backend; after that one part is followed at a      *)
(* time: a request that a sandbox be created, calls of the selected        *)
(* backend, the output of a process on its way to the user, a shell, or    *)
(* the name server of an allowlisted sandbox.  The parts share the         *)
(* selection and no other state, so that each is followed alone and what   *)
(* it does not look at is dropped.                                         *)
(***************************************************************************)
EXTENDS AppleBackend, Firecracker, LocalBackend, SandboxRequest, ProcessLog, AgentShell,
        DnsRelay, Allowlist, Metrics

VARIABLE part            \* what is followed, "none" before the choice

appleOwn == <<helperVars, sessionVars>>
deploymentVars == <<part, callVars, appleOwn, fcOwn, requestVars, logVars,
                    shellVars, relayVars>>

\* The pure functions, compared with their definitions over small inputs.
ASSUME ListsAssumption == ListsAgree(5)
ASSUME PercentilesAssumption == PercentilesAreRanked(5, 3)

DeploymentInit ==
    /\ part = "none"
    /\ AppleInit /\ FcInit /\ LocalInit
    /\ RequestInit /\ LogInit /\ ShellInit /\ RelayInit
    /\ builtin = (HelperCommand(host) = "builtin")

\* Whose shells go over the agent's stream; the others are processes of the CLI
\* (open_shell_with_client).
ShellStreams ==
    \/ server.backend = "firecracker"
    \/ server.backend = "apple" /\ server.helper = "external"

Available(p) ==
    CASE p = "request" -> TRUE
      [] p \in {"apple", "firecracker", "local"} -> server.backend = p
      [] p = "shell" -> ShellStreams
      [] p = "log" -> server.backend # "unavailable"
      [] p = "relay" -> server.backend = "apple" /\ server.helper = "builtin"

Choose(p) ==
    /\ part = "none" /\ server # NoServer
    /\ Available(p)
    /\ part' = p
    /\ IF p = "request" THEN stage' = "start" /\ UNCHANGED server
       ELSE server' = NoServer /\ UNCHANGED stage
    /\ builtin' = (p = "apple" /\ builtin)
    /\ UNCHANGED <<callVars, helperVars, session, mutex, torn, strays, fcOwn, host,
                   info, asked, told, config, details, logVars, shellVars, relayVars>>

-----------------------------------------------------------------------------
\* The parts.
OthersThanRequest == UNCHANGED <<callVars, appleOwn, fcOwn, logVars, shellVars, relayVars>>
OthersThanBackends == UNCHANGED <<requestVars, logVars, shellVars, relayVars>>
OthersThanApple == UNCHANGED fcOwn /\ OthersThanBackends
OthersThanFc == UNCHANGED appleOwn /\ OthersThanBackends
OthersThanLocal == UNCHANGED <<appleOwn, fcOwn>> /\ OthersThanBackends
NoBackend == UNCHANGED <<callVars, appleOwn, fcOwn, requestVars>>

In(p) == part = p /\ UNCHANGED part

Starts == StartServer /\ part = "none" /\ UNCHANGED part /\ OthersThanRequest
RequestPart == In("request") /\ RequestGoesOn /\ OthersThanRequest
ApplePart == In("apple") /\ AppleNext /\ OthersThanApple
FcPart == In("firecracker") /\ FcNext /\ OthersThanFc
LocalPart == In("local") /\ LocalNext /\ OthersThanLocal
LogPart == In("log") /\ LogNext /\ NoBackend /\ UNCHANGED <<shellVars, relayVars>>
ShellPart == In("shell") /\ ShellNext /\ NoBackend /\ UNCHANGED <<logVars, relayVars>>
RelayPart == In("relay") /\ RelayNext /\ NoBackend /\ UNCHANGED <<logVars, shellVars>>

DeploymentNext ==
    \/ Starts
    \/ \E p \in {"request", "apple", "firecracker", "local", "shell", "log", "relay"} : Choose(p)
    \/ RequestPart \/ ApplePart \/ FcPart \/ LocalPart \/ LogPart \/ ShellPart \/ RelayPart

\* One call goes on, and the task that each part has besides its calls: the helper, the
\* command that reads a log, or the service of a shell.
CallStep(c) ==
    \/ In("apple") /\ CallGoesOn(c) /\ OthersThanApple
    \/ In("firecracker") /\ FcGoesOn(c) /\ OthersThanFc
    \/ In("local") /\ LocalGoesOn(c) /\ OthersThanLocal

TaskStep ==
    \/ In("apple") /\ HelperGoesOn /\ OthersThanApple
    \/ In("log") /\ LogGoesOn /\ NoBackend /\ UNCHANGED <<shellVars, relayVars>>
    \/ In("shell") /\ ServiceGoesOn /\ NoBackend /\ UNCHANGED <<logVars, relayVars>>

\* Tasks are scheduled, and the locks the calls wait for are fair.  The rest of the shell
\* has the fairness of its module.
DeploymentFairness ==
    /\ WF_deploymentVars(TaskStep)
    /\ \A c \in Calls : SF_deploymentVars(CallStep(c))
    /\ PeersFairness

DeploymentSpec == DeploymentInit /\ [][DeploymentNext]_deploymentVars /\ DeploymentFairness

-----------------------------------------------------------------------------
DeploymentTypeOK ==
    /\ AppleTypeOK /\ FcTypeOK /\ LocalTypeOK
    /\ RequestTypeOK /\ LogTypeOK /\ ShellTypeOK /\ RelayTypeOK

\* FcDestroyedIsGone and LocalDestroyedIsGone, for the backend that is followed.
FcDestroyIsComplete == part = "firecracker" => FcDestroyedIsGone
LocalDestroyIsComplete == part = "local" => LocalDestroyedIsGone

\* A restore that fails of itself leaves nothing of the sandbox it has created, with
\* firecracker and with the local backend (restore_snapshot).
RestoreUndone ==
    /\ part = "firecracker" => FcRestoreUndone
    /\ part = "local" => LocalRestoreUndone

\* Who waits for what: a call of a backend for its return; the user for the end of a shell
\* whose input is closed, but not while a background process holds its outputs, and for
\* the end of a command that reads the log of a process that has ended.
UserWaits ==
    \/ user \in {"closed", "left"} /\ feeder # "over" /\ ~holder
    \/ proc = "ended" /\ cli \notin Ended

Waits(c) == ~CallAt(c, "idle") \/ UserWaits

=============================================================================
