--------------------------- MODULE SandboxRequest ---------------------------
(***************************************************************************)
(* How a sandbox comes to be created as it was asked for: the server picks *)
(* a backend for its host when it starts (backend_factory.rs), the CLI     *)
(* resolves a network policy from a profile and flags and tells the user   *)
(* how it will be enforced (main.rs), the request goes over the wire       *)
(* (client.rs, grpc.rs), and the backend validates what has arrived.  The  *)
(* SDKs and other gRPC clients send theirs without the policy of the CLI.  *)
(***************************************************************************)
EXTENDS Naturals, FiniteSets

CONSTANTS Hosts,         \* the machines and environments a server may start on
          Requests       \* what users may ask for

Domains == {"plain", "second", "wildcard", "bad"}   \* "bad": Allowlist::parse refuses it

\* A NetworkMode; "unknown" is a number on the wire that is none of the three.
Mode(kind, domains) == [kind |-> kind, domains |-> domains]
NetworkModes == [kind : {"none", "full", "allowlist", "unknown"}, domains : SUBSET Domains]
Invalid == Mode("invalid", {})

ASSUME RequestAssumption ==
    /\ Hosts \subseteq
         [os : {"linux", "macos", "other"}, kvm : BOOLEAN, major : Nat, arm : BOOLEAN,
          container : BOOLEAN, found : BOOLEAN, wants : {"auto", "local", "firecracker", "apple"},
          helper : {"unset", "builtin", "external"},
          runtime : {"unset", "containerization", "virtualization"},
          dryRun : BOOLEAN, unenforced : BOOLEAN]
    /\ Requests \subseteq
         [by : {"cli", "sdk", "grpc"},
          profile : [name : {"absent", "locked", "web", "full", "file", "missing"},
                     network : {"none", "full", "allowlist", "other"}, allow : SUBSET Domains],
          network : {"absent", "none", "full", "allowlist", "unknown"},
          allow : SUBSET Domains, vcpus : Nat, timeout : Nat]
    /\ \A r \in Requests : /\ r.by = "cli" => r.vcpus < 256
                           /\ r.by # "grpc" => r.network # "unknown"

VARIABLES host,          \* where the server is to start
          server,        \* its BackendSelection, and what it finds on the host later
          info,          \* whether the client has got the ServerRuntimeInfo
          asked,         \* the user's request
          told,          \* EffectiveIsolationSummary: the mode and its enforcement
          config,        \* the SandboxConfig, on its way and at the server
          stage,         \* how far the request is
          details        \* what inspect_sandbox_details shows of the sandbox

requestVars == <<host, server, info, asked, told, config, stage, details>>

NoHost == [os |-> "none"]
NoServer == [backend |-> "none"]
NoRequest == [by |-> "none"]
NoSummary == [mode |-> Invalid, enforcement |-> "none"]
NoConfig == [mode |-> Invalid, vcpus |-> 0, timeout |-> 0]

RequestInit ==
    /\ host \in Hosts
    /\ server = NoServer /\ info = "none"
    /\ asked = NoRequest /\ told = NoSummary
    /\ config = NoConfig /\ details = NoConfig
    /\ stage = "none"

-----------------------------------------------------------------------------
(* The selection of the backend.                                           *)

SupportsVirtualization(h) == h.major >= 11 /\ h.arm
SupportsContainerization(h) == h.major >= 26 /\ h.arm /\ h.container

\* HYPERBOX_APPLE_HELPER, or this executable, or hyperbox on the path.
HelperCommand(h) ==
    IF h.helper # "unset" THEN h.helper ELSE IF h.found THEN "builtin" ELSE "none"

AppleRuntime(h) ==
    IF h.runtime # "unset" THEN h.runtime
    ELSE IF SupportsContainerization(h) \/ HelperCommand(h) = "builtin"
    THEN "containerization" ELSE "virtualization"

\* A mutant of RuntimeIsImplemented: the host's framework is not looked for.
RuntimeIsNamed(h) == HelperCommand(h) = "builtin" => AppleRuntime(h) = "containerization"

RuntimeIsImplemented(h) ==
    HelperCommand(h) = "builtin" =>
        AppleRuntime(h) = "containerization" /\ SupportsContainerization(h)

AppleUsable(h) ==
    SupportsVirtualization(h) /\ HelperCommand(h) # "none" /\ RuntimeIsImplemented(h)

Selected(h) ==
    CASE h.wants \in {"local", "firecracker"} -> h.wants
      [] h.wants = "apple" -> IF AppleUsable(h) THEN "apple" ELSE "unavailable"
      [] h.wants = "auto" /\ h.os = "linux" -> IF h.kvm THEN "firecracker" ELSE "unavailable"
      [] h.wants = "auto" /\ h.os = "macos" -> IF AppleUsable(h) THEN "apple" ELSE "unavailable"
      [] OTHER -> "unavailable"

\* serve_grpc; the apple fields are filled in when that backend was looked at.
Selection(h) ==
    LET looked == h.wants = "apple" \/ (h.wants = "auto" /\ h.os = "macos") IN
    [requested |-> h.wants, backend |-> Selected(h),
     runtime |-> IF looked THEN AppleRuntime(h) ELSE "none",
     helper |-> IF looked THEN HelperCommand(h) ELSE "none",
     forced |-> h.runtime # "unset", container |-> SupportsContainerization(h),
     dryRun |-> h.dryRun, unenforced |-> h.unenforced]

StartServer ==
    /\ host # NoHost
    /\ server' = Selection(host)
    /\ host' = NoHost
    /\ UNCHANGED <<info, asked, told, config, stage, details>>

-----------------------------------------------------------------------------
(* The policy of the CLI.                                                  *)

\* resolve_profile_network_defaults: a profile of the user's file may be wrong.
ProfileMode(p) ==
    CASE p.name \in {"absent", "locked"} -> Mode("none", {})
      [] p.name = "web" -> Mode("allowlist", {})
      [] p.name = "full" -> Mode("full", {})
      [] p.name = "missing" -> Invalid
      [] p.name = "file" ->
            IF p.network = "other" \/ (p.network # "allowlist" /\ p.allow # {}) \/ "bad" \in p.allow
            THEN Invalid ELSE Mode(p.network, p.allow)

\* --network: an allowlist keeps the domains of the profile.
Override(m, network) ==
    IF network = "absent" THEN m
    ELSE IF network = "allowlist" /\ m.kind = "allowlist" THEN m
    ELSE Mode(network, {})

\* --allow replaces the domains, and needs an allowlist.
Replaced(m, allow) ==
    IF allow = {} THEN m
    ELSE IF m.kind # "allowlist" \/ "bad" \in allow THEN Invalid
    ELSE Mode("allowlist", allow)

\* A mutant of ResolveNetworkPolicy: the domains of --allow are added to the profile's.
ResolveAdding(r) ==
    LET default == ProfileMode(r.profile)
        m == Replaced(Override(default, r.network), r.allow)
    IN  IF default = Invalid \/ m = Mode("allowlist", {}) THEN Invalid
        ELSE IF m.kind = "allowlist" THEN Mode("allowlist", m.domains \cup default.domains) ELSE m

ResolveNetworkPolicy(r) ==
    LET default == ProfileMode(r.profile)
        m == Replaced(Override(default, r.network), r.allow)
    IN  IF default = Invalid \/ m = Mode("allowlist", {}) THEN Invalid ELSE m

\* A mutant of NetworkEnforcement: every backend is taken to enforce the policy.
EnforcementAssumed(mode) ==
    IF info # "known" THEN "unknown"
    ELSE IF server.backend = "unavailable" THEN "unknown" ELSE "enforced"

\* network_enforcement_status, from the server's info.
NetworkEnforcement(mode) ==
    IF info # "known" \/ server.backend = "unavailable" THEN "unknown"
    ELSE IF server.backend = "local" THEN "not_enforced"
    ELSE IF server.backend = "apple" /\ mode.kind = "allowlist" /\ server.helper = "none"
    THEN "unsupported" ELSE "enforced"

-----------------------------------------------------------------------------
(* The client.                                                             *)

\* connect_client and load_server_info_best_effort: the call may fail.
LoadServerInfo ==
    /\ stage = "start" /\ info = "none"
    /\ info' \in {"known", "missing"}
    /\ UNCHANGED <<host, server, asked, told, config, stage, details>>

\* Command::Create, and Run without a sandbox: what the user is told, and the request.
AskCli(r) ==
    LET mode == ResolveNetworkPolicy(r)
        enforcement == NetworkEnforcement(mode)
    IN
    /\ stage = "start" /\ info # "none" /\ r.by = "cli"
    /\ asked' = r
    /\ IF mode = Invalid THEN stage' = "refused" /\ UNCHANGED <<told, config>>
       ELSE /\ told' = [mode |-> mode, enforcement |-> enforcement]
            /\ IF enforcement = "unsupported" THEN stage' = "refused" /\ UNCHANGED config
               ELSE /\ config' = [mode |-> mode, vcpus |-> r.vcpus, timeout |-> r.timeout]
                    /\ stage' = "sent"
    /\ UNCHANGED <<host, server, info, details>>

\* The SDKs put the caller's values on the wire, but domains only with an allowlist; other
\* clients of the protocol send what they like.
NetworkFields(r) ==
    Mode(r.network, IF r.by = "sdk" /\ r.network # "allowlist" THEN {} ELSE r.allow)

AskWire(r) ==
    /\ stage = "start" /\ info = "none" /\ r.by \in {"sdk", "grpc"}
    /\ asked' = r
    /\ config' = [mode |-> NetworkFields(r), vcpus |-> r.vcpus, timeout |-> r.timeout]
    /\ stage' = "sent"
    /\ UNCHANGED <<host, server, info, told, details>>

-----------------------------------------------------------------------------
(* The server.                                                             *)

DefaultVcpus == 1
DefaultTimeout == 60

ModeFromWire(m) ==
    IF m.kind \notin {"full", "allowlist"} THEN Mode("none", {})
    ELSE IF m.kind = "full" THEN Mode("full", {})
    ELSE IF "bad" \in m.domains THEN Invalid ELSE m

\* A mutant of FromWire: a zero is taken as it comes.
FromWireAsIs(c) ==
    [mode |-> ModeFromWire(c.mode), vcpus |-> c.vcpus % 256, timeout |-> c.timeout]

\* from_proto_config: zero is the default, and the vcpus are cut to eight bits after that.
FromWire(c) ==
    [mode |-> ModeFromWire(c.mode),
     vcpus |-> IF c.vcpus = 0 THEN DefaultVcpus ELSE c.vcpus % 256,
     timeout |-> IF c.timeout = 0 THEN DefaultTimeout ELSE c.timeout]

\* validate_config of the backend.
Refuses(m) ==
    \/ server.backend = "unavailable"
    \/ server.backend = "local" /\ m.kind # "none" /\ ~server.unenforced
    \/ /\ server.backend = "firecracker"
       /\ \/ m.kind # "none" /\ server.dryRun
          \/ m.kind = "allowlist" /\ (m.domains = {} \/ "wildcard" \in m.domains)
    \/ server.backend = "apple" /\ m.kind = "allowlist" /\ server.helper = "none"

\* AppleVzBackend::create looks at the host again.
LacksRuntime ==
    server.backend = "apple" /\ server.runtime = "containerization" /\ ~server.container

\* create_sandbox of the service and of HyperboxServer, with the decoding before it.
ReceiveCreate ==
    LET arrived == FromWire(config) IN
    /\ stage = "sent"
    /\ config' = arrived
    /\ stage' = IF arrived.mode = Invalid \/ Refuses(arrived.mode) THEN "refused"
                ELSE IF LacksRuntime THEN "lacking" ELSE "accepted"
    /\ UNCHANGED <<host, server, info, asked, told, details>>

\* The backend's create; the modules of the backends say how it goes.
CreateEnds ==
    /\ stage = "accepted"
    /\ stage' \in {"created", "refused"}
    /\ UNCHANGED <<host, server, info, asked, told, config, details>>

\* inspect_sandbox_details: the record goes back over the wire and is parsed again.
InspectDetails ==
    /\ stage = "created" /\ details = NoConfig
    /\ details' = [config EXCEPT !.mode = ModeFromWire(@), !.vcpus = @ % 256]
    /\ UNCHANGED <<host, server, info, asked, told, config, stage>>

RequestGoesOn ==
    \/ LoadServerInfo
    \/ \E r \in Requests : AskCli(r) \/ AskWire(r)
    \/ ReceiveCreate \/ CreateEnds \/ InspectDetails

-----------------------------------------------------------------------------
\* What a mode lets a sandbox reach, and what the commands of a created sandbox can reach.
\* Only the apple backend runs them inside what its rules filter: the local backend has no
\* rules, and the firecracker backend runs them in an agent of its own on the host, past
\* the rules of the VM.
Reach(m) == IF m.kind = "full" THEN Domains ELSE m.domains
Reached == IF server.backend = "apple" THEN Reach(config.mode) ELSE Domains

RequestTypeOK ==
    /\ server.backend \in {"none", "local", "firecracker", "apple", "unavailable"}
    /\ info \in {"none", "known", "missing"}
    /\ stage \in {"none", "start", "sent", "accepted", "lacking", "created", "refused"}
    /\ config.vcpus \in Nat
    /\ stage \in {"accepted", "created"} => config.mode \in NetworkModes /\ config.vcpus < 256

\* When a user was told that the policy is enforced, the backend has rules and was given a
\* policy no wider than the summary says, and the commands of the sandbox reach no more than
\* that, except with the firecracker backend: it tells the same, but its commands run on the
\* host and reach everything.  One who was told that the policy is not enforced has asked for
\* the local backend (build_effective_isolation_summary, network_enforcement_status,
\* validate_config).
EnforcementTold ==
    stage = "created" =>
        /\ told.enforcement = "enforced" =>
              /\ server.backend \in {"firecracker", "apple"}
              /\ Reach(config.mode) \subseteq Reach(told.mode)
              /\ Reached \subseteq Reach(told.mode) \/ server.backend = "firecracker"
        /\ told.enforcement = "not_enforced" => server.requested = "local"
        /\ told.enforcement # "unsupported"

\* A sandbox is never given a wider policy than the request names, through profile,
\* override, wire and validation: a flag beats the profile, and --allow alone says which
\* domains an allowlist has, which the CLI never sends empty (resolve_network_policy).
NetworkNeverWider ==
    stage = "created" =>
        /\ config.mode.domains \subseteq
              IF asked.allow # {} THEN asked.allow ELSE asked.profile.allow
        /\ asked.network # "absent" => config.mode.kind \in {asked.network, "none"}
        /\ asked.network = "absent" /\ asked.profile.name \in {"absent", "locked"} =>
              config.mode.kind = "none"
        /\ config.mode.kind # "allowlist" => config.mode.domains = {}
        /\ asked.by = "cli" => config.mode # Mode("allowlist", {})

\* A server runs without isolation only when that is asked for, and one that selected the
\* apple backend can run sandboxes, unless HYPERBOX_APPLE_RUNTIME forced a runtime on an
\* external helper (resolve_backend, AppleVzBackend::create).
SelectionIsSound ==
    /\ server.backend = "local" => server.requested = "local"
    /\ stage = "lacking" => server.helper = "external" /\ server.forced

\* A sandbox is created with the resources its request names, or the defaults for what it
\* leaves out, and shown with them, unless more vcpus are asked for than the record holds:
\* those are cut, to zero even (from_proto_config, inspect_sandbox_details).
ConfigArrives ==
    stage = "created" =>
        /\ asked.vcpus < 256 =>
              config.vcpus = IF asked.vcpus = 0 THEN DefaultVcpus ELSE asked.vcpus
        /\ config.vcpus = 0 => asked.vcpus >= 256
        /\ config.timeout = IF asked.timeout = 0 THEN DefaultTimeout ELSE asked.timeout
        /\ details # NoConfig => details = config
=============================================================================
