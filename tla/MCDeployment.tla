---------------------------- MODULE MCDeployment ----------------------------
(***************************************************************************)
(* A small instance of Deployment for TLC.                                 *)
(***************************************************************************)
EXTENDS Deployment

CONSTANTS b1, b2, c1, c2

MCServes == [backend \in Backends |-> [c \in {c1, c2} |->
    CASE backend = "apple" -> IF c = c1 THEN {"restore", "inspect"} ELSE {"create", "destroy"}
      [] backend = "firecracker" ->
            IF c = c1 THEN {"restore", "exec"} ELSE {"create", "destroy", "snapshot", "inspect"}
      [] backend = "local" ->
            IF c = c1 THEN {"restore", "exec", "write"}
            ELSE {"create", "inspect", "destroy", "read", "snapshot"}]]

MCOutputs == {<<>>, <<"a", "a", "a">>, <<"w1", "w2", "a">>, <<"a", "w1", "w2", "a">>}

MCMaxOutput == [s \in Streams |-> IF s = "stdout" THEN 3 ELSE 1]

\* Hosts with every capability and every variable of the environment.
PlainHost ==
    [os |-> "linux", kvm |-> FALSE, major |-> 0, arm |-> FALSE, container |-> FALSE,
     found |-> FALSE, wants |-> "auto", helper |-> "unset", runtime |-> "unset",
     dryRun |-> FALSE, unenforced |-> FALSE]

MCHosts ==
    {[PlainHost EXCEPT !.kvm = k, !.wants = w, !.dryRun = d, !.unenforced = ~d] :
        k \in BOOLEAN, w \in {"auto", "local", "firecracker"}, d \in BOOLEAN}
    \cup {[PlainHost EXCEPT !.os = "other"]}
    \cup {[PlainHost EXCEPT !.os = "macos", !.arm = a, !.major = v, !.container = t,
                            !.found = f, !.wants = w, !.helper = h, !.runtime = r] :
            a \in BOOLEAN, v \in {10, 15, 26}, t \in BOOLEAN, f \in BOOLEAN,
            w \in {"auto", "apple"}, h \in {"unset", "builtin", "external"},
            r \in {"unset", "containerization", "virtualization"}}

NoProfile == [name |-> "absent", network |-> "none", allow |-> {}]

Profiles ==
    [name : {"absent", "locked", "web", "full", "missing"}, network : {"none"}, allow : {{}}]
    \cup {[name |-> "file", network |-> "allowlist", allow |-> {"second"}],
          [name |-> "file", network |-> "none", allow |-> {"second"}],
          [name |-> "file", network |-> "full", allow |-> {}]}

Allows == {{}, {"plain"}, {"wildcard"}, {"bad"}}

\* Every profile with every flag, and the limits of the numbers on the wire.  A wildcard
\* and a bad domain come with an allowlist.
MCRequests ==
    [by : {"cli"}, profile : Profiles, network : {"absent", "none", "full", "allowlist"},
     allow : {{}, {"plain"}}, vcpus : {2}, timeout : {5}]
    \cup [by : {"cli"}, profile : {NoProfile}, network : {"allowlist"}, allow : Allows,
          vcpus : {2}, timeout : {5}]
    \cup [by : {"cli"}, profile : {NoProfile}, network : {"absent"}, allow : {{}},
          vcpus : {0, 255}, timeout : {0}]
    \cup [by : {"sdk"}, profile : {NoProfile}, network : {"none", "full", "allowlist"},
          allow : Allows, vcpus : {1}, timeout : {5}]
    \cup [by : {"grpc"}, profile : {NoProfile}, network : {"full", "unknown"},
          allow : {{}, {"plain"}}, vcpus : {1}, timeout : {5}]
    \cup [by : {"sdk"}, profile : {NoProfile}, network : {"none"}, allow : {{}},
          vcpus : {0, 256, 257}, timeout : {0}]
=============================================================================
