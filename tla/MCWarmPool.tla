---------------------------- MODULE MCWarmPool ----------------------------
(* Two clients, an automatic refill task and two sandbox ids.              *)
EXTENDS WarmPool

CONSTANTS c1, c2, f1, s1, s2

MCClients == {c1, c2}
MCFillers == {f1}
MCSandboxes == {s1, s2}
=============================================================================
