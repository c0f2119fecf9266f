------------------------------ MODULE DnsRelay ------------------------------
(***************************************************************************)
(* The name server of an allowlisted sandbox, which asks another one for   *)
(* the names that are allowed and denies the rest: ALLOWLIST_DNS_SCRIPT of *)
(* the apple helper (crates/hyperbox-cli/src/apple_helper.rs), and         *)
(* DnsAllowlistProxy (crates/hyperbox-network/src/dns_proxy.rs).  Both     *)
(* serve one query at a time.  The script keeps one socket to the upstream *)
(* and stops waiting after two seconds; the proxy opens a socket for each  *)
(* query, waits for as long as it takes, and ends at the first error.      *)
(*                                                                         *)
(* Queries are numbered as they arrive; answer i is upstream's to query i. *)
(***************************************************************************)
EXTENDS Naturals, Sequences

CONSTANTS Names,         \* names that are asked for
          AllowedNames,  \* ... those on the allowlist
          MaxQueries     \* queries (a bound)

ASSUME RelayAssumption == AllowedNames \subseteq Names /\ MaxQueries \in Nat

Garbled == "garbled"     \* a packet that is no query

VARIABLES relay,         \* "none", "sidecar", "proxy" or, once it has ended, "dead"
          queries,       \* the name of each query so far
          waiting,       \* queries in the server's socket
          current,       \* the query being served, 0 for none
          upstream,      \* queries that upstream has been sent and has not answered
          buffer,        \* answers in the socket to the upstream
          replies        \* what each query got, and to which query that is an answer

relayVars == <<relay, queries, waiting, current, upstream, buffer, replies>>

NoReply == [kind |-> "none", to |-> 0]
Denied == [kind |-> "denied", to |-> 0]

RelayInit ==
    /\ relay = "none"
    /\ queries = <<>> /\ waiting = <<>> /\ buffer = <<>>
    /\ current = 0
    /\ upstream = {}
    /\ replies = <<>>

StartRelay ==
    /\ relay = "none"
    /\ relay' \in {"sidecar", "proxy"}
    /\ UNCHANGED <<queries, waiting, current, upstream, buffer, replies>>

AskName(name) ==
    /\ relay \in {"sidecar", "proxy"} /\ Len(queries) < MaxQueries
    /\ queries' = Append(queries, name)
    /\ waiting' = Append(waiting, Len(queries'))
    /\ replies' = Append(replies, NoReply)
    /\ UNCHANGED <<relay, current, upstream, buffer>>

ReplyWith(i, what) == replies' = [replies EXCEPT ![i] = what]

-----------------------------------------------------------------------------
(* Receiving a query: deny it, or send it upstream.                        *)

Receive(i) ==
    /\ waiting # <<>> /\ current = 0
    /\ i = Head(waiting)
    /\ waiting' = Tail(waiting)

Deny(i) ==
    /\ Receive(i)
    /\ queries[i] \notin AllowedNames
    /\ \/ relay = "sidecar" \/ (relay = "proxy" /\ queries[i] # Garbled)
    /\ ReplyWith(i, Denied)
    /\ UNCHANGED <<relay, queries, current, upstream, buffer>>

\* A mutant of Forward: the name is not looked at.
ForwardUnchecked(i) ==
    /\ Receive(i)
    /\ relay \in {"sidecar", "proxy"}
    /\ current' = i
    /\ upstream' = upstream \cup {i}
    /\ buffer' = IF relay = "proxy" THEN <<>> ELSE buffer
    /\ UNCHANGED <<relay, queries, replies>>

\* The script's socket still holds what came too late; the proxy's is new.
Forward(i) ==
    /\ Receive(i)
    /\ queries[i] \in AllowedNames /\ relay \in {"sidecar", "proxy"}
    /\ current' = i
    /\ upstream' = upstream \cup {i}
    /\ buffer' = IF relay = "proxy" THEN <<>> ELSE buffer
    /\ UNCHANGED <<relay, queries, replies>>

\* A query that cannot be parsed or sent: the script denies, the proxy ends.
CannotForward(i) ==
    /\ Receive(i)
    /\ \/ /\ relay = "sidecar" /\ queries[i] \in AllowedNames
          /\ ReplyWith(i, Denied) /\ UNCHANGED relay
       \/ /\ relay = "proxy" /\ queries[i] \in AllowedNames \cup {Garbled}
          /\ relay' = "dead" /\ UNCHANGED replies
    /\ UNCHANGED <<queries, current, upstream, buffer>>

-----------------------------------------------------------------------------
(* The upstream, and waiting for it.                                       *)

\* An answer to a query whose socket the proxy has closed goes nowhere.
UpstreamAnswers(i) ==
    /\ i \in upstream
    /\ upstream' = upstream \ {i}
    /\ buffer' = IF relay = "sidecar" \/ i = current THEN Append(buffer, i) ELSE buffer
    /\ UNCHANGED <<relay, queries, waiting, current, replies>>

UpstreamLoses(i) ==
    /\ i \in upstream
    /\ upstream' = upstream \ {i}
    /\ UNCHANGED <<relay, queries, waiting, current, buffer, replies>>

\* recvfrom, whatever the datagram answers.
TakeAnswer ==
    /\ current # 0 /\ buffer # <<>>
    /\ ReplyWith(current, [kind |-> "answer", to |-> Head(buffer)])
    /\ buffer' = Tail(buffer)
    /\ current' = 0
    /\ UNCHANGED <<relay, queries, waiting, upstream>>

\* An answer that cannot be sent on, to which the script denies, or one the proxy cannot
\* parse or send, at which it ends.
SpoilAnswer ==
    /\ current # 0 /\ buffer # <<>>
    /\ \/ relay = "sidecar" /\ ReplyWith(current, Denied) /\ buffer' = Tail(buffer) /\ UNCHANGED relay
       \/ relay = "proxy" /\ relay' = "dead" /\ buffer' = <<>> /\ UNCHANGED replies
    /\ current' = 0
    /\ UNCHANGED <<queries, waiting, upstream>>

StopWaiting ==
    /\ relay = "sidecar" /\ current # 0 /\ buffer = <<>>
    /\ ReplyWith(current, Denied)
    /\ current' = 0
    /\ UNCHANGED <<relay, queries, waiting, upstream, buffer>>

RelayNext ==
    \/ StartRelay
    \/ \E name \in Names \cup {Garbled} : AskName(name)
    \/ \E i \in 1 .. MaxQueries :
          Deny(i) \/ Forward(i) \/ CannotForward(i) \/ UpstreamAnswers(i) \/ UpstreamLoses(i)
    \/ TakeAnswer \/ SpoilAnswer \/ StopWaiting

RelaySpec == RelayInit /\ [][RelayNext]_relayVars

-----------------------------------------------------------------------------
RelayTypeOK ==
    /\ relay \in {"none", "sidecar", "proxy", "dead"}
    /\ current \in 0 .. Len(queries)
    /\ upstream \subseteq 1 .. Len(queries)
    /\ \A i \in DOMAIN replies :
          replies[i] \in {NoReply, Denied} \cup [kind : {"answer"}, to : 1 .. Len(queries)]

\* An answer that reaches the sandbox is to a query for a name on the allowlist and goes to
\* no two queries; it is another query's than the one that gets it only in the script, once
\* it has stopped waiting for an answer that came after all, which puts it behind for good
\* (ALLOWLIST_DNS_SCRIPT, handle_query).
OwnAnswer ==
    \A i \in DOMAIN replies :
        LET a == replies[i].to IN
        replies[i].kind = "answer" =>
            /\ queries[a] \in AllowedNames
            /\ \A j \in DOMAIN replies : replies[j].to = a => j = i
            /\ a # i => /\ relay = "sidecar" /\ a < i
                        /\ \E j \in 1 .. i - 1 : queries[j] \in AllowedNames /\ replies[j] = Denied
=============================================================================
