---------------------------- MODULE AppleBackend ----------------------------
(***************************************************************************)
(* AppleVzBackend (crates/hyperbox-apple/src/backend.rs) with its helper   *)
(* process at the other end of two pipes.  With the built-in helper a      *)
(* sandbox without an allowlist is run directly by the container CLI; all  *)
(* others are the helper's.  Calls are tasks that run concurrently, any of *)
(* which may be dropped at an await when its client goes away.             *)
(*                                                                         *)
(* One helper session serves all sandboxes, under a mutex: a call first    *)
(* makes sure of a session, then takes the mutex again for the exchange.   *)
(* Lines carry no request id; for is a history of whose line it is.        *)
(***************************************************************************)
EXTENDS AppleHelper

VARIABLES builtin,       \* direct_container_bin is set: the helper is the built-in one
          session,       \* AppleVzBackend::helper_session is Some
          mutex,         \* who holds its lock over an exchange
          torn,          \* part of a line is in the helper's standard input
          strays         \* history: requests of this session that nobody waits for

sessionVars == <<builtin, session, mutex, torn, strays>>
appleVars == <<callVars, helperVars, sessionVars>>

\* create_snapshot and restore_snapshot are made of the backend's own operations; the
\* last of them removes the archive, and its failure is ignored.
Parts(op) ==
    CASE op = "snapshot" -> <<"exec", "read", "exec">>
      [] op = "restore" -> <<"create", "write", "exec", "exec">>
      [] OTHER -> <<op>>

AppleInit ==
    /\ CallsInit
    /\ HelperInit
    /\ builtin \in BOOLEAN
    /\ session = FALSE
    /\ mutex = "none"
    /\ torn = FALSE
    /\ strays = 0

Direct(b) == builtin /\ b \notin Allowlisted

-----------------------------------------------------------------------------
(* The end of a part of a call, and what starts the first.                 *)

\* A mutant of PartDone: restore_snapshot returns the error of any part as it is.
PartDoneOnly(c, ok) ==
    LET ignored == Len(call[c].todo) = 1 /\ call[c].op \in {"snapshot", "restore"}
    IN  EndPart(c, ok \/ ignored, FALSE)

\* restore_snapshot undoes what it has created when a later part fails.
PartDone(c, ok) ==
    LET ignored == Len(call[c].todo) = 1 /\ call[c].op \in {"snapshot", "restore"}
    IN  EndPart(c, ok \/ ignored, call[c].op = "restore" /\ Part(c) # "create")

\* What a call leaves alone that stays within the backend.
HelperAlone == UNCHANGED <<known, running, pipes, job>>
SessionAlone == UNCHANGED sessionVars

Begin(c, op, b) ==
    /\ BeginCall("apple", c, op, b, Parts(op))
    /\ op = "snapshot" => entry[b] # "none"
    /\ HelperAlone /\ SessionAlone /\ NoFault
    /\ UNCHANGED <<world, entry, workspaces>>

\* Where the entry sends an operation.  read_file, write_file and exec try the container
\* of a sandbox that has no entry before they ask the helper for it.
Route(c, b) ==
    CASE Part(c) = "create" -> IF Direct(b) THEN "run" ELSE "ensure"
      [] Part(c) = "destroy" -> IF entry[b] = "direct" THEN "delete"
                                ELSE IF entry[b] = "helper" THEN "ensure" ELSE "recover"
      [] OTHER -> IF entry[b] = "direct" THEN "cli"
                  ELSE IF entry[b] = "none" /\ builtin THEN "fallback" ELSE "ensure"

\* destroy and inspect of a sandbox that has no entry fail at once without the CLI.
Unroutable(c, b) == ~builtin /\ entry[b] = "none" /\ Part(c) \in {"destroy", "inspect"}

\* restore_snapshot copies the archive on the host, for the helper to write it; an error
\* of that leaves the sandbox where it is.
Copies(c) == call[c].op = "restore" /\ Part(c) = "write"

Dispatch(c) ==
    LET b == call[c].box IN
    /\ CallAt(c, "dispatch")
    /\ entry' = IF Part(c) = "destroy" THEN [entry EXCEPT ![b] = "none"] ELSE entry
    /\ \/ Copies(c) /\ Fault(b, "copy") /\ ReturnCall(c, FALSE)
       \/ Copies(c) /\ entry[b] = "direct" /\ PartDone(c, TRUE) /\ NoFault
       \/ Unroutable(c, b) /\ PartDone(c, FALSE) /\ NoFault
       \/ /\ ~Unroutable(c, b) /\ ~(Copies(c) /\ entry[b] = "direct")
          /\ Place(c, Route(c, b)) /\ NoFault
    /\ HelperAlone /\ SessionAlone
    /\ UNCHANGED <<world, workspaces>>

-----------------------------------------------------------------------------
(* The container CLI.                                                      *)

\* create_direct_container, and the entry.
CreateDirect(c) ==
    LET b == call[c].box IN
    /\ CallAt(c, "run")
    /\ workspaces' = workspaces \cup Own(b)
    /\ \/ /\ containers' = containers \cup {b}
          /\ entry' = [entry EXCEPT ![b] = "direct"]
          /\ PartDone(c, TRUE) /\ NoFault
       \/ /\ containers' \in {containers, containers \cup {b}}
          /\ PartDone(c, FALSE) /\ Fault(b, "run") /\ UNCHANGED entry
    /\ HelperAlone /\ SessionAlone
    /\ UNCHANGED <<networks, sidecars>>

\* A write of more than the pipes hold is blocked here as it is in the helper (RunCommand).
Overfills(c) == Part(c) = "write" /\ call[c].box \in containers /\ Place(c, "blocked")

\* exec_in_container, read_file_in_container, write_file_in_container and
\* inspect_container_fallback, none of which changes anything the others can see.
AccessDirect(c) ==
    LET b == call[c].box IN
    /\ CallAt(c, "cli") \/ (CallAt(c, "blocked") /\ b \notin containers)
    /\ \/ PartDone(c, b \in containers) /\ NoFault
       \/ CallAt(c, "cli") /\ PartDone(c, FALSE) /\ Fault(b, "timeout")
       \/ Overfills(c) /\ NoFault
    /\ HelperAlone /\ SessionAlone
    /\ UNCHANGED <<world, entry, workspaces>>

Fallback(c) ==
    LET b == call[c].box IN
    /\ CallAt(c, "fallback")
    /\ \/ /\ b \in containers \/ Part(c) = "inspect"
          /\ PartDone(c, b \in containers) /\ NoFault
       \/ /\ b \notin containers /\ Part(c) # "inspect"
          /\ Place(c, "ensure") /\ NoFault
       \/ PartDone(c, FALSE) /\ Fault(b, "timeout")
       \/ Overfills(c) /\ NoFault
    /\ HelperAlone /\ SessionAlone
    /\ UNCHANGED <<world, entry, workspaces>>

\* destroy_direct_container: the container, then the workspace if it is hyperbox's own.
DestroyDirect(c) ==
    LET b == call[c].box IN
    /\ CallAt(c, "delete")
    /\ \/ /\ containers' = containers \ {b}
          /\ workspaces' = workspaces \ Own(b)
          /\ PartDone(c, TRUE) /\ NoFault
       \/ /\ containers' \in {containers, containers \ {b}}
          /\ PartDone(c, FALSE) /\ Fault(b, "delete") /\ UNCHANGED workspaces
       \/ /\ b \in Ephemeral
          /\ containers' = containers \ {b}
          /\ PartDone(c, FALSE) /\ Fault(b, "workspace") /\ UNCHANGED workspaces
    /\ HelperAlone /\ SessionAlone
    /\ UNCHANGED <<networks, sidecars, entry>>

\* A mutant of DestroyUnknown: an id that has no entry counts as destroyed.
DestroyUnknownNot(c) ==
    /\ CallAt(c, "recover")
    /\ PartDone(c, TRUE) /\ NoFault
    /\ HelperAlone /\ SessionAlone
    /\ UNCHANGED <<world, entry, workspaces>>

\* destroy without an entry: the container by its name, and the sidecar and network the
\* helper may have given it, whose deletion may fail unseen.
DestroyUnknown(c) ==
    LET b == call[c].box IN
    /\ CallAt(c, "recover")
    /\ \/ /\ containers' = containers \ {b}
          /\ sidecars' = sidecars \ {b}
          /\ networks' = networks \ {b}
          /\ PartDone(c, TRUE) /\ NoFault
       \/ /\ containers' = containers \ {b}
          /\ sidecars' \in {sidecars, sidecars \ {b}}
          /\ networks' \in {networks, networks \ {b}}
          /\ PartDone(c, TRUE) /\ Fault(b, "teardown")
       \/ /\ containers' \in {containers, containers \ {b}}
          /\ PartDone(c, FALSE) /\ Fault(b, "delete") /\ UNCHANGED <<sidecars, networks>>
    /\ HelperAlone /\ SessionAlone
    /\ UNCHANGED <<workspaces, entry>>

-----------------------------------------------------------------------------
(* helper_request.                                                         *)

\* ensure_helper_session: the mutex is held only while it looks, and spawns.
Ensure(c) ==
    /\ CallAt(c, "ensure")
    /\ mutex = "none"
    /\ \/ /\ Place(c, "lock") /\ NoFault
          /\ session' = TRUE
          /\ IF session
             THEN UNCHANGED <<running, pipes, torn, strays>>
             ELSE /\ running' = TRUE
                  /\ inbox' = <<>> /\ outbox' = <<>>
                  /\ torn' = FALSE
                  /\ strays' = 0
       \/ /\ ~session
          /\ PartDone(c, FALSE) /\ Fault(call[c].box, "spawn")
          /\ UNCHANGED <<session, running, pipes, torn, strays>>
    /\ UNCHANGED <<world, known, job, builtin, entry, workspaces, mutex>>

\* A mutant of Lock: the mutex is not kept for the exchange.
LockShared(c) ==
    /\ CallAt(c, "lock")
    /\ session
    /\ Place(c, "write")
    /\ HelperAlone /\ NoFault
    /\ SessionAlone
    /\ UNCHANGED <<world, entry, workspaces>>

\* The mutex once more; another call may have reset the session meanwhile.
Lock(c) ==
    /\ CallAt(c, "lock")
    /\ mutex = "none"
    /\ IF session
       THEN mutex' = c /\ Place(c, "write")
       ELSE PartDone(c, FALSE) /\ UNCHANGED mutex
    /\ HelperAlone /\ NoFault
    /\ UNCHANGED <<world, builtin, entry, workspaces, session, torn, strays>>

\* History: an earlier call that was dropped got in the way of this one.
Crossed(c, so) ==
    blame' = IF so THEN [blame EXCEPT ![call[c].box] = @ \cup {"crossed"}] ELSE blame

\* AppleHelperSession::request, its first half.  The line goes on where a torn one ended.
WriteRequest(c) ==
    /\ CallAt(c, "write")
    /\ running
    /\ inbox' = Append(inbox, [op |-> IF torn THEN "torn" ELSE Part(c), box |-> call[c].box,
                               for |-> c])
    /\ torn' = FALSE
    /\ Place(c, "read")
    /\ Crossed(c, torn)
    /\ UNCHANGED <<world, known, running, outbox, job, faults, builtin, entry, workspaces, session,
                   mutex, strays>>

\* The second half.  A response of the wrong kind is an error that leaves the session as
\* it is, and destroy looks at no response at all.
Expected(op) ==
    CASE op \in {"create", "write"} -> {"ack"}
      [] op = "destroy" -> Replies
      [] OTHER -> {op}

ReadReply(c) ==
    LET b == call[c].box
        ok == Head(outbox).kind \in Expected(Part(c))
    IN
    /\ CallAt(c, "read")
    /\ outbox # <<>>
    /\ outbox' = Tail(outbox)
    /\ mutex' = "none"
    /\ entry' = IF Part(c) = "create" /\ ok THEN [entry EXCEPT ![b] = "helper"] ELSE entry
    /\ PartDone(c, ok)
    /\ Crossed(c, strays > 0)
    /\ UNCHANGED <<world, known, running, inbox, job, faults, workspaces, builtin, session, torn,
                   strays>>


\* A broken pipe, or the end of the helper's output: the session is dropped.
ResetSession(c) ==
    /\ CallAt(c, "write") \/ (CallAt(c, "read") /\ outbox = <<>>)
    /\ ~running
    /\ session' = FALSE
    /\ mutex' = "none"
    /\ PartDone(c, FALSE)
    /\ HelperAlone /\ NoFault
    /\ UNCHANGED <<world, builtin, entry, workspaces, torn, strays>>

-----------------------------------------------------------------------------
(* What goes wrong from outside.                                           *)

\* The client goes away and the call is dropped where it is.  A request that has been
\* written keeps its response coming, one that is being written leaves part of its line;
\* a command of the CLI goes on by itself.
Drop(c) ==
    LET b == call[c].box IN
    /\ DropCall(c)
    /\ mutex' = IF mutex = c THEN "none" ELSE mutex
    /\ torn' \in {torn, torn \/ (CallAt(c, "write") /\ running)}
    /\ strays' = IF CallAt(c, "read") THEN strays + 1 ELSE strays
    /\ containers' \in {containers,
                        IF CallAt(c, "run") THEN containers \cup {b} ELSE containers,
                        IF call[c].pc \in {"delete", "recover"} THEN containers \ {b}
                        ELSE containers}
    /\ HelperAlone
    /\ UNCHANGED <<networks, sidecars, workspaces, builtin, entry, session>>

\* A container goes by itself, or somebody else deletes it.
ContainerVanishes(b) ==
    /\ b \in containers
    /\ containers' = containers \ {b}
    /\ Fault(b, "vanished")
    /\ HelperAlone /\ SessionAlone
    /\ UNCHANGED <<networks, sidecars, entry, workspaces, call, status>>

HelperDies ==
    /\ running
    /\ Dies({})
    /\ BackendAlone
    /\ UNCHANGED <<outbox, sessionVars>>

\* The helper ends with its standard input when the server does.
AppleRestarts ==
    /\ Dies(Pending)
    /\ ForgetCalls
    /\ outbox' = <<>>
    /\ session' = FALSE
    /\ mutex' = "none"
    /\ torn' = FALSE
    /\ strays' = 0
    /\ UNCHANGED builtin

-----------------------------------------------------------------------------
HelperGoesOn == HelperStep /\ UNCHANGED sessionVars

CallGoesOn(c) ==
    \/ Dispatch(c) \/ CreateDirect(c) \/ AccessDirect(c) \/ Fallback(c) \/ DestroyDirect(c)
    \/ DestroyUnknown(c) \/ Ensure(c) \/ Lock(c) \/ WriteRequest(c) \/ ReadReply(c)
    \/ ResetSession(c)

AppleNext ==
    \/ \E c \in Calls :
          \/ \E op \in Operations, b \in Boxes : Begin(c, op, b)
          \/ CallGoesOn(c) \/ Drop(c)
    \/ \E b \in Boxes : ContainerVanishes(b)
    \/ HelperGoesOn \/ HelperDies \/ AppleRestarts

\* The helper serves while it lives, a call goes on, and tokio's mutex is fair.
AppleFairness ==
    /\ WF_appleVars(HelperGoesOn)
    /\ \A c \in Calls : SF_appleVars(CallGoesOn(c))

AppleSpec == AppleInit /\ [][AppleNext]_appleVars /\ AppleFairness

-----------------------------------------------------------------------------
AppleTypeOK ==
    /\ CallsTypeOK
    /\ HelperTypeOK
    /\ builtin \in BOOLEAN
    /\ session \in BOOLEAN
    /\ mutex \in Calls \cup {"none"}
    /\ torn \in BOOLEAN
    /\ strays \in 0 .. MaxFaults

\* The response a call reads is the one to its own request, as long as no call of this
\* session was dropped between its request and its response (helper_request).
OwnReply ==
    \A c \in Calls :
        CallAt(c, "read") /\ outbox # <<>> /\ strays = 0 => Head(outbox).for = c

\* No call waits for ever for the session: whoever has the mutex is at its write or its
\* read, and for one that reads there is a line on its way, however many requests were torn
\* or dropped before, unless the helper is dead, which its read will notice.
ReplyIsComing ==
    /\ mutex # "none" => CallAt(mutex, "write") \/ CallAt(mutex, "read")
    /\ \A c \in Calls :
          CallAt(c, "read") /\ running => inbox # <<>> \/ job # NoJob \/ outbox # <<>>

\* A sandbox that destroy reported gone has no container, whatever failed and was
\* restarted before, unless it was the helper's: destroy does not tell from success that the
\* helper could not delete it, had forgotten it with its death, or answered another request.
DestroyedIsGone ==
    \A b \in containers :
        status[b] = "destroyed" => ~Direct(b) /\ blame[b] \cap {"delete", "lost", "crossed"} # {}

\* A create or restore that returned an error has left no container behind, unless the
\* container's own start, the copy of the archive or the clean-up failed.
FailedIsGone ==
    \A b \in containers :
        status[b] = "failed"
        => blame[b] \cap {"run", "copy", "delete", "lost", "dropped", "crossed"} # {}

\* A sandbox of the helper that callers may use is one the helper knows, unless the
\* helper died since, the container is gone, or its create took the response to another
\* request for its own.
EntryIsKnown ==
    \A b \in containers :
        entry[b] = "helper" => b \in known \/ blame[b] \cap {"lost", "crossed"} # {}

\* Who waits behind a write of more than the pipes hold: its own call, and with the helper
\* whoever waits for its session.
Overfilled(c) ==
    \/ CallAt(c, "blocked")
    \/ job.step = "blocked" /\ call[c].pc \in {"ensure", "lock", "read"}
=============================================================================
