---------------------------- MODULE LocalBackend ----------------------------
(***************************************************************************)
(* LocalBackend (crates/hyperbox-server/src/local_backend.rs): a sandbox   *)
(* is a directory and its commands are processes of the host, without any  *)
(* isolation.  Every operation copies the sandbox's record out of the map  *)
(* and works without the mutex after that.                                 *)
(*                                                                         *)
(* The commands themselves are left out: one that goes on after its call,  *)
(* in the background, at the timeout or when the call is dropped, is ended *)
(* by no operation, destroy included, and nothing looks at it again.       *)
(***************************************************************************)
EXTENDS BackendCalls

LocalInit == CallsInit

LocalParts(op) == IF op = "restore" THEN <<"create", "clear", "unpack">> ELSE <<op>>

\* A record is kept by the operations that look it up, whatever becomes of the sandbox.
Late(b) == blame' = IF entry[b] = "none" THEN [blame EXCEPT ![b] = @ \cup {"late"}] ELSE blame

\* Its directory: hyperbox's own, or the shared one that is always there.
HasDir(b) == b \in Ephemeral => b \in workspaces

LocalBegin(c, op, b) ==
    /\ BeginCall("local", c, op, b, LocalParts(op))
    /\ NoFault
    /\ UNCHANGED <<entry, workspaces>>

-----------------------------------------------------------------------------
(* create, and restore_snapshot after it.                                  *)

LocalMakeDir(c) ==
    LET b == call[c].box IN
    /\ At(c, "create")
    /\ \/ workspaces' = workspaces \cup Own(b) /\ Place(c, "insert") /\ NoFault
       \/ Fault(b, "workspace") /\ EndPart(c, FALSE, FALSE) /\ UNCHANGED workspaces
    /\ UNCHANGED entry

LocalInsert(c) ==
    /\ CallAt(c, "insert")
    /\ entry' = [entry EXCEPT ![call[c].box] = "local"]
    /\ EndPart(c, TRUE, FALSE) /\ NoFault
    /\ UNCHANGED workspaces

\* A shared directory is refused, and the sandbox destroyed; an error of emptying its own
\* leaves the sandbox.
LocalClear(c) ==
    LET b == call[c].box IN
    /\ At(c, "clear")
    /\ \/ EndPart(c, b \in Ephemeral, TRUE) /\ NoFault /\ UNCHANGED workspaces
       \/ /\ b \in Ephemeral
          /\ workspaces' \in {workspaces, workspaces \ {b}}
          /\ EndPart(c, FALSE, FALSE) /\ Fault(b, "clear")
    /\ UNCHANGED entry

\* A mutant of LocalUnpack: a failure is returned as it is.
LocalUnpackOnly(c) ==
    /\ At(c, "unpack")
    /\ \/ EndPart(c, TRUE, FALSE) /\ NoFault
       \/ EndPart(c, FALSE, FALSE) /\ Fault(call[c].box, "unpack")
    /\ UNCHANGED <<entry, workspaces>>

LocalUnpack(c) ==
    /\ At(c, "unpack")
    /\ \/ EndPart(c, TRUE, FALSE) /\ NoFault
       \/ EndPart(c, FALSE, TRUE) /\ Fault(call[c].box, "unpack")
    /\ UNCHANGED <<entry, workspaces>>

-----------------------------------------------------------------------------
(* exec, read_file, write_file, create_snapshot and inspect.               *)

LocalLookup(c) ==
    LET there == entry[call[c].box] # "none" IN
    /\ CallAt(c, "dispatch")
    /\ Part(c) \in {"exec", "read", "write", "snapshot", "inspect"}
    /\ IF ~there THEN EndPart(c, FALSE, FALSE)
       ELSE IF Part(c) = "inspect" THEN EndPart(c, TRUE, FALSE)
       ELSE Place(c, Part(c))
    /\ NoFault
    /\ UNCHANGED <<entry, workspaces>>

\* read_file and create_snapshot only look; write_file makes the directory if it is gone.
LocalFile(c) ==
    LET b == call[c].box IN
    /\ call[c].pc \in {"read", "write", "snapshot"}
    /\ \/ /\ EndPart(c, HasDir(b) \/ CallAt(c, "write"), FALSE)
          /\ workspaces' = IF CallAt(c, "write") THEN workspaces \cup Own(b) ELSE workspaces
          /\ Late(b) /\ UNCHANGED faults
       \/ EndPart(c, FALSE, FALSE) /\ Fault(b, "file") /\ UNCHANGED workspaces
    /\ UNCHANGED entry

\* The command is started in the directory, which has to be there.
LocalSpawn(c) ==
    LET b == call[c].box IN
    /\ CallAt(c, "exec")
    /\ IF HasDir(b) THEN Place(c, "wait") ELSE EndPart(c, FALSE, FALSE)
    /\ Late(b)
    /\ UNCHANGED <<faults, entry, workspaces>>

\* Its output, or the timeout, which ends the wait and not the command.
LocalWait(c) ==
    /\ CallAt(c, "wait")
    /\ \/ EndPart(c, TRUE, FALSE) /\ NoFault
       \/ EndPart(c, FALSE, FALSE) /\ Fault(call[c].box, "timeout")
    /\ UNCHANGED <<entry, workspaces>>

-----------------------------------------------------------------------------
(* destroy                                                                 *)

LocalRemove(c) ==
    LET b == call[c].box IN
    /\ At(c, "destroy")
    /\ entry' = [entry EXCEPT ![b] = "none"]
    /\ IF entry[b] = "none" THEN EndPart(c, FALSE, FALSE)
       ELSE IF b \in Ephemeral \cap workspaces THEN Place(c, "clean")
       ELSE EndPart(c, TRUE, FALSE)
    /\ NoFault
    /\ UNCHANGED workspaces

\* A mutant of LocalClean: the directory is left to others.
LocalCleanNot(c) ==
    /\ CallAt(c, "clean")
    /\ EndPart(c, TRUE, FALSE) /\ NoFault
    /\ UNCHANGED <<workspaces, entry>>

LocalClean(c) ==
    LET b == call[c].box IN
    /\ CallAt(c, "clean")
    /\ \/ workspaces' = workspaces \ {b} /\ EndPart(c, TRUE, FALSE) /\ NoFault
       \/ Fault(b, "workspace") /\ EndPart(c, FALSE, FALSE) /\ UNCHANGED workspaces
    /\ UNCHANGED entry

-----------------------------------------------------------------------------
\* The client goes away: a directory may be made or removed all the same.
LocalDrop(c) ==
    LET b == call[c].box IN
    /\ DropCall(c)
    /\ workspaces' \in {workspaces,
                        IF At(c, "create") \/ CallAt(c, "write") THEN workspaces \cup Own(b)
                        ELSE IF CallAt(c, "clean") \/ At(c, "clear") THEN workspaces \ Own(b)
                        ELSE workspaces}
    /\ UNCHANGED entry

\* The directories outlive the server.
LocalRestarts ==
    /\ faults < MaxFaults /\ faults' = faults + 1
    /\ blame' = [b \in Boxes |->
                    IF entry[b] # "none" \/ status[b] \in {"pending", "live"}
                       \/ \E c \in Calls : call[c].box = b
                    THEN blame[b] \cup {"lost"} ELSE blame[b]]
    /\ ForgetCalls
    /\ UNCHANGED workspaces

LocalGoesOn(c) ==
    \/ LocalMakeDir(c) \/ LocalInsert(c) \/ LocalClear(c) \/ LocalUnpack(c) \/ LocalLookup(c)
    \/ LocalFile(c) \/ LocalSpawn(c) \/ LocalWait(c) \/ LocalRemove(c) \/ LocalClean(c)

LocalNext ==
    \/ \E c \in Calls :
          \/ \E op \in Operations, b \in Boxes : LocalBegin(c, op, b)
          \/ LocalGoesOn(c) \/ LocalDrop(c)
    \/ LocalRestarts

LocalSpec == LocalInit /\ [][LocalNext]_callVars

-----------------------------------------------------------------------------
LocalTypeOK == CallsTypeOK

\* A sandbox that destroy reported gone has no directory of hyperbox's own, but for a call
\* that had looked it up before and wrote to it after, and one that was dropped (destroy,
\* write_file).
LocalDestroyedIsGone ==
    \A b \in workspaces :
        status[b] = "destroyed" => blame[b] \cap {"late", "dropped"} # {}

\* A restore into a shared directory, and one whose archive could not be unpacked, leave no
\* record and no directory of the sandbox they created (restore_snapshot).
LocalRestoreUndone ==
    \A b \in Boxes :
        status[b] = "failed" /\ blame[b] \subseteq {"unpack"} =>
            entry[b] = "none" /\ b \notin workspaces
=============================================================================
