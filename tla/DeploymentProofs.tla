--------------------------- MODULE DeploymentProofs ---------------------------
(***************************************************************************)
(* Proofs about the deployment, for any sandboxes, calls, requests and     *)
(* faults: the local backend's invariant; what the two backends promise of *)
(* destroy and restore, carried over to a server that runs one of them;    *)
(* what becomes of a request for a sandbox; what the user is shown of a    *)
(* log of any length, and the end of an ephemeral run; that a deployment   *)
(* keeps what its parts promise alone, the types of all of it, and that no *)
(* call waits in vain for the Apple helper; and the allowlists and         *)
(* percentiles, for inputs of any length.                                  *)
(***************************************************************************)
EXTENDS Deployment, AppleBackendProofs, FirecrackerProofs, AgentShellProofs, DnsRelayProofs,
        SequenceTheorems, WellFoundedInduction

-----------------------------------------------------------------------------
(* The invariant of the local backend.                                     *)

FilePlaces == {"read", "write", "snapshot", "exec", "wait"}
LocalPlaces == FilePlaces \cup {"idle", "dispatch", "insert", "clean"}

LocalCauses == {"workspace", "clear", "unpack", "file", "late", "timeout", "dropped", "lost"}

LocalCalls == [op : Operations \cup {"none"}, box : Boxes \cup {"none"}, pc : LocalPlaces,
               todo : Todos, undo : BOOLEAN]

\* The record of a sandbox that a restore has made stays until the restore is over: nobody
\* else knows the sandbox.
LocalCallOK(c) ==
    LET k == call[c] IN
    /\ k.pc = "idle" => k = NoCall
    /\ k.pc # "idle" => k.op \in Operations /\ k.box \in Boxes
    /\ Creates(c) => status[k.box] = "pending"
    /\ k.pc # "idle" /\ ~Creates(c) => status[k.box] \in {"live", "destroyed"}
    /\ TodoOK(k)
    /\ k.pc = "insert" => Head(k.todo) = "create"
    /\ k.pc \in FilePlaces => Head(k.todo) \in {"exec", "read", "write", "snapshot"}
    /\ k.pc = "clean" => Head(k.todo) = "destroy" /\ entry[k.box] = "none"
    /\ Built(c) => entry[k.box] = "local"

LocalBoxOK(b) ==
    /\ status[b] = "destroyed" =>
          entry[b] = "none" /\ (b \in workspaces => blame[b] \cap {"late", "dropped"} # {})
    /\ status[b] = "failed" /\ blame[b] \subseteq {"unpack"} =>
          entry[b] = "none" /\ b \notin workspaces

LocalInv ==
    /\ LocalTypeOK
    /\ call \in [Calls -> LocalCalls]
    /\ blame \in [Boxes -> SUBSET LocalCauses]
    /\ workspaces \subseteq Ephemeral
    /\ \A c \in Calls : LocalCallOK(c)
    /\ Apart
    /\ \A b \in Boxes : LocalBoxOK(b)

-----------------------------------------------------------------------------
(* One step of one call of the local backend.                              *)

Statuses == {"unborn", "pending", "live", "failed", "destroyed"}

\* What a step of c for b does to the calls and to what the callers know, ...
LocalMoves(c, b) ==
    /\ call' \in [Calls -> LocalCalls]
    /\ status' \in [Boxes -> Statuses]
    /\ \A a \in Boxes : a # b => status'[a] = status[a]
    /\ \A d \in Calls : d # c => call'[d] = call[d]
    /\ call'[c] = NoCall \/ (call'[c].op = call[c].op /\ call'[c].box = b)
    /\ \/ status'[b] = status[b]
       \/ status[b] = "pending" /\ call'[c] = NoCall
       \/ status[b] = "live" /\ status'[b] = "destroyed"

\* ... and to the rest.
LocalTouches(c, b) ==
    /\ entry' \in [Boxes -> {"none", "direct", "helper", "vm", "local"}]
    /\ workspaces' \subseteq Ephemeral
    /\ faults' \in 0 .. MaxFaults
    /\ blame' \in [Boxes -> SUBSET LocalCauses]
    /\ \A a \in Boxes : a # b =>
          /\ entry'[a] = entry[a] /\ blame'[a] = blame[a]
          /\ (a \in workspaces' => a \in workspaces)
    /\ ~Creates(c) => entry'[b] \in {entry[b], "none"}

LEMMA LocalGoing ==
  ASSUME LocalInv, NEW c \in Calls, call[c].pc # "idle"
  PROVE  /\ LocalCallOK(c) /\ call[c] \in LocalCalls
         /\ call[c].op \in Operations /\ call[c].box \in Boxes /\ TodoOK(call[c])
         /\ LocalBoxOK(call[c].box)
         /\ IF Creates(c) THEN status[call[c].box] = "pending"
            ELSE status[call[c].box] \in {"live", "destroyed"}
  <1>1. LocalCallOK(c) /\ call[c] \in LocalCalls
    BY DEF LocalInv
  <1>2. call[c].op \in Operations /\ call[c].box \in Boxes /\ TodoOK(call[c])
    BY <1>1 DEF LocalCallOK
  <1>3. LocalBoxOK(call[c].box)
    BY <1>2 DEF LocalInv
  <1> QED BY <1>1, <1>2, <1>3 DEF LocalCallOK

LEMMA LocalTyped ==
  LocalInv => /\ call \in [Calls -> LocalCalls]
              /\ status \in [Boxes -> Statuses]
              /\ entry \in [Boxes -> {"none", "direct", "helper", "vm", "local"}]
              /\ workspaces \subseteq Ephemeral
              /\ faults \in 0 .. MaxFaults
              /\ blame \in [Boxes -> SUBSET LocalCauses]
  BY DEF LocalInv, LocalTypeOK, CallsTypeOK, Statuses

\* A call that creates a sandbox is alone with it.
LEMMA LocalAlone ==
  ASSUME LocalInv, NEW c \in Calls, NEW d \in Calls, c # d, call[c].pc # "idle", call[d].pc # "idle",
         call[c].box = call[d].box
  PROVE  ~Creates(c) /\ ~Creates(d)
  <1>1. CASE Creates(c) /\ Creates(d)
    BY <1>1 DEF LocalInv, Apart
  <1>2. CASE Creates(c) /\ ~Creates(d)
    BY <1>2, LocalGoing
  <1>3. CASE ~Creates(c) /\ Creates(d)
    BY <1>3, LocalGoing
  <1> QED BY <1>1, <1>2, <1>3

\* A step keeps the invariant if it does for its own call and sandbox.
LEMMA LocalStep ==
  ASSUME LocalInv, NEW c \in Calls, call[c].pc # "idle", NEW b \in Boxes, b = call[c].box,
         LocalMoves(c, b), LocalTouches(c, b), LocalCallOK(c)', LocalBoxOK(b)'
  PROVE  LocalInv'
  <1>1. LocalTypeOK'
    <2>1. workspaces' \subseteq Boxes
      BY BackendAssumption DEF LocalTouches
    <2> QED BY <2>1 DEF LocalMoves, LocalTouches, LocalTypeOK, CallsTypeOK, LocalCalls, Statuses
  <1>2. ASSUME NEW a \in Boxes, a # b PROVE LocalBoxOK(a)'
    <2>1. LocalBoxOK(a)
      BY DEF LocalInv
    <2> QED BY <1>2, <2>1 DEF LocalMoves, LocalTouches, LocalBoxOK
  <1>3. ASSUME NEW d \in Calls, d # c PROVE LocalCallOK(d)'
    <2>1. LocalCallOK(d) /\ call'[d] = call[d]
      BY <1>3 DEF LocalInv, LocalMoves
    <2>2. CASE call[d].pc = "idle"
      BY <2>1, <2>2 DEF LocalCallOK, NoCall, Creates, TodoOK, FilePlaces, Built, Operations
    <2>3. CASE call[d].pc # "idle" /\ call[d].box # b
      <3>1. call[d].box \in Boxes
        BY <2>3, LocalGoing
      <3>2. status'[call[d].box] = status[call[d].box] /\ entry'[call[d].box] = entry[call[d].box]
        BY <2>3, <3>1 DEF LocalMoves, LocalTouches
      <3> QED BY <2>1, <2>3, <3>2 DEF LocalCallOK, Creates, TodoOK, Built
    <2>4. CASE call[d].pc # "idle" /\ call[d].box = b
      <3>1. ~Creates(c) /\ ~Creates(d)
        BY <1>3, <2>4, LocalAlone
      <3>2. status[b] \in {"live", "destroyed"}
        BY <3>1, LocalGoing
      <3>3. status'[b] \in {"live", "destroyed"} /\ entry'[b] \in {entry[b], "none"}
        BY <3>1, <3>2 DEF LocalMoves, LocalTouches
      <3>4. ~Built(d)
        BY <3>1 DEF Built, Creates
      <3>5. LocalCallOK(d)' <=> LocalCallOK(d)
        BY <2>1, <2>4, <3>1, <3>2, <3>3, <3>4 DEF LocalCallOK, Creates, TodoOK, Built
      <3> QED BY <2>1, <3>5
    <2> QED BY <2>2, <2>3, <2>4
  <1>4. Apart'
    BY DEF LocalInv, Apart, LocalMoves, Creates, NoCall
  <1> QED BY <1>1, <1>2, <1>3, <1>4 DEF LocalInv, LocalMoves, LocalTouches

\* The ways in which a call goes on: to its next place, ...
LEMMA LocalPlacing ==
  ASSUME LocalInv, NEW c \in Calls, call[c].pc # "idle", NEW b \in Boxes, b = call[c].box,
         NEW p \in LocalPlaces \ {"idle"}, Place(c, p)
  PROVE  /\ LocalMoves(c, b) /\ status' = status
         /\ call'[c].pc = p /\ call'[c].op = call[c].op /\ call'[c].box = b
         /\ call'[c].todo = call[c].todo /\ call'[c].undo = call[c].undo
  <1>1. call' = [call EXCEPT ![c].pc = p] /\ status' = status
    BY DEF Place
  <1>2. call[c] \in LocalCalls /\ call \in [Calls -> LocalCalls] /\ status \in [Boxes -> Statuses]
    BY LocalTyped
  <1>3. call'[c] = [call[c] EXCEPT !.pc = p] /\ \A d \in Calls : d # c => call'[d] = call[d]
    BY <1>1, <1>2
  <1>4. /\ call'[c].pc = p /\ call'[c].op = call[c].op /\ call'[c].box = b
        /\ call'[c].todo = call[c].todo /\ call'[c].undo = call[c].undo
        /\ call'[c] \in LocalCalls
    BY <1>2, <1>3 DEF LocalCalls
  <1>5. call' \in [Calls -> LocalCalls]
    BY <1>1, <1>2, <1>3, <1>4
  <1> QED BY <1>1, <1>2, <1>3, <1>4, <1>5 DEF LocalMoves

\* ... to its end, ...
LEMMA LocalReturns ==
  ASSUME LocalInv, NEW c \in Calls, call[c].pc # "idle", NEW b \in Boxes, b = call[c].box,
         NEW ok \in BOOLEAN, Returned(c, ok)
  PROVE  /\ LocalMoves(c, b) /\ LocalCallOK(c)'
         /\ Creates(c) => status'[b] = IF ok THEN "live" ELSE "failed"
         /\ ~Creates(c) => status'[b] = IF call[c].op = "destroy" /\ ok THEN "destroyed"
                                        ELSE status[b]
  <1>1. call \in [Calls -> LocalCalls] /\ status \in [Boxes -> Statuses]
    BY LocalTyped
  <1>2. NoCall \in LocalCalls
    BY DEF NoCall, LocalCalls, LocalPlaces, Todos
  <1>3. call' \in [Calls -> LocalCalls] /\ call'[c] = NoCall /\ \A d \in Calls : d # c => call'[d] = call[d]
    BY <1>1, <1>2 DEF Returned
  <1>4. LocalCallOK(c)'
    BY <1>3 DEF LocalCallOK, NoCall, Creates, TodoOK, FilePlaces, Built, Operations
  <1>5. IF Creates(c) THEN status[b] = "pending" ELSE status[b] \in {"live", "destroyed"}
    BY LocalGoing
  <1>6. status' = IF Creates(c) THEN [status EXCEPT ![b] = IF ok THEN "live" ELSE "failed"]
                  ELSE IF call[c].op = "destroy" /\ ok THEN [status EXCEPT ![b] = "destroyed"]
                  ELSE status
    BY DEF Returned, Told, Creates
  <1>7. /\ status' \in [Boxes -> Statuses]
        /\ \A a \in Boxes : a # b => status'[a] = status[a]
        /\ Creates(c) => status'[b] = IF ok THEN "live" ELSE "failed"
        /\ ~Creates(c) => status'[b] = IF call[c].op = "destroy" /\ ok THEN "destroyed"
                                       ELSE status[b]
    BY <1>1, <1>6 DEF Statuses
  <1>8. LocalMoves(c, b)
    BY <1>3, <1>5, <1>7 DEF LocalMoves
  <1> QED BY <1>4, <1>7, <1>8

\* ... to the next part of a restore, or back.
LEMMA LocalTurns ==
  ASSUME LocalInv, NEW c \in Calls, call[c].pc # "idle", NEW b \in Boxes, b = call[c].box,
         call[c].op = "restore", ~call[c].undo, status' = status, entry'[b] = "local",
         \/ call' = [call EXCEPT ![c].todo = <<"destroy">>, ![c].undo = TRUE, ![c].pc = "dispatch"]
         \/ /\ call[c].todo \in {Whole, <<"clear", "unpack">>}
            /\ call' = [call EXCEPT ![c].todo = Tail(@), ![c].pc = "dispatch"]
  PROVE  LocalMoves(c, b) /\ LocalCallOK(c)'
  <1>1. call \in [Calls -> LocalCalls] /\ status \in [Boxes -> Statuses]
    BY LocalTyped
  <1>2. call[c] \in LocalCalls
    BY <1>1
  <1> DEFINE k == call'[c]
  <1>3. /\ k.op = "restore" /\ k.box = b /\ k.pc = "dispatch"
        /\ \/ k.todo = <<"destroy">> /\ k.undo
           \/ k.todo \in {<<"clear", "unpack">>, <<"unpack">>} /\ ~k.undo
        /\ k \in LocalCalls
    <2>1. CASE call' = [call EXCEPT ![c].todo = <<"destroy">>, ![c].undo = TRUE, ![c].pc = "dispatch"]
      <3>1. k = [op |-> "restore", box |-> b, pc |-> "dispatch", todo |-> <<"destroy">>, undo |-> TRUE]
        BY <1>1, <1>2, <2>1 DEF LocalCalls
      <3> QED BY <3>1 DEF LocalCalls, LocalPlaces, Todos, Operations
    <2>2. CASE /\ call[c].todo \in {Whole, <<"clear", "unpack">>}
               /\ call' = [call EXCEPT ![c].todo = Tail(@), ![c].pc = "dispatch"]
      <3>1. k = [op |-> "restore", box |-> b, pc |-> "dispatch", todo |-> Tail(call[c].todo), undo |-> FALSE]
        BY <1>1, <1>2, <2>2 DEF LocalCalls
      <3>2. Tail(call[c].todo) \in {<<"clear", "unpack">>, <<"unpack">>}
        BY <2>2, Queues
      <3> QED BY <3>1, <3>2 DEF LocalCalls, LocalPlaces, Todos, Restoring, Operations
    <2> QED BY <2>1, <2>2
  <1>4. call' \in [Calls -> LocalCalls] /\ \A d \in Calls : d # c => call'[d] = call[d]
    BY <1>1, <1>3
  <1>5. LocalMoves(c, b)
    BY <1>1, <1>3, <1>4 DEF LocalMoves
  <1>6. status[b] = "pending"
    BY LocalGoing DEF Creates
  <1>7. TodoOK(call[c])'
    BY <1>3 DEF TodoOK, Restoring
  <1>8. LocalCallOK(c)'
    BY <1>3, <1>6, <1>7 DEF LocalCallOK, Creates, Operations, FilePlaces, Built
  <1> QED BY <1>5, <1>8

\* How a part ends.
LEMMA LocalEnds ==
  ASSUME LocalInv, NEW c \in Calls, call[c].pc # "idle", NEW ok \in BOOLEAN, NEW undoes \in BOOLEAN,
         EndPart(c, ok, undoes), undoes => call[c].op = "restore"
  PROVE  \/ (call[c].undo \/ (~ok /\ ~undoes)) /\ Returned(c, FALSE)
         \/ ok /\ ~call[c].undo /\ Returned(c, TRUE)
         \/ /\ call[c].op = "restore" /\ ~call[c].undo /\ status' = status
            /\ \/ undoes /\ call' = [call EXCEPT ![c].todo = <<"destroy">>, ![c].undo = TRUE, ![c].pc = "dispatch"]
               \/ /\ ok /\ call[c].todo \in {Whole, <<"clear", "unpack">>}
                  /\ call' = [call EXCEPT ![c].todo = Tail(@), ![c].pc = "dispatch"]
  <1>1. Len(call[c].todo) # 1 /\ ~call[c].undo =>
           call[c].op = "restore" /\ call[c].todo \in {Whole, <<"clear", "unpack">>}
    BY LocalGoing, Queues DEF TodoOK, Restoring
  <1> QED BY <1>1 DEF EndPart, ReturnCall, Returned

\* What goes wrong for b in a step, or nothing.
Blamed(b) ==
    /\ faults' \in 0 .. MaxFaults
    /\ blame' \in [Boxes -> SUBSET LocalCauses]
    /\ \A a \in Boxes : a # b => blame'[a] = blame[a]
    /\ blame[b] \subseteq blame'[b]

LEMMA LocalFault ==
  ASSUME LocalInv, NEW b \in Boxes, NEW cause \in LocalCauses, Fault(b, cause)
  PROVE  Blamed(b) /\ blame'[b] = blame[b] \cup {cause}
  BY LocalTyped, BackendAssumption DEF Fault, Blamed

LEMMA LocalNoFault ==
  ASSUME LocalInv, NEW b \in Boxes, NoFault
  PROVE  Blamed(b) /\ blame' = blame
  BY LocalTyped DEF NoFault, Blamed

LEMMA LocalLate ==
  ASSUME LocalInv, NEW b \in Boxes, Late(b), UNCHANGED faults
  PROVE  Blamed(b) /\ (entry[b] = "none" => "late" \in blame'[b])
  BY LocalTyped DEF Late, Blamed, LocalCauses

-----------------------------------------------------------------------------
(* The actions of a call.                                                  *)

\* What inspect, exec and the file operations do to their sandbox: a directory that is
\* made, or a command that is left behind, has left its trace in blame.
LEMMA LocalAsking ==
  ASSUME LocalInv, NEW c \in Calls, LocalLookup(c) \/ LocalFile(c) \/ LocalSpawn(c) \/ LocalWait(c)
  PROVE  LocalInv'
  <1>1. call[c].pc # "idle"
        /\ (call[c].pc = "dispatch" => Head(call[c].todo) \in {"exec", "read", "write", "snapshot", "inspect"})
        /\ (call[c].pc # "dispatch" => call[c].pc \in FilePlaces)
    BY DEF LocalLookup, LocalFile, LocalSpawn, LocalWait, CallAt, Part, FilePlaces
  <1>2. Head(call[c].todo) \in {"exec", "read", "write", "snapshot", "inspect"}
    BY <1>1, LocalGoing DEF LocalCallOK
  <1>3. ~Creates(c) /\ call[c].op # "destroy" /\ ~call[c].undo
    BY <1>1, <1>2, LocalGoing, PartSays DEF Creates
  <1> PICK b \in Boxes : b = call[c].box
    BY <1>1, LocalGoing
  <1>4. LocalBoxOK(b) /\ status[b] \in {"live", "destroyed"} /\ LocalCallOK(c)
    BY <1>1, <1>3, LocalGoing
  <1>5. UNCHANGED entry
    BY DEF LocalLookup, LocalFile, LocalSpawn, LocalWait
  <1>6. LocalMoves(c, b) /\ LocalCallOK(c)' /\ status'[b] = status[b]
    <2>1. CASE \E ok \in BOOLEAN : EndPart(c, ok, FALSE)
      <3> PICK ok \in BOOLEAN : EndPart(c, ok, FALSE)
        BY <2>1
      <3>1. Returned(c, TRUE) \/ Returned(c, FALSE)
        BY <1>1, <1>3, LocalEnds DEF Creates
      <3> QED BY <1>1, <1>3, <3>1, LocalReturns
    <2>2. CASE \E p \in FilePlaces : Place(c, p) /\ Head(call[c].todo) # "inspect"
      <3> PICK p \in FilePlaces : Place(c, p) /\ Head(call[c].todo) # "inspect"
        BY <2>2
      <3>1. p \in LocalPlaces \ {"idle"} /\ p \notin {"idle", "dispatch", "insert", "clean"}
        BY DEF LocalPlaces, FilePlaces
      <3>2. /\ LocalMoves(c, b) /\ status' = status
            /\ call'[c].pc = p /\ call'[c].op = call[c].op /\ call'[c].box = b
            /\ call'[c].todo = call[c].todo /\ call'[c].undo = call[c].undo
        BY <1>1, <3>1, LocalPlacing
      <3>3. TodoOK(call[c])'
        BY <1>1, <3>2, LocalGoing DEF TodoOK
      <3>4. LocalCallOK(c)'
        BY <1>1, <1>2, <1>3, <1>4, <3>1, <3>2, <3>3 DEF LocalCallOK, Creates, Built
      <3> QED BY <3>2, <3>4
    <2>3. CASE LocalLookup(c)
      <3>1. \/ \E ok \in BOOLEAN : EndPart(c, ok, FALSE)
            \/ Place(c, Head(call[c].todo)) /\ Head(call[c].todo) # "inspect"
        BY <2>3 DEF LocalLookup, Part
      <3>2. Head(call[c].todo) # "inspect" => Head(call[c].todo) \in FilePlaces
        BY <1>2 DEF FilePlaces
      <3> QED BY <2>1, <2>2, <3>1, <3>2
    <2>4. CASE LocalFile(c) \/ LocalSpawn(c) \/ LocalWait(c)
      <3>1. call[c].pc \in FilePlaces /\ "wait" \in FilePlaces
        BY <2>4 DEF LocalFile, LocalSpawn, LocalWait, CallAt, FilePlaces
      <3>2. Head(call[c].todo) # "inspect"
        BY <1>4, <3>1 DEF LocalCallOK
      <3>3. (\E ok \in BOOLEAN : EndPart(c, ok, FALSE)) \/ Place(c, "wait")
        BY <2>4 DEF LocalFile, LocalSpawn, LocalWait
      <3> QED BY <2>1, <2>2, <3>1, <3>2, <3>3
    <2> QED BY <2>3, <2>4
  <1>7. /\ Blamed(b)
        /\ workspaces' \subseteq Ephemeral
        /\ \A a \in Boxes : a # b => (a \in workspaces' => a \in workspaces)
        /\ b \in workspaces' => b \in workspaces \/ (entry[b] = "none" => "late" \in blame'[b])
    <2>1. workspaces \subseteq Ephemeral
      BY LocalTyped
    <2>2. CASE LocalLookup(c)
      <3>1. NoFault /\ UNCHANGED workspaces
        BY <2>2 DEF LocalLookup
      <3> QED BY <2>1, <3>1, LocalNoFault
    <2>3. CASE LocalFile(c)
      <3>1. CASE Fault(b, "file") /\ UNCHANGED workspaces
        <4>1. Blamed(b)
          BY <3>1, LocalFault DEF LocalCauses
        <4> QED BY <2>1, <2>3, <3>1, <4>1 DEF LocalFile
      <3>2. CASE Late(b) /\ UNCHANGED faults
        <4>1. workspaces' = workspaces \/ workspaces' = workspaces \cup Own(b)
          BY <2>3 DEF LocalFile
        <4>3. Own(b) \subseteq Ephemeral /\ Own(b) \subseteq {b}
          BY DEF Own
        <4>4. Blamed(b) /\ (entry[b] = "none" => "late" \in blame'[b])
          BY <3>2, LocalLate
        <4> QED BY <2>1, <4>1, <4>3, <4>4
      <3> QED BY <2>3, <3>1, <3>2 DEF LocalFile
    <2>4. CASE LocalSpawn(c)
      <3>1. Late(b) /\ UNCHANGED <<faults, workspaces>>
        BY <2>4 DEF LocalSpawn
      <3> QED BY <2>1, <3>1, LocalLate
    <2>5. CASE LocalWait(c)
      <3>1. CASE NoFault /\ UNCHANGED workspaces
        BY <2>1, <3>1, LocalNoFault
      <3>2. CASE Fault(b, "timeout") /\ UNCHANGED workspaces
        <4>1. Blamed(b)
          BY <3>2, LocalFault DEF LocalCauses
        <4> QED BY <2>1, <3>2, <4>1
      <3> QED BY <2>5, <3>1, <3>2 DEF LocalWait
    <2> QED BY <2>2, <2>3, <2>4, <2>5
  <1>8. LocalTouches(c, b)
    BY <1>5, <1>7, LocalTyped DEF LocalTouches, Blamed
  <1>9. LocalBoxOK(b)'
    BY <1>4, <1>5, <1>6, <1>7 DEF LocalBoxOK, Blamed
  <1> QED BY <1>1, <1>6, <1>8, <1>9, LocalStep

LEMMA LocalCreate ==
  ASSUME LocalInv, NEW c \in Calls, LocalMakeDir(c) \/ LocalInsert(c)
  PROVE  LocalInv'
  <1>1. call[c].pc # "idle" /\ Head(call[c].todo) = "create"
    BY LocalGoing DEF LocalMakeDir, LocalInsert, At, CallAt, Part, LocalCallOK
  <1>2. Creates(c) /\ ~call[c].undo /\ (call[c].op = "restore" => call[c].todo = Whole)
    BY <1>1, LocalGoing, PartSays DEF Creates
  <1> PICK b \in Boxes : b = call[c].box
    BY <1>1, LocalGoing
  <1>3. LocalBoxOK(b) /\ status[b] = "pending" /\ LocalCallOK(c)
    BY <1>1, <1>2, LocalGoing
  <1>5. CASE LocalMakeDir(c)
    <2>1. UNCHANGED entry
      BY <1>5 DEF LocalMakeDir
    <2>2. /\ workspaces' \subseteq Ephemeral
          /\ \A a \in Boxes : a # b => (a \in workspaces' => a \in workspaces)
      <3>1. workspaces' = workspaces \/ workspaces' = workspaces \cup Own(b)
        BY <1>5 DEF LocalMakeDir
      <3> QED BY <3>1, LocalTyped DEF Own
    <2>3. CASE Place(c, "insert") /\ NoFault
      <3>1. "insert" \in LocalPlaces \ {"idle"} /\ "insert" \notin FilePlaces
        BY DEF LocalPlaces, FilePlaces
      <3>2. /\ LocalMoves(c, b) /\ status' = status
            /\ call'[c].pc = "insert" /\ call'[c].op = call[c].op /\ call'[c].box = b
            /\ call'[c].todo = call[c].todo /\ call'[c].undo = call[c].undo
        BY <1>1, <2>3, <3>1, LocalPlacing
      <3>3. TodoOK(call[c])'
        BY <1>1, <3>2, LocalGoing DEF TodoOK
      <3>4. LocalCallOK(c)'
        BY <1>1, <1>2, <1>3, <3>1, <3>2, <3>3 DEF LocalCallOK, Creates, Built
      <3>5. Blamed(b) /\ blame' = blame
        BY <2>3, LocalNoFault
      <3>6. LocalTouches(c, b)
        BY <2>1, <2>2, <3>5, LocalTyped DEF LocalTouches, Blamed
      <3>7. LocalBoxOK(b)'
        BY <1>3, <3>2, <3>5 DEF LocalBoxOK
      <3> QED BY <1>1, <3>2, <3>4, <3>6, <3>7, LocalStep
    <2>4. CASE Fault(b, "workspace") /\ EndPart(c, FALSE, FALSE)
      <3>1. Returned(c, FALSE)
        BY <1>1, <2>4, LocalEnds
      <3>2. LocalMoves(c, b) /\ LocalCallOK(c)' /\ status'[b] = "failed"
        BY <1>1, <1>2, <3>1, LocalReturns
      <3>3. Blamed(b) /\ "workspace" \in blame'[b]
        BY <2>4, LocalFault DEF LocalCauses
      <3>4. LocalTouches(c, b)
        BY <2>1, <2>2, <3>3, LocalTyped DEF LocalTouches, Blamed
      <3>5. LocalBoxOK(b)'
        BY <1>3, <3>2, <3>3 DEF LocalBoxOK, Blamed
      <3> QED BY <1>1, <3>2, <3>4, <3>5, LocalStep
    <2> QED BY <1>5, <2>3, <2>4 DEF LocalMakeDir
  <1>6. CASE LocalInsert(c)
    <2>1. /\ entry' = [entry EXCEPT ![b] = "local"] /\ EndPart(c, TRUE, FALSE)
          /\ NoFault /\ UNCHANGED workspaces
      BY <1>6 DEF LocalInsert
    <2>2. /\ entry' \in [Boxes -> {"none", "direct", "helper", "vm", "local"}]
          /\ entry'[b] = "local" /\ \A a \in Boxes : a # b => entry'[a] = entry[a]
      BY <2>1, LocalTyped
    <2>3. LocalMoves(c, b) /\ LocalCallOK(c)' /\ status'[b] \in {"pending", "live"}
      <3>1. CASE Returned(c, TRUE)
        BY <1>1, <1>2, <3>1, LocalReturns
      <3>2. CASE /\ call[c].op = "restore" /\ status' = status
                 /\ call[c].todo \in {Whole, <<"clear", "unpack">>}
                 /\ call' = [call EXCEPT ![c].todo = Tail(@), ![c].pc = "dispatch"]
        BY <1>1, <1>2, <1>3, <2>2, <3>2, LocalTurns
      <3> QED BY <1>1, <1>2, <2>1, <3>1, <3>2, LocalEnds
    <2>4. Blamed(b) /\ blame' = blame
      BY <2>1, LocalNoFault
    <2>5. LocalTouches(c, b)
      BY <1>2, <2>1, <2>2, <2>4, LocalTyped DEF LocalTouches, Blamed
    <2>6. LocalBoxOK(b)'
      BY <1>3, <2>3, <2>4 DEF LocalBoxOK
    <2> QED BY <1>1, <2>3, <2>5, <2>6, LocalStep
  <1> QED BY <1>5, <1>6

\* The parts of a restore after create.
LEMMA LocalRestore ==
  ASSUME LocalInv, NEW c \in Calls, LocalClear(c) \/ LocalUnpack(c)
  PROVE  LocalInv'
  <1>1. call[c].pc = "dispatch" /\ Head(call[c].todo) \in {"clear", "unpack"}
    BY DEF LocalClear, LocalUnpack, At, CallAt, Part
  <1>2. call[c].op = "restore" /\ ~call[c].undo /\ call[c].todo \in {<<"clear", "unpack">>, <<"unpack">>}
    BY <1>1, LocalGoing, PartSays
  <1> PICK b \in Boxes : b = call[c].box
    BY <1>1, LocalGoing
  <1>3. Creates(c) /\ LocalBoxOK(b) /\ status[b] = "pending" /\ LocalCallOK(c)
    BY <1>1, <1>2, LocalGoing DEF Creates
  <1>4. UNCHANGED entry /\ entry[b] = "local"
    BY <1>1, <1>2, <1>3, Queues DEF LocalClear, LocalUnpack, LocalCallOK, Built
  <1>5. workspaces' \subseteq workspaces
    BY DEF LocalClear, LocalUnpack
  <1>6. Blamed(b)
    <2>1. NoFault \/ Fault(b, "clear") \/ Fault(b, "unpack")
      BY DEF LocalClear, LocalUnpack
    <2> QED BY <2>1, LocalNoFault, LocalFault DEF LocalCauses
  <1>7. LocalTouches(c, b)
    BY <1>3, <1>4, <1>5, <1>6, LocalTyped DEF LocalTouches, Blamed
  <1>8. CASE EndPart(c, FALSE, FALSE) /\ Fault(b, "clear")
    <2>1. Returned(c, FALSE)
      BY <1>1, <1>2, <1>8, LocalEnds
    <2>2. LocalMoves(c, b) /\ LocalCallOK(c)' /\ status'[b] = "failed"
      BY <1>1, <1>3, <2>1, LocalReturns
    <2>3. "clear" \in blame'[b]
      BY <1>8, LocalFault DEF LocalCauses
    <2>4. LocalBoxOK(b)'
      BY <1>3, <1>4, <1>6, <2>2, <2>3 DEF LocalBoxOK, Blamed
    <2> QED BY <1>1, <1>7, <2>2, <2>4, LocalStep
  <1>9. CASE EndPart(c, TRUE, TRUE) \/ EndPart(c, FALSE, TRUE)
    <2>1. LocalMoves(c, b) /\ LocalCallOK(c)' /\ status'[b] \in {"pending", "live"}
      <3>1. CASE Returned(c, TRUE)
        BY <1>1, <1>3, <3>1, LocalReturns
      <3>2. CASE /\ status' = status
                 /\ \/ call' = [call EXCEPT ![c].todo = <<"destroy">>, ![c].undo = TRUE, ![c].pc = "dispatch"]
                    \/ /\ call[c].todo \in {Whole, <<"clear", "unpack">>}
                       /\ call' = [call EXCEPT ![c].todo = Tail(@), ![c].pc = "dispatch"]
        BY <1>1, <1>2, <1>3, <1>4, <3>2, LocalTurns
      <3> QED BY <1>1, <1>2, <1>9, <3>1, <3>2, LocalEnds
    <2>2. LocalBoxOK(b)'
      BY <1>3, <1>4, <1>6, <2>1 DEF LocalBoxOK, Blamed
    <2> QED BY <1>1, <1>7, <2>1, <2>2, LocalStep
  <1>10. CASE LocalClear(c)
    <2>1. EndPart(c, b \in Ephemeral, TRUE) \/ (EndPart(c, FALSE, FALSE) /\ Fault(b, "clear"))
      BY <1>10 DEF LocalClear
    <2>2. EndPart(c, b \in Ephemeral, TRUE) => EndPart(c, TRUE, TRUE) \/ EndPart(c, FALSE, TRUE)
      BY DEF EndPart
    <2> QED BY <1>8, <1>9, <2>1, <2>2
  <1>11. CASE LocalUnpack(c)
    <2>1. EndPart(c, TRUE, FALSE) \/ EndPart(c, FALSE, TRUE)
      BY <1>11 DEF LocalUnpack
    <2>2. EndPart(c, TRUE, FALSE) => EndPart(c, TRUE, TRUE)
      BY DEF EndPart
    <2> QED BY <1>9, <2>1, <2>2
  <1> QED BY <1>10, <1>11

\* destroy: the record first, then the directory.  A destroy that ends well has found no
\* directory or has removed it.
LEMMA LocalDestroyEnds ==
  ASSUME LocalInv, NEW c \in Calls, call[c].pc # "idle", Head(call[c].todo) = "destroy",
         NEW b \in Boxes, b = call[c].box, NEW ok \in BOOLEAN, EndPart(c, ok, FALSE),
         LocalTouches(c, b), Blamed(b), workspaces' \subseteq workspaces,
         entry'[b] \in {entry[b], "none"},
         ~ok => ~Creates(c) \/ ~(blame'[b] \subseteq {"unpack"}),
         ok => entry'[b] = "none" /\ b \notin workspaces'
  PROVE  LocalInv'
  <1>1. /\ \/ call[c].op = "destroy" /\ ~call[c].undo
           \/ call[c].op = "restore" /\ call[c].undo
        /\ LocalBoxOK(b)
    BY LocalGoing, PartSays DEF TodoOK
  <1>2. CASE Creates(c)
    <2>1. Returned(c, FALSE)
      BY <1>1, <1>2, LocalEnds DEF Creates
    <2>2. LocalMoves(c, b) /\ LocalCallOK(c)' /\ status'[b] = "failed"
      BY <1>2, <2>1, LocalReturns
    <2>3. LocalBoxOK(b)'
      BY <1>1, <1>2, <2>2 DEF LocalBoxOK, Blamed
    <2> QED BY <2>2, <2>3, LocalStep
  <1>3. CASE ~Creates(c)
    <2>1. call[c].op = "destroy" /\ ~call[c].undo
      BY <1>1, <1>3 DEF Creates
    <2>2. Returned(c, ok)
      BY <2>1, LocalEnds
    <2>3. LocalMoves(c, b) /\ LocalCallOK(c)' /\ status'[b] = IF ok THEN "destroyed" ELSE status[b]
      BY <1>3, <2>1, <2>2, LocalReturns
    <2>4. status[b] \in {"live", "destroyed"}
      BY <1>3, LocalGoing
    <2>5. LocalBoxOK(b)'
      BY <1>1, <2>3, <2>4 DEF LocalBoxOK, Blamed
    <2> QED BY <2>3, <2>5, LocalStep
  <1> QED BY <1>2, <1>3

LEMMA LocalRemoveStep ==
  ASSUME LocalInv, NEW c \in Calls, LocalRemove(c)
  PROVE  LocalInv'
  <1>1. call[c].pc = "dispatch" /\ Head(call[c].todo) = "destroy"
    BY DEF LocalRemove, At, CallAt, Part
  <1> PICK b \in Boxes : b = call[c].box
    BY <1>1, LocalGoing
  <1>2. LocalCallOK(c) /\ LocalBoxOK(b)
    BY <1>1, LocalGoing
  <1>3. entry' = [entry EXCEPT ![b] = "none"] /\ NoFault /\ UNCHANGED workspaces
    BY DEF LocalRemove
  <1>4. /\ entry' \in [Boxes -> {"none", "direct", "helper", "vm", "local"}]
        /\ entry'[b] = "none" /\ \A a \in Boxes : a # b => entry'[a] = entry[a]
    BY <1>3, LocalTyped
  <1>5. Blamed(b) /\ blame' = blame
    BY <1>3, LocalNoFault
  <1>6. LocalTouches(c, b)
    BY <1>3, <1>4, <1>5, LocalTyped DEF LocalTouches, Blamed
  <1>7. CASE entry[b] = "none" /\ EndPart(c, FALSE, FALSE)
    <2>1. ~Creates(c)
      <3>1. call[c].todo = <<"destroy">> /\ <<"destroy">> # Whole
        BY <1>1, LocalGoing, PartSays, Queues
      <3>2. call[c].op # "restore"
        BY <1>1, <1>2, <1>7, <3>1 DEF LocalCallOK, Built
      <3> QED BY <1>1, <3>2, LocalGoing, PartSays DEF Creates
    <2> QED BY <1>1, <1>3, <1>4, <1>5, <1>6, <1>7, <2>1, LocalDestroyEnds
  <1>8. CASE b \in Ephemeral \cap workspaces /\ Place(c, "clean")
    <2>1. "clean" \in LocalPlaces \ {"idle"} /\ "clean" \notin FilePlaces
      BY DEF LocalPlaces, FilePlaces
    <2>2. /\ LocalMoves(c, b) /\ status' = status
          /\ call'[c].pc = "clean" /\ call'[c].op = call[c].op /\ call'[c].box = b
          /\ call'[c].todo = call[c].todo /\ call'[c].undo = call[c].undo
      BY <1>1, <1>8, <2>1, LocalPlacing
    <2>3. TodoOK(call[c])'
      BY <1>1, <2>2, LocalGoing DEF TodoOK
    <2>4. LocalCallOK(c)'
      BY <1>1, <1>2, <1>4, <2>1, <2>2, <2>3 DEF LocalCallOK, Creates, Built
    <2>5. LocalBoxOK(b)'
      <3>1. status[b] # "failed"
        BY <1>1, LocalGoing
      <3> QED BY <1>2, <1>3, <1>4, <1>5, <2>2, <3>1 DEF LocalBoxOK
    <2> QED BY <1>1, <1>6, <2>2, <2>4, <2>5, LocalStep
  <1>9. CASE b \notin Ephemeral \cap workspaces /\ EndPart(c, TRUE, FALSE)
    <2>1. b \notin workspaces
      BY <1>9, LocalTyped
    <2> QED BY <1>1, <1>3, <1>4, <1>5, <1>6, <1>9, <2>1, LocalDestroyEnds
  <1> QED BY <1>7, <1>8, <1>9 DEF LocalRemove

LEMMA LocalCleanStep ==
  ASSUME LocalInv, NEW c \in Calls, LocalClean(c)
  PROVE  LocalInv'
  <1>1. call[c].pc = "clean"
    BY DEF LocalClean, CallAt
  <1> PICK b \in Boxes : b = call[c].box
    BY <1>1, LocalGoing
  <1>2. Head(call[c].todo) = "destroy" /\ entry[b] = "none"
    BY <1>1, LocalGoing DEF LocalCallOK
  <1>3. UNCHANGED entry /\ workspaces' \subseteq workspaces
        /\ \A a \in Boxes : a # b => (a \in workspaces' => a \in workspaces)
    BY DEF LocalClean
  <1>4. CASE workspaces' = workspaces \ {b} /\ EndPart(c, TRUE, FALSE) /\ NoFault
    <2>1. Blamed(b)
      BY <1>4, LocalNoFault
    <2>2. LocalTouches(c, b)
      BY <1>2, <1>3, <2>1, LocalTyped DEF LocalTouches, Blamed
    <2> QED BY <1>1, <1>2, <1>3, <1>4, <2>1, <2>2, LocalDestroyEnds
  <1>5. CASE Fault(b, "workspace") /\ EndPart(c, FALSE, FALSE)
    <2>1. Blamed(b) /\ "workspace" \in blame'[b]
      BY <1>5, LocalFault DEF LocalCauses
    <2>2. LocalTouches(c, b)
      BY <1>2, <1>3, <2>1, LocalTyped DEF LocalTouches, Blamed
    <2> QED BY <1>1, <1>2, <1>3, <1>5, <2>1, <2>2, LocalDestroyEnds
  <1> QED BY <1>4, <1>5 DEF LocalClean

-----------------------------------------------------------------------------
(* What begins a call, and what goes wrong from outside.                   *)

LEMMA LocalPartsOK ==
  ASSUME NEW op \in Operations
  PROVE  LocalParts(op) \in Todos /\ LocalParts(op) = IF op = "restore" THEN Whole ELSE <<op>>
  BY DEF LocalParts, Todos, Restoring, Whole

LEMMA LocalBeginStep ==
  ASSUME LocalInv, NEW c \in Calls, NEW op \in Operations, NEW b \in Boxes, LocalBegin(c, op, b)
  PROVE  LocalInv'
  <1>1. call[c] = NoCall /\ call \in [Calls -> LocalCalls] /\ status \in [Boxes -> Statuses]
    BY LocalTyped DEF LocalInv, LocalBegin, BeginCall, CallAt, LocalCallOK
  <1>2. UNCHANGED <<entry, workspaces, blame, faults>>
    BY DEF LocalBegin, NoFault
  <1>3. IF op \in {"create", "restore"}
        THEN status[b] = "unborn" /\ status' = [status EXCEPT ![b] = "pending"]
        ELSE status[b] = "live" /\ UNCHANGED status
    BY DEF LocalBegin, BeginCall
  <1>4. call'[c] = [op |-> op, box |-> b, pc |-> "dispatch", todo |-> LocalParts(op), undo |-> FALSE]
        /\ (\A d \in Calls : d # c => call'[d] = call[d])
    BY <1>1 DEF LocalBegin, BeginCall
  <1>5. call'[c] \in LocalCalls
    BY <1>4, LocalPartsOK DEF LocalCalls, LocalPlaces
  <1>6. call' \in [Calls -> LocalCalls]
    BY <1>1, <1>4, <1>5 DEF LocalBegin, BeginCall
  <1>7. status' \in [Boxes -> Statuses] /\ \A a \in Boxes : status'[a] = status[a] \/ status'[a] = "pending"
    BY <1>1, <1>3 DEF Statuses
  <1>8. LocalTypeOK'
    BY <1>2, <1>6, <1>7 DEF LocalInv, LocalTypeOK, CallsTypeOK, LocalCalls, Statuses
  <1>9. LocalCallOK(c)'
    <2>1. TodoOK(call[c])'
      BY <1>4, LocalPartsOK DEF TodoOK, Restoring
    <2>2. IF Creates(c)' THEN status'[b] = "pending" ELSE status'[b] = "live"
      BY <1>1, <1>3, <1>4 DEF Creates
    <2>3. ~Built(c)'
      BY <1>4, LocalPartsOK DEF Built
    <2> QED BY <1>4, <2>1, <2>2, <2>3 DEF LocalCallOK, FilePlaces, Creates
  <1>10. ASSUME NEW d \in Calls, d # c PROVE LocalCallOK(d)'
    <2>1. LocalCallOK(d) /\ call'[d] = call[d]
      BY <1>4, <1>10 DEF LocalInv
    <2>2. CASE call[d].pc = "idle"
      BY <2>1, <2>2 DEF LocalCallOK, NoCall, Creates, TodoOK, FilePlaces, Built, Operations
    <2>3. CASE call[d].pc # "idle"
      <3>1. status[call[d].box] \in {"pending", "live", "destroyed"} /\ call[d].box \in Boxes
        BY <2>3, LocalGoing
      <3>2. status'[call[d].box] = status[call[d].box]
        BY <1>1, <1>3, <3>1
      <3> QED BY <1>2, <2>1, <3>2 DEF LocalCallOK, Creates, TodoOK, Built
    <2> QED BY <2>2, <2>3
  <1>11. Apart'
    <2>1. ASSUME NEW d \in Calls, d # c, Creates(c)', Creates(d)' PROVE call'[d].box # b
      <3>1. Creates(d) /\ call'[d] = call[d] /\ status[call[d].box] = "pending"
        BY <1>4, <2>1 DEF Creates, LocalInv, LocalCallOK
      <3>2. status[b] = "unborn"
        BY <1>3, <1>4, <2>1 DEF Creates
      <3> QED BY <3>1, <3>2
    <2>2. ASSUME NEW d \in Calls, NEW e \in Calls, d # c, e # c, d # e, Creates(d)', Creates(e)'
          PROVE  call'[d].box # call'[e].box
      BY <1>4, <2>2 DEF Creates, LocalInv, Apart
    <2> QED BY <1>4, <2>1, <2>2 DEF Apart
  <1>12. ASSUME NEW a \in Boxes PROVE LocalBoxOK(a)'
    BY <1>2, <1>7 DEF LocalInv, LocalBoxOK
  <1> QED BY <1>2, <1>6, <1>8, <1>9, <1>10, <1>11, <1>12 DEF LocalInv

LEMMA LocalDropStep ==
  ASSUME LocalInv, NEW c \in Calls, LocalDrop(c)
  PROVE  LocalInv'
  <1>1. call[c].pc # "idle"
    BY DEF LocalDrop, DropCall, CallAt
  <1> PICK b \in Boxes : b = call[c].box
    BY <1>1, LocalGoing
  <1>2. Fault(b, "dropped") /\ call' = [call EXCEPT ![c] = NoCall]
        /\ status' = (IF status[b] = "pending" THEN [status EXCEPT ![b] = "failed"] ELSE status)
        /\ UNCHANGED entry
    BY DEF LocalDrop, DropCall
  <1>3. NoCall \in LocalCalls
    BY DEF NoCall, LocalCalls, LocalPlaces, Todos
  <1>4. call' \in [Calls -> LocalCalls] /\ call'[c] = NoCall /\ \A d \in Calls : d # c => call'[d] = call[d]
    BY <1>2, <1>3, LocalTyped
  <1>5. LocalCallOK(c)'
    BY <1>4 DEF LocalCallOK, NoCall, Creates, TodoOK, FilePlaces, Built, Operations
  <1>6. /\ status' \in [Boxes -> Statuses] /\ \A a \in Boxes : a # b => status'[a] = status[a]
        /\ IF status[b] = "pending" THEN status'[b] = "failed" ELSE status'[b] = status[b]
    BY <1>2, LocalTyped DEF Statuses
  <1>7. LocalMoves(c, b)
    BY <1>4, <1>6 DEF LocalMoves
  <1>8. Blamed(b) /\ "dropped" \in blame'[b]
    BY <1>2, LocalFault DEF LocalCauses
  <1>9. /\ workspaces' \subseteq Ephemeral
        /\ \A a \in Boxes : a # b => (a \in workspaces' => a \in workspaces)
    <2>1. workspaces' \in {workspaces, workspaces \cup Own(b), workspaces \ Own(b)}
      BY DEF LocalDrop
    <2>2. Own(b) \subseteq Ephemeral /\ Own(b) \subseteq {b}
      BY DEF Own
    <2> QED BY <2>1, <2>2, LocalTyped
  <1>10. LocalTouches(c, b)
    BY <1>2, <1>8, <1>9, LocalTyped DEF LocalTouches, Blamed
  <1>11. LocalBoxOK(b)'
    <2>1. LocalBoxOK(b) /\ status[b] \in {"pending", "live", "destroyed"}
      BY <1>1, LocalGoing
    <2> QED BY <1>2, <1>6, <1>8, <2>1 DEF LocalBoxOK, Blamed
  <1> QED BY <1>1, <1>5, <1>7, <1>10, <1>11, LocalStep

LEMMA LocalRestartStep ==
  ASSUME LocalInv, LocalRestarts
  PROVE  LocalInv'
  <1>1. /\ entry' = [b \in Boxes |-> "none"]
        /\ call' = [c \in Calls |-> NoCall]
        /\ status' = [b \in Boxes |-> IF b \in Pending THEN "failed" ELSE status[b]]
        /\ UNCHANGED workspaces
    BY DEF LocalRestarts, ForgetCalls
  <1>2. blame' = [b \in Boxes |->
                    IF entry[b] # "none" \/ status[b] \in {"pending", "live"}
                       \/ \E c \in Calls : call[c].box = b
                    THEN blame[b] \cup {"lost"} ELSE blame[b]]
    BY DEF LocalRestarts
  <1>3. NoCall \in LocalCalls
    BY DEF NoCall, LocalCalls, LocalPlaces, Todos
  <1>4. call' \in [Calls -> LocalCalls] /\ blame' \in [Boxes -> SUBSET LocalCauses]
        /\ workspaces' \subseteq Ephemeral
    BY <1>1, <1>2, <1>3, LocalTyped DEF LocalCauses
  <1>6. LocalTypeOK'
    <2>1. faults' \in 0 .. MaxFaults
      BY LocalTyped, BackendAssumption DEF LocalRestarts
    <2>2. status' \in [Boxes -> Statuses]
      BY <1>1, LocalTyped DEF Statuses
    <2>3. workspaces' \subseteq Boxes
      BY <1>4, BackendAssumption
    <2> QED BY <1>1, <1>4, <2>1, <2>2, <2>3 DEF LocalTypeOK, CallsTypeOK, LocalCalls, Statuses
  <1>7. ASSUME NEW c \in Calls PROVE LocalCallOK(c)'
    BY <1>1 DEF LocalCallOK, NoCall, Creates, TodoOK, FilePlaces, Built, Operations
  <1>8. Apart'
    BY <1>1 DEF Apart, Creates, NoCall
  <1>9. ASSUME NEW b \in Boxes PROVE LocalBoxOK(b)'
    <2>1. LocalBoxOK(b) /\ blame[b] \subseteq blame'[b] /\ entry'[b] = "none"
      BY <1>1, <1>2 DEF LocalInv
    <2>3. status'[b] = IF status[b] = "pending" THEN "failed" ELSE status[b]
      BY <1>1 DEF Pending
    <2>4. status[b] = "pending" => "lost" \in blame'[b]
      BY <1>2
    <2> QED BY <1>1, <2>1, <2>3, <2>4 DEF LocalBoxOK
  <1> QED BY <1>4, <1>6, <1>7, <1>8, <1>9 DEF LocalInv

\* Steps that leave the calls and the sandboxes alone.
LEMMA LocalUntouched ==
  ASSUME LocalInv, UNCHANGED callVars
  PROVE  LocalInv'
  <1>1. LocalTypeOK'
    BY DEF LocalInv, LocalTypeOK, CallsTypeOK, callVars
  <1>2. \A c \in Calls : LocalCallOK(c)'
    BY DEF LocalInv, LocalCallOK, TodoOK, Creates, Built, callVars
  <1>3. Apart' /\ \A b \in Boxes : LocalBoxOK(b)'
    BY DEF LocalInv, Apart, Creates, LocalBoxOK, callVars
  <1> QED BY <1>1, <1>2, <1>3 DEF LocalInv, callVars

LEMMA LocalInitInv == LocalInit => LocalInv
  <1> SUFFICES ASSUME LocalInit PROVE LocalInv
    OBVIOUS
  <1>1. call \in [Calls -> LocalCalls] /\ \A c \in Calls : call[c] = NoCall
    BY DEF LocalInit, CallsInit, NoCall, LocalCalls, Todos, LocalPlaces
  <1>2. LocalTypeOK
    BY <1>1, BackendAssumption DEF LocalInit, CallsInit, LocalTypeOK, CallsTypeOK, NoCall
  <1>3. \A c \in Calls : LocalCallOK(c)
    BY <1>1 DEF LocalCallOK, NoCall, Creates, TodoOK, FilePlaces, Built, Operations
  <1>4. Apart
    BY <1>1 DEF Apart, Creates, NoCall
  <1>5. \A b \in Boxes : LocalBoxOK(b)
    BY DEF LocalInit, CallsInit, LocalBoxOK
  <1>6. blame \in [Boxes -> SUBSET LocalCauses] /\ workspaces \subseteq Ephemeral
    BY DEF LocalInit, CallsInit
  <1> QED BY <1>1, <1>2, <1>3, <1>4, <1>5, <1>6 DEF LocalInv

LEMMA LocalNextInv == LocalInv /\ [LocalNext]_callVars => LocalInv'
  <1> SUFFICES ASSUME LocalInv, [LocalNext]_callVars PROVE LocalInv'
    OBVIOUS
  <1>1. ASSUME NEW c \in Calls, NEW op \in Operations, NEW b \in Boxes, LocalBegin(c, op, b)
        PROVE  LocalInv'
    BY <1>1, LocalBeginStep
  <1>2. ASSUME NEW c \in Calls, LocalGoesOn(c) PROVE LocalInv'
    BY <1>2, LocalAsking, LocalCreate, LocalRestore, LocalRemoveStep, LocalCleanStep DEF LocalGoesOn
  <1>3. ASSUME NEW c \in Calls, LocalDrop(c) PROVE LocalInv'
    BY <1>3, LocalDropStep
  <1>4. CASE LocalRestarts
    BY <1>4, LocalRestartStep
  <1>5. CASE UNCHANGED callVars
    BY <1>5, LocalUntouched
  <1> QED BY <1>1, <1>2, <1>3, <1>4, <1>5 DEF LocalNext

-----------------------------------------------------------------------------
(* The deployment: before a part is chosen both backends are as they begin; *)
(* the one that is chosen takes its own steps, and no other part touches it. *)

BackendsInv ==
    /\ part \in {"none", "firecracker"} => FcInv /\ FcGoneInv
    /\ part \in {"none", "local"} => LocalInv

LEMMA BackendsInit == DeploymentInit => BackendsInv
  BY FcInitInv, FcGoneInit, LocalInitInv DEF DeploymentInit, BackendsInv

\* A step of another part.
LEMMA BackendsRest ==
  ASSUME BackendsInv, UNCHANGED <<callVars, fcOwn>>,
         part' = part \/ part = "none"
  PROVE  BackendsInv'
  <1>1. UNCHANGED fcVars /\ UNCHANGED callVars
    BY DEF fcVars
  <1>2. FcInv /\ FcGoneInv => (FcInv /\ FcGoneInv)'
    BY <1>1, FcStep, FcGoneStep
  <1>3. LocalInv => LocalInv'
    BY <1>1, LocalNextInv
  <1> QED BY <1>2, <1>3 DEF BackendsInv

LEMMA BackendsStep == BackendsInv /\ [DeploymentNext]_deploymentVars => BackendsInv'
  <1> SUFFICES ASSUME BackendsInv, [DeploymentNext]_deploymentVars PROVE BackendsInv'
    OBVIOUS
  <1>1. CASE Starts
    BY <1>1, BackendsRest DEF Starts, OthersThanRequest
  <1>2. ASSUME NEW p, Choose(p) PROVE BackendsInv'
    BY <1>2, BackendsRest DEF Choose
  <1>3. CASE FcPart
    BY <1>3, FcStep, FcGoneStep DEF FcPart, In, BackendsInv
  <1>4. CASE LocalPart
    BY <1>4, LocalNextInv DEF LocalPart, In, BackendsInv
  <1>5. CASE ApplePart
    BY <1>5 DEF ApplePart, In, BackendsInv
  <1>6. CASE RequestPart \/ LogPart \/ ShellPart \/ RelayPart
    BY <1>6 DEF RequestPart, LogPart, ShellPart, RelayPart, In, BackendsInv
  <1>7. CASE UNCHANGED deploymentVars
    BY <1>7, BackendsRest DEF deploymentVars
  <1> QED BY <1>1, <1>2, <1>3, <1>4, <1>5, <1>6, <1>7 DEF DeploymentNext

LEMMA BackendsAlways == DeploymentSpec => []BackendsInv
  BY BackendsInit, BackendsStep, PTL DEF DeploymentSpec

\* On a server with the Firecracker backend a sandbox that destroy reported gone has no VM,
\* no refresh task and no rule but the shared masquerading, and a directory only if a call
\* that had looked it up came to the agent later (FirecrackerBackend::destroy).
THEOREM FcDestroyCompletes == DeploymentSpec => []FcDestroyIsComplete
  <1>1. BackendsInv => FcDestroyIsComplete
    BY FcGoneSays DEF BackendsInv, FcDestroyIsComplete
  <1> QED BY <1>1, BackendsAlways, PTL

\* On a server with the local backend such a sandbox has no directory of hyperbox's own, but
\* for a call that had looked it up before or was dropped.  Of its commands, which no
\* operation ends, this says nothing (LocalBackend::destroy, write_file).
THEOREM LocalDestroyCompletes == DeploymentSpec => []LocalDestroyIsComplete
  <1>1. LocalInv => LocalDestroyedIsGone
    <2> SUFFICES ASSUME LocalInv, NEW b \in workspaces, status[b] = "destroyed"
                 PROVE  blame[b] \cap {"late", "dropped"} # {}
      BY DEF LocalDestroyedIsGone
    <2>1. b \in Boxes
      BY BackendAssumption DEF LocalInv
    <2> QED BY <2>1 DEF LocalInv, LocalBoxOK
  <1>2. BackendsInv => LocalDestroyIsComplete
    BY <1>1 DEF BackendsInv, LocalDestroyIsComplete
  <1> QED BY <1>2, BackendsAlways, PTL

\* With either backend, a restore that is refused for its shared workspace or cannot unpack
\* its archive leaves nothing of the sandbox it created (restore_snapshot).
THEOREM RestoreUndoes == DeploymentSpec => []RestoreUndone
  <1>1. LocalInv => LocalRestoreUndone
    BY DEF LocalInv, LocalBoxOK, LocalRestoreUndone
  <1>2. BackendsInv => RestoreUndone
    BY <1>1, FcGoneSays DEF BackendsInv, RestoreUndone
  <1> QED BY <1>2, BackendsAlways, PTL

-----------------------------------------------------------------------------
(* A request for a sandbox, from the start of the server to the inspection *)
(* of what was created: every step before the last leaves what it has      *)
(* decided as it is, so that the record can be said by the request alone.  *)

\* The record that is sent for a request.
SentFor(r) ==
    [mode |-> IF r.by = "cli" THEN ResolveNetworkPolicy(r) ELSE NetworkFields(r),
     vcpus |-> r.vcpus, timeout |-> r.timeout]

\* What the CLI has told its user; the other clients tell nothing.
ToldOf(r) ==
    IF r.by = "cli"
    THEN /\ told = [mode |-> ResolveNetworkPolicy(r),
                    enforcement |-> NetworkEnforcement(ResolveNetworkPolicy(r))]
         /\ ResolveNetworkPolicy(r) # Invalid
         /\ NetworkEnforcement(ResolveNetworkPolicy(r)) # "unsupported"
    ELSE told = NoSummary

ServerOK == server = NoServer \/ \E h \in Hosts : server = Selection(h)

RequestInv ==
    /\ host = NoHost \/ host \in Hosts
    /\ ServerOK
    /\ stage # "none" => part = "request" /\ server # NoServer
    /\ stage \in {"none", "start"} => told = NoSummary
    /\ stage \in {"sent", "accepted", "lacking", "created"} => asked \in Requests /\ ToldOf(asked)
    /\ stage = "sent" => config = SentFor(asked)
    /\ stage \in {"accepted", "lacking", "created"} =>
         config = FromWire(SentFor(asked)) /\ config.mode # Invalid
    /\ stage \in {"accepted", "created"} => ~Refuses(config.mode)
    /\ stage = "lacking" => LacksRuntime
    /\ details = NoConfig \/ stage = "created"
    /\ details # NoConfig => details = [config EXCEPT !.mode = ModeFromWire(@), !.vcpus = @ % 256]

LEMMA RequestStarts == DeploymentInit => RequestInv
  BY DEF DeploymentInit, RequestInit, RequestInv, ServerOK

\* No step of another part touches a request that has begun.
LEMMA RequestRests ==
  ASSUME RequestInv, UNCHANGED <<asked, told, config, stage, details>>,
         \/ stage = "none" /\ ServerOK' /\ (host' = host \/ host' = NoHost)
         \/ part' = part /\ UNCHANGED <<server, info, host>>
  PROVE  RequestInv'
  <1>1. CASE stage = "none" /\ ServerOK' /\ (host' = host \/ host' = NoHost)
    BY <1>1 DEF RequestInv
  <1>2. CASE part' = part /\ UNCHANGED <<server, info, host>>
    BY <1>2 DEF RequestInv, ServerOK, ToldOf, NetworkEnforcement, Refuses, LacksRuntime
  <1> QED BY <1>1, <1>2

LEMMA RequestGoes ==
  ASSUME RequestInv, RequestGoesOn, part' = part
  PROVE  RequestInv'
  <1>1. CASE LoadServerInfo
    BY <1>1 DEF LoadServerInfo, RequestInv, ServerOK
  <1>2. ASSUME NEW r \in Requests, AskCli(r) PROVE RequestInv'
    <2>1. /\ asked' = r /\ r.by = "cli" /\ stage = "start" /\ UNCHANGED <<host, server, info, details>>
          /\ \/ stage' = "refused"
             \/ /\ ResolveNetworkPolicy(r) # Invalid
                /\ NetworkEnforcement(ResolveNetworkPolicy(r)) # "unsupported"
                /\ told' = [mode |-> ResolveNetworkPolicy(r),
                            enforcement |-> NetworkEnforcement(ResolveNetworkPolicy(r))]
                /\ config' = SentFor(r)
                /\ stage' = "sent"
      BY <1>2 DEF AskCli, SentFor
    <2>2. stage' = "sent" => ToldOf(r)'
      BY <2>1 DEF ToldOf, NetworkEnforcement
    <2> QED BY <2>1, <2>2 DEF RequestInv, ServerOK
  <1>3. ASSUME NEW r \in Requests, AskWire(r) PROVE RequestInv'
    <2>1. /\ asked' = r /\ r.by # "cli" /\ stage = "start" /\ UNCHANGED <<host, server, info, told, details>>
          /\ config' = SentFor(r) /\ stage' = "sent"
      BY <1>3 DEF AskWire, SentFor
    <2> QED BY <2>1 DEF RequestInv, ServerOK, ToldOf
  <1>4. CASE ReceiveCreate
    <2>1. /\ stage = "sent" /\ config' = FromWire(SentFor(asked))
          /\ UNCHANGED <<host, server, info, asked, told, details>>
      BY <1>4 DEF ReceiveCreate, RequestInv
    <2>2. \/ stage' = "refused"
          \/ /\ stage' \in {"lacking", "accepted"}
             /\ config'.mode # Invalid /\ ~Refuses(config'.mode)
             /\ stage' = "lacking" => LacksRuntime
      BY <1>4 DEF ReceiveCreate
    <2>3. ToldOf(asked)'
      BY <2>1 DEF RequestInv, ToldOf, NetworkEnforcement
    <2>4. stage' \in {"lacking", "accepted"} => ~Refuses(config.mode)'
      BY <2>1, <2>2 DEF Refuses
    <2>5. stage' = "lacking" => LacksRuntime'
      BY <2>1, <2>2 DEF LacksRuntime
    <2> QED BY <2>1, <2>2, <2>3, <2>4, <2>5 DEF RequestInv, ServerOK
  <1>5. CASE CreateEnds
    <2>1. /\ stage = "accepted" /\ stage' \in {"created", "refused"}
          /\ UNCHANGED <<host, server, info, asked, told, config, details>>
      BY <1>5 DEF CreateEnds
    <2>2. ToldOf(asked)' /\ ~Refuses(config.mode)'
      BY <2>1 DEF RequestInv, ToldOf, NetworkEnforcement, Refuses
    <2> QED BY <2>1, <2>2 DEF RequestInv, ServerOK
  <1>6. CASE InspectDetails
    <2>1. /\ stage = "created" /\ UNCHANGED <<host, server, info, asked, told, config, stage>>
          /\ details' = [config EXCEPT !.mode = ModeFromWire(@), !.vcpus = @ % 256]
      BY <1>6 DEF InspectDetails
    <2>2. ToldOf(asked)' /\ ~Refuses(config.mode)'
      BY <2>1 DEF RequestInv, ToldOf, NetworkEnforcement, Refuses
    <2> QED BY <2>1, <2>2 DEF RequestInv, ServerOK
  <1> QED BY <1>1, <1>2, <1>3, <1>4, <1>5, <1>6 DEF RequestGoesOn

LEMMA RequestStep == RequestInv /\ [DeploymentNext]_deploymentVars => RequestInv'
  <1> SUFFICES ASSUME RequestInv, [DeploymentNext]_deploymentVars PROVE RequestInv'
    OBVIOUS
  <1>1. CASE Starts
    <2>1. /\ host # NoHost /\ server' = Selection(host) /\ host' = NoHost /\ part = "none"
          /\ UNCHANGED <<asked, told, config, stage, details>>
      BY <1>1 DEF Starts, StartServer
    <2>2. stage = "none" /\ host \in Hosts
      BY <2>1 DEF RequestInv
    <2> QED BY <2>1, <2>2, RequestRests DEF ServerOK
  <1>2. ASSUME NEW p, Choose(p) PROVE RequestInv'
    <2>1. /\ part = "none" /\ server # NoServer /\ part' = p
          /\ UNCHANGED <<host, info, asked, told, config, details>>
          /\ IF p = "request" THEN stage' = "start" /\ UNCHANGED server
             ELSE server' = NoServer /\ UNCHANGED stage
      BY <1>2 DEF Choose
    <2>2. stage = "none" /\ details = NoConfig
      BY <2>1 DEF RequestInv
    <2>3. CASE p = "request"
      BY <2>1, <2>2, <2>3 DEF RequestInv, ServerOK
    <2>4. CASE p # "request"
      BY <2>1, <2>2, <2>4, RequestRests DEF ServerOK
    <2> QED BY <2>3, <2>4
  <1>3. CASE RequestPart
    BY <1>3, RequestGoes DEF RequestPart, In
  <1>4. CASE ApplePart \/ FcPart \/ LocalPart \/ LogPart \/ ShellPart \/ RelayPart
    <2>1. part' = part /\ UNCHANGED requestVars
      BY <1>4 DEF ApplePart, FcPart, LocalPart, LogPart, ShellPart, RelayPart, In, OthersThanApple,
             OthersThanFc, OthersThanLocal, OthersThanBackends, NoBackend
    <2> QED BY <2>1, RequestRests DEF requestVars
  <1>5. CASE UNCHANGED deploymentVars
    BY <1>5, RequestRests DEF deploymentVars, requestVars
  <1> QED BY <1>1, <1>2, <1>3, <1>4, <1>5 DEF DeploymentNext

LEMMA RequestAlways == DeploymentSpec => []RequestInv
  BY RequestStarts, RequestStep, PTL DEF DeploymentSpec

\* The modes of a policy: what is resolved for a request and what arrives of it.
LEMMA ModeShape ==
  ASSUME NEW k, NEW d
  PROVE  Mode(k, d).kind = k /\ Mode(k, d).domains = d
  BY DEF Mode

LEMMA Arrives ==
  ASSUME NEW m, ModeFromWire(m) # Invalid
  PROVE  /\ ModeFromWire(m).kind \in {m.kind, "none"}
         /\ ModeFromWire(m).domains \in {m.domains, {}}
         /\ ModeFromWire(m).kind # "allowlist" => ModeFromWire(m).domains = {}
         /\ ModeFromWire(m).kind = "allowlist" => ModeFromWire(m) = m
         /\ ModeFromWire(m).kind = "full" => m.kind = "full"
         /\ ModeFromWire(m).kind = "none" => m.kind \notin {"full", "allowlist"}
         /\ ModeFromWire(ModeFromWire(m)) = ModeFromWire(m)
  <1> USE ModeShape
  <1>1. CASE m.kind \notin {"full", "allowlist"}
    BY <1>1 DEF ModeFromWire
  <1>2. CASE m.kind = "full"
    BY <1>2 DEF ModeFromWire
  <1>3. CASE m.kind = "allowlist"
    <2>1. ModeFromWire(m) = m
      BY <1>3 DEF ModeFromWire
    <2> QED BY <1>3, <2>1
  <1> QED BY <1>1, <1>2, <1>3

LEMMA Overrides ==
  ASSUME NEW m, NEW network
  PROVE  /\ network = "absent" => Override(m, network) = m
         /\ network # "absent" => Override(m, network).kind = network
         /\ Override(m, network).domains \in {m.domains, {}}
  BY ModeShape DEF Override

LEMMA Replaces ==
  ASSUME NEW m, NEW allow, Replaced(m, allow) # Invalid
  PROVE  /\ Replaced(m, allow).kind = m.kind
         /\ Replaced(m, allow).domains = IF allow = {} THEN m.domains ELSE allow
         /\ allow = {} \/ m.kind = "allowlist"
  BY ModeShape DEF Replaced

LEMMA Resolved ==
  ASSUME NEW r \in Requests, ResolveNetworkPolicy(r) # Invalid
  PROVE  LET m == ResolveNetworkPolicy(r) IN
         /\ m.domains \subseteq IF r.allow # {} THEN r.allow ELSE r.profile.allow
         /\ r.network # "absent" => m.kind = r.network
         /\ r.network = "absent" /\ r.profile.name \in {"absent", "locked"} => m.kind = "none"
         /\ m # Mode("allowlist", {})
  <1> DEFINE d == ProfileMode(r.profile)
             o == Override(d, r.network)
             m == Replaced(o, r.allow)
  <1>1. ResolveNetworkPolicy(r) = m /\ m # Invalid /\ d # Invalid /\ m # Mode("allowlist", {})
    BY DEF ResolveNetworkPolicy
  <1>2. r.profile.name \in {"absent", "locked", "web", "full", "file", "missing"}
    BY RequestAssumption DEF RequestAssumption
  <1>3. d.domains \in {{}, r.profile.allow}
        /\ (r.profile.name \in {"absent", "locked"} => d.kind = "none")
    BY <1>1, <1>2, ModeShape DEF ProfileMode
  <1>4. /\ r.network = "absent" => o = d
        /\ r.network # "absent" => o.kind = r.network
        /\ o.domains \in {d.domains, {}}
    BY Overrides
  <1>5. /\ m.kind = o.kind
        /\ m.domains = IF r.allow = {} THEN o.domains ELSE r.allow
    BY <1>1, Replaces
  <1> HIDE DEF d, o, m
  <1>6. m.domains \subseteq IF r.allow # {} THEN r.allow ELSE r.profile.allow
    BY <1>3, <1>4, <1>5
  <1> QED BY <1>1, <1>3, <1>4, <1>5, <1>6

\* What a created sandbox's record says of its network, from the request.
LEMMA Recorded ==
  ASSUME RequestInv, stage = "created"
  PROVE  /\ asked \in Requests /\ config.mode # Invalid
         /\ config.mode = ModeFromWire(SentFor(asked).mode)
         /\ asked.by = "cli" => ResolveNetworkPolicy(asked) # Invalid
                                /\ SentFor(asked).mode = ResolveNetworkPolicy(asked)
         /\ asked.by # "cli" => SentFor(asked).mode = NetworkFields(asked)
  BY DEF RequestInv, FromWire, SentFor, ToldOf

LEMMA Selects ==
  ASSUME RequestInv, stage # "none"
  PROVE  \E h \in Hosts : server = Selection(h)
  BY DEF RequestInv, ServerOK

LEMMA SelectionFacts ==
  ASSUME NEW h \in Hosts
  PROVE  /\ Selection(h).backend = Selected(h) /\ Selection(h).requested = h.wants
         /\ Selected(h) \in {"local", "firecracker", "apple", "unavailable"}
         /\ Selected(h) = "local" => h.wants = "local"
         /\ Selected(h) = "apple" =>
              /\ AppleUsable(h)
              /\ Selection(h).runtime = AppleRuntime(h) /\ Selection(h).helper = HelperCommand(h)
              /\ Selection(h).forced <=> h.runtime # "unset"
              /\ Selection(h).container = SupportsContainerization(h)
  <1>1. h.wants \in {"auto", "local", "firecracker", "apple"}
    BY RequestAssumption DEF RequestAssumption
  <1>2. CASE h.wants \in {"local", "firecracker"}
    BY <1>2 DEF Selection, Selected
  <1>3. CASE h.wants = "apple"
    BY <1>3 DEF Selection, Selected
  <1>4. CASE h.wants = "auto"
    BY <1>4 DEF Selection, Selected
  <1> QED BY <1>1, <1>2, <1>3, <1>4

\* When a user was told that the policy is enforced, the policy the backend was given is no
\* wider than the summary says, and with the apple backend the commands of the sandbox reach
\* no more; with the firecracker backend they run on the host, past the rules of the VM.  One
\* who was told that it is not enforced has asked for the local backend; and a policy that
\* the server cannot enforce is not sent to it (network_enforcement_status).
THEOREM RequestEnforced == DeploymentSpec => []EnforcementTold
  <1>1. RequestInv => EnforcementTold
    <2> SUFFICES ASSUME RequestInv, stage = "created" PROVE EnforcementTold
      BY DEF EnforcementTold
    <2> DEFINE m == ResolveNetworkPolicy(asked)
    <2>1. PICK h \in Hosts : server = Selection(h)
      BY Selects
    <2>2. /\ server.backend \in {"local", "firecracker", "apple", "unavailable"}
          /\ server.backend = "local" => server.requested = "local"
      BY <2>1, SelectionFacts
    <2>3. CASE asked.by # "cli"
      <3>1. told.enforcement = "none"
        BY <2>3 DEF RequestInv, ToldOf, NoSummary
      <3> QED BY <3>1 DEF EnforcementTold
    <2>4. CASE asked.by = "cli"
      <3>1. /\ told.mode = m /\ told.enforcement = NetworkEnforcement(m)
            /\ NetworkEnforcement(m) # "unsupported"
        BY <2>4 DEF RequestInv, ToldOf
      <3>2. config.mode = ModeFromWire(m) /\ ModeFromWire(m) # Invalid
        BY <2>4, Recorded
      <3>3. Reach(config.mode) \subseteq Reach(m)
        BY <3>2, Arrives DEF Reach
      <3>4. NetworkEnforcement(m) = "enforced" => server.backend \in {"firecracker", "apple"}
        BY <2>2 DEF NetworkEnforcement
      <3>5. NetworkEnforcement(m) = "not_enforced" => server.backend = "local"
        BY DEF NetworkEnforcement
      <3>6. server.backend = "apple" => Reached = Reach(config.mode)
        BY DEF Reached
      <3> QED BY <2>2, <3>1, <3>3, <3>4, <3>5, <3>6 DEF EnforcementTold
    <2> QED BY <2>3, <2>4
  <1> QED BY <1>1, RequestAlways, PTL

\* From the profile and the flags, over the wire and through the decoding, no sandbox is
\* created with a wider policy than its request names, or with domains that no allowlist
\* uses (resolve_network_policy, from_proto_network).
THEOREM RequestNetwork == DeploymentSpec => []NetworkNeverWider
  <1>1. RequestInv => NetworkNeverWider
    <2> SUFFICES ASSUME RequestInv, stage = "created" PROVE NetworkNeverWider
      BY DEF NetworkNeverWider
    <2> DEFINE s == SentFor(asked).mode
    <2>1. asked \in Requests /\ config.mode = ModeFromWire(s) /\ ModeFromWire(s) # Invalid
      BY Recorded
    <2>2. /\ s.domains \subseteq IF asked.allow # {} THEN asked.allow ELSE asked.profile.allow
          /\ asked.network # "absent" => s.kind = asked.network
          /\ asked.network = "absent" /\ asked.profile.name \in {"absent", "locked"} =>
                s.kind \notin {"full", "allowlist"}
          /\ asked.by = "cli" => s # Mode("allowlist", {})
      <3>1. CASE asked.by = "cli"
        <4>1. s = ResolveNetworkPolicy(asked) /\ ResolveNetworkPolicy(asked) # Invalid
          BY <3>1, Recorded
        <4> QED BY <2>1, <4>1, Resolved
      <3>2. CASE asked.by # "cli"
        <4>1. s = NetworkFields(asked)
          BY <3>2, Recorded
        <4>2. s.kind = asked.network /\ s.domains \in {{}, asked.allow}
          BY <4>1, ModeShape DEF NetworkFields
        <4> QED BY <3>2, <4>2
      <3> QED BY <3>1, <3>2
    <2> HIDE DEF s
    <2>3. /\ config.mode.kind \in {s.kind, "none"}
          /\ config.mode.domains \in {s.domains, {}}
          /\ config.mode.kind # "allowlist" => config.mode.domains = {}
          /\ config.mode.kind = "allowlist" => config.mode = s
      BY <2>1, Arrives
    <2>4. s.kind \notin {"full", "allowlist"} => config.mode.kind = "none"
      BY <2>1, ModeShape DEF ModeFromWire
    <2>5. config.mode = Mode("allowlist", {}) => s = Mode("allowlist", {})
      BY <2>3, ModeShape
    <2>6. config.mode.domains \subseteq
              IF asked.allow # {} THEN asked.allow ELSE asked.profile.allow
      BY <2>2, <2>3
    <2> QED BY <2>2, <2>3, <2>4, <2>5, <2>6 DEF NetworkNeverWider
  <1> QED BY <1>1, RequestAlways, PTL

\* A server runs without isolation only when that is asked for, and a create finds the
\* runtime missing that the selection has chosen only with an external helper and a runtime
\* that the environment forced (resolve_backend, AppleVzBackend::create).
THEOREM RequestSelected == DeploymentSpec => []SelectionIsSound
  <1>1. RequestInv => SelectionIsSound
    <2> SUFFICES ASSUME RequestInv PROVE SelectionIsSound
      OBVIOUS
    <2>1. CASE server = NoServer
      <3>1. server.backend = "none" /\ stage = "none"
        BY <2>1 DEF RequestInv, NoServer
      <3> QED BY <3>1 DEF SelectionIsSound
    <2>2. CASE server # NoServer
      <3>1. PICK h \in Hosts : server = Selection(h)
        BY <2>2 DEF RequestInv, ServerOK
      <3>2. server.backend = "local" => server.requested = "local"
        BY <3>1, SelectionFacts
      <3>3. ASSUME stage = "lacking" PROVE server.helper = "external" /\ server.forced
        <4>1. server.backend = "apple" /\ server.runtime = "containerization" /\ ~server.container
          BY <3>3 DEF RequestInv, LacksRuntime
        <4>2. /\ AppleUsable(h) /\ AppleRuntime(h) = "containerization"
              /\ ~SupportsContainerization(h)
              /\ server.helper = HelperCommand(h) /\ (server.forced <=> h.runtime # "unset")
          BY <3>1, <4>1, SelectionFacts
        <4>3. HelperCommand(h) # "none" /\ HelperCommand(h) # "builtin"
          BY <4>2 DEF AppleUsable, RuntimeIsImplemented
        <4>4. h.helper \in {"unset", "builtin", "external"}
          BY RequestAssumption DEF RequestAssumption
        <4>5. HelperCommand(h) = "external"
          BY <4>3, <4>4 DEF HelperCommand
        <4>6. h.runtime # "unset"
          BY <4>2, <4>3 DEF AppleRuntime
        <4> QED BY <4>2, <4>5, <4>6
      <3> QED BY <3>2, <3>3 DEF SelectionIsSound
    <2> QED BY <2>1, <2>2
  <1> QED BY <1>1, RequestAlways, PTL

\* A sandbox has the vcpus and the timeout its request names, or the defaults, and is shown
\* with them; only a request for more vcpus than eight bits hold is cut (from_proto_config).
THEOREM RequestArrives == DeploymentSpec => []ConfigArrives
  <1>1. RequestInv => ConfigArrives
    <2> SUFFICES ASSUME RequestInv, stage = "created" PROVE ConfigArrives
      BY DEF ConfigArrives
    <2>1. asked \in Requests /\ config = FromWire(SentFor(asked)) /\ config.mode # Invalid
      BY DEF RequestInv
    <2>2. asked.vcpus \in Nat
      BY <2>1, RequestAssumption DEF RequestAssumption
    <2> DEFINE s == SentFor(asked)
    <2>3. s.vcpus = asked.vcpus /\ s.timeout = asked.timeout
      BY DEF SentFor
    <2> HIDE DEF s
    <2>4. /\ config.mode = ModeFromWire(s.mode)
          /\ config.vcpus = IF asked.vcpus = 0 THEN DefaultVcpus ELSE asked.vcpus % 256
          /\ config.timeout = IF asked.timeout = 0 THEN DefaultTimeout ELSE asked.timeout
          /\ config = [mode |-> config.mode, vcpus |-> config.vcpus, timeout |-> config.timeout]
      BY <2>1, <2>3 DEF FromWire, s
    <2>5. \A n \in Nat : n % 256 \in 0 .. 255 /\ (n < 256 => n % 256 = n)
      OBVIOUS
    <2>6. config.vcpus \in 0 .. 255 /\ config.vcpus % 256 = config.vcpus
      BY <2>2, <2>4, <2>5 DEF DefaultVcpus
    <2>7. ASSUME details # NoConfig PROVE details = config
      <3>1. details = [config EXCEPT !.mode = ModeFromWire(@), !.vcpus = @ % 256]
        BY <2>7 DEF RequestInv
      <3>2. ModeFromWire(config.mode) = config.mode
        BY <2>1, <2>4, Arrives
      <3>3. details = [mode |-> config.mode, vcpus |-> config.vcpus, timeout |-> config.timeout]
        BY <2>4, <2>6, <3>1, <3>2
      <3> QED BY <2>4, <3>3
    <2>8. asked.vcpus < 256 => config.vcpus = IF asked.vcpus = 0 THEN DefaultVcpus ELSE asked.vcpus
      BY <2>2, <2>4, <2>5
    <2>9. config.vcpus = 0 => asked.vcpus >= 256
      BY <2>2, <2>4, <2>5 DEF DefaultVcpus
    <2> QED BY <2>4, <2>7, <2>8, <2>9 DEF ConfigArrives
  <1> QED BY <1>1, RequestAlways, PTL

-----------------------------------------------------------------------------
(* The command that shows the output of a process.                         *)

\* Only a run that has the end of its process reports a result and destroys its sandbox.
LogInv ==
    /\ mode \in Modes \cup {"none"} /\ ephemeral \in BOOLEAN
    /\ proc \in {"running", "ended"} /\ box \in {"live", "destroyed"}
    /\ cli \in {"idle", "read", "status", "drain", "wait", "result"} \cup Ended
    /\ mode = "none" => cli = "idle"
    /\ ephemeral => mode \in {"run", "json", "detach"}
    /\ mode = "detach" => cli = "done" /\ box = "live"
    /\ mode = "run" /\ cli \in {"drain", "wait", "result", "done"} => proc = "ended"
    /\ mode = "json" /\ cli \in {"read", "result", "done"} => proc = "ended"
    /\ cli \in {"status", "drain"} => mode \in {"run", "follow"}
    /\ cli = "drain" => mode = "run"
    /\ cli = "wait" => mode \in {"run", "json"}
    /\ cli = "result" => mode \in {"run", "json"} /\ box = "live"
    /\ cli \in {"idle", "read", "status", "drain", "wait"} => box = "live"
    /\ cli = "done" /\ ephemeral => box = "destroyed" \/ mode = "detach"
    /\ box = "destroyed" => ephemeral /\ proc = "ended"

LEMMA LogInits == DeploymentInit => LogInv
  BY DEF DeploymentInit, LogInit, LogInv

\* Where an answer leads: run and logs --follow look at the process next, logs and run
\* --json go on until the end of the log, and run until its drain finds nothing.
LEMMA AnswerLeads ==
  ASSUME LogInv, cli \in {"read", "drain"}, NEW text, NEW next, NEW eof, Answer(text, next, eof)
  PROVE  \/ cli' = cli
         \/ cli = "read" /\ mode \in {"run", "follow"} /\ cli' = "status"
         \/ mode = "logs" /\ cli' = "done"
         \/ mode = "run" /\ cli = "drain" /\ cli' = "wait"
         \/ mode = "json" /\ cli = "read" /\ cli' = "result"
  BY DEF Answer, LogInv, Modes

LEMMA LogGoes ==
  ASSUME LogInv, LogNext
  PROVE  LogInv'
  <1>1. CASE LogStart
    BY <1>1 DEF LogStart, LogInv, Modes, Ended
  <1>2. CASE ProcessWrites
    BY <1>2 DEF ProcessWrites, LogInv
  <1>3. CASE ProcessEnds
    BY <1>3 DEF ProcessEnds, LogInv
  <1>4. CASE ReadSize \/ ReadStatus \/ ReadChunk
    <2>1. /\ cli \in {"read", "drain"}
          /\ cli' = cli \/ \E text, next, eof : Answer(text, next, eof)
          /\ UNCHANGED <<proc, mode, ephemeral, box>>
      BY <1>4 DEF ReadSize, ReadStatus, ReadChunk, ReadAt, Reading
    <2>2. \/ cli' = cli
          \/ cli = "read" /\ mode \in {"run", "follow"} /\ cli' = "status"
          \/ mode = "logs" /\ cli' = "done"
          \/ mode = "run" /\ cli = "drain" /\ cli' = "wait"
          \/ mode = "json" /\ cli = "read" /\ cli' = "result"
      BY <2>1, AnswerLeads
    <2> QED BY <2>1, <2>2 DEF LogInv, Modes, Ended
  <1>5. CASE GetStatus
    BY <1>5 DEF GetStatus, LogInv, Modes, Ended
  <1>6. CASE WaitOver
    BY <1>6 DEF WaitOver, LogInv, Modes, Ended
  <1>7. CASE EmitResult
    BY <1>7 DEF EmitResult, LogInv, Modes, Ended
  <1>8. CASE CommandFails
    BY <1>8 DEF CommandFails, LogInv, Modes, Ended
  <1> QED BY <1>1, <1>2, <1>3, <1>4, <1>5, <1>6, <1>7, <1>8 DEF LogNext, LogGoesOn

LEMMA LogRests ==
  ASSUME LogInv, UNCHANGED logVars
  PROVE  LogInv'
  BY DEF LogInv, logVars

\* The other parts leave the log alone.
LEMMA LogAlone == [DeploymentNext]_deploymentVars => [LogNext]_logVars
  <1> SUFFICES ASSUME [DeploymentNext]_deploymentVars PROVE [LogNext]_logVars
    OBVIOUS
  <1>1. CASE LogPart
    BY <1>1 DEF LogPart
  <1>2. CASE Starts \/ (\E p : Choose(p)) \/ RequestPart
    BY <1>2 DEF Starts, Choose, RequestPart, OthersThanRequest
  <1>3. CASE ApplePart \/ FcPart \/ LocalPart
    BY <1>3 DEF ApplePart, FcPart, LocalPart, OthersThanApple, OthersThanFc,
       OthersThanLocal, OthersThanBackends
  <1>4. CASE ShellPart \/ RelayPart
    BY <1>4 DEF ShellPart, RelayPart
  <1>5. CASE UNCHANGED deploymentVars
    BY <1>5 DEF deploymentVars
  <1> QED BY <1>1, <1>2, <1>3, <1>4, <1>5 DEF DeploymentNext

LEMMA LogStep == LogInv /\ [DeploymentNext]_deploymentVars => LogInv'
  BY LogAlone, LogGoes, LogRests

\* A run --ephemeral that waits for its process and reports success has destroyed its
\* sandbox, and a sandbox is destroyed by no other command, nor while its process runs: not
\* by a run --ephemeral --detach either (run_existing_with_client).
THEOREM LogEphemeral == DeploymentSpec => []EphemeralIsGone
  <1>1. LogInv => EphemeralIsGone
    BY DEF LogInv, EphemeralIsGone
  <1> QED BY <1>1, LogInits, LogStep, PTL DEF DeploymentSpec

-----------------------------------------------------------------------------
(* Induction, which the provers can apply to a set: a set of numbers has a *)
(* least member, so one that has 0 and with every number the next has all. *)

LEMMA LessThan == \E R : IsWellFoundedOn(R, Nat) /\ \A i, j \in Nat : i < j => <<i, j>> \in R
  <1>1. \A i, j \in Nat : i < j => <<i, j>> \in OpToRel(<, Nat)
    BY DEF OpToRel
  <1> QED BY <1>1, NatLessThanWellFounded

LEMMA Least ==
  ASSUME NEW T, T \subseteq Nat, T # {}
  PROVE  \E x \in T : \A y \in T : ~(y < x)
  <1>1. PICK R : IsWellFoundedOn(R, Nat) /\ \A i, j \in Nat : i < j => <<i, j>> \in R
    BY LessThan
  <1>2. IsWellFoundedOn(R, Nat)
    BY <1>1
  <1>3. \E x \in T : \A y \in T : ~ (<<y, x>> \in R)
    BY ONLY <1>2, WFMin, T \subseteq Nat, T # {}
  <1> QED BY <1>1, <1>3

LEMMA ByInduction ==
  ASSUME NEW S, 0 \in S, \A n \in Nat : n \in S => n + 1 \in S
  PROVE  Nat \subseteq S
  <1> SUFFICES ASSUME Nat \ S # {} PROVE FALSE
    OBVIOUS
  <1>3. PICK x \in Nat \ S : \A y \in Nat \ S : ~ (y < x)
    BY Least
  <1>4. x # 0 /\ x - 1 \in Nat /\ x - 1 < x /\ (x - 1) + 1 = x
    BY <1>3
  <1>5. x - 1 \in S
    BY <1>3, <1>4
  <1> QED BY <1>4, <1>5

\* f joins the members of s from the first on.

-----------------------------------------------------------------------------
(* What FlattenSeq joins: its function exists, whatever the sequence, and  *)
(* the members of two sequences are joined as those of each.               *)

\* f joins the members of s up to the n-th from the first on.
JoinsTo(f, s, n) == f = [i \in 1 .. n |-> IF i = 1 THEN s[i] ELSE f[i - 1] \o s[i]]

LEMMA JoinsThen ==
  ASSUME NEW s, NEW n \in Nat, NEW f, JoinsTo(f, s, n), NEW i \in 1 .. n
  PROVE  f[i] = IF i = 1 THEN s[i] ELSE f[i - 1] \o s[i]
  <1>1. f = [j \in 1 .. n |-> IF j = 1 THEN s[j] ELSE f[j - 1] \o s[j]]
    BY DEF JoinsTo
  <1> QED BY <1>1

\* There is such a function, ...
LEMMA JoinExtends ==
  ASSUME NEW s, NEW n \in Nat, NEW f, JoinsTo(f, s, n)
  PROVE  \E g : JoinsTo(g, s, n + 1)
  <1> DEFINE g == [i \in 1 .. n + 1 |-> IF i = n + 1 THEN (IF i = 1 THEN s[i] ELSE f[n] \o s[i])
                                                     ELSE f[i]]
  <1>0. f = [i \in 1 .. n |-> IF i = 1 THEN s[i] ELSE f[i - 1] \o s[i]]
    BY DEF JoinsTo
  <1>1. ASSUME NEW i \in 1 .. n + 1
        PROVE g[i] = IF i = 1 THEN s[i] ELSE g[i - 1] \o s[i]
    <2>1. CASE i = n + 1 /\ i = 1
      BY <2>1
    <2>2. CASE i = n + 1 /\ i # 1
      <3>1. n \in 1 .. n + 1 /\ n # n + 1 /\ i - 1 = n
        BY <2>2
      <3>2. g[n] = f[n]
        BY <3>1
      <3>3. g[i] = f[n] \o s[i]
        BY <2>2
      <3> QED BY <2>2, <3>1, <3>2, <3>3
    <2>3. CASE i # n + 1
      <3>1. i \in 1 .. n /\ g[i] = f[i]
        BY <2>3
      <3>2. f[i] = IF i = 1 THEN s[i] ELSE f[i - 1] \o s[i]
        BY <1>0, <3>1
      <3>3. i # 1 => i - 1 \in 1 .. n + 1 /\ i - 1 # n + 1
        BY <3>1
      <3>4. i # 1 => g[i - 1] = f[i - 1]
        BY <3>3
      <3> QED BY <3>1, <3>2, <3>4
    <2> QED BY <2>1, <2>2, <2>3
  <1>2. g = [i \in 1 .. n + 1 |-> g[i]]
    OBVIOUS
  <1>3. [i \in 1 .. n + 1 |-> g[i]] = [i \in 1 .. n + 1 |-> IF i = 1 THEN s[i] ELSE g[i - 1] \o s[i]]
    <2> HIDE DEF g
    <2> QED BY <1>1
  <1>4. JoinsTo(g, s, n + 1)
    <2> HIDE DEF g
    <2> QED BY <1>2, <1>3 DEF JoinsTo
  <1> QED BY <1>4

LEMMA JoinExists ==
  ASSUME NEW s, NEW n \in Nat
  PROVE  \E f : JoinsTo(f, s, n)
  <1> DEFINE S == {m \in Nat : \E f : JoinsTo(f, s, m)}
  <1>1. 0 \in S
    <2>1. JoinsTo(<<>>, s, 0)
      BY DEF JoinsTo
    <2> QED BY <2>1
  <1>2. ASSUME NEW m \in Nat, m \in S PROVE m + 1 \in S
    <2>1. PICK f : JoinsTo(f, s, m)
      BY <1>2
    <2>2. \E g : JoinsTo(g, s, m + 1)
      BY <2>1, JoinExtends
    <2> QED BY <2>2
  <1>3. Nat \subseteq S
    <2> HIDE DEF S
    <2> QED BY <1>1, <1>2, ByInduction
  <1> QED BY <1>3

LEMMA FlattenIs ==
  ASSUME NEW s, Len(s) \in Nat, Len(s) # 0
  PROVE  \E f : JoinsTo(f, s, Len(s)) /\ FlattenSeq(s) = f[Len(s)]
  <1> DEFINE f == CHOOSE f : JoinsTo(f, s, Len(s))
  <1>1. JoinsTo(f, s, Len(s))
    BY JoinExists
  <1>2. FlattenSeq(s) = f[Len(s)]
    BY DEF FlattenSeq, JoinsTo
  <1> HIDE DEF f
  <1> QED BY <1>1, <1>2

Agree(s, t, n) == \A i \in 1 .. n : s[i] = t[i]

\* ... and it depends on no more of the sequence than it joins.
LEMMA JoinsAgree ==
  ASSUME NEW s, NEW t, NEW n \in Nat, NEW m \in Nat, n <= m, NEW f, NEW g,
         JoinsTo(f, s, n), JoinsTo(g, t, m), Agree(s, t, n)
  PROVE  Agree(f, g, n)
  <1> DEFINE S == {k \in Nat : k \in 1 .. n => f[k] = g[k]}
  <1>1. 0 \in S
    OBVIOUS
  <1>2. ASSUME NEW k \in Nat, k \in S PROVE k + 1 \in S
    <2> SUFFICES ASSUME k + 1 \in 1 .. n PROVE f[k + 1] = g[k + 1]
      OBVIOUS
    <2>0. PICK i \in 1 .. n : i = k + 1 /\ i \in 1 .. m
      OBVIOUS
    <2>1. f[i] = IF i = 1 THEN s[i] ELSE f[i - 1] \o s[i]
      BY <2>0, JoinsThen
    <2>3. g[i] = IF i = 1 THEN t[i] ELSE g[i - 1] \o t[i]
      BY <2>0, JoinsThen
    <2>4. i # 1 => i - 1 = k /\ k \in 1 .. n
      BY <2>0
    <2>5. i # 1 => f[i - 1] = g[i - 1]
      BY <1>2, <2>4
    <2>6. s[i] = t[i]
      BY DEF Agree
    <2> QED BY <2>0, <2>1, <2>3, <2>5, <2>6
  <1>3. Nat \subseteq S
    <2> HIDE DEF S
    <2> QED BY <1>1, <1>2, ByInduction
  <1> QED BY <1>3 DEF Agree

LEMMA FlattenEmpty == ASSUME NEW s, Len(s) = 0 PROVE FlattenSeq(s) = s
  BY DEF FlattenSeq

\* One member more is joined at the end, ...
LEMMA FlattenAppend ==
  ASSUME NEW S, NEW s \in Seq(Seq(S)), NEW x \in Seq(S)
  PROVE  FlattenSeq(Append(s, x)) = FlattenSeq(s) \o x
  <1>n. PICK n \in Nat : n = Len(s)
    OBVIOUS
  <1>m. PICK m \in Nat : m = n + 1
    OBVIOUS
  <1>t. PICK t : t = Append(s, x)
    OBVIOUS
  <1>1. m = Len(t) /\ t[m] = x /\ Agree(s, t, n)
    BY <1>n, <1>m, <1>t DEF Agree
  <1>2. PICK g : JoinsTo(g, t, m) /\ FlattenSeq(t) = g[m]
    <2>1. Len(t) \in Nat /\ Len(t) # 0
      BY <1>n, <1>m, <1>t, <1>1
    <2>2. \E g : JoinsTo(g, t, Len(t)) /\ FlattenSeq(t) = g[Len(t)]
      BY <2>1, FlattenIs
    <2> QED BY <1>n, <1>m, <1>t, <1>1, <2>2
  <1>3. g[m] = IF m = 1 THEN t[m] ELSE g[m - 1] \o t[m]
    <2>1. m \in 1 .. m
      BY <1>n, <1>m, <1>t, <1>1
    <2> QED BY <1>2, <2>1, JoinsThen
  <1>4. CASE n = 0
    <2>1. s = <<>>
      BY <1>n, <1>m, <1>t, <1>1, <1>4
    <2>2. FlattenSeq(s) = <<>>
      BY <1>n, <1>m, <1>t, <1>1, <2>1, <1>4, FlattenEmpty
    <2>3. <<>> \o x = x
      OBVIOUS
    <2> QED BY <1>n, <1>m, <1>t, <1>1, <1>2, <1>3, <1>4, <2>2, <2>3
  <1>5. CASE n # 0
    <2>1. PICK f : JoinsTo(f, s, n) /\ FlattenSeq(s) = f[n]
      BY <1>n, <1>m, <1>t, <1>1, <1>5, FlattenIs
    <2>2. n <= m /\ n \in 1 .. n
      BY <1>m, <1>5
    <2>3. Agree(f, g, n)
      BY <1>n, <1>m, <1>t, <1>1, <1>2, <2>1, <2>2, JoinsAgree
    <2>4. f[n] = g[n]
      BY <2>2, <2>3 DEF Agree
    <2>5. m # 1 /\ m - 1 = n
      BY <1>n, <1>m, <1>t, <1>1, <1>5
    <2> QED BY <1>n, <1>m, <1>t, <1>1, <1>2, <1>3, <2>1, <2>4, <2>5
  <1> QED BY <1>n, <1>m, <1>t, <1>1, <1>4, <1>5

LEMMA FlattenType ==
  ASSUME NEW S
  PROVE  \A s \in Seq(Seq(S)) : FlattenSeq(s) \in Seq(S)
  <1> DEFINE T == {n \in Nat : \A s \in Seq(Seq(S)) : Len(s) = n => FlattenSeq(s) \in Seq(S)}
  <1>1. 0 \in T
    <2>1. ASSUME NEW s \in Seq(Seq(S)), Len(s) = 0 PROVE FlattenSeq(s) \in Seq(S)
      <3>1. s = <<>>
        BY <2>1
      <3>2. FlattenSeq(s) = <<>>
        BY <2>1, <3>1, FlattenEmpty
      <3> QED BY <3>2, EmptySeq
    <2> QED BY <2>1
  <1>2. ASSUME NEW n \in Nat, n \in T PROVE n + 1 \in T
    <2>1. ASSUME NEW s \in Seq(Seq(S)), Len(s) = n + 1 PROVE FlattenSeq(s) \in Seq(S)
      <3>1. PICK front \in Seq(Seq(S)), x \in Seq(S) : s = Append(front, x) /\ Len(front) = n
        <4>1. SubSeq(s, 1, n) \in Seq(Seq(S)) /\ s[n + 1] \in Seq(S) /\ Len(SubSeq(s, 1, n)) = n
          BY <2>1
        <4>2. s = Append(SubSeq(s, 1, n), s[n + 1])
          BY <2>1
        <4> QED BY <4>1, <4>2
      <3>2. FlattenSeq(front) \in Seq(S)
        BY <1>2, <3>1
      <3>3. FlattenSeq(s) = FlattenSeq(front) \o x
        BY <3>1, FlattenAppend
      <3> QED BY <3>1, <3>2, <3>3
    <2> QED BY <2>1
  <1>3. Nat \subseteq T
    <2> HIDE DEF T
    <2> QED BY <1>1, <1>2, ByInduction
  <1> QED BY <1>3

\* ... and so are those of another sequence.
LEMMA FlattenConcat ==
  ASSUME NEW S, NEW s \in Seq(Seq(S))
  PROVE  \A t \in Seq(Seq(S)) : FlattenSeq(s \o t) = FlattenSeq(s) \o FlattenSeq(t)
  <1> DEFINE T == {n \in Nat : \A t \in Seq(Seq(S)) :
                                 Len(t) = n => FlattenSeq(s \o t) = FlattenSeq(s) \o FlattenSeq(t)}
  <1>0. FlattenSeq(s) \in Seq(S)
    BY FlattenType
  <1>1. 0 \in T
    <2>1. ASSUME NEW t \in Seq(Seq(S)), Len(t) = 0
          PROVE FlattenSeq(s \o t) = FlattenSeq(s) \o FlattenSeq(t)
      <3>1. t = <<>> /\ s \o t = s
        BY <2>1
      <3>2. FlattenSeq(t) = <<>>
        BY <2>1, <3>1, FlattenEmpty
      <3> QED BY <1>0, <3>1, <3>2
    <2> QED BY <2>1
  <1>2. ASSUME NEW n \in Nat, n \in T PROVE n + 1 \in T
    <2>1. ASSUME NEW t \in Seq(Seq(S)), Len(t) = n + 1
          PROVE FlattenSeq(s \o t) = FlattenSeq(s) \o FlattenSeq(t)
      <3>1. PICK front \in Seq(Seq(S)), x \in Seq(S) : t = Append(front, x) /\ Len(front) = n
        <4>1. SubSeq(t, 1, n) \in Seq(Seq(S)) /\ t[n + 1] \in Seq(S) /\ Len(SubSeq(t, 1, n)) = n
          BY <2>1
        <4>2. t = Append(SubSeq(t, 1, n), t[n + 1])
          BY <2>1
        <4> QED BY <4>1, <4>2
      <3>2. FlattenSeq(s \o front) = FlattenSeq(s) \o FlattenSeq(front)
        BY <1>2, <3>1
      <3>3. s \o front \in Seq(Seq(S)) /\ s \o t = Append(s \o front, x)
        BY <3>1
      <3>4. FlattenSeq(s \o t) = FlattenSeq(s \o front) \o x
        BY <3>1, <3>3, FlattenAppend
      <3>5. FlattenSeq(t) = FlattenSeq(front) \o x
        BY <3>1, FlattenAppend
      <3>6. FlattenSeq(front) \in Seq(S)
        BY FlattenType
      <3>7. (FlattenSeq(s) \o FlattenSeq(front)) \o x = FlattenSeq(s) \o (FlattenSeq(front) \o x)
        BY <1>0, <3>6
      <3> QED BY <3>2, <3>4, <3>5, <3>7
    <2> QED BY <2>1
  <1>3. Nat \subseteq T
    <2> HIDE DEF T
    <2> QED BY <1>1, <1>2, ByInduction
  <1> QED BY <1>3

-----------------------------------------------------------------------------
(* Bytes and text: what chunks decode to is what the whole decodes to,     *)
(* where no character is cut, and the length of the text that is counted   *)
(* is that of the chunk.                                                   *)

Byte == {"a", "w1", "w2"}
Character == {"a", "w", "?"}
Unit == {"a", "w1", "w2", "?1", "?2", "?3"}

LEMMA PiecesType ==
  ASSUME NEW b \in Seq(Byte)
  PROVE  Pieces(b) \in Seq(Seq(Character)) /\ Len(Pieces(b)) = Len(b)
  <1>0. <<"a">> \in Seq(Character) /\ <<"w">> \in Seq(Character) /\ <<"?">> \in Seq(Character)
        /\ <<>> \in Seq(Character)
    BY DEF Character
  <1>1. \A i \in 1 .. Len(b) :
           (IF b[i] = "a" THEN <<"a">>
            ELSE IF b[i] = "w1" /\ i < Len(b) /\ b[i + 1] = "w2" THEN <<"w">>
            ELSE IF b[i] = "w2" /\ i > 1 /\ b[i - 1] = "w1" THEN <<>>
            ELSE <<"?">>) \in Seq(Character)
    BY <1>0
  <1>2. Len(b) \in Nat
    OBVIOUS
  <1>3. Pieces(b) \in [1 .. Len(b) -> Seq(Character)]
    BY <1>1 DEF Pieces
  <1> QED BY <1>2, <1>3

LEMMA DecodedType == ASSUME NEW b \in Seq(Byte) PROVE Decoded(b) \in Seq(Character)
  BY PiecesType, FlattenType DEF Decoded

Codes(text) == [i \in 1 .. Len(text) |-> Utf8(text[i])]

LEMMA CodesType ==
  ASSUME NEW t \in Seq(Character)
  PROVE  Codes(t) \in Seq(Seq(Unit)) /\ Len(Codes(t)) = Len(t)
  <1>0. <<"a">> \in Seq(Unit) /\ <<"w1", "w2">> \in Seq(Unit) /\ <<"?1", "?2", "?3">> \in Seq(Unit)
    BY DEF Unit
  <1>1. \A i \in 1 .. Len(t) : Utf8(t[i]) \in Seq(Unit)
    BY <1>0 DEF Utf8
  <1>2. Len(t) \in Nat
    OBVIOUS
  <1>3. Codes(t) \in [1 .. Len(t) -> Seq(Unit)]
    BY <1>1 DEF Codes
  <1> QED BY <1>2, <1>3

LEMMA EncodedIs == ASSUME NEW t PROVE Encoded(t) = FlattenSeq(Codes(t))
  BY DEF Encoded, Codes

LEMMA EncodedType ==
  ASSUME NEW t \in Seq(Character)
  PROVE  Encoded(t) \in Seq(Unit) /\ Bytes(t) \in Nat
  <1>1. Encoded(t) \in Seq(Unit)
    BY EncodedIs, CodesType, FlattenType
  <1> QED BY <1>1 DEF Bytes

\* The length of a text is that of its parts.
LEMMA BytesConcat ==
  ASSUME NEW s \in Seq(Character), NEW t \in Seq(Character)
  PROVE  Bytes(s \o t) = Bytes(s) + Bytes(t)
  <1>1. s \o t \in Seq(Character) /\ Len(s \o t) = Len(s) + Len(t)
    OBVIOUS
  <1>2. Codes(s) \in Seq(Seq(Unit)) /\ Codes(t) \in Seq(Seq(Unit)) /\ Codes(s \o t) \in Seq(Seq(Unit))
    BY <1>1, CodesType
  <1>0. /\ Len(Codes(s)) = Len(s) /\ Len(Codes(t)) = Len(t) /\ Len(Codes(s \o t)) = Len(s) + Len(t)
        /\ Len(s) \in Nat /\ Len(t) \in Nat
    <2>1. Len(Codes(s)) = Len(s) /\ Len(Codes(t)) = Len(t)
      BY CodesType
    <2>2. Len(Codes(s \o t)) = Len(s \o t)
      BY <1>1, CodesType
    <2>3. Len(s) \in Nat /\ Len(t) \in Nat
      OBVIOUS
    <2> QED BY <1>1, <2>1, <2>2, <2>3
  <1>c. /\ Codes(s) \o Codes(t) \in Seq(Seq(Unit)) /\ Len(Codes(s) \o Codes(t)) = Len(s) + Len(t)
        /\ \A i \in 1 .. Len(s) + Len(t) :
              (Codes(s) \o Codes(t))[i] = IF i <= Len(s) THEN Codes(s)[i] ELSE Codes(t)[i - Len(s)]
    <2> DEFINE u == Codes(s)
               v == Codes(t)
    <2>1. u \in Seq(Seq(Unit)) /\ v \in Seq(Seq(Unit)) /\ Len(u) = Len(s) /\ Len(v) = Len(t)
      BY <1>0, <1>2
    <2> HIDE DEF u, v
    <2>2. /\ u \o v \in Seq(Seq(Unit)) /\ Len(u \o v) = Len(u) + Len(v)
          /\ \A i \in 1 .. Len(u) + Len(v) : (u \o v)[i] = IF i <= Len(u) THEN u[i] ELSE v[i - Len(u)]
      BY ONLY <2>1, ConcatProperties
    <2> QED BY <2>1, <2>2 DEF u, v
  <1>3. Len(Codes(s \o t)) = Len(Codes(s) \o Codes(t))
    BY <1>0, <1>c
  <1>4. ASSUME NEW i \in 1 .. Len(Codes(s \o t))
        PROVE  Codes(s \o t)[i] = (Codes(s) \o Codes(t))[i]
    <2>1. Len(s) \in Nat /\ Len(t) \in Nat /\ i \in 1 .. Len(s) + Len(t)
      BY <1>0
    <2>2. Codes(s \o t)[i] = Utf8((s \o t)[i])
      BY <1>1, <2>1 DEF Codes
    <2>3. CASE i <= Len(s)
      <3>1. i \in 1 .. Len(s) /\ (s \o t)[i] = s[i]
        BY <2>1, <2>3
      <3>2. Codes(s)[i] = Utf8(s[i])
        BY <3>1 DEF Codes
      <3>3. (Codes(s) \o Codes(t))[i] = Codes(s)[i]
        BY <1>c, <2>1, <2>3
      <3> QED BY <2>2, <3>1, <3>2, <3>3
    <2>4. CASE ~(i <= Len(s))
      <3>1. PICK j \in 1 .. Len(t) : j = i - Len(s) /\ (s \o t)[i] = t[j]
        BY <2>1, <2>4
      <3>2. Codes(t)[j] = Utf8(t[j])
        BY <3>1 DEF Codes
      <3>3. (Codes(s) \o Codes(t))[i] = Codes(t)[j]
        BY <1>c, <2>1, <2>4, <3>1
      <3> QED BY <2>2, <3>1, <3>2, <3>3
    <2> QED BY <2>3, <2>4
  <1>5. Codes(s \o t) = Codes(s) \o Codes(t)
    BY <1>2, <1>3, <1>4, <1>c, SeqEqual
  <1>6. Encoded(s \o t) = Encoded(s) \o Encoded(t)
    BY <1>2, <1>5, EncodedIs, FlattenConcat
  <1> QED BY <1>6, EncodedType DEF Bytes

\* Between s and t no character is cut in two.
Uncut(s, t) == ~(s # <<>> /\ t # <<>> /\ s[Len(s)] = "w1" /\ t[1] = "w2")

\* Where no character is cut both sides decode alone.
LEMMA DecodedConcat ==
  ASSUME NEW s \in Seq(Byte), NEW t \in Seq(Byte), Uncut(s, t)
  PROVE  Decoded(s \o t) = Decoded(s) \o Decoded(t)
  <1>n. PICK n \in Nat : n = Len(s)
    OBVIOUS
  <1>m. PICK m \in Nat : m = Len(t)
    OBVIOUS
  <1>b. PICK b : b = s \o t
    OBVIOUS
  <1>1. /\ b \in Seq(Byte) /\ Len(b) = n + m
        /\ \A i \in 1 .. n + m : b[i] = IF i <= n THEN s[i] ELSE t[i - n]
    BY <1>n, <1>m, <1>b, ConcatProperties
  <1>2. n > 0 /\ m > 0 => ~(s[n] = "w1" /\ t[1] = "w2")
    BY <1>n, <1>m DEF Uncut
  <1>3. PICK p, u, v : p = Pieces(b) /\ u = Pieces(s) /\ v = Pieces(t)
    OBVIOUS
  <1>4. /\ p \in Seq(Seq(Character)) /\ Len(p) = n + m
        /\ u \in Seq(Seq(Character)) /\ Len(u) = n
        /\ v \in Seq(Seq(Character)) /\ Len(v) = m
    BY <1>n, <1>m, <1>1, <1>3, PiecesType
  <1>5. /\ u \o v \in Seq(Seq(Character)) /\ Len(u \o v) = n + m
        /\ \A i \in 1 .. n + m : (u \o v)[i] = IF i <= n THEN u[i] ELSE v[i - n]
    <2>1. /\ u \o v \in Seq(Seq(Character)) /\ Len(u \o v) = Len(u) + Len(v)
          /\ \A i \in 1 .. Len(u) + Len(v) : (u \o v)[i] = IF i <= Len(u) THEN u[i] ELSE v[i - Len(u)]
      BY ONLY <1>4, ConcatProperties
    <2> QED BY <1>4, <2>1
  <1>6. ASSUME NEW i \in 1 .. n + m PROVE p[i] = (u \o v)[i]
    <2>1. p[i] = IF b[i] = "a" THEN <<"a">>
                 ELSE IF b[i] = "w1" /\ i < n + m /\ b[i + 1] = "w2" THEN <<"w">>
                 ELSE IF b[i] = "w2" /\ i > 1 /\ b[i - 1] = "w1" THEN <<>>
                 ELSE <<"?">>
      BY <1>1, <1>3 DEF Pieces
    <2>2. CASE i <= n
      <3>0. i \in 1 .. n
        BY <2>2
      <3>1. u[i] = IF s[i] = "a" THEN <<"a">>
                   ELSE IF s[i] = "w1" /\ i < n /\ s[i + 1] = "w2" THEN <<"w">>
                   ELSE IF s[i] = "w2" /\ i > 1 /\ s[i - 1] = "w1" THEN <<>>
                   ELSE <<"?">>
        BY <1>n, <1>3, <3>0 DEF Pieces
      <3>2. b[i] = s[i] /\ (i > 1 => b[i - 1] = s[i - 1]) /\ (i < n => b[i + 1] = s[i + 1])
        <4>1. i > 1 => i - 1 \in 1 .. n + m /\ i - 1 <= n
          BY <3>0
        <4>2. i < n => i + 1 \in 1 .. n + m /\ i + 1 <= n
          BY <3>0
        <4> QED BY <1>1, <2>2, <4>1, <4>2
      <3>3. CASE i < n
        <4>1. i < n + m
          BY <3>3
        <4>2. p[i] = u[i]
          BY <2>1, <3>1, <3>2, <3>3, <4>1
        <4> QED BY <1>5, <2>2, <4>2
      <3>4. CASE i = n
        <4>1. i < n + m => b[i + 1] = t[1] /\ m > 0
          <5>1. ASSUME i < n + m PROVE i + 1 \in 1 .. n + m /\ ~(i + 1 <= n) /\ i + 1 - n = 1 /\ m > 0
            BY <3>4, <5>1
          <5> QED BY <1>1, <5>1
        <4>2. ~(i < n)
          BY <3>4
        <4>3. n > 0
          BY <3>0
        <4>4. ~(b[i] = "w1" /\ i < n + m /\ b[i + 1] = "w2")
          BY <1>2, <3>2, <3>4, <4>1, <4>3
        <4>5. p[i] = u[i]
          BY <2>1, <3>1, <3>2, <4>2, <4>4
        <4> QED BY <1>5, <2>2, <4>5
      <3>5. i < n \/ i = n
        BY <3>0
      <3> QED BY <3>3, <3>4, <3>5
    <2>3. CASE ~(i <= n)
      <3>0. PICK j \in 1 .. m : j = i - n
        BY <2>3
      <3>1. v[j] = IF t[j] = "a" THEN <<"a">>
                   ELSE IF t[j] = "w1" /\ j < m /\ t[j + 1] = "w2" THEN <<"w">>
                   ELSE IF t[j] = "w2" /\ j > 1 /\ t[j - 1] = "w1" THEN <<>>
                   ELSE <<"?">>
        BY <1>m, <1>3, <3>0 DEF Pieces
      <3>2. b[i] = t[j] /\ (j > 1 => b[i - 1] = t[j - 1]) /\ (j < m => b[i + 1] = t[j + 1])
        <4>1. j > 1 => i - 1 \in 1 .. n + m /\ ~(i - 1 <= n) /\ i - 1 - n = j - 1
          BY <3>0
        <4>2. j < m => i + 1 \in 1 .. n + m /\ ~(i + 1 <= n) /\ i + 1 - n = j + 1
          BY <3>0
        <4> QED BY <1>1, <2>3, <3>0, <4>1, <4>2
      <3>3. (i < n + m <=> j < m) /\ (j > 1 => i > 1)
        BY <3>0
      <3>4. CASE j > 1
        BY <1>5, <2>1, <2>3, <3>0, <3>1, <3>2, <3>3, <3>4
      <3>5. CASE j = 1
        <4>1. i > 1 => b[i - 1] = s[n] /\ n > 0
          <5>1. ASSUME i > 1 PROVE i - 1 \in 1 .. n + m /\ i - 1 <= n /\ i - 1 = n /\ n > 0
            BY <3>0, <3>5, <5>1
          <5> QED BY <1>1, <5>1
        <4>2. m > 0 /\ ~(j > 1)
          BY <3>0, <3>5
        <4>3. ~(b[i] = "w2" /\ i > 1 /\ b[i - 1] = "w1")
          BY <1>2, <3>2, <3>5, <4>1, <4>2
        <4>4. p[i] = v[j]
          BY <2>1, <3>1, <3>2, <3>3, <4>2, <4>3
        <4> QED BY <1>5, <2>3, <3>0, <4>4
      <3>6. j > 1 \/ j = 1
        BY <3>0
      <3> QED BY <3>4, <3>5, <3>6
    <2> QED BY <2>2, <2>3
  <1>7. p = u \o v
    BY ONLY <1>4, <1>5, <1>6, SeqEqual
  <1> QED BY <1>b, <1>3, <1>4, <1>7, FlattenConcat DEF Decoded

LEMMA FlattenOne == ASSUME NEW S, NEW x \in Seq(S) PROVE FlattenSeq(<<x>>) = x
  <1>1. <<>> \in Seq(Seq(S)) /\ FlattenSeq(<<>>) = <<>>
    BY FlattenEmpty
  <1>2. Append(<<>>, x) = <<x>>
    OBVIOUS
  <1>3. FlattenSeq(Append(<<>>, x)) = <<>> \o x
    BY <1>1, FlattenAppend
  <1>4. <<>> \o x = x
    BY ConcatEmptySeq
  <1> QED BY <1>2, <1>3, <1>4

LEMMA FlattenTwo == ASSUME NEW x, NEW y PROVE FlattenSeq(<<x, y>>) = x \o y
  <1>1. PICK s : s = <<x, y>>
    OBVIOUS
  <1>2. Len(s) = 2 /\ s[1] = x /\ s[2] = y
    BY <1>1
  <1>3. PICK f : JoinsTo(f, s, 2) /\ FlattenSeq(s) = f[2]
    <2>1. \E f : JoinsTo(f, s, Len(s)) /\ FlattenSeq(s) = f[Len(s)]
      <3>1. Len(s) \in Nat /\ Len(s) # 0
        BY <1>2
      <3> QED BY <3>1, FlattenIs
    <2> QED BY <1>2, <2>1
  <1>4. f[1] = s[1] /\ f[2] = f[1] \o s[2]
    <2>1. f = [i \in 1 .. 2 |-> IF i = 1 THEN s[i] ELSE f[i - 1] \o s[i]]
      BY <1>3 DEF JoinsTo
    <2>2. 1 \in 1 .. 2 /\ 2 \in 1 .. 2 /\ 2 # 1 /\ 2 - 1 = 1
      OBVIOUS
    <2>3. f[2] = f[2 - 1] \o s[2]
      BY <2>1, <2>2
    <2>4. f[1] = s[1]
      BY <2>1, <2>2
    <2> QED BY <2>2, <2>3, <2>4
  <1> QED BY <1>1, <1>2, <1>3, <1>4

\* The characters there are, and the halves of one.
LEMMA DecodedOnes ==
  /\ Decoded(<<>>) = <<>>
  /\ Decoded(<<"a">>) = <<"a">>
  /\ Decoded(<<"w1">>) = <<"?">>
  /\ Decoded(<<"w2">>) = <<"?">>
  /\ Decoded(<<"w1", "w2">>) = <<"w">>
  <1>0. /\ <<"a">> \in Seq(Character) /\ <<"w">> \in Seq(Character) /\ <<"?">> \in Seq(Character)
        /\ <<>> \in Seq(Character)
    BY DEF Character
  <1>1. Pieces(<<>>) = <<>> /\ FlattenSeq(<<>>) = <<>>
    BY FlattenEmpty DEF Pieces
  <1>2. Pieces(<<"a">>) = << <<"a">> >>
    BY DEF Pieces
  <1>3. Pieces(<<"w1">>) = << <<"?">> >>
    BY DEF Pieces
  <1>4. Pieces(<<"w2">>) = << <<"?">> >>
    BY DEF Pieces
  <1>5. Pieces(<<"w1", "w2">>) = << <<"w">>, <<>> >>
    BY DEF Pieces
  <1>6. <<"w">> \o <<>> = <<"w">>
    BY <1>0, ConcatEmptySeq
  <1> QED BY <1>0, <1>1, <1>2, <1>3, <1>4, <1>5, <1>6, FlattenOne, FlattenTwo DEF Decoded

LEMMA BytesOnes == Bytes(<<>>) = 0 /\ Bytes(<<"a">>) = 1 /\ Bytes(<<"w">>) = 2
  <1>0. <<"a">> \in Seq(Unit) /\ <<"w1", "w2">> \in Seq(Unit)
    BY DEF Unit
  <1>1. Codes(<<>>) = <<>> /\ FlattenSeq(<<>>) = <<>>
    BY FlattenEmpty DEF Codes
  <1>2. Codes(<<"a">>) = << <<"a">> >>
    BY DEF Codes, Utf8
  <1>3. Codes(<<"w">>) = << <<"w1", "w2">> >>
    BY DEF Codes, Utf8
  <1>4. /\ Encoded(<<>>) = <<>>
        /\ Encoded(<<"a">>) = <<"a">>
        /\ Encoded(<<"w">>) = <<"w1", "w2">>
    BY <1>0, <1>1, <1>2, <1>3, EncodedIs, FlattenOne
  <1> QED BY <1>4 DEF Bytes

NoMark(t) == ~ \E i \in DOMAIN t : t[i] = "?"

LEMMA NoMarkConcat ==
  ASSUME NEW s \in Seq(Character), NEW t \in Seq(Character), NoMark(s \o t)
  PROVE  NoMark(s) /\ NoMark(t)
  <1>n. PICK n \in Nat : n = Len(s)
    OBVIOUS
  <1>m. PICK m \in Nat : m = Len(t)
    OBVIOUS
  <1>1. /\ s \o t \in Seq(Character) /\ DOMAIN (s \o t) = 1 .. n + m
        /\ \A i \in 1 .. n + m : (s \o t)[i] = IF i <= n THEN s[i] ELSE t[i - n]
    BY <1>n, <1>m, ConcatProperties, LenProperties
  <1>2. DOMAIN s = 1 .. n /\ DOMAIN t = 1 .. m
    BY <1>n, <1>m, LenProperties
  <1>3. ASSUME NEW i \in 1 .. n PROVE s[i] # "?"
    <2>1. i \in 1 .. n + m /\ i <= n
      OBVIOUS
    <2> QED BY <1>1, <2>1 DEF NoMark
  <1>4. ASSUME NEW i \in 1 .. m PROVE t[i] # "?"
    <2>1. PICK j \in 1 .. n + m : ~(j <= n) /\ j - n = i
      <3>1. i + n \in 1 .. n + m /\ ~(i + n <= n) /\ i + n - n = i
        OBVIOUS
      <3> QED BY <3>1
    <2>2. (s \o t)[j] = t[i]
      BY <1>1, <2>1
    <2> QED BY <1>1, <2>1, <2>2 DEF NoMark
  <1> QED BY <1>2, <1>3, <1>4 DEF NoMark

\* b is what its chunk decodes to in full: it has no replacement character, ends with a
\* character and is as long as what it decodes to.
Counted(b) == NoMark(Decoded(b)) => Bytes(Decoded(b)) = Len(b) /\ (b = <<>> \/ b[Len(b)] # "w1")

\* A counted sequence followed by a character is counted.
LEMMA CountsOn ==
  ASSUME NEW s \in Seq(Byte), Counted(s), NEW t \in Seq(Byte), t # <<>>, Uncut(s, t),
         NoMark(Decoded(t)) => Bytes(Decoded(t)) = Len(t) /\ t[Len(t)] # "w1"
  PROVE  Counted(s \o t)
  <1> SUFFICES ASSUME NoMark(Decoded(s \o t))
               PROVE  Bytes(Decoded(s \o t)) = Len(s \o t) /\ (s \o t)[Len(s \o t)] # "w1"
    BY DEF Counted
  <1>1. Decoded(s \o t) = Decoded(s) \o Decoded(t)
    BY DecodedConcat
  <1>2. Decoded(s) \in Seq(Character) /\ Decoded(t) \in Seq(Character)
    BY DecodedType
  <1>3. NoMark(Decoded(s)) /\ NoMark(Decoded(t))
    BY <1>1, <1>2, NoMarkConcat
  <1>4. Bytes(Decoded(s \o t)) = Bytes(Decoded(s)) + Bytes(Decoded(t))
    BY <1>1, <1>2, BytesConcat
  <1>5. Bytes(Decoded(s)) = Len(s) /\ Bytes(Decoded(t)) = Len(t) /\ t[Len(t)] # "w1"
    BY <1>3 DEF Counted
  <1>6. Len(s \o t) = Len(s) + Len(t) /\ (s \o t)[Len(s \o t)] = t[Len(t)]
    <2>1. Len(t) \in Nat /\ Len(t) # 0 /\ Len(s) \in Nat
      OBVIOUS
    <2>2. Len(s \o t) = Len(s) + Len(t)
      BY ConcatProperties
    <2>3. Len(s) + Len(t) \in 1 .. Len(s) + Len(t) /\ ~(Len(s) + Len(t) <= Len(s))
          /\ Len(s) + Len(t) - Len(s) = Len(t)
      BY <2>1
    <2>4. (s \o t)[Len(s) + Len(t)] = t[Len(s) + Len(t) - Len(s)]
      BY <2>3, ConcatProperties
    <2> QED BY <2>2, <2>3, <2>4
  <1> QED BY <1>4, <1>5, <1>6

LEMMA Singles ==
  /\ <<"a">> \in Seq(Byte) /\ <<"w1">> \in Seq(Byte) /\ <<"w2">> \in Seq(Byte)
  /\ <<"w1", "w2">> \in Seq(Byte)
  /\ Len(<<"a">>) = 1 /\ Len(<<"w1">>) = 1 /\ Len(<<"w2">>) = 1 /\ Len(<<"w1", "w2">>) = 2
  BY DEF Byte

\* Each of the sequences a byte string is made of.
LEMMA OnesCounted ==
  ASSUME NEW t \in {<<"a">>, <<"w1">>, <<"w2">>, <<"w1", "w2">>}
  PROVE  NoMark(Decoded(t)) => Bytes(Decoded(t)) = Len(t) /\ t[Len(t)] # "w1"
  <1>0. ~NoMark(<<"?">>)
    <2>1. 1 \in DOMAIN <<"?">> /\ <<"?">>[1] = "?"
      OBVIOUS
    <2> QED BY <2>1 DEF NoMark
  <1>1. CASE t = <<"a">>
    BY <1>1, DecodedOnes, BytesOnes
  <1>2. CASE t = <<"w1">> \/ t = <<"w2">>
    BY <1>0, <1>2, DecodedOnes
  <1>3. CASE t = <<"w1", "w2">>
    <2>1. Len(t) = 2 /\ t[2] = "w2"
      BY <1>3
    <2> QED BY <1>3, <2>1, DecodedOnes, BytesOnes
  <1> QED BY <1>1, <1>2, <1>3

\* What is in front of the last character, and that character.
LEMMA LastCharacter ==
  ASSUME NEW b \in Seq(Byte), b # <<>>
  PROVE  \E s \in Seq(Byte), t \in {<<"a">>, <<"w1">>, <<"w2">>, <<"w1", "w2">>} :
            b = s \o t /\ Uncut(s, t) /\ Len(s) < Len(b)
  <1>1. PICK f \in Seq(Byte), x \in Byte : b = Append(f, x)
    BY SequenceEmptyOrAppend
  <1>2. b = f \o <<x>> /\ Len(b) = Len(f) + 1
    BY <1>1, AppendIsConcat, AppendProperties
  <1>3. CASE x = "w2" /\ f # <<>> /\ f[Len(f)] = "w1"
    <2>1. PICK s \in Seq(Byte), y \in Byte : f = Append(s, y)
      BY <1>3, SequenceEmptyOrAppend
    <2>2. f = s \o <<y>> /\ Len(f) = Len(s) + 1 /\ f[Len(s) + 1] = y
      BY <2>1, AppendIsConcat, AppendProperties
    <2>3. y = "w1"
      BY <1>3, <2>2
    <2>4. <<"w1">> \o <<"w2">> = <<"w1", "w2">>
      <3>1. PICK u, v, p : u = <<"w1">> /\ v = <<"w2">> /\ p = <<"w1", "w2">>
        OBVIOUS
      <3>2. u \in Seq(Byte) /\ v \in Seq(Byte) /\ p \in Seq(Byte) /\ Len(u) = 1 /\ Len(v) = 1 /\ Len(p) = 2
        BY <3>1, Singles
      <3>3. u[1] = p[1] /\ v[1] = p[2]
        BY <3>1
      <3>4. /\ u \o v \in Seq(Byte) /\ Len(u \o v) = 1 + 1
            /\ \A i \in 1 .. 1 + 1 : (u \o v)[i] = IF i <= 1 THEN u[i] ELSE v[i - 1]
        <4>1. /\ u \o v \in Seq(Byte) /\ Len(u \o v) = Len(u) + Len(v)
              /\ \A i \in 1 .. Len(u) + Len(v) :
                    (u \o v)[i] = IF i <= Len(u) THEN u[i] ELSE v[i - Len(u)]
          BY ONLY <3>2, ConcatProperties
        <4> QED BY <3>2, <4>1
      <3>5. ASSUME NEW i \in 1 .. 2 PROVE (u \o v)[i] = p[i]
        <4>1. i = 1 \/ (i = 2 /\ i - 1 = 1 /\ ~(i <= 1))
          OBVIOUS
        <4> QED BY <3>3, <3>4, <4>1
      <3>6. u \o v = p
        BY <3>2, <3>4, <3>5, SeqEqual
      <3> QED BY <3>1, <3>6
    <2>5. (s \o <<"w1">>) \o <<"w2">> = s \o (<<"w1">> \o <<"w2">>)
      BY Singles, ConcatAssociative
    <2>6. b = s \o <<"w1", "w2">>
      BY <1>2, <1>3, <2>2, <2>3, <2>4, <2>5
    <2>7. <<"w1", "w2">>[1] # "w2"
      OBVIOUS
    <2>8. Uncut(s, <<"w1", "w2">>)
      BY <2>7 DEF Uncut
    <2>9. Len(s) < Len(b)
      BY <1>2, <2>2
    <2> QED BY <2>6, <2>8, <2>9
  <1>4. CASE ~(x = "w2" /\ f # <<>> /\ f[Len(f)] = "w1")
    <2>1. <<x>>[1] = x
      OBVIOUS
    <2>2. Uncut(f, <<x>>)
      BY <1>4, <2>1 DEF Uncut
    <2>3. Len(f) < Len(b)
      BY <1>2
    <2>4. <<x>> \in {<<"a">>, <<"w1">>, <<"w2">>, <<"w1", "w2">>}
      BY DEF Byte
    <2> QED BY <1>2, <2>2, <2>3, <2>4
  <1> QED BY <1>3, <1>4

\* Of a chunk that decodes without a replacement character the length of its text is its own.
LEMMA AllCounted == \A b \in Seq(Byte) : Counted(b)
  <1> DEFINE T == {n \in Nat : \A b \in Seq(Byte) : Len(b) <= n => Counted(b)}
  <1>0. Counted(<<>>)
    BY DecodedOnes, BytesOnes DEF Counted
  <1>1. 0 \in T
    <2>1. \A b \in Seq(Byte) : Len(b) <= 0 => b = <<>>
      OBVIOUS
    <2> QED BY <1>0, <2>1
  <1>2. ASSUME NEW n \in Nat, n \in T PROVE n + 1 \in T
    <2>1. ASSUME NEW b \in Seq(Byte), Len(b) <= n + 1 PROVE Counted(b)
      <3>1. CASE b = <<>>
        BY <1>0, <3>1
      <3>2. CASE b # <<>>
        <4>1. PICK s \in Seq(Byte), t \in {<<"a">>, <<"w1">>, <<"w2">>, <<"w1", "w2">>} :
                 b = s \o t /\ Uncut(s, t) /\ Len(s) < Len(b)
          BY <3>2, LastCharacter
        <4>2. Len(s) <= n
          BY <2>1, <4>1
        <4>3. Counted(s)
          BY <1>2, <4>2
        <4>4. t \in Seq(Byte) /\ t # <<>>
          BY <4>1, Singles
        <4> QED BY <4>1, <4>3, <4>4, OnesCounted, CountsOn
      <3> QED BY <3>1, <3>2
    <2> QED BY <2>1
  <1>3. Nat \subseteq T
    <2> HIDE DEF T
    <2> QED BY <1>1, <1>2, ByInduction
  <1>4. \A b \in Seq(Byte) : Len(b) \in T /\ Len(b) <= Len(b)
    BY <1>3
  <1> QED BY <1>4

\* The text is what the first k bytes of the output decode to, and no character is cut there.
Holds(text, k) == text = Decoded(SubSeq(output, 1, k)) /\ (k = 0 \/ output[k] # "w1")

LEMMA HoldsNone == ASSUME output \in Seq(Byte) PROVE Holds(<<>>, 0)
  <1>1. SubSeq(output, 1, 0) = <<>>
    BY SubSeqEmpty
  <1> QED BY <1>1, DecodedOnes DEF Holds

\* The output up to m is that up to k and the bytes between.
LEMMA Pieced ==
  ASSUME output \in Seq(Byte), NEW k \in Nat, NEW m \in Nat, k <= m, m <= Len(output)
  PROVE  /\ SubSeq(output, 1, k) \in Seq(Byte) /\ Len(SubSeq(output, 1, k)) = k
         /\ SubSeq(output, k + 1, m) \in Seq(Byte) /\ Len(SubSeq(output, k + 1, m)) = m - k
         /\ \A i \in 1 .. k : SubSeq(output, 1, k)[i] = output[i]
         /\ \A i \in 1 .. m - k : SubSeq(output, k + 1, m)[i] = output[k + i]
         /\ SubSeq(output, 1, m) = SubSeq(output, 1, k) \o SubSeq(output, k + 1, m)
  <1>0. Len(output) \in Nat /\ \A i \in 1 .. Len(output) : output[i] \in Byte
    BY LenProperties, ElementOfSeq
  <1>1. /\ SubSeq(output, 1, k) \in Seq(Byte) /\ Len(SubSeq(output, 1, k)) = k
        /\ \A i \in 1 .. k : SubSeq(output, 1, k)[i] = output[i]
    BY <1>0
  <1>2. /\ SubSeq(output, k + 1, m) \in Seq(Byte) /\ Len(SubSeq(output, k + 1, m)) = m - k
        /\ \A i \in 1 .. m - k : SubSeq(output, k + 1, m)[i] = output[k + i]
    BY <1>0
  <1>3. SubSeq(output, 1, m) = SubSeq(output, 1, k) \o SubSeq(output, k + 1, m)
    <2>1. 1 \in 1 .. Len(output) + 1 /\ k \in 1 - 1 .. Len(output) /\ m \in k .. Len(output)
      BY <1>0
    <2> QED BY ONLY <2>1, output \in Seq(Byte), ConcatAdjacentSubSeq
  <1> QED BY <1>1, <1>2, <1>3

\* Where no character is cut what follows decodes alone.
LEMMA HoldsParts ==
  ASSUME output \in Seq(Byte), NEW k \in Nat, NEW m \in Nat, k <= m, m <= Len(output),
         NEW text, Holds(text, k)
  PROVE  Decoded(SubSeq(output, 1, m)) = text \o Decoded(SubSeq(output, k + 1, m))
  <1>1. PICK s \in Seq(Byte), t \in Seq(Byte) :
           /\ s = SubSeq(output, 1, k) /\ Len(s) = k /\ \A i \in 1 .. k : s[i] = output[i]
           /\ t = SubSeq(output, k + 1, m) /\ SubSeq(output, 1, m) = s \o t
    BY Pieced
  <1>2. Uncut(s, t)
    <2>1. k > 0 => s[k] # "w1"
      BY <1>1 DEF Holds
    <2>2. s # <<>> => Len(s) > 0
      OBVIOUS
    <2> QED BY <1>1, <2>1, <2>2 DEF Uncut
  <1> QED BY <1>1, <1>2, DecodedConcat DEF Holds

\* A chunk that is decoded without a replacement character takes the reader on by its length.
LEMMA HoldsOn ==
  ASSUME output \in Seq(Byte), NEW k \in Nat, NEW m \in Nat, k < m, m <= Len(output),
         NEW text, Holds(text, k), NoMark(Decoded(SubSeq(output, k + 1, m)))
  PROVE  /\ Holds(text \o Decoded(SubSeq(output, k + 1, m)), m)
         /\ Bytes(Decoded(SubSeq(output, k + 1, m))) = m - k
  <1>1. PICK t \in Seq(Byte) : /\ t = SubSeq(output, k + 1, m) /\ Len(t) = m - k
                               /\ \A i \in 1 .. m - k : t[i] = output[k + i]
    <2>1. k <= m
      OBVIOUS
    <2> QED BY <2>1, Pieced
  <1>2. m - k \in 1 .. m - k /\ k + (m - k) = m /\ m - k # 0
    OBVIOUS
  <1>3. t[m - k] = output[k + (m - k)] /\ t # <<>>
    BY <1>1, <1>2
  <1>4. Bytes(Decoded(t)) = Len(t) /\ t[Len(t)] # "w1"
    BY <1>1, <1>3, AllCounted DEF Counted
  <1>5. output[m] # "w1"
    BY <1>1, <1>2, <1>3, <1>4
  <1>6. Decoded(SubSeq(output, 1, m)) = text \o Decoded(SubSeq(output, k + 1, m))
    BY HoldsParts
  <1> QED BY <1>1, <1>4, <1>5, <1>6 DEF Holds

LEMMA HoldsPrefix ==
  ASSUME output \in Seq(Byte), NEW k \in Nat, k <= Len(output), NEW text, Holds(text, k)
  PROVE  IsPrefix(text, Decoded(output)) /\ (k = Len(output) => text = Decoded(output))
  <1>1. PICK m \in Nat : m = Len(output)
    BY LenProperties
  <1>2. SubSeq(output, 1, m) = output
    BY <1>1, SubSeqFull
  <1>3. PICK t : t = Decoded(SubSeq(output, k + 1, m))
    OBVIOUS
  <1>0. k <= m /\ m <= Len(output)
    BY <1>1
  <1>4. Decoded(output) = text \o t
    <2>1. Decoded(SubSeq(output, 1, m)) = text \o Decoded(SubSeq(output, k + 1, m))
      BY <1>0, HoldsParts
    <2> QED BY <1>2, <1>3, <2>1
  <1>5. text \in Seq(Character) /\ t \in Seq(Character)
    <2>1. SubSeq(output, 1, k) \in Seq(Byte) /\ SubSeq(output, k + 1, m) \in Seq(Byte)
      BY <1>0, Pieced
    <2> QED BY <1>3, <2>1, DecodedType DEF Holds
  <1>6. k = Len(output) => text = Decoded(output)
    BY <1>1, <1>2 DEF Holds
  <1>7. Len(text) <= Len(text \o t) /\ SubSeq(text, 1, Len(text)) = SubSeq(text \o t, 1, Len(text))
    <2>1. Len(text) \in Nat /\ Len(t) \in Nat /\ Len(text \o t) = Len(text) + Len(t)
      BY <1>5, LenProperties, ConcatProperties
    <2>2. CASE Len(text) = 0
      BY <2>1, <2>2, SubSeqEmpty
    <2>3. CASE Len(text) # 0
      <3>1. 1 \in 1 .. Len(text) /\ Len(text) \in 1 .. Len(text)
        BY <2>1, <2>3
      <3>2. SubSeq(text \o t, 1, Len(text)) = SubSeq(text, 1, Len(text))
        BY ONLY <1>5, <3>1, SubSeqOfConcat1
      <3> QED BY <2>1, <3>2
    <2> QED BY <2>2, <2>3
  <1> QED BY <1>4, <1>6, <1>7 DEF IsPrefix

-----------------------------------------------------------------------------
(* What the user is shown of a log.                                        *)

\* What the process has written is the beginning of what it is going to write.
WrittenOK ==
    /\ output \in Seq(Byte)
    /\ Len(log) \in Nat /\ Len(log) <= Len(output) /\ log = SubSeq(output, 1, Len(log))
    /\ proc = "ended" => log = output
    /\ mode = "none" => log = <<>> /\ shown = <<>> /\ read = NoRead /\ proc = "running"

ReadOK ==
    /\ read \in [at : {"none", "size", "refresh", "resize", "tail"}, offset : Nat, total : Nat]
    /\ shown \in Seq(Character) /\ cut \in BOOLEAN
    /\ read.at = "tail" => read.offset < read.total /\ read.total <= Len(log)

\* Unless a chunk has cut a character, what is shown is the output up to the offset.
UpToOffset ==
    ~cut => \E k \in 0 .. Len(log) : Holds(shown, k) /\ (cli # "error" => k = read.offset)

\* Once the process has ended a reader finds the end of its log, ...
EndFound ==
    (cli = "drain" \/ (cli = "read" /\ mode = "json")) =>
        /\ read.at = "tail" => read.total = Len(log)
        /\ read.at \in {"refresh", "resize"} => Len(log) <= read.offset

\* ... and the commands that wait for the process have read up to there.
AllRead ==
    /\ mode = "run" /\ cli \in {"wait", "result", "done"} /\ ~cut => Len(output) <= read.offset
    /\ mode = "json" /\ cli \in {"result", "done"} /\ ~cut => Len(output) <= read.offset

OrderInv == LogInv /\ WrittenOK /\ ReadOK /\ UpToOffset /\ EndFound /\ AllRead

LEMMA OrderSays == ASSUME OrderInv PROVE ShownInOrder
  <1> SUFFICES ASSUME ~cut
               PROVE  /\ IsPrefix(shown, Decoded(output))
                      /\ mode \in {"run", "json"} /\ cli = "done" => shown = Decoded(output)
    BY DEF ShownInOrder
  <1>1. output \in Seq(Byte) /\ Len(log) \in 0 .. Len(output) /\ Len(output) \in Nat
    BY LenProperties DEF OrderInv, WrittenOK
  <1>2. PICK k \in Nat : k <= Len(output) /\ Holds(shown, k) /\ (cli # "error" => k = read.offset)
    BY <1>1 DEF OrderInv, UpToOffset
  <1>3. IsPrefix(shown, Decoded(output)) /\ (k = Len(output) => shown = Decoded(output))
    BY <1>1, <1>2, HoldsPrefix
  <1>4. ASSUME mode \in {"run", "json"}, cli = "done" PROVE k = Len(output)
    <2>1. Len(output) <= k
      BY <1>2, <1>4 DEF OrderInv, AllRead
    <2> QED BY <1>1, <1>2, <2>1
  <1> QED BY <1>3, <1>4

LEMMA OrderInit == LogInit => OrderInv
  <1> SUFFICES ASSUME LogInit PROVE OrderInv
    OBVIOUS
  <1>1. <<>> \in Seq(Byte) /\ <<>> \in Seq(Character) /\ Len(<<>>) = 0 /\ SubSeq(<<>>, 1, 0) = <<>>
    BY EmptySeq, SubSeqEmpty
  <1>2. WrittenOK
    BY <1>1 DEF LogInit, WrittenOK
  <1>3. Holds(shown, 0)
    BY <1>1, HoldsNone DEF LogInit
  <1>4. ReadOK /\ EndFound /\ AllRead
    BY <1>1 DEF LogInit, ReadOK, EndFound, AllRead, NoRead
  <1>5. UpToOffset
    BY <1>1, <1>3 DEF LogInit, UpToOffset, NoRead
  <1>6. LogInv
    BY DEF LogInit, LogInv
  <1> QED BY <1>2, <1>4, <1>5, <1>6 DEF OrderInv

LEMMA LogStarts ==
  ASSUME OrderInv, LogStart
  PROVE  WrittenOK' /\ ReadOK' /\ UpToOffset' /\ EndFound' /\ AllRead'
  <1>0. mode = "none" /\ log = <<>> /\ shown = <<>> /\ read = NoRead /\ proc = "running" /\ mode' \in Modes
    BY DEF LogStart, OrderInv, WrittenOK
  <1>1. log' = <<>> /\ shown' = <<>> /\ proc' = "running" /\ cut' = cut /\ cut \in BOOLEAN
    BY <1>0 DEF LogStart, OrderInv, ReadOK
  <1>2. output' \in Seq(Byte)
    BY LogAssumption DEF LogStart, Byte
  <1>3. /\ read' \in [at : {"none", "size", "refresh", "resize", "tail"}, offset : Nat, total : Nat]
        /\ read'.offset = 0 /\ read'.at \in {"none", "size"} /\ cli' \in {"read", "wait", "done"}
        /\ mode' = "json" => cli' = "wait"
        /\ cli' = "wait" => mode' = "json"
        /\ cli' = "done" => mode' = "detach"
    BY DEF LogStart, NoRead
  <1>4. Len(output') \in Nat /\ SubSeq(output', 1, 0) = <<>> /\ Len(<<>>) = 0 /\ <<>> \in Seq(Character)
    BY <1>2, EmptySeq, LenProperties, SubSeqEmpty
  <1>5. WrittenOK'
    BY <1>0, <1>1, <1>2, <1>4 DEF WrittenOK, Modes
  <1>6. ReadOK'
    BY <1>1, <1>3, <1>4 DEF ReadOK
  <1>7. UpToOffset'
    <2>1. Holds(shown, 0)'
      BY <1>1, <1>4, DecodedOnes DEF Holds
    <2>2. 0 \in 0 .. Len(log')
      BY <1>1, <1>4
    <2> QED BY <1>3, <2>1, <2>2 DEF UpToOffset
  <1>8. EndFound' /\ AllRead'
    BY <1>3 DEF EndFound, AllRead
  <1> QED BY <1>5, <1>6, <1>7, <1>8

LEMMA LogWrites ==
  ASSUME OrderInv, ProcessWrites
  PROVE  WrittenOK' /\ ReadOK' /\ UpToOffset' /\ EndFound' /\ AllRead'
  <1>0. /\ mode # "none" /\ proc = "running" /\ Len(log) < Len(output)
        /\ log' = SubSeq(output, 1, Len(log) + 1)
        /\ UNCHANGED <<output, proc, mode, cli, read, shown, cut>>
        /\ output \in Seq(Byte) /\ Len(output) \in Nat /\ Len(log) \in Nat
    BY LenProperties DEF ProcessWrites, OrderInv, WrittenOK
  <1>1. Len(log') = Len(log) + 1
    <2>1. PICK m \in Nat : m = Len(log) + 1 /\ m <= Len(output) /\ m <= m
      BY <1>0
    <2>2. Len(SubSeq(output, 1, m)) = m
      BY <1>0, <2>1, Pieced
    <2> QED BY <1>0, <2>1, <2>2
  <1>2. WrittenOK'
    BY <1>0, <1>1 DEF WrittenOK
  <1>3. ReadOK'
    BY <1>0, <1>1 DEF OrderInv, ReadOK
  <1>4. UpToOffset'
    <2> SUFFICES ASSUME ~cut'
                 PROVE \E k \in 0 .. Len(log') :
                          Holds(shown, k)' /\ (cli' # "error" => k = read'.offset)
      BY DEF UpToOffset
    <2>1. PICK k \in 0 .. Len(log) : Holds(shown, k) /\ (cli # "error" => k = read.offset)
      BY <1>0 DEF OrderInv, UpToOffset
    <2>2. k \in 0 .. Len(log') /\ Holds(shown, k)' /\ (cli' # "error" => k = read'.offset)
      BY <1>0, <1>1, <2>1 DEF Holds
    <2> QED BY <2>2
  <1>5. cli # "drain" /\ ~(cli = "read" /\ mode = "json")
    BY <1>0 DEF OrderInv, LogInv
  <1>6. EndFound' /\ AllRead'
    BY <1>0, <1>5 DEF OrderInv, EndFound, AllRead
  <1> QED BY <1>2, <1>3, <1>4, <1>6

\* A step that leaves the log and what is shown alone.
LEMMA LogStays ==
  ASSUME OrderInv, UNCHANGED <<output, log, mode, shown, cut>>, proc' \in {proc, "ended"},
         proc' = "ended" => log = output, proc' # proc => mode # "none",
         cli' # "error" => cli # "error" /\ read'.offset = read.offset,
         mode = "none" => read' = NoRead
  PROVE  WrittenOK' /\ UpToOffset'
  <1>1. WrittenOK'
    BY DEF OrderInv, WrittenOK
  <1>2. UpToOffset'
    <2> SUFFICES ASSUME ~cut'
                 PROVE \E k \in 0 .. Len(log') :
                          Holds(shown, k)' /\ (cli' # "error" => k = read'.offset)
      BY DEF UpToOffset
    <2>1. PICK k \in 0 .. Len(log) : Holds(shown, k) /\ (cli # "error" => k = read.offset)
      BY DEF OrderInv, UpToOffset
    <2>2. k \in 0 .. Len(log') /\ Holds(shown, k)' /\ (cli' # "error" => k = read'.offset)
      BY <2>1 DEF Holds
    <2> QED BY <2>2
  <1> QED BY <1>1, <1>2

LEMMA LogEnds ==
  ASSUME OrderInv, ProcessEnds \/ EmitResult
  PROVE  WrittenOK' /\ ReadOK' /\ UpToOffset' /\ EndFound' /\ AllRead'
  <1>1. /\ UNCHANGED <<output, log, mode, read, shown, cut>>
        /\ (proc' = proc \/ (proc' = "ended" /\ mode # "none" /\ log = output))
        /\ cli' = cli \/ (cli = "result" /\ cli' \in {"done", "error"})
    BY DEF ProcessEnds, EmitResult
  <1>2. WrittenOK' /\ UpToOffset'
    BY <1>1, LogStays DEF OrderInv, WrittenOK
  <1>3. ReadOK'
    BY <1>1 DEF OrderInv, ReadOK
  <1>4. EndFound' /\ AllRead'
    BY <1>1 DEF OrderInv, LogInv, EndFound, AllRead, Modes
  <1> QED BY <1>2, <1>3, <1>4

LEMMA LogTurns ==
  ASSUME OrderInv, GetStatus \/ WaitOver
  PROVE  WrittenOK' /\ ReadOK' /\ UpToOffset' /\ EndFound' /\ AllRead'
  <1>1. /\ UNCHANGED <<output, log, proc, mode, shown, cut>>
        /\ read' = read \/ read' = [read EXCEPT !.at = "size"]
        /\ read \in [at : {"none", "size", "refresh", "resize", "tail"}, offset : Nat, total : Nat]
        /\ cli \in {"status", "wait"}
    BY DEF GetStatus, WaitOver, OrderInv, ReadOK
  <1>2. /\ read'.offset = read.offset /\ read'.total = read.total /\ read'.at \in {read.at, "size"}
        /\ read' \in [at : {"none", "size", "refresh", "resize", "tail"}, offset : Nat, total : Nat]
    BY <1>1
  <1>3. mode # "none"
    BY <1>1 DEF OrderInv, LogInv
  <1>4. WrittenOK' /\ UpToOffset'
    BY <1>1, <1>2, <1>3, LogStays DEF OrderInv, WrittenOK
  <1>5. ReadOK'
    BY <1>1, <1>2 DEF OrderInv, ReadOK
  <1>6. \/ cli = "status" /\ cli' = "done" /\ mode = "follow"
        \/ cli = "status" /\ cli' \in {"drain", "read"} /\ read'.at = "size" /\ mode \in {"run", "follow"}
        \/ cli = "wait" /\ cli' = "read" /\ mode = "json" /\ read'.at = "size"
        \/ cli = "wait" /\ cli' = "result" /\ mode = "run"
    BY <1>1 DEF GetStatus, WaitOver, OrderInv, LogInv
  <1>7. EndFound' /\ AllRead'
    BY <1>1, <1>2, <1>6 DEF OrderInv, EndFound, AllRead
  <1> QED BY <1>4, <1>5, <1>7

LEMMA LogFails ==
  ASSUME OrderInv, CommandFails
  PROVE  WrittenOK' /\ ReadOK' /\ UpToOffset' /\ EndFound' /\ AllRead'
  <1>1. UNCHANGED <<output, log, proc, mode, shown, cut>> /\ read' = NoRead /\ cli' = "error"
    BY DEF CommandFails
  <1>2. WrittenOK' /\ UpToOffset'
    BY <1>1, LogStays DEF OrderInv, WrittenOK
  <1> QED BY <1>1, <1>2 DEF OrderInv, ReadOK, EndFound, AllRead, NoRead

\* What an answer does to the command and to the reader.
LEMMA AnswerGives ==
  ASSUME OrderInv, cli \in {"read", "drain"}, NEW text, NEW next, NEW eof, Answer(text, next, eof)
  PROVE  /\ shown' = shown \o text
         /\ read' = [at |-> read'.at, offset |-> next, total |-> 0]
         /\ \/ cli = "read" /\ mode \in {"run", "follow"} /\ cli' = "status" /\ read'.at = "none"
            \/ mode = "logs" /\ cli = "read" /\ cli' = "done" /\ read'.at = "none"
            \/ mode = "run" /\ cli = "drain" /\ cli' = "wait" /\ (eof \/ text = <<>>) /\ read'.at = "none"
            \/ mode = "json" /\ cli = "read" /\ cli' = "result" /\ eof /\ read'.at = "none"
            \/ cli' = cli /\ read'.at = "size"
  BY DEF Answer, OrderInv, LogInv, Modes

\* An answer keeps the invariant when the text takes the reader to the next offset, and to
\* the end of the log when it is the last.
LEMMA AnswerKeeps ==
  ASSUME OrderInv, cli \in {"read", "drain"},
         NEW text \in Seq(Character), NEW next \in Nat, NEW eof, Answer(text, next, eof),
         UNCHANGED <<output, log, proc, mode>>, cut' \in BOOLEAN, cut => cut',
         ~cut' => Holds(shown \o text, next) /\ next <= Len(log),
         cli = "drain" /\ (eof \/ text = <<>>) /\ ~cut' => Len(output) <= next,
         mode = "json" /\ eof /\ ~cut' => Len(output) <= next
  PROVE  WrittenOK' /\ ReadOK' /\ UpToOffset' /\ EndFound' /\ AllRead'
  <1>0. /\ shown' = shown \o text
        /\ read' = [at |-> read'.at, offset |-> next, total |-> 0]
        /\ \/ cli = "read" /\ mode \in {"run", "follow"} /\ cli' = "status" /\ read'.at = "none"
           \/ mode = "logs" /\ cli = "read" /\ cli' = "done" /\ read'.at = "none"
           \/ mode = "run" /\ cli = "drain" /\ cli' = "wait" /\ (eof \/ text = <<>>) /\ read'.at = "none"
           \/ mode = "json" /\ cli = "read" /\ cli' = "result" /\ eof /\ read'.at = "none"
           \/ cli' = cli /\ read'.at = "size"
    BY AnswerGives
  <1>1. mode # "none" /\ Len(log) \in Nat /\ shown \in Seq(Character)
    BY DEF OrderInv, LogInv, WrittenOK, ReadOK
  <1>2. read'.at \in {"none", "size"} /\ read'.offset = next /\ read'.total = 0
    BY <1>0
  <1>3. WrittenOK'
    BY <1>1 DEF OrderInv, WrittenOK
  <1>4. ReadOK'
    BY <1>0, <1>1, <1>2, ConcatProperties DEF ReadOK
  <1>5. UpToOffset'
    <2> SUFFICES ASSUME ~cut'
                 PROVE \E k \in 0 .. Len(log') :
                          Holds(shown, k)' /\ (cli' # "error" => k = read'.offset)
      BY DEF UpToOffset
    <2>1. Holds(shown \o text, next) /\ next \in 0 .. Len(log')
      BY <1>1
    <2>2. Holds(shown, next)'
      BY <1>0, <2>1 DEF Holds
    <2> QED BY <1>2, <2>1, <2>2
  <1>6. EndFound'
    BY <1>2 DEF EndFound
  <1>7. AllRead'
    BY <1>0, <1>2 DEF AllRead
  <1> QED BY <1>3, <1>4, <1>5, <1>6, <1>7

\* An answer of nothing leaves the reader where it is.
LEMMA NothingKeeps ==
  ASSUME OrderInv, cli \in {"read", "drain"}, NEW eof, Answer(<<>>, read.offset, eof),
         UNCHANGED <<output, log, proc, mode, cut>>,
         cli = "drain" \/ mode = "json" => Len(output) <= read.offset
  PROVE  WrittenOK' /\ ReadOK' /\ UpToOffset' /\ EndFound' /\ AllRead'
  <1>1. /\ <<>> \in Seq(Character) /\ read.offset \in Nat /\ cut' \in BOOLEAN /\ shown \o <<>> = shown
        /\ Len(log) \in Nat
    BY EmptySeq, ConcatEmptySeq DEF OrderInv, ReadOK, WrittenOK
  <1>2. ~cut' => Holds(shown \o <<>>, read.offset) /\ read.offset <= Len(log)
    BY <1>1 DEF OrderInv, UpToOffset
  <1> QED BY <1>1, <1>2, AnswerKeeps

\* A step of the reader to its next command.
LEMMA ReadingKeeps ==
  ASSUME OrderInv, cli \in {"read", "drain"}, UNCHANGED <<output, log, proc, mode, cli, shown, cut>>,
         NEW at \in {"refresh", "resize", "tail"}, NEW total \in Nat,
         read' = [at |-> at, offset |-> read.offset, total |-> total],
         at = "tail" => read.offset < total /\ total = Len(log),
         at # "tail" /\ (cli = "drain" \/ mode = "json") => Len(log) <= read.offset
  PROVE  WrittenOK' /\ ReadOK' /\ UpToOffset' /\ EndFound' /\ AllRead'
  <1>1. read \in [at : {"none", "size", "refresh", "resize", "tail"}, offset : Nat, total : Nat]
    BY DEF OrderInv, ReadOK
  <1>2. /\ read'.offset = read.offset /\ read'.at = at /\ read'.total = total
        /\ read' \in [at : {"none", "size", "refresh", "resize", "tail"}, offset : Nat, total : Nat]
    BY <1>1
  <1>3. mode # "none" /\ Len(log) \in Nat
    BY DEF OrderInv, LogInv, WrittenOK
  <1>4. WrittenOK' /\ UpToOffset'
    BY <1>2, <1>3, LogStays DEF OrderInv, WrittenOK
  <1>5. ReadOK'
    BY <1>2, <1>3 DEF OrderInv, ReadOK
  <1>6. EndFound' /\ AllRead'
    BY <1>2 DEF OrderInv, EndFound, AllRead
  <1> QED BY <1>4, <1>5, <1>6

LEMMA LogSizes ==
  ASSUME OrderInv, ReadSize \/ ReadStatus
  PROVE  WrittenOK' /\ ReadOK' /\ UpToOffset' /\ EndFound' /\ AllRead'
  <1>0. /\ cli \in {"read", "drain"} /\ UNCHANGED <<output, log, proc, mode>>
        /\ read \in [at : {"none", "size", "refresh", "resize", "tail"}, offset : Nat, total : Nat]
        /\ Len(log) \in Nat
    BY LenProperties DEF ReadSize, ReadStatus, ReadAt, OrderInv, ReadOK, WrittenOK
  <1>1. cli = "drain" \/ mode = "json" => log = output
    BY <1>0 DEF OrderInv, LogInv, WrittenOK
  <1>2. CASE ReadSize
    <2>1. CASE Len(log) > read.offset
      <3>1. read' = [read EXCEPT !.at = "tail", !.total = Len(log)] /\ UNCHANGED <<cli, shown, cut>>
        BY <1>2, <2>1 DEF ReadSize
      <3>2. read.offset < Len(log)
        BY <1>0, <2>1
      <3>3. read' = [at |-> "tail", offset |-> read.offset, total |-> Len(log)]
        BY <1>0, <3>1
      <3> QED BY <1>0, <3>1, <3>2, <3>3, ReadingKeeps
    <2>2. CASE ~(Len(log) > read.offset) /\ read.at = "size"
      <3>1. read' = [read EXCEPT !.at = "refresh"] /\ UNCHANGED <<cli, shown, cut>>
        BY <1>2, <2>2 DEF ReadSize, Reading
      <3>2. read' = [at |-> "refresh", offset |-> read.offset, total |-> read.total]
        BY <1>0, <3>1
      <3>3. Len(log) <= read.offset /\ read.total \in Nat
        BY <1>0, <2>2
      <3> QED BY <1>0, <3>1, <3>2, <3>3, ReadingKeeps
    <2>3. CASE ~(Len(log) > read.offset) /\ read.at # "size"
      <3>1. Answer(<<>>, read.offset, FALSE) /\ UNCHANGED cut
        BY <1>2, <2>3 DEF ReadSize
      <3>2. Len(log) <= read.offset
        BY <1>0, <2>3
      <3> QED BY <1>0, <1>1, <3>1, <3>2, NothingKeeps
    <2> QED BY <2>1, <2>2, <2>3
  <1>3. CASE ReadStatus
    <2>0. read.at = "refresh" /\ (cli = "drain" \/ mode = "json" => Len(log) <= read.offset)
      BY <1>0, <1>3 DEF ReadStatus, ReadAt, OrderInv, EndFound, LogInv
    <2>1. CASE proc = "ended"
      <3>1. Answer(<<>>, read.offset, TRUE) /\ UNCHANGED cut
        BY <1>3, <2>1 DEF ReadStatus
      <3> QED BY <1>0, <1>1, <2>0, <3>1, NothingKeeps
    <2>2. CASE proc # "ended"
      <3>1. read' = [read EXCEPT !.at = "resize"] /\ UNCHANGED <<cli, shown, cut>>
        BY <1>3, <2>2 DEF ReadStatus, Reading
      <3>2. read' = [at |-> "resize", offset |-> read.offset, total |-> read.total] /\ read.total \in Nat
        BY <1>0, <3>1
      <3> QED BY <1>0, <2>0, <3>1, <3>2, ReadingKeeps
    <2> QED BY <2>1, <2>2
  <1> QED BY <1>2, <1>3

LEMMA LogChunks ==
  ASSUME OrderInv, ReadChunk
  PROVE  WrittenOK' /\ ReadOK' /\ UpToOffset' /\ EndFound' /\ AllRead'
  <1>0. /\ cli \in {"read", "drain"} /\ UNCHANGED <<output, log, proc, mode>> /\ read.at = "tail"
        /\ output \in Seq(Byte) /\ Len(output) \in Nat /\ Len(log) \in Nat /\ Len(log) <= Len(output)
        /\ log = SubSeq(output, 1, Len(log)) /\ cut \in BOOLEAN
    BY LenProperties DEF ReadChunk, ReadAt, OrderInv, ReadOK, WrittenOK
  <1>n. PICK n \in Nat : n = Len(log)
    BY <1>0
  <1>k. PICK k \in Nat : k = read.offset
    BY DEF OrderInv, ReadOK
  <1>1. k < n /\ read.total <= n /\ read.total \in Nat /\ k < read.total
    BY <1>0, <1>n, <1>k DEF OrderInv, ReadOK
  <1>m. PICK m \in Nat : m = IF k + Chunk < n THEN k + Chunk ELSE n
    BY LogAssumption
  <1>2. k < m /\ m <= n /\ m <= Len(output) /\ (m = n \/ m = k + Chunk)
    <2>1. PICK c \in Nat : c = Chunk /\ c > 0
      BY LogAssumption
    <2>2. m = IF k + c < n THEN k + c ELSE n
      BY <1>m, <2>1
    <2>3. k < m /\ m <= n /\ (m = n \/ m = k + c)
      BY <1>1, <2>1, <2>2
    <2>4. n <= Len(output) /\ Len(output) \in Nat
      BY <1>0, <1>n
    <2> QED BY <2>1, <2>3, <2>4
  <1>3. ChunkAt(read.offset) = SubSeq(output, k + 1, m)
    <2>1. ChunkAt(read.offset) = SubSeq(log, k + 1, m)
      BY <1>n, <1>k, <1>m DEF ChunkAt
    <2>2. log \in Seq(Byte) /\ \A i \in 1 .. n : log[i] = output[i]
      BY <1>0, <1>n, Pieced
    <2>3. SubSeq(log, k + 1, m) = SubSeq(output, k + 1, m)
      <3>1. \A i \in k + 1 .. m : log[i] = output[i] /\ log[i] \in Byte /\ output[i] \in Byte
        <4>1. \A i \in k + 1 .. m : i \in 1 .. n /\ i \in 1 .. Len(output)
          BY <1>0, <1>2
        <4>2. \A i \in 1 .. n : log[i] \in Byte
          BY <1>n, <2>2, ElementOfSeq
        <4> QED BY <2>2, <4>1, <4>2
      <3>2. /\ SubSeq(log, k + 1, m) \in Seq(Byte) /\ SubSeq(output, k + 1, m) \in Seq(Byte)
            /\ Len(SubSeq(log, k + 1, m)) = m - k /\ Len(SubSeq(output, k + 1, m)) = m - k
            /\ \A i \in 1 .. m - k : SubSeq(log, k + 1, m)[i] = log[k + i]
            /\ \A i \in 1 .. m - k : SubSeq(output, k + 1, m)[i] = output[k + i]
        BY <1>2, <3>1
      <3>3. \A i \in 1 .. m - k : k + i \in k + 1 .. m
        BY <1>2
      <3> QED BY <3>1, <3>2, <3>3, SeqEqual
    <2> QED BY <2>1, <2>3
  <1>t. PICK text : text = Decoded(ChunkAt(read.offset))
    OBVIOUS
  <1>4. text \in Seq(Character) /\ Bytes(text) \in Nat
    <2>1. k <= m
      BY <1>2
    <2>2. SubSeq(output, k + 1, m) \in Seq(Byte)
      BY <1>0, <1>2, <2>1, Pieced
    <2> QED BY <1>3, <1>t, <2>2, DecodedType, EncodedType
  <1>5. /\ Answer(text, k + Bytes(text), k + Bytes(text) >= read.total)
        /\ cut' = (cut \/ ~NoMark(text))
    BY <1>k, <1>t DEF ReadChunk, NoMark
  <1>6. ASSUME ~cut' PROVE k + Bytes(text) = m /\ Holds(shown \o text, m) /\ text # <<>>
    <2>1. ~cut /\ NoMark(text)
      BY <1>0, <1>5, <1>6
    <2>2. Holds(shown, k)
      BY <1>0, <1>k, <2>1 DEF OrderInv, UpToOffset
    <2>3. Holds(shown \o text, m) /\ Bytes(text) = m - k
      BY <1>0, <1>2, <1>3, <1>t, <2>1, <2>2, HoldsOn
    <2>4. Bytes(text) # 0
      BY <1>2, <2>3
    <2> QED BY <1>2, <2>3, <2>4, BytesOnes
  <1>7. cli = "drain" \/ mode = "json" => read.total = n /\ Len(output) = n
    BY <1>0, <1>n DEF OrderInv, LogInv, WrittenOK, EndFound
  <1>8. /\ k + Bytes(text) \in Nat /\ cut' \in BOOLEAN /\ (cut => cut')
        /\ ~cut' => Holds(shown \o text, k + Bytes(text)) /\ k + Bytes(text) <= Len(log)
    <2>1. k + Bytes(text) \in Nat /\ cut' \in BOOLEAN /\ (cut => cut')
      <3>1. (cut \/ ~NoMark(text)) \in BOOLEAN
        OBVIOUS
      <3>2. k + Bytes(text) \in Nat
        BY <1>4
      <3> QED BY <1>5, <3>1, <3>2
    <2>2. ~cut' => Holds(shown \o text, k + Bytes(text)) /\ k + Bytes(text) <= Len(log)
      BY <1>n, <1>2, <1>6
    <2> QED BY <2>1, <2>2
  <1>9. /\ cli = "drain" /\ (k + Bytes(text) >= read.total \/ text = <<>>) /\ ~cut'
           => Len(output) <= k + Bytes(text)
        /\ mode = "json" /\ k + Bytes(text) >= read.total /\ ~cut' => Len(output) <= k + Bytes(text)
    BY <1>4, <1>6, <1>7
  <1> QED BY <1>0, <1>4, <1>5, <1>8, <1>9, AnswerKeeps

LEMMA OrderGoes ==
  ASSUME OrderInv, [LogNext]_logVars
  PROVE  OrderInv'
  <1>1. CASE LogNext
    <2>1. LogInv'
      BY <1>1, LogGoes DEF OrderInv
    <2>2. WrittenOK' /\ ReadOK' /\ UpToOffset' /\ EndFound' /\ AllRead'
      BY <1>1, LogStarts, LogWrites, LogEnds, LogTurns, LogFails, LogSizes, LogChunks
         DEF LogNext, LogGoesOn
    <2> QED BY <2>1, <2>2 DEF OrderInv
  <1>2. CASE UNCHANGED logVars
    <2>1. WrittenOK' /\ UpToOffset'
      BY <1>2, LogStays DEF OrderInv, WrittenOK, logVars
    <2>2. LogInv' /\ ReadOK' /\ EndFound' /\ AllRead'
      BY <1>2, LogRests DEF OrderInv, ReadOK, EndFound, AllRead, logVars
    <2> QED BY <2>1, <2>2 DEF OrderInv
  <1> QED BY <1>1, <1>2

LEMMA OrderAlways == DeploymentSpec => []OrderInv
  <1>1. DeploymentInit => OrderInv
    BY OrderInit DEF DeploymentInit
  <1>2. OrderInv /\ [DeploymentNext]_deploymentVars => OrderInv'
    BY LogAlone, OrderGoes
  <1> QED BY <1>1, <1>2, PTL DEF DeploymentSpec

\* Whatever a process writes, in whatever chunks it is read and however the writes, the
\* reads and the end of the process interleave: what the user is given is the beginning of
\* what was written, without a gap or a repetition, and all of it once run and run --json
\* are done, unless a chunk broke a character in two (read_process_log,
\* read_process_log_all, stream_process_logs).
THEOREM LogInOrder == DeploymentSpec => []ShownInOrder
  BY OrderSays, OrderAlways, PTL

-----------------------------------------------------------------------------
(* What the other parts promise is kept in a deployment too: each part     *)
(* begins as it is when followed alone, only its own steps touch it, and   *)
(* nothing is left of a backend that is not the one selected.              *)

\* With another backend than Apple's there are no containers, and no line of a helper.
AppleIsAbsent ==
    part # "apple" => containers = {} /\ networks = {} /\ sidecars = {} /\ outbox = <<>>

PartsInv ==
    /\ part \in {"none", "apple"} => AppleInv
    /\ builtin \in BOOLEAN
    /\ AppleIsAbsent
    /\ part # "firecracker" => vms = {}
    /\ ShellInv /\ RelayInv

LEMMA PartsInit == DeploymentInit => PartsInv
  <1> SUFFICES ASSUME DeploymentInit PROVE PartsInv
    OBVIOUS
  <1>1. AppleInv
    BY AppleInitInv DEF DeploymentInit
  <1>2. builtin \in BOOLEAN /\ AppleIsAbsent
    BY DEF DeploymentInit, AppleInit, HelperInit, AppleIsAbsent
  <1>3. vms = {}
    BY DEF DeploymentInit, FcInit
  <1>4. ShellInv /\ RelayInv
    BY InitShell, RelayInitInv DEF DeploymentInit
  <1> QED BY <1>1, <1>2, <1>3, <1>4 DEF PartsInv

\* The shell and the name server are followed by their own steps.
LEMMA StreamsStep == ShellInv /\ RelayInv /\ [DeploymentNext]_deploymentVars => (ShellInv /\ RelayInv)'
  <1> SUFFICES ASSUME ShellInv, RelayInv, [DeploymentNext]_deploymentVars
               PROVE  ShellInv' /\ RelayInv'
    OBVIOUS
  <1>1. [ShellNext]_shellVars /\ [RelayNext]_relayVars
    <2>1. CASE Starts \/ (\E p : Choose(p)) \/ RequestPart
      BY <2>1 DEF Starts, Choose, RequestPart, OthersThanRequest
    <2>2. CASE ApplePart \/ FcPart \/ LocalPart
      BY <2>2 DEF ApplePart, FcPart, LocalPart, OthersThanApple, OthersThanFc, OthersThanLocal,
         OthersThanBackends
    <2>3. CASE LogPart \/ ShellPart \/ RelayPart
      BY <2>3 DEF LogPart, ShellPart, RelayPart
    <2>4. CASE UNCHANGED deploymentVars
      BY <2>4 DEF deploymentVars
    <2> QED BY <2>1, <2>2, <2>3, <2>4 DEF DeploymentNext
  <1> QED BY <1>1, StepShell, RelayStep

\* No step of Apple's changes which helper it has.
LEMMA BuiltinStays ==
  ASSUME [AppleNext]_appleVars
  PROVE  builtin' = builtin
  BY DEF AppleNext, appleVars, sessionVars, SessionAlone, Begin, CallGoesOn, Dispatch, CreateDirect,
     AccessDirect, Fallback, DestroyDirect, DestroyUnknown, Ensure, Lock, WriteRequest, ReadReply,
     ResetSession, Drop, HelperGoesOn, HelperDies, ContainerVanishes, AppleRestarts

\* The choice of a part sets builtin anew, which for Apple's is what it was.
LEMMA ChoiceStep ==
  ASSUME PartsInv, NEW p \in {"request", "apple", "firecracker", "local", "shell", "log", "relay"},
         Choose(p)
  PROVE  /\ part' \in {"none", "apple"} => AppleInv'
         /\ builtin' \in BOOLEAN
         /\ AppleIsAbsent'
         /\ part' # "firecracker" => vms' = {}
  <1>1. part = "none" /\ part' = p /\ builtin' = (p = "apple" /\ builtin)
    BY DEF Choose
  <1>2. UNCHANGED <<callVars, helperVars, session, mutex, torn, strays, vms>>
    BY DEF Choose, fcOwn
  <1>3. builtin \in BOOLEAN /\ AppleInv
    BY <1>1 DEF PartsInv
  <1>4. builtin' \in BOOLEAN /\ (p = "apple" => builtin' = builtin)
    BY <1>1, <1>3
  <1>5. ASSUME part' \in {"none", "apple"} PROVE AppleInv'
    <2>1. p = "apple"
      BY <1>1, <1>5
    <2>2. UNCHANGED appleVars
      BY <1>2, <1>4, <2>1 DEF appleVars, sessionVars
    <2> QED BY <1>3, <2>2, AppleNextInv
  <1>6. AppleIsAbsent' /\ vms' = {}
    BY <1>1, <1>2 DEF PartsInv, AppleIsAbsent, helperVars, world, pipes
  <1> QED BY <1>4, <1>5, <1>6

LEMMA PartsStep == PartsInv /\ [DeploymentNext]_deploymentVars => PartsInv'
  <1> SUFFICES ASSUME PartsInv, [DeploymentNext]_deploymentVars PROVE PartsInv'
    OBVIOUS
  <1>1. ShellInv' /\ RelayInv'
    BY StreamsStep DEF PartsInv
  <1>2. ASSUME UNCHANGED <<callVars, appleOwn, fcOwn>>, part' = part PROVE PartsInv'
    <2>1. UNCHANGED appleVars
      BY <1>2 DEF appleVars, appleOwn
    <2>2. AppleInv => AppleInv'
      BY <2>1, AppleNextInv
    <2>3. UNCHANGED <<builtin, containers, networks, sidecars, outbox, vms>>
      BY <1>2 DEF appleOwn, helperVars, sessionVars, world, pipes, fcOwn
    <2> QED BY <1>1, <1>2, <2>2, <2>3 DEF PartsInv, AppleIsAbsent
  <1>3. CASE Starts \/ RequestPart \/ LogPart \/ ShellPart \/ RelayPart
    BY <1>2, <1>3 DEF Starts, RequestPart, LogPart, ShellPart, RelayPart, In, OthersThanRequest,
       NoBackend
  <1>4. ASSUME NEW p \in {"request", "apple", "firecracker", "local", "shell", "log", "relay"},
               Choose(p)
        PROVE  PartsInv'
    BY <1>1, <1>4, ChoiceStep DEF PartsInv
  <1>5. CASE ApplePart
    <2>1. part = "apple" /\ part' = part /\ AppleNext /\ UNCHANGED vms
      BY <1>5 DEF ApplePart, In, OthersThanApple, fcOwn
    <2>2. AppleInv'
      BY <2>1, AppleNextInv DEF PartsInv
    <2>3. builtin' = builtin
      BY <2>1, BuiltinStays DEF appleVars
    <2> QED BY <1>1, <2>1, <2>2, <2>3 DEF PartsInv, AppleIsAbsent
  <1>6. CASE FcPart \/ LocalPart
    <2>1. UNCHANGED <<builtin, containers, networks, sidecars, outbox, part>>
      BY <1>6 DEF FcPart, LocalPart, In, OthersThanFc, OthersThanLocal, appleOwn, helperVars,
         sessionVars, world, pipes
    <2>2. part = "firecracker" \/ (part = "local" /\ UNCHANGED vms)
      BY <1>6 DEF FcPart, LocalPart, In, OthersThanLocal, fcOwn
    <2> QED BY <1>1, <2>1, <2>2 DEF PartsInv, AppleIsAbsent
  <1>7. CASE UNCHANGED deploymentVars
    BY <1>2, <1>7 DEF deploymentVars
  <1> QED BY <1>3, <1>4, <1>5, <1>6, <1>7 DEF DeploymentNext

\* In a deployment every part keeps what it promises alone: Apple's calls read their own
\* responses, and its containers, networks and entries are what was told of them; a live
\* sandbox of Firecracker with an allowlist is filtered; a client of a shell that gets the
\* exit code has all its output; and the name server answers each query once and only as
\* the allowlist has it (create_backend, AppleVzBackend, FirecrackerBackend, AgentService).
THEOREM DeploymentKeeps ==
  DeploymentSpec => [](/\ OwnReply /\ NoStrayNetwork /\ EntryIsKnown /\ DestroyedIsGone /\ FailedIsGone
                       /\ UnfilteredOnlyInPassing /\ ExitCodeIsLast /\ OwnAnswer)
  <1>1. PartsInv => OwnReply /\ NoStrayNetwork /\ EntryIsKnown /\ DestroyedIsGone /\ FailedIsGone
    <2> SUFFICES ASSUME PartsInv
                 PROVE  OwnReply /\ NoStrayNetwork /\ EntryIsKnown /\ DestroyedIsGone /\ FailedIsGone
      OBVIOUS
    <2>1. CASE part = "apple"
      BY <2>1, OwnSays, NetworksSay, EntriesSay, DestroyedSay, FailedSay DEF PartsInv, AppleInv
    <2>2. CASE part # "apple"
      BY <2>2 DEF PartsInv, AppleIsAbsent, OwnReply, NoStrayNetwork, EntryIsKnown, DestroyedIsGone,
         FailedIsGone
    <2> QED BY <2>1, <2>2
  <1>2. PartsInv /\ BackendsInv => UnfilteredOnlyInPassing
    <2> SUFFICES ASSUME PartsInv, BackendsInv PROVE UnfilteredOnlyInPassing
      OBVIOUS
    <2>1. CASE part = "firecracker"
      BY <2>1, FcFilters DEF BackendsInv
    <2>2. CASE part # "firecracker"
      BY <2>2 DEF PartsInv, UnfilteredOnlyInPassing
    <2> QED BY <2>1, <2>2
  <1>3. PartsInv => ExitCodeIsLast /\ OwnAnswer
    BY ShellSays, RelaySays DEF PartsInv
  <1> QED BY <1>1, <1>2, <1>3, PartsInit, PartsStep, BackendsAlways, PTL DEF DeploymentSpec

-----------------------------------------------------------------------------
(* The types of all parts.                                                 *)

\* What a request carries at each stage.
RequestSorts ==
    /\ info \in {"none", "known", "missing"}
    /\ stage \in {"none", "start", "sent", "accepted", "lacking", "created", "refused"}
    /\ config.vcpus \in Nat

LEMMA RequestSortsStep ==
  ASSUME RequestSorts, [DeploymentNext]_deploymentVars
  PROVE  RequestSorts'
  <1>1. CASE RequestPart
    <2>1. CASE LoadServerInfo \/ CreateEnds \/ InspectDetails
      BY <2>1 DEF LoadServerInfo, CreateEnds, InspectDetails, RequestSorts
    <2>2. ASSUME NEW r \in Requests, AskCli(r) \/ AskWire(r) PROVE RequestSorts'
      <3>1. r.vcpus \in Nat
        BY RequestAssumption DEF RequestAssumption
      <3>2. /\ info' = info /\ stage' \in {"refused", "sent"}
            /\ config'.vcpus \in {config.vcpus, r.vcpus}
        BY <2>2 DEF AskCli, AskWire
      <3> QED BY <3>1, <3>2 DEF RequestSorts
    <2>3. CASE ReceiveCreate
      <3>1. /\ info' = info /\ stage' \in {"refused", "lacking", "accepted"}
            /\ config'.vcpus = IF config.vcpus = 0 THEN DefaultVcpus ELSE config.vcpus % 256
        BY <2>3 DEF ReceiveCreate, FromWire
      <3>2. config'.vcpus \in Nat
        BY <3>1 DEF RequestSorts, DefaultVcpus
      <3> QED BY <3>1, <3>2 DEF RequestSorts
    <2> QED BY <1>1, <2>1, <2>2, <2>3 DEF RequestPart, RequestGoesOn
  <1>2. ASSUME NEW p, Choose(p) PROVE RequestSorts'
    BY <1>2 DEF Choose, RequestSorts
  <1>3. CASE Starts
    BY <1>3 DEF Starts, StartServer, RequestSorts
  <1>4. CASE ApplePart \/ FcPart \/ LocalPart \/ LogPart \/ ShellPart \/ RelayPart
    BY <1>4 DEF ApplePart, FcPart, LocalPart, LogPart, ShellPart, RelayPart, OthersThanApple,
       OthersThanFc, OthersThanLocal, OthersThanBackends, NoBackend, requestVars, RequestSorts
  <1>5. CASE UNCHANGED deploymentVars
    BY <1>5 DEF deploymentVars, requestVars, RequestSorts
  <1> QED BY <1>1, <1>2, <1>3, <1>4, <1>5 DEF DeploymentNext

\* The policy of a request arrives as one of the modes, if it is not refused.
LEMMA PolicyModes ==
  ASSUME NEW r \in Requests, r.by = "cli" => ResolveNetworkPolicy(r) # Invalid
  PROVE  ModeFromWire(SentFor(r).mode) \in NetworkModes \cup {Invalid}
  <1>1. /\ r.profile.name \in {"absent", "locked", "web", "full", "file", "missing"}
        /\ r.profile.network \in {"none", "full", "allowlist", "other"}
        /\ r.profile.allow \subseteq Domains /\ r.allow \subseteq Domains
        /\ r.network \in {"absent", "none", "full", "allowlist", "unknown"}
        /\ r.by \in {"cli", "sdk", "grpc"}
    BY RequestAssumption DEF RequestAssumption
  <1>2. ASSUME NEW k \in {"none", "full", "allowlist", "unknown"}, NEW d \in SUBSET Domains
        PROVE  Mode(k, d) \in NetworkModes
    BY DEF Mode, NetworkModes
  <1>3. {} \in SUBSET Domains
    OBVIOUS
  <1>4. CASE r.by = "cli"
    <2> DEFINE d == ProfileMode(r.profile)
               o == Override(d, r.network)
               m == Replaced(o, r.allow)
    <2>1. SentFor(r).mode = ResolveNetworkPolicy(r)
      BY <1>4 DEF SentFor
    <2>2. ResolveNetworkPolicy(r) = m /\ m # Invalid /\ d # Invalid
      BY <1>4 DEF ResolveNetworkPolicy
    <2>3. d \in NetworkModes
      BY <1>1, <1>2, <1>3, <2>2 DEF ProfileMode
    <2>4. o \in NetworkModes
      BY <1>1, <1>2, <1>3, <2>3 DEF Override
    <2>5. m \in NetworkModes
      BY <1>1, <1>2, <2>2, <2>4 DEF Replaced
    <2>6. SentFor(r).mode \in NetworkModes
      BY <2>1, <2>2, <2>5
    <2> QED BY <1>2, <1>3, <2>6 DEF ModeFromWire
  <1>5. CASE r.by # "cli"
    <2>1. SentFor(r).mode = NetworkFields(r)
      BY <1>5 DEF SentFor
    <2>2. NetworkFields(r).kind = r.network /\ NetworkFields(r).domains \in {{}, r.allow}
          /\ NetworkFields(r) = Mode(r.network, NetworkFields(r).domains)
      BY ModeShape DEF NetworkFields
    <2>3. NetworkFields(r).kind = "allowlist" => NetworkFields(r) \in NetworkModes
      BY <1>1, <1>2, <1>3, <2>2
    <2> QED BY <1>2, <1>3, <2>1, <2>3 DEF ModeFromWire
  <1> QED BY <1>4, <1>5

LEMMA RequestTyped == RequestInv /\ RequestSorts => RequestTypeOK
  <1> SUFFICES ASSUME RequestInv, RequestSorts PROVE RequestTypeOK
    OBVIOUS
  <1>1. server.backend \in {"none", "local", "firecracker", "apple", "unavailable"}
    BY SelectionFacts DEF RequestInv, ServerOK, NoServer
  <1>2. ASSUME stage \in {"accepted", "created"}
        PROVE  config.mode \in NetworkModes /\ config.vcpus < 256
    <2> DEFINE s == SentFor(asked)
    <2>1. asked \in Requests /\ ToldOf(asked) /\ config = FromWire(s) /\ config.mode # Invalid
      BY <1>2 DEF RequestInv
    <2>2. ModeFromWire(s.mode) \in NetworkModes \cup {Invalid} /\ s.vcpus \in Nat
      <3>1. ModeFromWire(s.mode) \in NetworkModes \cup {Invalid}
        BY <2>1, PolicyModes DEF ToldOf
      <3>2. asked.vcpus \in Nat
        BY <2>1, RequestAssumption DEF RequestAssumption
      <3> QED BY <3>1, <3>2 DEF SentFor
    <2> HIDE DEF s
    <2>3. config.mode = ModeFromWire(s.mode)
          /\ config.vcpus = IF s.vcpus = 0 THEN DefaultVcpus ELSE s.vcpus % 256
      BY <2>1 DEF FromWire
    <2>4. config.mode \in NetworkModes
      BY <2>1, <2>2, <2>3
    <2>5. config.vcpus < 256
      BY <2>2, <2>3 DEF DefaultVcpus
    <2> QED BY <2>4, <2>5
  <1> QED BY <1>1, <1>2 DEF RequestSorts, RequestTypeOK

LEMMA LogTyped == OrderInv => LogTypeOK
  <1> SUFFICES ASSUME OrderInv PROVE LogTypeOK
    OBVIOUS
  <1>1. log \in Seq(Byte)
    <2>1. PICK n \in Nat : n = Len(log)
      BY DEF OrderInv, WrittenOK
    <2>2. output \in Seq(Byte) /\ n <= Len(output) /\ log = SubSeq(output, 1, n)
      BY <2>1 DEF OrderInv, WrittenOK
    <2>3. SubSeq(output, 1, n) \in Seq(Byte)
      BY <2>2, Pieced
    <2> QED BY <2>2, <2>3
  <1>2. shown \in Seq(Character) /\ read.at \in {"none", "size", "refresh", "resize", "tail"}
    BY DEF OrderInv, ReadOK
  <1> QED BY <1>1, <1>2 DEF OrderInv, LogInv, LogTypeOK, Byte, Character

\* What the backends that are not followed have of their own stays as it was.
AppleSorts ==
    /\ HelperTypeOK
    /\ builtin \in BOOLEAN /\ session \in BOOLEAN /\ torn \in BOOLEAN
    /\ mutex \in Calls \cup {"none"}
    /\ strays \in 0 .. MaxFaults

FcSorts ==
    /\ vms \subseteq Boxes /\ syncs \subseteq Boxes /\ rooted \subseteq Boxes
    /\ rules \in [Boxes -> SUBSET Commands]
    /\ held \in Calls \cup {"none"}
    /\ agent \in {"off", "starting", "on"}
    /\ started \in BOOLEAN

TypesInv ==
    /\ CallsTypeOK /\ AppleSorts /\ FcSorts
    /\ part \in {"none", "apple"} => SortsOK
    /\ RequestSorts /\ Bounded

LEMMA TypesInit == DeploymentInit => TypesInv
  <1> SUFFICES ASSUME DeploymentInit PROVE TypesInv
    OBVIOUS
  <1>1. AppleInv /\ SortsOK
    BY AppleInitInv, SortsInit DEF DeploymentInit
  <1>2. AppleTypeOK
    BY <1>1, TypesSay
  <1>3. FcTypeOK
    BY FcInitInv DEF DeploymentInit, FcInv
  <1>5. RequestSorts
    BY DEF DeploymentInit, RequestInit, RequestSorts, NoConfig
  <1>6. Bounded
    BY InitBounded DEF DeploymentInit
  <1> QED BY <1>1, <1>2, <1>3, <1>5, <1>6 DEF TypesInv, AppleTypeOK, AppleSorts, FcTypeOK, FcSorts

LEMMA BoundedStep ==
  ASSUME ShellInv, Bounded, [DeploymentNext]_deploymentVars
  PROVE  Bounded'
  <1>1. [ShellNext]_shellVars
    <2>1. CASE Starts \/ (\E p : Choose(p)) \/ RequestPart
      BY <2>1 DEF Starts, Choose, RequestPart, OthersThanRequest
    <2>2. CASE ApplePart \/ FcPart \/ LocalPart
      BY <2>2 DEF ApplePart, FcPart, LocalPart, OthersThanApple, OthersThanFc, OthersThanLocal,
         OthersThanBackends
    <2>3. CASE LogPart \/ ShellPart \/ RelayPart
      BY <2>3 DEF LogPart, ShellPart, RelayPart
    <2>4. CASE UNCHANGED deploymentVars
      BY <2>4 DEF deploymentVars
    <2> QED BY <2>1, <2>2, <2>3, <2>4 DEF DeploymentNext
  <1> QED BY <1>1, StepBounded

LEMMA TypesStep ==
  ASSUME TypesInv, PartsInv, BackendsInv, [DeploymentNext]_deploymentVars
  PROVE  TypesInv'
  <1>1. RequestSorts' /\ Bounded'
    BY RequestSortsStep, BoundedStep DEF TypesInv, PartsInv
  <1>2. ASSUME UNCHANGED callVars PROVE CallsTypeOK'
    BY <1>2 DEF TypesInv, CallsTypeOK, callVars
  <1>3. ASSUME UNCHANGED appleOwn PROVE AppleSorts'
    BY <1>3 DEF TypesInv, AppleSorts, HelperTypeOK, appleOwn, helperVars, sessionVars, world
  <1>4. ASSUME UNCHANGED fcOwn PROVE FcSorts'
    BY <1>4 DEF TypesInv, FcSorts, fcOwn
  <1>5. CASE UNCHANGED <<callVars, appleOwn, fcOwn, part>>
    <2>1. SortsOK => SortsOK'
      BY <1>5 DEF SortsOK, callVars, appleOwn, helperVars, sessionVars
    <2> QED BY <1>1, <1>2, <1>3, <1>4, <1>5, <2>1 DEF TypesInv
  <1>6. CASE Starts \/ RequestPart \/ LogPart \/ ShellPart \/ RelayPart
    BY <1>5, <1>6 DEF Starts, RequestPart, LogPart, ShellPart, RelayPart, In, OthersThanRequest,
       NoBackend
  <1>7. ASSUME NEW p \in {"request", "apple", "firecracker", "local", "shell", "log", "relay"},
               Choose(p)
        PROVE  TypesInv'
    <2>1. part = "none" /\ part' = p /\ builtin' = (p = "apple" /\ builtin)
      BY <1>7 DEF Choose
    <2>2. UNCHANGED <<callVars, helperVars, session, mutex, torn, strays, fcOwn>>
      BY <1>7 DEF Choose
    <2>3. builtin \in BOOLEAN /\ builtin' \in BOOLEAN
      BY <2>1 DEF PartsInv
    <2>4. AppleSorts'
      BY <2>2, <2>3 DEF TypesInv, AppleSorts, HelperTypeOK, helperVars, world
    <2>5. SortsOK'
      BY <2>1, <2>2, <2>3 DEF TypesInv, SortsOK, callVars, helperVars
    <2> QED BY <1>1, <1>2, <1>4, <2>2, <2>4, <2>5 DEF TypesInv
  <1>8. CASE ApplePart
    <2>1. part = "apple" /\ part' = part /\ AppleNext /\ UNCHANGED fcOwn
      BY <1>8 DEF ApplePart, In, OthersThanApple
    <2>2. AppleInv' /\ SortsOK'
      BY <2>1, AppleNextInv, StepSorts DEF PartsInv, TypesInv, AppleInv
    <2>3. AppleTypeOK'
      <3>1. AppleInv' /\ SortsOK' => AppleTypeOK'
        BY TypesSay, PTL
      <3> QED BY <2>2, <3>1
    <2> QED BY <1>1, <1>4, <2>1, <2>2, <2>3 DEF TypesInv, AppleTypeOK, AppleSorts
  <1>9. CASE FcPart
    <2>1. part = "firecracker" /\ part' = part /\ FcNext /\ UNCHANGED appleOwn
      BY <1>9 DEF FcPart, In, OthersThanFc
    <2>2. FcTypeOK'
      BY <2>1, FcStep DEF BackendsInv, FcInv
    <2> QED BY <1>1, <1>3, <2>1, <2>2 DEF TypesInv, FcTypeOK, FcSorts
  <1>10. CASE LocalPart
    <2>1. part = "local" /\ part' = part /\ LocalNext /\ UNCHANGED <<appleOwn, fcOwn>>
      BY <1>10 DEF LocalPart, In, OthersThanLocal
    <2>2. LocalTypeOK'
      BY <2>1, LocalNextInv DEF BackendsInv, LocalInv
    <2> QED BY <1>1, <1>3, <1>4, <2>1, <2>2 DEF TypesInv, LocalTypeOK
  <1>11. CASE UNCHANGED deploymentVars
    BY <1>5, <1>11 DEF deploymentVars
  <1> QED BY <1>6, <1>7, <1>8, <1>9, <1>10, <1>11 DEF DeploymentNext

\* Every variable of the deployment keeps to its values, whichever part is followed: the
\* backends' maps and sets are of the sandboxes there are, a request that was accepted has
\* one of the modes and a number of vcpus that fits in a byte, logs and what is shown of
\* them are bytes and characters, and no channel or pipe holds more than its size.
THEOREM DeploymentTypes == DeploymentSpec => []DeploymentTypeOK
  <1>1. TypesInv /\ PartsInv /\ RequestInv /\ OrderInv => DeploymentTypeOK
    <2> SUFFICES ASSUME TypesInv, PartsInv, RequestInv, OrderInv PROVE DeploymentTypeOK
      OBVIOUS
    <2>1. AppleTypeOK /\ FcTypeOK /\ LocalTypeOK
      BY DEF TypesInv, AppleSorts, FcSorts, AppleTypeOK, FcTypeOK, LocalTypeOK
    <2>2. RequestTypeOK /\ LogTypeOK
      BY RequestTyped, LogTyped DEF TypesInv
    <2>3. ShellTypeOK /\ RelayTypeOK
      BY ShellTyped, RelayTyped DEF TypesInv, PartsInv
    <2> QED BY <2>1, <2>2, <2>3 DEF DeploymentTypeOK
  <1>2. DeploymentInit => TypesInv /\ PartsInv /\ BackendsInv
    BY TypesInit, PartsInit, BackendsInit
  <1>3. (TypesInv /\ PartsInv /\ BackendsInv) /\ [DeploymentNext]_deploymentVars
        => (TypesInv /\ PartsInv /\ BackendsInv)'
    BY TypesStep, PartsStep, BackendsStep
  <1> QED BY <1>1, <1>2, <1>3, RequestAlways, OrderAlways, PTL DEF DeploymentSpec

-----------------------------------------------------------------------------
(* No call of Apple's waits in vain for the session, and with another      *)
(* backend there is no session.                                            *)

RepliesInv ==
    /\ part \in {"none", "apple"} => ComingInv
    /\ part # "apple" => mutex = "none" /\ ~running

LEMMA RepliesInit == DeploymentInit => RepliesInv
  <1> SUFFICES ASSUME DeploymentInit PROVE RepliesInv
    OBVIOUS
  <1>1. ComingInv
    BY AppleInitInv, BalanceInit DEF DeploymentInit, ComingInv, AppleInv
  <1>2. mutex = "none" /\ ~running
    BY DEF DeploymentInit, AppleInit, HelperInit
  <1> QED BY <1>1, <1>2 DEF RepliesInv

LEMMA RepliesStep ==
  ASSUME RepliesInv, PartsInv, [DeploymentNext]_deploymentVars
  PROVE  RepliesInv'
  <1>1. ASSUME UNCHANGED <<callVars, appleOwn, part>> PROVE RepliesInv'
    <2>1. UNCHANGED appleVars
      BY <1>1 DEF appleVars, appleOwn
    <2>2. ComingInv => ComingInv'
      BY <2>1, ComingStep
    <2>3. UNCHANGED <<mutex, running>>
      BY <1>1 DEF appleOwn, helperVars, sessionVars
    <2> QED BY <1>1, <2>2, <2>3 DEF RepliesInv
  <1>2. CASE Starts \/ RequestPart \/ LogPart \/ ShellPart \/ RelayPart
    BY <1>1, <1>2 DEF Starts, RequestPart, LogPart, ShellPart, RelayPart, In, OthersThanRequest,
       NoBackend
  <1>3. ASSUME NEW p \in {"request", "apple", "firecracker", "local", "shell", "log", "relay"},
               Choose(p)
        PROVE  RepliesInv'
    <2>1. part = "none" /\ part' = p /\ builtin' = (p = "apple" /\ builtin)
      BY <1>3 DEF Choose
    <2>2. UNCHANGED <<callVars, helperVars, session, mutex, torn, strays>>
      BY <1>3 DEF Choose
    <2>3. CASE p = "apple"
      <3>1. builtin \in BOOLEAN /\ ComingInv
        BY <2>1 DEF RepliesInv, PartsInv
      <3>2. builtin' = builtin
        BY <2>1, <2>3, <3>1
      <3>3. UNCHANGED appleVars
        BY <2>2, <3>2 DEF appleVars, sessionVars
      <3> QED BY <2>1, <2>3, <3>1, <3>3, ComingStep DEF RepliesInv
    <2>4. CASE p # "apple"
      BY <2>1, <2>2, <2>4 DEF RepliesInv, helperVars
    <2> QED BY <2>3, <2>4
  <1>4. CASE ApplePart
    BY <1>4, ComingStep DEF ApplePart, In, RepliesInv
  <1>5. CASE FcPart \/ LocalPart
    BY <1>5 DEF FcPart, LocalPart, In, OthersThanFc, OthersThanLocal, appleOwn, helperVars,
       sessionVars, RepliesInv
  <1>6. CASE UNCHANGED deploymentVars
    BY <1>1, <1>6 DEF deploymentVars
  <1> QED BY <1>2, <1>3, <1>4, <1>5, <1>6 DEF DeploymentNext

\* In a deployment, too, whoever holds the session's mutex is about to write or to read, and
\* a line is on its way to a call that reads, whatever was torn, dropped or died before
\* (helper_request, run_loop).
THEOREM DeploymentReplies == DeploymentSpec => []ReplyIsComing
  <1>1. RepliesInv /\ TypesInv => ReplyIsComing
    <2> SUFFICES ASSUME RepliesInv, TypesInv PROVE ReplyIsComing
      OBVIOUS
    <2>1. CASE part = "apple"
      BY <2>1, ComingSays DEF RepliesInv, TypesInv
    <2>2. CASE part # "apple"
      BY <2>2 DEF RepliesInv, ReplyIsComing
    <2> QED BY <2>1, <2>2
  <1>2. DeploymentInit => RepliesInv /\ TypesInv /\ PartsInv /\ BackendsInv
    BY RepliesInit, TypesInit, PartsInit, BackendsInit
  <1>3. (RepliesInv /\ TypesInv /\ PartsInv /\ BackendsInv) /\ [DeploymentNext]_deploymentVars
        => (RepliesInv /\ TypesInv /\ PartsInv /\ BackendsInv)'
    BY RepliesStep, TypesStep, PartsStep, BackendsStep
  <1> QED BY <1>1, <1>2, <1>3, PTL DEF DeploymentSpec

-----------------------------------------------------------------------------
(* What an entry of an allowlist means to the server and to the script.    *)

RawCharacter == {"a", ".", "*", "/"}

\* A suffix, place by place.
LEMMA SuffixPlaces ==
  ASSUME NEW S, NEW s \in Seq(S), NEW t \in Seq(S)
  PROVE  IsSuffix(s, t) <=>
            Len(s) <= Len(t) /\ \A i \in 1 .. Len(s) : s[i] = t[Len(t) - Len(s) + i]
  <1>1. PICK m \in Nat, n \in Nat : m = Len(s) /\ n = Len(t)
    BY LenProperties
  <1>2. PICK r : r = Reverse(s)
    OBVIOUS
  <1>3. PICK u : u = Reverse(t)
    OBVIOUS
  <1>4. /\ r \in Seq(S) /\ Len(r) = m /\ \A i \in 1 .. m : r[i] = s[m - i + 1]
        /\ u \in Seq(S) /\ Len(u) = n /\ \A i \in 1 .. n : u[i] = t[n - i + 1]
    BY <1>1, <1>2, <1>3 DEF Reverse
  <1>5. IsSuffix(s, t) <=> m <= n /\ SubSeq(r, 1, m) = SubSeq(u, 1, m)
    BY <1>2, <1>3, <1>4 DEF IsSuffix, IsPrefix
  <1>6. ASSUME m <= n
        PROVE  SubSeq(r, 1, m) = SubSeq(u, 1, m) <=> \A i \in 1 .. m : r[i] = u[i]
    <2>1. PICK x : x = SubSeq(r, 1, m)
      OBVIOUS
    <2>2. PICK y : y = SubSeq(u, 1, m)
      OBVIOUS
    <2>3. /\ x \in Seq(S) /\ Len(x) = m /\ \A i \in 1 .. m : x[i] = r[i]
          /\ y \in Seq(S) /\ Len(y) = m /\ \A i \in 1 .. m : y[i] = u[i]
      BY <1>4, <1>6, <2>1, <2>2
    <2>4. (\A i \in 1 .. m : x[i] = y[i]) => x = y
      BY <2>3, SeqEqual
    <2> QED BY <2>1, <2>2, <2>3, <2>4
  <1>7. ASSUME m <= n
        PROVE  (\A i \in 1 .. m : r[i] = u[i]) <=> \A i \in 1 .. m : s[i] = t[n - m + i]
    <2>1. ASSUME \A i \in 1 .. m : r[i] = u[i], NEW i \in 1 .. m PROVE s[i] = t[n - m + i]
      <3>1. PICK j \in 1 .. m : j = m - i + 1
        OBVIOUS
      <3>2. r[j] = s[m - j + 1] /\ u[j] = t[n - j + 1] /\ r[j] = u[j]
        <4>1. j \in 1 .. n /\ j \in 1 .. m
          BY <1>7
        <4>2. r[j] = s[m - j + 1] /\ u[j] = t[n - j + 1]
          BY <1>4, <4>1
        <4>3. r[j] = u[j]
          BY <2>1, <4>1
        <4> QED BY <4>2, <4>3
      <3>3. m - j + 1 = i /\ n - j + 1 = n - m + i
        BY <3>1
      <3> QED BY <3>2, <3>3
    <2>2. ASSUME \A i \in 1 .. m : s[i] = t[n - m + i], NEW i \in 1 .. m PROVE r[i] = u[i]
      <3>1. PICK j \in 1 .. m : j = m - i + 1
        OBVIOUS
      <3>2. r[i] = s[j] /\ u[i] = t[n - i + 1] /\ s[j] = t[n - m + j]
        <4>1. i \in 1 .. n /\ j \in 1 .. m
          BY <1>7
        <4>2. r[i] = s[m - i + 1] /\ u[i] = t[n - i + 1]
          BY <1>4, <4>1
        <4>3. s[j] = t[n - m + j]
          BY <2>2, <4>1
        <4> QED BY <3>1, <4>2, <4>3
      <3>3. n - m + j = n - i + 1
        BY <3>1
      <3> QED BY <3>2, <3>3
    <2> QED BY <2>1, <2>2
  <1> QED BY <1>1, <1>5, <1>6, <1>7

LEMMA StarDot == /\ <<"*", ".">> \in Seq(RawCharacter) /\ Len(<<"*", ".">>) = 2
                 /\ SubSeq(<<"*", ".">>, 1, 2) = <<"*", ".">>
                 /\ <<".">> \in Seq(RawCharacter) /\ Len(<<".">>) = 1
  <1>1. PICK p : p = <<"*", ".">>
    OBVIOUS
  <1>2. p \in Seq(RawCharacter) /\ Len(p) = 2
    BY <1>1 DEF RawCharacter
  <1>3. PICK q : q = SubSeq(p, 1, 2)
    OBVIOUS
  <1>4. q \in Seq(RawCharacter) /\ Len(q) = 2 /\ \A i \in 1 .. 2 : q[i] = p[i]
    BY <1>2, <1>3
  <1>5. q = p
    BY <1>2, <1>4, SeqEqual
  <1>6. <<".">> \in Seq(RawCharacter) /\ Len(<<".">>) = 1
    BY DEF RawCharacter
  <1> QED BY <1>1, <1>2, <1>3, <1>5, <1>6

\* The pattern of an entry is what it was parsed from.
LEMMA PatternOfEntry ==
  ASSUME NEW raw \in Seq(RawCharacter), ParseEntry(raw) # NotAnEntry
  PROVE  LET e == ParseEntry(raw) IN
         /\ Pattern(e) = raw
         /\ e.name \in Seq(RawCharacter) /\ e.name # <<>>
         /\ \/ e.kind = "exact" /\ ~IsPrefix(<<"*", ".">>, raw) /\ e.name = raw
            \/ /\ e.kind = "wildcard" /\ IsPrefix(<<"*", ".">>, raw)
               /\ raw = <<"*", ".">> \o e.name
  <1>1. PICK wild : wild = IsPrefix(<<"*", ".">>, raw)
    OBVIOUS
  <1>2. PICK name : name = IF wild THEN SubSeq(raw, 3, Len(raw)) ELSE raw
    OBVIOUS
  <1>3. IsHostname(name) /\ ParseEntry(raw) = [kind |-> IF wild THEN "wildcard" ELSE "exact",
                                                name |-> name]
    BY <1>1, <1>2 DEF ParseEntry
  <1>4. name # <<>>
    BY <1>3 DEF IsHostname
  <1>5. CASE ~wild
    BY <1>1, <1>2, <1>3, <1>4, <1>5 DEF Pattern
  <1>6. CASE wild
    <2>1. PICK n \in Nat : n = Len(raw)
      BY LenProperties
    <2>2. IsPrefix(<<"*", ".">>, raw)
      BY <1>1, <1>6
    <2>3. 2 <= n /\ <<"*", ".">> = SubSeq(raw, 1, 2)
      BY <2>1, <2>2, StarDot DEF IsPrefix
    <2>4. name = SubSeq(raw, 3, n)
      BY <1>2, <1>6, <2>1
    <2>5. SubSeq(raw, 1, n) = SubSeq(raw, 1, 2) \o SubSeq(raw, 3, n)
      <3>1. 1 \in 1 .. Len(raw) + 1 /\ 2 \in 1 - 1 .. Len(raw) /\ n \in 2 .. Len(raw)
        BY <2>1, <2>3
      <3>2. SubSeq(raw, 1, 2) \o SubSeq(raw, 2 + 1, n) = SubSeq(raw, 1, n)
        BY ONLY <3>1, raw \in Seq(RawCharacter), ConcatAdjacentSubSeq
      <3> QED BY <3>2
    <2>6. SubSeq(raw, 1, n) = raw
      BY <2>1
    <2>7. raw = <<"*", ".">> \o name
      BY <2>3, <2>4, <2>5, <2>6
    <2>8. name \in Seq(RawCharacter)
      BY <2>1, <2>3, <2>4
    <2> QED BY <1>3, <1>4, <1>6, <2>2, <2>7, <2>8 DEF Pattern
  <1> QED BY <1>5, <1>6

\* A domain ends in "." and a name exactly if it ends in the name, behind a ".".
LEMMA DottedSuffix ==
  ASSUME NEW name \in Seq(RawCharacter), NEW dotted \in Seq(RawCharacter),
         dotted = <<".">> \o name, NEW domain \in Seq(RawCharacter)
  PROVE  LET prefix == SubSeq(domain, 1, Len(domain) - Len(name)) IN
         IsSuffix(dotted, domain) <=> IsSuffix(name, domain) /\ prefix # <<>> /\ Last(prefix) = "."
  <1>1. PICK m \in Nat, n \in Nat : m = Len(name) /\ n = Len(domain)
    BY LenProperties
  <1>2. Len(dotted) = m + 1 /\ dotted[1] = "." /\ \A i \in 1 .. m : dotted[i + 1] = name[i]
    <2>1. <<".">> \in Seq(RawCharacter) /\ Len(<<".">>) = 1 /\ <<".">>[1] = "."
      BY DEF RawCharacter
    <2> QED BY <1>1, <2>1
  <1>3. IsSuffix(name, domain) <=> m <= n /\ \A i \in 1 .. m : name[i] = domain[n - m + i]
    BY <1>1, SuffixPlaces
  <1>4. IsSuffix(dotted, domain) <=>
           m + 1 <= n /\ \A i \in 1 .. m + 1 : dotted[i] = domain[n - (m + 1) + i]
    <2>1. IsSuffix(dotted, domain) <=>
             Len(dotted) <= Len(domain) /\
             \A i \in 1 .. Len(dotted) : dotted[i] = domain[Len(domain) - Len(dotted) + i]
      BY SuffixPlaces
    <2>2. Len(dotted) = m + 1 /\ Len(domain) = n
      BY <1>1, <1>2
    <2> QED BY <2>1, <2>2, Zenon
  <1>5. PICK p : p = SubSeq(domain, 1, n - m)
    OBVIOUS
  <1>6. m <= n => /\ Len(p) = n - m /\ (p # <<>> <=> n - m # 0)
                  /\ (p # <<>> => Last(p) = domain[n - m])
    <2> SUFFICES ASSUME m <= n PROVE /\ Len(p) = n - m /\ (p # <<>> <=> n - m # 0)
                                     /\ (p # <<>> => Last(p) = domain[n - m])
      OBVIOUS
    <2>1. p \in Seq(RawCharacter) /\ Len(p) = n - m /\ \A i \in 1 .. n - m : p[i] = domain[i]
      BY <1>1, <1>5
    <2>2. p # <<>> <=> Len(p) # 0
      BY <2>1, EmptySeq
    <2>3. n - m # 0 => n - m \in 1 .. n - m
      OBVIOUS
    <2> QED BY <2>1, <2>2, <2>3 DEF Last
  <1>7. ASSUME m + 1 <= n
        PROVE  (\A i \in 1 .. m + 1 : dotted[i] = domain[n - (m + 1) + i]) <=>
                  domain[n - m] = "." /\ \A i \in 1 .. m : name[i] = domain[n - m + i]
    <2>1. n - (m + 1) + 1 = n - m /\ \A i \in 1 .. m : n - (m + 1) + (i + 1) = n - m + i
      OBVIOUS
    <2>2. 1 \in 1 .. m + 1 /\ \A i \in 1 .. m : i + 1 \in 1 .. m + 1
      OBVIOUS
    <2>3. \A i \in 1 .. m + 1 : i = 1 \/ \E j \in 1 .. m : i = j + 1
      <3>1. ASSUME NEW i \in 1 .. m + 1, i # 1 PROVE \E j \in 1 .. m : i = j + 1
        <4>1. i - 1 \in 1 .. m /\ i = (i - 1) + 1
          BY <3>1
        <4> QED BY <4>1
      <3> QED BY <3>1
    <2>4. ASSUME \A i \in 1 .. m + 1 : dotted[i] = domain[n - (m + 1) + i]
          PROVE  domain[n - m] = "." /\ \A i \in 1 .. m : name[i] = domain[n - m + i]
      <3>1. domain[n - m] = "."
        BY <1>2, <2>1, <2>2, <2>4
      <3>2. ASSUME NEW i \in 1 .. m PROVE name[i] = domain[n - m + i]
        <4>1. dotted[i + 1] = domain[n - (m + 1) + (i + 1)]
          BY <2>2, <2>4
        <4> QED BY <1>2, <2>1, <4>1
      <3> QED BY <3>1, <3>2
    <2>5. ASSUME domain[n - m] = ".", \A i \in 1 .. m : name[i] = domain[n - m + i],
                 NEW i \in 1 .. m + 1
          PROVE  dotted[i] = domain[n - (m + 1) + i]
      <3>1. CASE i = 1
        BY <1>2, <2>1, <2>5, <3>1
      <3>2. ASSUME NEW j \in 1 .. m, i = j + 1 PROVE dotted[i] = domain[n - (m + 1) + i]
        BY <1>2, <2>1, <2>5, <3>2
      <3> QED BY <2>3, <3>1, <3>2
    <2> QED BY <2>4, <2>5
  <1>8. m <= n /\ n - m # 0 <=> m + 1 <= n
    OBVIOUS
  <1> QED BY <1>1, <1>3, <1>4, <1>5, <1>6, <1>7, <1>8

\* A name of a domain's characters has no "*".
LEMMA PlainHost ==
  ASSUME NEW raw \in Seq(RawCharacter), NEW domain \in Seq(RawCharacter), DomainOnly(domain),
         IsPrefix(<<"*", ".">>, raw)
  PROVE  domain # raw
  <1>1. raw[1] = "*" /\ 1 \in 1 .. Len(raw)
    <2>2. 2 <= Len(raw) /\ <<"*", ".">> = SubSeq(raw, 1, 2)
      BY StarDot DEF IsPrefix
    <2>3. SubSeq(raw, 1, 2)[1] = raw[1] /\ <<"*", ".">>[1] = "*"
      BY <2>2
    <2> QED BY <2>2, <2>3, LenProperties
  <1>2. ASSUME domain = raw PROVE FALSE
    <2>1. 1 \in DOMAIN domain
      BY <1>1, <1>2
    <2>2. domain[1] \in {"a", "."}
      BY <2>1 DEF DomainOnly
    <2> QED BY <1>1, <1>2, <2>2
  <1> QED BY <1>2

LEMMA EntryAgrees ==
  ASSUME NEW raw \in Seq(RawCharacter), ParseEntry(raw) # NotAnEntry,
         NEW domain \in Seq(RawCharacter)
  PROVE  EntryMatches(ParseEntry(raw), domain) <=> ScriptMatches(raw, domain) /\ DomainOnly(domain)
  <1>1. PICK e : e = ParseEntry(raw)
    OBVIOUS
  <1>2. /\ e.name \in Seq(RawCharacter)
        /\ \/ e.kind = "exact" /\ ~IsPrefix(<<"*", ".">>, raw) /\ e.name = raw
           \/ e.kind = "wildcard" /\ IsPrefix(<<"*", ".">>, raw) /\ raw = <<"*", ".">> \o e.name
    BY <1>1, PatternOfEntry
  <1>3. CASE ~DomainOnly(domain)
    BY <1>3 DEF EntryMatches
  <1>4. CASE DomainOnly(domain) /\ e.kind = "exact" /\ ~IsPrefix(<<"*", ".">>, raw) /\ e.name = raw
    <2>1. DomainOnly(domain) /\ e.kind = "exact" /\ e.name = raw /\ ~IsPrefix(<<"*", ".">>, raw)
      BY <1>4
    <2> QED BY <1>1, <2>1 DEF EntryMatches, ScriptMatches
  <1>5. CASE /\ DomainOnly(domain) /\ e.kind = "wildcard" /\ IsPrefix(<<"*", ".">>, raw)
             /\ raw = <<"*", ".">> \o e.name
    <2>1. domain # raw
      BY <1>5, PlainHost
    <2>2. PICK dotted \in Seq(RawCharacter) : dotted = <<".">> \o e.name
      BY <1>2, StarDot, ConcatProperties
    <2>3. Tail(raw) = dotted
      <3>1. PICK nm \in Seq(RawCharacter) : nm = e.name
        BY <1>2
      <3>2. raw = <<"*", ".">> \o nm /\ dotted = <<".">> \o nm
        BY <1>5, <2>2, <3>1
      <3>3. Tail(<<"*", ".">> \o nm) = <<".">> \o nm
        <4>1. <<"*", ".">> \in Seq(RawCharacter) /\ <<".">> \in Seq(RawCharacter)
          BY DEF RawCharacter
        <4>2. PICK x, y : x = Tail(<<"*", ".">> \o nm) /\ y = <<".">> \o nm
          OBVIOUS
        <4>3. PICK k \in Nat : k = Len(nm)
          BY LenProperties
        <4>4. /\ x \in Seq(RawCharacter) /\ Len(x) = k + 1
              /\ \A i \in 1 .. k + 1 : x[i] = (<<"*", ".">> \o nm)[i + 1]
          BY <4>1, <4>2, <4>3
        <4>5. y \in Seq(RawCharacter) /\ Len(y) = k + 1
          BY <4>1, <4>2, <4>3
        <4>6. \A i \in 1 .. k + 1 : (<<"*", ".">> \o nm)[i + 1] = y[i]
          BY <4>1, <4>2, <4>3
        <4> QED BY <4>2, <4>4, <4>5, <4>6, SeqEqual
      <3> QED BY <3>2, <3>3
    <2>5. PICK q : q = SubSeq(domain, 1, Len(domain) - Len(e.name))
      OBVIOUS
    <2>6. IsSuffix(dotted, domain) <=> IsSuffix(e.name, domain) /\ q # <<>> /\ Last(q) = "."
      BY <1>2, <2>2, <2>5, DottedSuffix
    <2>7. EntryMatches(e, domain) <=>
             domain # <<>> /\ IsSuffix(e.name, domain) /\ q # <<>> /\ Last(q) = "."
      BY <1>5, <2>5 DEF EntryMatches
    <2>8. ScriptMatches(raw, domain) <=> domain # <<>> /\ IsSuffix(dotted, domain)
      BY <1>5, <2>1, <2>3 DEF ScriptMatches
    <2>9. DomainOnly(domain)
      BY <1>5
    <2> QED BY <1>1, <2>6, <2>7, <2>8, <2>9
  <1> QED BY <1>2, <1>3, <1>4, <1>5

\* ListsAgree, for entries and hosts of any length (AllowlistEntry of config.rs and
\* NetworkPolicyEvaluator against the script of apple_helper.rs): the server matches just the
\* names of a domain's characters that the script matches, and an entry survives being
\* written out and parsed again.
THEOREM ListsAlwaysAgree == \A n \in Nat : ListsAgree(n)
  <1> SUFFICES ASSUME NEW n \in Nat, NEW raw \in NamesUpTo(n), ParseEntry(raw) # NotAnEntry
               PROVE  /\ ParseEntry(Pattern(ParseEntry(raw))) = ParseEntry(raw)
                      /\ \A domain \in NamesUpTo(n + 1) :
                            EntryMatches(ParseEntry(raw), domain) <=>
                               /\ ScriptMatches(Pattern(ParseEntry(raw)), domain)
                               /\ DomainOnly(domain)
    BY DEF ListsAgree
  <1>1. /\ raw \in Seq(RawCharacter)
        /\ \A domain \in NamesUpTo(n + 1) : domain \in Seq(RawCharacter)
    BY DEF NamesUpTo, RawCharacter, Characters
  <1>2. Pattern(ParseEntry(raw)) = raw
    BY <1>1, PatternOfEntry
  <1>3. \A domain \in NamesUpTo(n + 1) :
           EntryMatches(ParseEntry(raw), domain) <=>
              ScriptMatches(raw, domain) /\ DomainOnly(domain)
    BY <1>1, EntryAgrees
  <1> QED BY <1>2, <1>3

-----------------------------------------------------------------------------
(* The percentiles of a snapshot.                                          *)

\* What sort() makes of the latencies: their ascending order.
Arranged(w, values) ==
    /\ w \in Seq(Nat) /\ Len(w) = Len(values)
    /\ \A i, j \in 1 .. Len(w) : i <= j => w[i] <= w[j]
    /\ \E f \in Bijection(1 .. Len(w), 1 .. Len(values)) :
          \A i \in 1 .. Len(w) : w[i] = values[f[i]]

\* The rank is the ceiling of p percent of the count, but 1 for none.
LEMMA RankBounds ==
  ASSUME NEW n \in Nat \ {0}, NEW p \in 0 .. 100
  PROVE  \E r \in 1 .. n : /\ r = Rank(n, p) + 1
                           /\ r * 100 >= p * n
                           /\ r > 1 => (r - 1) * 100 < p * n
  <1>1. PICK q \in Nat : q = n * p /\ q = p * n /\ q <= n * 100
    <2>1. n * p \in Nat /\ n * p = p * n /\ n * p <= n * 100
      BY Z3
    <2> QED BY <2>1
  <1>2. PICK c \in Nat : c = (q + 99) \div 100
    OBVIOUS
  <1>3. 100 * c <= q + 99 /\ q + 99 < 100 * c + 100
    BY <1>2
  <1>4. PICK r \in 1 .. n : r = IF c = 0 THEN 1 ELSE c
    BY <1>1, <1>3
  <1>5. r = Rank(n, p) + 1
    BY <1>1, <1>2, <1>4 DEF Rank
  <1>6. r * 100 >= q /\ (r > 1 => (r - 1) * 100 < q)
    BY <1>1, <1>3, <1>4
  <1> QED BY <1>1, <1>5, <1>6

\* MetricsCollector::snapshot, for any number of latencies and every percentage: the value
\* picked by rank out of the sorted latencies is their nearest-rank percentile.
THEOREM PercentileOfSorted ==
  ASSUME NEW values \in Seq(Nat), values # <<>>, NEW w, Arranged(w, values), NEW p \in 0 .. 100
  PROVE  IsPercentile(Percentile(w, p), values, p)
  <1>1. PICK n \in Nat \ {0} : n = Len(values) /\ n = Len(w)
    BY LenProperties, EmptySeq DEF Arranged
  <1>2. /\ w \in Seq(Nat) /\ \A i \in 1 .. n : w[i] \in Nat
        /\ \A i, j \in 1 .. n : i <= j => w[i] <= w[j]
        /\ \A i \in 1 .. n : values[i] \in Nat
    BY <1>1, ElementOfSeq DEF Arranged
  <1>3. PICK f \in Bijection(1 .. n, 1 .. n) : \A i \in 1 .. n : w[i] = values[f[i]]
    BY <1>1 DEF Arranged
  <1>4. /\ \A i \in 1 .. n : f[i] \in 1 .. n
        /\ \A i, j \in 1 .. n : f[i] = f[j] => i = j
        /\ \A j \in 1 .. n : \E i \in 1 .. n : f[i] = j
    BY <1>3 DEF Bijection, Injection, Surjection, IsInjective
  <1>5. PICK r \in 1 .. n :
           r = Rank(n, p) + 1 /\ r * 100 >= p * n /\ (r > 1 => (r - 1) * 100 < p * n)
    BY RankBounds
  <1>6. PICK v \in Nat : v = w[r]
    BY <1>2
  <1>7. Percentile(w, p) = v
    <2>1. w # <<>>
      BY <1>1, <1>2, EmptySeq
    <2> QED BY <1>1, <1>5, <1>6, <2>1 DEF Percentile
  <1>8. DOMAIN values = 1 .. n
    BY <1>1, LenProperties
  <1> DEFINE AtMost(u) == {i \in DOMAIN values : values[i] <= u}
  <1>9. \A u : IsFiniteSet(AtMost(u)) /\ Cardinality(AtMost(u)) \in Nat
    <2>1. IsFiniteSet(1 .. n)
      BY FS_Interval
    <2>2. \A u : AtMost(u) \in SUBSET (1 .. n)
      BY <1>8
    <2> HIDE DEF AtMost
    <2> QED BY <2>1, <2>2, FS_Subset, FS_CardinalityType
  <1>10. \E i \in DOMAIN values : values[i] = v
    BY <1>3, <1>4, <1>6, <1>8
  <1>11. Cardinality(AtMost(v)) * 100 >= p * Len(values)
    <2>1. PICK g : g = [i \in 1 .. r |-> f[i]]
      OBVIOUS
    <2>0. n \in Nat /\ r \in 1 .. n /\ \A i \in 1 .. r : i \in 1 .. n /\ i <= r
      BY <1>1, <1>5
    <2>2. \A i \in 1 .. r : f[i] \in AtMost(v)
      <3>1. ASSUME NEW i \in 1 .. r PROVE f[i] \in AtMost(v)
        <4>1. i \in 1 .. n /\ i <= r
          BY <2>0
        <4>2. w[i] <= w[r] /\ w[i] = values[f[i]] /\ f[i] \in 1 .. n
          BY <1>2, <1>3, <1>4, <2>0, <4>1
        <4> QED BY <1>6, <1>8, <4>2
      <3> QED BY <3>1
    <2>3. \A i, j \in 1 .. r : f[i] = f[j] => i = j
      BY <1>4, <2>0, Zenon
    <2> HIDE DEF AtMost
    <2>4. g \in Injection(1 .. r, AtMost(v))
      BY <2>1, <2>2, <2>3 DEF Injection, IsInjective
    <2>5. Cardinality(1 .. r) = r
      BY FS_Interval
    <2>6. r <= Cardinality(AtMost(v))
      BY <1>9, <2>4, <2>5, FS_Injection
    <2>7. PICK m \in Nat : m = Cardinality(AtMost(v)) /\ r <= m
      BY <1>9, <2>6
    <2>8. m * 100 >= r * 100
      BY <2>7
    <2>9. PICK q \in Nat : q = p * n
      BY Z3
    <2>10. r * 100 >= q
      BY <1>5, <2>9
    <2>11. m * 100 >= q
      BY <2>8, <2>10
    <2> QED BY <1>1, <2>7, <2>9, <2>11
  <1>12. ASSUME NEW i \in DOMAIN values, values[i] < v
         PROVE  Cardinality(AtMost(values[i])) * 100 < p * Len(values)
    <2>1. PICK u \in Nat : u = values[i] /\ u < v
      BY <1>2, <1>8, <1>12
    <2>2. PICK g : g = [j \in AtMost(u) |-> CHOOSE k \in 1 .. n : f[k] = j]
      OBVIOUS
    <2>3. \A j \in AtMost(u) : g[j] \in 1 .. n /\ f[g[j]] = j
      BY <1>4, <1>8, <2>2
    <2>4. \A j \in AtMost(u) : g[j] \in 1 .. r - 1
      <3>1. ASSUME NEW j \in AtMost(u) PROVE g[j] \in 1 .. r - 1
        <4>1. PICK k \in 1 .. n : k = g[j] /\ f[k] = j
          BY <2>3
        <4>2. w[k] <= u
          BY <1>3, <4>1
        <4>3. r \in 1 .. n /\ k \in 1 .. n /\ w[k] \in Nat /\ (r <= k => w[r] <= w[k])
          BY <1>2, <1>5, <4>1
        <4>4. ~(r <= k)
          BY <1>6, <2>1, <4>2, <4>3
        <4> QED BY <4>1, <4>3, <4>4
      <3> QED BY <3>1
    <2>5. i \in AtMost(u)
      BY <2>1
    <2> HIDE DEF AtMost
    <2>0. DOMAIN g = AtMost(u) /\ g \in [AtMost(u) -> 1 .. r - 1]
      BY <2>2, <2>4, Zenon
    <2>16. \A a, b \in AtMost(u) : g[a] = g[b] => a = b
      <3>1. ASSUME NEW a \in AtMost(u), NEW b \in AtMost(u), g[a] = g[b] PROVE a = b
        <4>1. f[g[a]] = a /\ f[g[b]] = b
          BY <2>3
        <4> QED BY <3>1, <4>1
      <3> QED BY <3>1
    <2>6. g \in Injection(AtMost(u), 1 .. r - 1)
      BY <2>0, <2>16, Zenon DEF Injection, IsInjective
    <2>7. IsFiniteSet(1 .. r - 1) /\ Cardinality(1 .. r - 1) = r - 1
      <3>1. PICK z \in Int : z = r - 1 /\ z >= 0
        BY <1>5
      <3>2. IsFiniteSet(1 .. z) /\ Cardinality(1 .. z) = IF 1 > z THEN 0 ELSE z - 1 + 1
        BY FS_Interval
      <3> QED BY <3>1, <3>2
    <2>8. Cardinality(AtMost(u)) <= r - 1
      BY <2>6, <2>7, FS_Injection
    <2>9. r > 1
      BY <2>4, <2>5
    <2>10. PICK m \in Nat : m = Cardinality(AtMost(u)) /\ m <= r - 1
      BY <1>9, <2>8
    <2>11. m * 100 <= (r - 1) * 100
      BY <2>10
    <2>12. PICK q \in Nat : q = p * n
      BY Z3
    <2>13. (r - 1) * 100 < q
      BY <1>5, <2>9, <2>12
    <2>14. m * 100 < q
      BY <2>11, <2>13
    <2> QED BY <1>1, <2>1, <2>10, <2>12, <2>14
  <1> QED BY <1>7, <1>10, <1>11, <1>12 DEF IsPercentile
=============================================================================
