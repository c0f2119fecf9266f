-------------------------- MODULE FirecrackerProofs --------------------------
(***************************************************************************)
(* Proofs about Firecracker for every set of sandboxes and calls and any   *)
(* number of faults: its types; that the drop rule of a sandbox with an    *)
(* allowlist is in force as long as its VM may be used; and what is left   *)
(* of a sandbox after a destroy, and after a restore that was undone.      *)
(***************************************************************************)
EXTENDS Firecracker, TLAPS

\* The places of a call in create and in destroy.
Early == Commands \cup {"resolve", "prepare", "insert"}
Removing == {"untable", "unset", "kill", "clean"}
Asking == {"connect", "retry", "ask"}
Places == Early \cup Removing \cup Asking \cup {"idle", "dispatch"}

Whole == <<"create", "clear", "unpack">>
Restoring == {Whole, <<"clear", "unpack">>, <<"unpack">>}
Todos == {<<o>> : o \in Operations} \cup Restoring \cup {<<>>}

Causes == {"boot", "rule", "resolve", "workspace", "late", "archive", "clear", "unpack", "teardown",
           "terminate", "dropped", "lost"}

CallSpace == [op : Operations \cup {"none"}, box : Boxes \cup {"none"}, pc : Places,
              todo : Todos, undo : BOOLEAN]

Creates(c) == call[c].op \in {"create", "restore"}
Filter == {"allow", "drop"}

\* What is left to do, by what was asked for.
TodoOK(k) ==
    IF k.op = "restore" THEN IF k.undo THEN k.todo = <<"destroy">> ELSE k.todo \in Restoring
    ELSE ~k.undo /\ (k.op \in Operations => k.todo = <<k.op>>)

\* The rules of a sandbox that is being created, by how far it is.
FilterOK(k) ==
    k.box \in Allowlisted =>
        /\ k.pc = "drop" => "allow" \in rules[k.box]
        /\ k.pc # "accept"
        /\ k.pc \in {"masquerade", "resolve", "prepare", "insert"} => Filter \subseteq rules[k.box]
        /\ k.op = "restore" /\ ~k.undo /\ k.todo # Whole => Filter \subseteq rules[k.box]

CallOK(c) ==
    LET k == call[c] IN
    /\ k.pc = "idle" => k = NoCall
    /\ k.pc # "idle" => k.op \in Operations /\ k.box \in Boxes
    /\ Creates(c) => status[k.box] = "pending"
    /\ k.pc # "idle" /\ ~Creates(c) => status[k.box] \in {"live", "destroyed"}
    /\ TodoOK(k)
    /\ k.pc \in Early => Head(k.todo) = "create"
    /\ k.pc \in Removing => Head(k.todo) = "destroy"
    /\ k.pc \in Removing <=> held = c
    /\ k.pc \in Asking => Head(k.todo) \in {"exec", "read", "write"}
    /\ FilterOK(k)
    /\ k.pc = "clean" => k.box \notin vms

\* No two calls create one sandbox.
Apart == \A c, d \in Calls : Creates(c) /\ Creates(d) /\ c # d => call[c].box # call[d].box

FilteredBox(b) ==
    b \in vms /\ status[b] = "live" /\ Filter \cap rules[b] # Filter
    => Destroying(b) \/ blame[b] \cap {"teardown", "terminate", "dropped", "lost"} # {}

FcInv ==
    /\ FcTypeOK
    /\ call \in [Calls -> CallSpace]
    /\ blame \in [Boxes -> SUBSET Causes]
    /\ \A c \in Calls : CallOK(c)
    /\ Apart
    /\ \A b \in Allowlisted : FilteredBox(b)

LEMMA Queues ==
    /\ \A o : Head(<<o>>) = o /\ Len(<<o>>) = 1 /\ Tail(<<o>>) = <<>>
    /\ Head(Whole) = "create" /\ Len(Whole) # 1 /\ Tail(Whole) = <<"clear", "unpack">>
    /\ Head(<<"clear", "unpack">>) = "clear" /\ Len(<<"clear", "unpack">>) # 1
    /\ Tail(<<"clear", "unpack">>) = <<"unpack">>
    /\ <<"clear", "unpack">> # Whole /\ <<"unpack">> # Whole
    /\ <<"unpack">> # <<"clear", "unpack">>
  BY DEF Whole

\* What the part of a call says of the call.
LEMMA PartSays ==
  ASSUME NEW k, TodoOK(k), k.op \in Operations
  PROVE  /\ Head(k.todo) = "create" => ~k.undo /\ \/ k.op = "create" /\ k.todo = <<"create">>
                                                  \/ k.op = "restore" /\ k.todo = Whole
         /\ Head(k.todo) = "destroy" => k.todo = <<"destroy">> /\ (k.op = "destroy" \/ (k.op = "restore" /\ k.undo))
         /\ Head(k.todo) = "clear" => k.op = "restore" /\ ~k.undo /\ k.todo = <<"clear", "unpack">>
         /\ Head(k.todo) = "unpack" => k.op = "restore" /\ ~k.undo /\ k.todo = <<"unpack">>
         /\ Head(k.todo) \notin {"create", "destroy", "clear", "unpack"} =>
               k.op \notin {"create", "destroy", "restore"} /\ ~k.undo /\ k.todo = <<k.op>>
  BY Queues DEF TodoOK, Restoring, Operations

-----------------------------------------------------------------------------
(* One step of one call.                                                   *)

\* What a step of c leaves to the other calls and sandboxes.
Frame(c) ==
    LET b == call[c].box IN
    /\ \A a \in Boxes : a # b => rules'[a] = rules[a] /\ status'[a] = status[a]
    /\ vms' \subseteq vms \cup (IF Creates(c) THEN {b} ELSE {})
    /\ \A d \in Calls : d # c => (held' = d <=> held = d)
    /\ \A a \in Boxes : blame[a] \subseteq blame'[a]
    /\ \A d \in Calls : d # c => call'[d] = call[d]
    /\ call'[c] = NoCall \/ (call'[c].op = call[c].op /\ call'[c].box = call[c].box)
    /\ status'[b] = status[b]
       \/ (status[b] = "pending" /\ call'[c] = NoCall)
       \/ (status[b] = "live" /\ status'[b] = "destroyed")

\* A call that creates a sandbox is alone with it.
LEMMA Alone ==
  ASSUME FcInv, NEW c \in Calls, NEW d \in Calls, c # d, call[c].pc # "idle", Creates(d)
  PROVE  call[c].box # call[d].box
  <1>1. CallOK(c) /\ CallOK(d)
    BY DEF FcInv
  <1>2. CASE Creates(c)
    BY <1>2 DEF FcInv, Apart
  <1>3. CASE ~Creates(c)
    BY <1>1, <1>3 DEF CallOK
  <1> QED BY <1>2, <1>3

LEMMA OthersKeep ==
  ASSUME FcInv, NEW c \in Calls, call[c].pc # "idle", Frame(c), NEW d \in Calls, d # c
  PROVE  CallOK(d)'
  <1>1. CallOK(c) /\ CallOK(d)
    BY DEF FcInv
  <1>2. call'[d] = call[d] /\ (held' = d <=> held = d)
    BY DEF Frame
  <1>3. call[d] \in CallSpace /\ call[c].box \in Boxes
    BY <1>1 DEF FcInv, CallOK
  <1>4. CASE call[d].pc = "idle"
    BY <1>1, <1>2, <1>4 DEF CallOK, NoCall, TodoOK, FilterOK, Creates, Early, Removing, Commands,
       Asking, Operations
  <1>5. CASE call[d].pc # "idle" /\ call[d].box # call[c].box
    <2>1. call[d].box \in Boxes
      BY <1>1, <1>5 DEF CallOK
    <2>2. rules'[call[d].box] = rules[call[d].box] /\ status'[call[d].box] = status[call[d].box]
      BY <1>5, <2>1 DEF Frame
    <2>3. call[d].box \notin vms => call[d].box \notin vms'
      BY <1>5 DEF Frame
    <2> QED BY <1>1, <1>2, <2>2, <2>3 DEF CallOK, TodoOK, FilterOK, Creates
  <1>6. CASE call[d].pc # "idle" /\ call[d].box = call[c].box
    <2>1. ~Creates(d)
      BY Alone, <1>6
    <2>2. ~Creates(c)
      BY Alone, <1>6
    <2>3. status[call[c].box] \in {"live", "destroyed"}
      BY <1>1, <2>2 DEF CallOK
    <2>4. status'[call[d].box] \in {"live", "destroyed"}
      BY <1>6, <2>3 DEF Frame
    <2>5. vms' \subseteq vms
      BY <2>2 DEF Frame
    <2>6. TodoOK(call[d]) /\ call[d].op \in Operations
      BY <1>1, <1>6 DEF CallOK
    <2>7. Head(call[d].todo) # "create"
      BY PartSays, <1>3, <2>1, <2>6 DEF Creates
    <2>8. call[d].pc \notin Early
      BY <1>1, <2>7 DEF CallOK
    <2>9. FilterOK(call[d])'
      BY <1>2, <2>8, <2>1 DEF FilterOK, Early, Commands, Creates
    <2> QED BY <1>1, <1>2, <1>6, <2>1, <2>4, <2>5, <2>9 DEF CallOK, TodoOK, Creates
  <1> QED BY <1>4, <1>5, <1>6

LEMMA OtherBoxes ==
  ASSUME FcInv, NEW c \in Calls, call[c].pc # "idle", Frame(c), CallOK(c)',
         NEW b \in Allowlisted, b # call[c].box
  PROVE  FilteredBox(b)'
  <1>1. b \in Boxes /\ FilteredBox(b)
    BY BackendAssumption DEF FcInv
  <1>2. rules'[b] = rules[b] /\ status'[b] = status[b] /\ blame[b] \subseteq blame'[b]
    BY <1>1 DEF Frame
  <1>3. b \in vms' => b \in vms
    BY DEF Frame
  <1>4. Destroying(b) => Destroying(b)'
    <2> SUFFICES ASSUME NEW d \in Calls, held = d, call[d].box = b PROVE Destroying(b)'
      BY DEF Destroying
    <2>1. d # c
      OBVIOUS
    <2> QED BY <2>1 DEF Frame, Destroying
  <1> QED BY <1>1, <1>2, <1>3, <1>4 DEF FilteredBox

\* All that a step of c has to show.
LEMMA OneStep ==
  ASSUME FcInv, NEW c \in Calls, call[c].pc # "idle", Frame(c), FcTypeOK',
         call' \in [Calls -> CallSpace], blame' \in [Boxes -> SUBSET Causes],
         CallOK(c)', NEW b, b = call[c].box, b \in Allowlisted => FilteredBox(b)'
  PROVE  FcInv'
  <1>1. \A d \in Calls : CallOK(d)'
    BY OthersKeep
  <1>2. Apart'
    BY DEF FcInv, Apart, Frame, Creates, NoCall
  <1>3. \A a \in Allowlisted : FilteredBox(a)'
    BY OtherBoxes
  <1> QED BY <1>1, <1>2, <1>3 DEF FcInv

LEMMA FcInitInv == FcInit => FcInv
  <1> SUFFICES ASSUME FcInit PROVE FcInv
    OBVIOUS
  <1>1. call \in [Calls -> CallSpace] /\ \A c \in Calls : call[c] = NoCall
    BY DEF FcInit, CallsInit, NoCall, CallSpace, Todos, Places
  <1>2. FcTypeOK
    <2>1. CallsTypeOK
      BY <1>1, BackendAssumption DEF FcInit, CallsInit, CallsTypeOK, NoCall
    <2>2. rules \in [Boxes -> SUBSET Commands]
      BY DEF FcInit
    <2> QED BY <2>1, <2>2 DEF FcInit, FcTypeOK
  <1>3. \A c \in Calls : CallOK(c)
    BY <1>1, BackendAssumption DEF FcInit, CallOK, NoCall, Creates, TodoOK, FilterOK, Early, Removing,
       Asking, Commands, Operations
  <1>4. Apart
    BY <1>1 DEF Apart, Creates, NoCall
  <1>5. \A b \in Allowlisted : FilteredBox(b)
    BY DEF FcInit, FilteredBox
  <1>6. blame \in [Boxes -> SUBSET Causes]
    BY DEF FcInit, CallsInit
  <1> QED BY <1>1, <1>2, <1>3, <1>4, <1>5, <1>6 DEF FcInv

-----------------------------------------------------------------------------
(* The two ways in which a call goes on: to its next place, or to the end  *)
(* of a part.                                                              *)

\* What a step does to the calls and to what the callers know.
Goes(c) ==
    LET b == call[c].box IN
    /\ call' \in [Calls -> CallSpace]
    /\ status' \in [Boxes -> {"unborn", "pending", "live", "failed", "destroyed"}]
    /\ \A a \in Boxes : a # b => status'[a] = status[a]
    /\ \A d \in Calls : d # c => call'[d] = call[d]
    /\ call'[c] = NoCall \/ (call'[c].op = call[c].op /\ call'[c].box = call[c].box)
    /\ status'[b] = status[b]
       \/ (status[b] = "pending" /\ call'[c] = NoCall)
       \/ (status[b] = "live" /\ status'[b] = "destroyed")

LEMMA Placing ==
  ASSUME FcInv, NEW c \in Calls, call[c].pc # "idle", NEW p \in Places, Place(c, p)
  PROVE  /\ Goes(c)
         /\ call'[c] = [call[c] EXCEPT !.pc = p]
         /\ status' = status
  <1>1. call[c] \in CallSpace /\ call' = [call EXCEPT ![c].pc = p] /\ status' = status
    BY DEF Place, FcInv
  <1>2. [call[c] EXCEPT !.pc = p] \in CallSpace
    BY <1>1 DEF CallSpace
  <1>3. call' \in [Calls -> CallSpace] /\ call'[c] = [call[c] EXCEPT !.pc = p]
    BY <1>1, <1>2 DEF FcInv
  <1>4. \A d \in Calls : d # c => call'[d] = call[d]
    BY <1>1 DEF FcInv
  <1>5. call'[c].op = call[c].op /\ call'[c].box = call[c].box
    BY <1>1, <1>3 DEF CallSpace
  <1> QED BY <1>1, <1>3, <1>4, <1>5 DEF Goes, FcInv, FcTypeOK, CallsTypeOK

\* The four outcomes of EndPart.
Returned(c, ok) == call' = [call EXCEPT ![c] = NoCall] /\ status' = Told(c, ok)

LEMMA Outcomes ==
  ASSUME FcInv, NEW c \in Calls, call[c].pc # "idle", NEW ok \in BOOLEAN, NEW undoes \in BOOLEAN,
         EndPart(c, ok, undoes), undoes => call[c].op = "restore"
  PROVE  \/ Returned(c, FALSE)
         \/ ok /\ ~call[c].undo /\ Returned(c, TRUE)
         \/ /\ call[c].op = "restore" /\ ~call[c].undo /\ status' = status
            /\ call' = [call EXCEPT ![c].todo = <<"destroy">>, ![c].undo = TRUE, ![c].pc = "dispatch"]
         \/ /\ call[c].op = "restore" /\ ~call[c].undo /\ status' = status /\ ok
            /\ call[c].todo \in {Whole, <<"clear", "unpack">>}
            /\ call' = [call EXCEPT ![c].todo = Tail(@), ![c].pc = "dispatch"]
  <1>1. CallOK(c) /\ call[c] \in CallSpace
    BY DEF FcInv
  <1>2. Len(call[c].todo) # 1 /\ ~call[c].undo =>
           call[c].op = "restore" /\ call[c].todo \in {Whole, <<"clear", "unpack">>}
    BY <1>1, Queues DEF CallOK, TodoOK, Restoring
  <1> QED BY <1>2 DEF EndPart, ReturnCall, Returned

\* A call between two parts is at no place of create, destroy or exec.
LEMMA Elsewhere == {"idle", "dispatch"} \cap (Early \cup Removing \cup Asking) = {} /\ "clean" # "dispatch"
  BY DEF Early, Removing, Asking, Commands

LEMMA Ending ==
  ASSUME FcInv, NEW c \in Calls, call[c].pc # "idle", NEW ok \in BOOLEAN, NEW undoes \in BOOLEAN,
         EndPart(c, ok, undoes), undoes => call[c].op = "restore", held' # c,
         NEW b \in Boxes, b = call[c].box,
         ok /\ ~call[c].undo /\ Creates(c) /\ b \in Allowlisted => Filter \subseteq rules'[b]
  PROVE  /\ Goes(c)
         /\ CallOK(c)'
         /\ status'[b] = "live" => status[b] = "live" \/ (ok /\ ~call[c].undo /\ Creates(c))
  <1>1. CallOK(c) /\ call[c] \in CallSpace /\ NoCall \in CallSpace
    BY DEF FcInv, NoCall, CallSpace, Todos, Places
  <1>2. call[c].op \in Operations
    BY <1>1 DEF CallOK
  <1>3. call \in [Calls -> CallSpace]
        /\ status \in [Boxes -> {"unborn", "pending", "live", "failed", "destroyed"}]
    BY DEF FcInv, FcTypeOK, CallsTypeOK
  <1>4. CASE Returned(c, FALSE) \/ (ok /\ ~call[c].undo /\ Returned(c, TRUE))
    <2>1. call' \in [Calls -> CallSpace] /\ call'[c] = NoCall
          /\ \A d \in Calls : d # c => call'[d] = call[d]
      BY <1>1, <1>3, <1>4 DEF Returned
    <2>2. Creates(c) => status[b] = "pending"
      BY <1>1 DEF CallOK
    <2>3. ~Creates(c) => status[b] \in {"live", "destroyed"}
      BY <1>1 DEF CallOK
    <2>4. Goes(c) /\ (status'[b] = "live" => status[b] = "live" \/ (ok /\ ~call[c].undo /\ Creates(c)))
      BY <1>3, <1>4, <2>1, <2>2, <2>3 DEF Returned, Told, Goes, Creates
    <2>5. CallOK(c)'
      BY <2>1, BackendAssumption DEF CallOK, NoCall, Creates, TodoOK, FilterOK, Early, Removing, Asking,
         Commands, Operations
    <2> QED BY <2>4, <2>5
  <1>5. CASE /\ call[c].op = "restore" /\ ~call[c].undo /\ status' = status
             /\ call' = [call EXCEPT ![c].todo = <<"destroy">>, ![c].undo = TRUE, ![c].pc = "dispatch"]
    <2>1. call'[c] = [op |-> "restore", box |-> b, pc |-> "dispatch", todo |-> <<"destroy">>,
                      undo |-> TRUE]
      BY <1>1, <1>3, <1>5 DEF CallSpace
    <2>2. call'[c] \in CallSpace
      BY <2>1 DEF CallSpace, Operations, Todos, Places
    <2>3. Goes(c)
      BY <1>3, <1>5, <2>1, <2>2 DEF Goes
    <2>4. status[b] = "pending"
      BY <1>1, <1>5 DEF CallOK, Creates
    <2>5. Creates(c)' /\ TodoOK(call[c])' /\ FilterOK(call[c])'
      BY <2>1 DEF Creates, TodoOK, FilterOK
    <2>6. CallOK(c)'
      BY <1>2, <1>5, <2>1, <2>4, <2>5, Elsewhere DEF CallOK
    <2> QED BY <1>5, <2>3, <2>6
  <1>6. CASE /\ call[c].op = "restore" /\ ~call[c].undo /\ status' = status /\ ok
             /\ call[c].todo \in {Whole, <<"clear", "unpack">>}
             /\ call' = [call EXCEPT ![c].todo = Tail(@), ![c].pc = "dispatch"]
    <2>1. call'[c] = [op |-> "restore", box |-> b, pc |-> "dispatch", todo |-> Tail(call[c].todo),
                      undo |-> FALSE]
      BY <1>1, <1>3, <1>6 DEF CallSpace
    <2>2. Tail(call[c].todo) \in {<<"clear", "unpack">>, <<"unpack">>}
      BY <1>6, Queues
    <2>3. call'[c] \in CallSpace
      BY <2>1, <2>2 DEF CallSpace, Operations, Todos, Places, Restoring
    <2>4. Goes(c)
      BY <1>3, <1>6, <2>1, <2>3 DEF Goes
    <2>5. status[b] = "pending"
      BY <1>1, <1>6 DEF CallOK, Creates
    <2>6. b \in Allowlisted => Filter \subseteq rules'[b]
      BY <1>6 DEF Creates
    <2>7. Creates(c)' /\ TodoOK(call[c])' /\ FilterOK(call[c])'
      BY <2>1, <2>2, <2>6 DEF Creates, TodoOK, FilterOK, Restoring
    <2>8. CallOK(c)'
      BY <1>2, <1>6, <2>1, <2>5, <2>7, Elsewhere DEF CallOK
    <2> QED BY <1>6, <2>4, <2>8
  <1> QED BY <1>4, <1>5, <1>6, Outcomes

-----------------------------------------------------------------------------
(* The other variables.                                                    *)

RestOK ==
    /\ entry \in [Boxes -> {"none", "direct", "helper", "vm", "local"}]
    /\ workspaces \subseteq Boxes
    /\ faults \in 0 .. MaxFaults
    /\ syncs \subseteq Boxes /\ rooted \subseteq Boxes
    /\ agent \in {"off", "starting", "on"}
    /\ started \in BOOLEAN
    /\ blame \in [Boxes -> SUBSET Causes]

BlameGrows == \A a \in Boxes : blame[a] \subseteq blame'[a]

LEMMA Typed == FcInv => RestOK
  BY DEF FcInv, FcTypeOK, CallsTypeOK, RestOK

LEMMA Faults ==
  ASSUME FcInv, NEW b \in Boxes, NEW cause \in Causes, Fault(b, cause)
  PROVE  faults' \in 0 .. MaxFaults /\ blame' \in [Boxes -> SUBSET Causes] /\ BlameGrows
         /\ cause \in blame'[b]
  BY BackendAssumption DEF FcInv, FcTypeOK, CallsTypeOK, Fault, BlameGrows

LEMMA NoFaults ==
  ASSUME FcInv, NoFault
  PROVE  faults' \in 0 .. MaxFaults /\ blame' \in [Boxes -> SUBSET Causes] /\ BlameGrows
  BY DEF FcInv, FcTypeOK, CallsTypeOK, NoFault, BlameGrows

LEMMA Blames ==
  ASSUME FcInv, NEW b \in Boxes, NoFault \/ \E cause \in Causes : Fault(b, cause)
  PROVE  faults' \in 0 .. MaxFaults /\ blame' \in [Boxes -> SUBSET Causes] /\ BlameGrows
  BY Faults, NoFaults

\* A step of a call, whatever it does to VMs, rules and the mutex.
LEMMA Moves ==
  ASSUME FcInv, NEW c \in Calls, call[c].pc # "idle", NEW b \in Boxes, b = call[c].box,
         Goes(c), CallOK(c)', RestOK', BlameGrows,
         rules' \in [Boxes -> SUBSET Commands], \A a \in Boxes : a # b => rules'[a] = rules[a],
         vms' \subseteq vms \cup (IF Creates(c) THEN {b} ELSE {}),
         held' = held \/ (held' = c /\ held = "none") \/ (held' = "none" /\ held = c),
         b \in Allowlisted => FilteredBox(b)'
  PROVE  FcInv'
  <1>1. Frame(c)
    BY BackendAssumption DEF Goes, BlameGrows, Frame
  <1>2. call' \in [Calls -> CallSpace]
    BY DEF Goes
  <1>3. vms' \subseteq Boxes /\ held' \in Calls \cup {"none"}
    BY DEF FcInv, FcTypeOK
  <1>4. CallsTypeOK'
    BY <1>2 DEF Goes, RestOK, CallsTypeOK, CallSpace
  <1>5. FcTypeOK'
    BY <1>3, <1>4 DEF RestOK, FcTypeOK
  <1> QED BY <1>1, <1>2, <1>5, OneStep DEF RestOK

\* One that does nothing to them.
LEMMA QuietStep ==
  ASSUME FcInv, NEW c \in Calls, call[c].pc \notin Removing \cup {"idle"}, NEW b \in Boxes, b = call[c].box,
         Goes(c), CallOK(c)', RestOK', BlameGrows, UNCHANGED <<vms, rules, held>>,
         status'[b] = "live" => status[b] = "live" \/ (b \in Allowlisted => Filter \subseteq rules[b])
  PROVE  FcInv'
  <1>1. rules' \in [Boxes -> SUBSET Commands]
    BY DEF FcInv, FcTypeOK
  <1>2. held # c
    BY DEF FcInv, CallOK
  <1>3. ASSUME b \in Allowlisted PROVE FilteredBox(b)'
    <2>1. Destroying(b) => Destroying(b)'
      BY <1>2 DEF Destroying, Goes
    <2>2. FilteredBox(b) /\ blame[b] \subseteq blame'[b]
      BY <1>3 DEF FcInv, BlameGrows
    <2> QED BY <1>3, <2>1, <2>2 DEF FilteredBox, Filter
  <1> QED BY <1>1, <1>3, Moves

LEMMA QuietEnd ==
  ASSUME FcInv, NEW c \in Calls, call[c].pc \notin Removing \cup {"idle"}, NEW b \in Boxes, b = call[c].box,
         NEW ok \in BOOLEAN, NEW undoes \in BOOLEAN, EndPart(c, ok, undoes),
         undoes => call[c].op = "restore", RestOK', BlameGrows, UNCHANGED <<vms, rules, held>>,
         ok /\ ~call[c].undo /\ Creates(c) /\ b \in Allowlisted => Filter \subseteq rules[b]
  PROVE  FcInv'
  <1>1. held' # c
    BY DEF FcInv, CallOK
  <1>2. /\ Goes(c) /\ CallOK(c)'
        /\ status'[b] = "live" => status[b] = "live" \/ (ok /\ ~call[c].undo /\ Creates(c))
    BY <1>1, Ending
  <1> QED BY <1>2, QuietStep

LEMMA QuietPlace ==
  ASSUME FcInv, NEW c \in Calls, call[c].pc \notin Removing \cup {"idle"}, NEW b \in Boxes, b = call[c].box,
         NEW p \in Places, p \notin Removing \cup {"idle"}, Place(c, p), RestOK', BlameGrows,
         UNCHANGED <<vms, rules, held>>,
         p \in Early => Head(call[c].todo) = "create",
         p \in Asking => Head(call[c].todo) \in {"exec", "read", "write"},
         FilterOK([call[c] EXCEPT !.pc = p])
  PROVE  FcInv'
  <1>1. Goes(c) /\ call'[c] = [call[c] EXCEPT !.pc = p] /\ status' = status
    BY Placing
  <1>2. CallOK(c) /\ call[c] \in CallSpace
    BY DEF FcInv
  <1>3. /\ call'[c].pc = p /\ call'[c].op = call[c].op /\ call'[c].box = b
        /\ call'[c].todo = call[c].todo /\ call'[c].undo = call[c].undo
    BY <1>1, <1>2 DEF CallSpace
  <1>4. TodoOK(call[c])'
    BY <1>2, <1>3 DEF TodoOK, CallOK
  <1>5. FilterOK(call[c])'
    BY <1>1, <1>2 DEF FilterOK, CallSpace
  <1>6. CallOK(c)'
    BY <1>1, <1>2, <1>3, <1>4, <1>5 DEF CallOK, Creates, Removing
  <1> QED BY <1>1, <1>6, QuietStep

-----------------------------------------------------------------------------
(* The actions of a call.                                                  *)

\* What a call that is under way is known to be.
LEMMA Going ==
  ASSUME FcInv, NEW c \in Calls, call[c].pc # "idle"
  PROVE  /\ CallOK(c) /\ call[c] \in CallSpace
         /\ call[c].op \in Operations /\ call[c].box \in Boxes /\ TodoOK(call[c])
  BY DEF FcInv, CallOK

LEMMA InspectStep ==
  ASSUME FcInv, NEW c \in Calls, FcInspect(c)
  PROVE  FcInv'
  <1> DEFINE b == call[c].box
  <1>1. call[c].pc = "dispatch" /\ Head(call[c].todo) = "inspect"
    BY DEF FcInspect, At, CallAt, Part
  <1>2. b \in Boxes /\ ~Creates(c)
    BY <1>1, Going, PartSays DEF Creates
  <1>3. RestOK' /\ BlameGrows /\ UNCHANGED <<vms, rules, held>>
    BY Typed, NoFaults DEF FcInspect, RestOK, fcOwn
  <1> QED BY <1>1, <1>2, <1>3, QuietEnd, Elsewhere DEF FcInspect, Removing

LEMMA ArchiveStep ==
  ASSUME FcInv, NEW c \in Calls, FcArchive(c)
  PROVE  FcInv'
  <1> DEFINE b == call[c].box
  <1>1. call[c].pc = "dispatch" /\ Head(call[c].todo) = "snapshot"
    BY DEF FcArchive, At, CallAt, Part
  <1>2. b \in Boxes /\ ~Creates(c)
    BY <1>1, Going, PartSays DEF Creates
  <1>3. RestOK' /\ BlameGrows /\ UNCHANGED <<vms, rules, held>>
    <2>1. NoFault \/ Fault(b, "archive")
      BY DEF FcArchive
    <2>2. workspaces' \subseteq Boxes /\ UNCHANGED <<entry, fcOwn>>
      BY Typed DEF FcArchive, RestOK
    <2>3. faults' \in 0 .. MaxFaults /\ blame' \in [Boxes -> SUBSET Causes] /\ BlameGrows
      BY <1>2, <2>1, Blames DEF Causes
    <2> QED BY <2>2, <2>3, Typed DEF RestOK, fcOwn
  <1>4. \E ok \in BOOLEAN : EndPart(c, ok, FALSE)
    BY DEF FcArchive
  <1> QED BY <1>1, <1>2, <1>3, <1>4, QuietEnd DEF Removing

LEMMA ClearStep ==
  ASSUME FcInv, NEW c \in Calls, FcClear(c)
  PROVE  FcInv'
  <1> DEFINE b == call[c].box
  <1>1. call[c].pc = "dispatch" /\ Head(call[c].todo) = "clear"
    BY DEF FcClear, At, CallAt, Part
  <1>2. b \in Boxes /\ call[c].op = "restore" /\ ~call[c].undo /\ call[c].todo # Whole
    BY <1>1, Going, PartSays, Queues
  <1>3. RestOK' /\ BlameGrows /\ UNCHANGED <<vms, rules, held>>
    <2>1. NoFault \/ Fault(b, "clear")
      BY DEF FcClear
    <2>2. workspaces' \subseteq Boxes /\ UNCHANGED <<entry, fcOwn>>
      BY Typed DEF FcClear, RestOK
    <2>3. faults' \in 0 .. MaxFaults /\ blame' \in [Boxes -> SUBSET Causes] /\ BlameGrows
      BY <1>2, <2>1, Blames DEF Causes
    <2> QED BY <2>2, <2>3, Typed DEF RestOK, fcOwn
  <1>4. b \in Allowlisted => Filter \subseteq rules[b]
    BY <1>1, <1>2, Going DEF CallOK, FilterOK
  <1>5. EndPart(c, b \in Ephemeral, TRUE) \/ EndPart(c, FALSE, FALSE)
    BY DEF FcClear
  <1>6. call[c].pc \notin Removing \cup {"idle"}
    BY <1>1 DEF Removing
  <1>7. ASSUME NEW ok \in BOOLEAN, NEW undoes \in BOOLEAN, EndPart(c, ok, undoes)
        PROVE  FcInv'
    BY <1>2, <1>3, <1>4, <1>6, <1>7, QuietEnd
  <1>8. CASE EndPart(c, b \in Ephemeral, TRUE)
    <2>1. EndPart(c, TRUE, TRUE) \/ EndPart(c, FALSE, TRUE)
      BY <1>8 DEF EndPart
    <2> QED BY <1>7, <2>1
  <1>9. CASE EndPart(c, FALSE, FALSE)
    BY <1>7, <1>9
  <1> QED BY <1>5, <1>8, <1>9

LEMMA UnpackStep ==
  ASSUME FcInv, NEW c \in Calls, FcUnpack(c)
  PROVE  FcInv'
  <1> DEFINE b == call[c].box
  <1>1. call[c].pc = "dispatch" /\ Head(call[c].todo) = "unpack"
    BY DEF FcUnpack, At, CallAt, Part
  <1>2. b \in Boxes /\ call[c].op = "restore" /\ ~call[c].undo /\ call[c].todo # Whole
    BY <1>1, Going, PartSays, Queues
  <1>3. RestOK' /\ BlameGrows /\ UNCHANGED <<vms, rules, held>>
    <2>1. NoFault \/ Fault(b, "unpack")
      BY DEF FcUnpack
    <2>2. workspaces' \subseteq Boxes /\ UNCHANGED <<entry, fcOwn>>
      BY Typed DEF FcUnpack, RestOK
    <2>3. faults' \in 0 .. MaxFaults /\ blame' \in [Boxes -> SUBSET Causes] /\ BlameGrows
      BY <1>2, <2>1, Blames DEF Causes
    <2> QED BY <2>2, <2>3, Typed DEF RestOK, fcOwn
  <1>4. b \in Allowlisted => Filter \subseteq rules[b]
    BY <1>1, <1>2, Going DEF CallOK, FilterOK
  <1>5. \E ok, undoes \in BOOLEAN : EndPart(c, ok, undoes)
    BY DEF FcUnpack
  <1> QED BY <1>1, <1>2, <1>3, <1>4, <1>5, QuietEnd DEF Removing

\* exec, read_file and write_file.
LEMMA LookupStep ==
  ASSUME FcInv, NEW c \in Calls, Lookup(c)
  PROVE  FcInv'
  <1> DEFINE b == call[c].box
  <1>1. call[c].pc = "dispatch" /\ Head(call[c].todo) \in {"exec", "read", "write"}
    BY DEF Lookup, CallAt, Part
  <1>2. b \in Boxes /\ ~Creates(c)
    BY <1>1, Going, PartSays DEF Creates
  <1>3. RestOK' /\ BlameGrows /\ UNCHANGED <<vms, rules, held>>
    BY Typed, NoFaults DEF Lookup, RestOK, fcOwn
  <1>4. CASE EndPart(c, FALSE, FALSE)
    BY <1>1, <1>2, <1>3, <1>4, QuietEnd DEF Removing
  <1>5. CASE Place(c, "connect")
    <2>1. FilterOK([call[c] EXCEPT !.pc = "connect"])
      BY <1>1, <1>2, Going DEF FilterOK, CallSpace, Creates
    <2>2. "connect" \in Places /\ "connect" \notin Early \cup Removing \cup {"idle"}
      BY DEF Places, Early, Removing, Asking, Commands
    <2> QED BY <1>1, <1>2, <1>3, <1>5, <2>1, <2>2, QuietPlace DEF Removing
  <1> QED BY <1>4, <1>5 DEF Lookup

LEMMA AskingStep ==
  ASSUME FcInv, NEW c \in Calls, ConnectAgent(c) \/ RetryAgent(c) \/ AskAgent(c)
  PROVE  FcInv'
  <1> DEFINE b == call[c].box
  <1>1. call[c].pc \in Asking /\ call[c].pc \notin Removing \cup {"idle"}
    BY DEF ConnectAgent, RetryAgent, AskAgent, CallAt, Asking, Removing
  <1>2. Head(call[c].todo) \in {"exec", "read", "write"}
    BY <1>1, Going DEF CallOK
  <1>3. b \in Boxes /\ ~Creates(c)
    BY <1>1, <1>2, Going, PartSays DEF Creates
  <1>4. UNCHANGED <<vms, rules, held>>
    BY DEF ConnectAgent, RetryAgent, AskAgent
  <1>5. RestOK' /\ BlameGrows
    <2>1. CASE ConnectAgent(c) \/ RetryAgent(c)
      BY <2>1, Typed, NoFaults DEF ConnectAgent, RetryAgent, RestOK
    <2>2. CASE AskAgent(c)
      <3>1. blame' \in [Boxes -> SUBSET Causes] /\ BlameGrows
        <4>1. blame' = blame \/ blame' = [blame EXCEPT ![b] = @ \cup {"late"}]
          BY <2>2 DEF AskAgent
        <4> QED BY <1>3, <4>1, Typed DEF RestOK, BlameGrows, Causes
      <3> QED BY <1>3, <2>2, <3>1, Typed DEF AskAgent, RestOK
    <2> QED BY <2>1, <2>2
  <1>6. CASE \E ok \in BOOLEAN : EndPart(c, ok, FALSE)
    BY <1>1, <1>3, <1>4, <1>5, <1>6, QuietEnd
  <1>7. CASE \E p \in {"ask", "retry"} : Place(c, p)
    <2> PICK p \in {"ask", "retry"} : Place(c, p)
      BY <1>7
    <2>1. FilterOK([call[c] EXCEPT !.pc = p])
      BY <1>3, <1>1, Going DEF FilterOK, CallSpace, Creates
    <2>2. p \in Places /\ p \notin Early \cup Removing \cup {"idle"}
      BY DEF Places, Early, Removing, Asking, Commands
    <2> QED BY <1>1, <1>2, <1>3, <1>4, <1>5, <2>1, <2>2, QuietPlace
  <1> QED BY <1>6, <1>7 DEF ConnectAgent, RetryAgent, AskAgent

\* create: a call that makes a sandbox, and what its rules are at each place.
LEMMA CreateFacts ==
  ASSUME FcInv, NEW c \in Calls, call[c].pc # "idle", Head(call[c].todo) = "create"
  PROVE  /\ call[c].box \in Boxes /\ Creates(c) /\ ~call[c].undo
         /\ status[call[c].box] = "pending"
         /\ call[c].op = "restore" => call[c].todo = Whole
  BY Going, PartSays DEF Creates, CallOK

LEMMA EarlyStep ==
  ASSUME FcInv, NEW c \in Calls, PrepareWorkspace(c) \/ InsertEntry(c) \/ ResolveAllowlist(c)
  PROVE  FcInv'
  <1> DEFINE b == call[c].box
  <1>1. call[c].pc \in {"prepare", "insert", "resolve"}
    BY DEF PrepareWorkspace, InsertEntry, ResolveAllowlist, CallAt
  <1>2. call[c].pc \in Early /\ call[c].pc \notin Removing \cup {"idle"}
    BY <1>1 DEF Early, Removing
  <1>3. Head(call[c].todo) = "create"
    BY <1>2, Going DEF CallOK
  <1>4. b \in Boxes /\ Creates(c) /\ (call[c].op = "restore" => call[c].todo = Whole)
    BY <1>2, <1>3, CreateFacts
  <1>5. b \in Allowlisted => Filter \subseteq rules[b]
    BY <1>1, <1>2, Going DEF CallOK, FilterOK
  <1>6. UNCHANGED <<vms, rules, held>>
    BY DEF PrepareWorkspace, InsertEntry, ResolveAllowlist, fcOwn
  <1>7. RestOK' /\ BlameGrows
    <2>1. NoFault \/ Fault(b, "workspace") \/ Fault(b, "resolve")
      BY DEF PrepareWorkspace, InsertEntry, ResolveAllowlist
    <2>2. faults' \in 0 .. MaxFaults /\ blame' \in [Boxes -> SUBSET Causes] /\ BlameGrows
      BY <1>4, <2>1, Blames DEF Causes
    <2>3. entry' \in [Boxes -> {"none", "direct", "helper", "vm", "local"}]
          /\ workspaces' \subseteq Boxes /\ syncs' \subseteq Boxes
      BY <1>4, Typed DEF PrepareWorkspace, InsertEntry, ResolveAllowlist, RestOK, fcOwn
    <2>4. UNCHANGED <<rooted, agent, started>>
      BY DEF PrepareWorkspace, InsertEntry, ResolveAllowlist, AgentAlone, fcOwn
    <2> QED BY <2>2, <2>3, <2>4, Typed DEF RestOK
  <1>8. CASE \E ok \in BOOLEAN : EndPart(c, ok, FALSE)
    BY <1>2, <1>4, <1>5, <1>6, <1>7, <1>8, QuietEnd
  <1>9. CASE \E p \in {"insert", "prepare"} : Place(c, p)
    <2> PICK p \in {"insert", "prepare"} : Place(c, p)
      BY <1>9
    <2>1. FilterOK([call[c] EXCEPT !.pc = p])
      BY <1>2, <1>4, <1>5, Going DEF FilterOK, CallSpace
    <2>2. p \in Places /\ p \notin Removing \cup Asking \cup {"idle"}
      BY DEF Places, Early, Removing, Asking
    <2> QED BY <1>2, <1>3, <1>4, <1>6, <1>7, <2>1, <2>2, QuietPlace
  <1> QED BY <1>8, <1>9 DEF PrepareWorkspace, InsertEntry, ResolveAllowlist

LEMMA StartVmStep ==
  ASSUME FcInv, NEW c \in Calls, StartVm(c)
  PROVE  FcInv'
  <1>1. call[c].pc = "dispatch" /\ Head(call[c].todo) = "create"
    BY DEF StartVm, At, CallAt, Part
  <1> PICK b \in Boxes : b = call[c].box
    BY <1>1, CreateFacts
  <1>2. Creates(c) /\ status[b] = "pending" /\ ~call[c].undo
        /\ (call[c].op = "restore" => call[c].todo = Whole)
    BY <1>1, CreateFacts
  <1>3. UNCHANGED <<entry, workspaces, rules, syncs, held, agent, started, rooted>>
    BY DEF StartVm, AgentAlone
  <1>4. vms' \subseteq vms \cup {b}
    BY DEF StartVm
  <1>5. held # c
    BY <1>1, Going, Elsewhere DEF CallOK
  <1>6. RestOK' /\ BlameGrows
    <2>1. NoFault \/ Fault(b, "boot")
      BY DEF StartVm
    <2>2. faults' \in 0 .. MaxFaults /\ blame' \in [Boxes -> SUBSET Causes] /\ BlameGrows
      BY <1>2, <2>1, Blames DEF Causes
    <2> QED BY <1>3, <2>2, Typed DEF RestOK
  <1>7. rules' \in [Boxes -> SUBSET Commands]
    BY <1>3 DEF FcInv, FcTypeOK
  <1>8. CASE EndPart(c, FALSE, FALSE)
    <2>1. /\ Goes(c) /\ CallOK(c)'
          /\ status'[b] = "live" => status[b] = "live"
      BY <1>1, <1>2, <1>3, <1>5, <1>8, Ending
    <2>2. FilteredBox(b)'
      BY <1>2, <2>1 DEF FilteredBox
    <2> QED BY <1>1, <1>2, <1>3, <1>4, <1>6, <1>7, <2>1, <2>2, Moves
  <1>9. CASE \E p \in {"set", "prepare"} : Place(c, p) /\ (p = "prepare" => b \notin Networked)
    <2> PICK p \in {"set", "prepare"} : Place(c, p) /\ (p = "prepare" => b \notin Networked)
      BY <1>9
    <2>1. p \in Places /\ p \in Early /\ p \notin Removing \cup Asking \cup {"idle", "drop", "accept"}
      BY DEF Places, Early, Removing, Asking, Commands
    <2>2. Goes(c) /\ call'[c] = [call[c] EXCEPT !.pc = p] /\ status' = status
      BY <1>1, <2>1, Placing
    <2>3. /\ call'[c].pc = p /\ call'[c].op = call[c].op /\ call'[c].box = b
          /\ call'[c].todo = call[c].todo /\ call'[c].undo = call[c].undo
      BY <1>1, <2>2, Going DEF CallSpace
    <2>4. TodoOK(call[c])'
      BY <1>1, <2>3, Going DEF TodoOK
    <2>5. b \in Allowlisted => p = "set"
      BY BackendAssumption
    <2>6. FilterOK(call[c])'
      BY <1>2, <2>3, <2>5 DEF FilterOK
    <2>7. CallOK(c)'
      BY <1>1, <1>2, <1>3, <1>5, <2>1, <2>2, <2>3, <2>4, <2>6, Going DEF CallOK, Creates, Removing
    <2>8. FilteredBox(b)'
      BY <1>2, <2>2 DEF FilteredBox
    <2> QED BY <1>1, <1>2, <1>3, <1>4, <1>6, <1>7, <2>2, <2>7, <2>8, Moves
  <1>10. EndPart(c, FALSE, FALSE) \/ Place(c, IF b \in Networked THEN "set" ELSE "prepare")
    BY DEF StartVm
  <1> QED BY <1>8, <1>9, <1>10

LEMMA ApplyCommandStep ==
  ASSUME FcInv, NEW c \in Calls, ApplyCommand(c)
  PROVE  FcInv'
  <1> PICK r \in Commands : CallAt(c, r)
        /\ \/ /\ rules' = [rules EXCEPT ![call[c].box] = @ \cup {r}]
              /\ Place(c, AfterCommand(call[c].box, r)) /\ NoFault
           \/ Fault(call[c].box, "rule") /\ EndPart(c, FALSE, FALSE) /\ UNCHANGED rules
    BY DEF ApplyCommand
  <1>1. call[c].pc = r /\ r \in Early /\ r \notin Removing \cup {"idle"}
    BY DEF CallAt, Early, Removing, Commands
  <1>2. Head(call[c].todo) = "create"
    BY <1>1, Going DEF CallOK
  <1> PICK b \in Boxes : b = call[c].box
    BY <1>1, <1>2, CreateFacts
  <1>3. Creates(c) /\ status[b] = "pending" /\ ~call[c].undo
        /\ (call[c].op = "restore" => call[c].todo = Whole)
    BY <1>1, <1>2, CreateFacts
  <1>4. UNCHANGED <<entry, workspaces, vms, syncs, held, agent, started, rooted>>
    BY DEF ApplyCommand, AgentAlone
  <1>5. held # c
    BY <1>1, Going DEF CallOK
  <1>6. RestOK' /\ BlameGrows
    <2>1. NoFault \/ Fault(b, "rule")
      OBVIOUS
    <2>2. faults' \in 0 .. MaxFaults /\ blame' \in [Boxes -> SUBSET Causes] /\ BlameGrows
      BY <2>1, Blames DEF Causes
    <2> QED BY <1>4, <2>2, Typed DEF RestOK
  <1>7. rules \in [Boxes -> SUBSET Commands]
    BY DEF FcInv, FcTypeOK
  <1>8. rules' \in [Boxes -> SUBSET Commands] /\ (\A a \in Boxes : a # b => rules'[a] = rules[a])
    BY <1>7
  <1>9. CASE EndPart(c, FALSE, FALSE)
    <2>1. /\ Goes(c) /\ CallOK(c)'
          /\ status'[b] = "live" => status[b] = "live"
      BY <1>1, <1>3, <1>4, <1>5, <1>9, Ending
    <2>2. FilteredBox(b)'
      BY <1>3, <2>1 DEF FilteredBox
    <2> QED BY <1>1, <1>3, <1>4, <1>6, <1>8, <2>1, <2>2, Moves
  <1>10. CASE /\ rules' = [rules EXCEPT ![b] = @ \cup {r}]
              /\ Place(c, AfterCommand(b, r))
    <2> DEFINE p == AfterCommand(b, r)
    <2>1. p \in {"table", "chain", "allow", "drop", "accept", "masquerade", "resolve", "prepare"}
      BY DEF AfterCommand
    <2>2. p \in Places /\ p \in Early /\ p \notin Removing \cup Asking \cup {"idle"}
      BY <2>1 DEF Places, Early, Removing, Asking, Commands
    <2>3. Goes(c) /\ call'[c] = [call[c] EXCEPT !.pc = p] /\ status' = status
      BY <1>1, <1>10, <2>2, Placing
    <2>4. /\ call'[c].pc = p /\ call'[c].op = call[c].op /\ call'[c].box = b
          /\ call'[c].todo = call[c].todo /\ call'[c].undo = call[c].undo
      BY <1>1, <2>3, Going DEF CallSpace
    <2>5. TodoOK(call[c])'
      BY <1>1, <2>4, Going DEF TodoOK
    <2>6. FilterOK(call[c])'
      <3>1. ASSUME b \in Allowlisted
            PROVE  /\ r = "drop" => "allow" \in rules[b]
                   /\ r # "accept"
                   /\ r = "masquerade" => Filter \subseteq rules[b]
        BY <1>1, <3>1, Going DEF CallOK, FilterOK
      <3>2. rules'[b] = rules[b] \cup {r}
        BY <1>7, <1>10
      <3>3. ASSUME b \in Allowlisted
            PROVE  /\ p = "drop" => "allow" \in rules'[b]
                   /\ p # "accept"
                   /\ p \in {"masquerade", "resolve", "prepare", "insert"} => Filter \subseteq rules'[b]
        BY <3>1, <3>2, <3>3 DEF AfterCommand, Filter, Commands
      <3> QED BY <1>3, <2>4, <3>3 DEF FilterOK
    <2>7. CallOK(c)'
      BY <1>1, <1>2, <1>3, <1>4, <1>5, <2>2, <2>3, <2>4, <2>5, <2>6, Going DEF CallOK, Creates, Removing
    <2>8. FilteredBox(b)'
      BY <1>3, <2>3 DEF FilteredBox
    <2> QED BY <1>1, <1>3, <1>4, <1>6, <1>8, <2>3, <2>7, <2>8, Moves
  <1> QED BY <1>9, <1>10

-----------------------------------------------------------------------------
(* destroy                                                                 *)

\* What is known of a call at a place of destroy.
LEMMA DestroyFacts ==
  ASSUME FcInv, NEW c \in Calls, call[c].pc # "idle", Head(call[c].todo) = "destroy"
  PROVE  /\ call[c].box \in Boxes
         /\ call[c].todo = <<"destroy">>
         /\ call[c].op = "destroy" \/ (call[c].op = "restore" /\ call[c].undo)
         /\ Creates(c) => call[c].undo
         /\ Creates(c) => status[call[c].box] = "pending"
  BY Going, PartSays DEF Creates, CallOK, Operations

\* A destroy stays within itself.
LEMMA LatePlace ==
  ASSUME FcInv, NEW c \in Calls, call[c].pc # "idle", Head(call[c].todo) = "destroy",
         NEW p \in Removing, Place(c, p), held' = c, NEW b \in Boxes, b = call[c].box,
         p = "clean" => b \notin vms'
  PROVE  /\ Goes(c) /\ CallOK(c)' /\ Destroying(b)'
         /\ status' = status
  <1>1. p \in Places /\ p \notin Early \cup Asking \cup {"idle", "drop", "accept"}
    BY DEF Places, Early, Removing, Asking, Commands
  <1>2. Goes(c) /\ call'[c] = [call[c] EXCEPT !.pc = p] /\ status' = status
    BY <1>1, Placing
  <1>3. /\ call'[c].pc = p /\ call'[c].op = call[c].op /\ call'[c].box = b
        /\ call'[c].todo = call[c].todo /\ call'[c].undo = call[c].undo
    BY <1>2, Going DEF CallSpace
  <1>4. TodoOK(call[c])'
    BY <1>3, Going DEF TodoOK
  <1>5. FilterOK(call[c])'
    <2>1. call'[c].op = "restore" => call'[c].undo
      BY <1>3, DestroyFacts
    <2>2. p \notin {"masquerade", "resolve", "prepare", "insert"}
      BY DEF Removing
    <2> QED BY <1>1, <1>3, <2>1, <2>2 DEF FilterOK
  <1>6. CallOK(c)'
    BY <1>1, <1>2, <1>3, <1>4, <1>5, Going DEF CallOK, Creates
  <1>7. Destroying(b)'
    BY <1>3 DEF Destroying
  <1> QED BY <1>2, <1>6, <1>7

LEMMA RemoveEntryStep ==
  ASSUME FcInv, NEW c \in Calls, RemoveEntry(c)
  PROVE  FcInv'
  <1>1. call[c].pc = "dispatch" /\ Head(call[c].todo) = "destroy" /\ held = "none"
    BY DEF RemoveEntry, At, CallAt, Part, Free
  <1> PICK b \in Boxes : b = call[c].box
    BY <1>1, DestroyFacts
  <1>2. UNCHANGED <<workspaces, vms, rules, agent, started, rooted>> /\ NoFault
    BY DEF RemoveEntry, AgentAlone
  <1>3. RestOK' /\ BlameGrows
    <2>1. entry' \in [Boxes -> {"none", "direct", "helper", "vm", "local"}] /\ syncs' \subseteq Boxes
      BY Typed DEF RemoveEntry, RestOK
    <2> QED BY <1>2, <2>1, Typed, NoFaults DEF RestOK
  <1>4. CASE EndPart(c, FALSE, FALSE) /\ UNCHANGED held
    BY <1>1, <1>2, <1>3, <1>4, QuietEnd DEF Removing
  <1>5. CASE held' = c /\ Place(c, IF b \in Networked THEN "untable" ELSE "kill")
    <2>1. \E p \in {"untable", "kill"} : Place(c, p)
      BY <1>5
    <2> PICK p \in {"untable", "kill"} : Place(c, p)
      BY <2>1
    <2>2. p \in Removing /\ p # "clean"
      BY DEF Removing
    <2>3. Goes(c) /\ CallOK(c)' /\ Destroying(b)'
      BY <1>1, <1>5, <2>2, LatePlace
    <2>4. FilteredBox(b)'
      BY <2>3 DEF FilteredBox
    <2>5. rules \in [Boxes -> SUBSET Commands]
      BY DEF FcInv, FcTypeOK
    <2> QED BY <1>1, <1>2, <1>3, <1>5, <2>3, <2>4, <2>5, Moves
  <1> QED BY <1>4, <1>5 DEF RemoveEntry

\* A destroy that ends, for whatever reason.
LEMMA LateEnd ==
  ASSUME FcInv, NEW c \in Calls, call[c].pc \in Removing, NEW b \in Boxes, b = call[c].box,
         NEW ok \in BOOLEAN, EndPart(c, ok, FALSE), held' = "none", held = c,
         RestOK', BlameGrows, UNCHANGED rules, vms' \subseteq vms,
         b \notin vms' \/ blame'[b] \cap {"teardown", "terminate"} # {}
  PROVE  FcInv'
  <1>1. call[c].pc # "idle" /\ held' # c
    BY BackendAssumption DEF Removing
  <1>2. Head(call[c].todo) = "destroy"
    BY <1>1, Going DEF CallOK
  <1>3. Creates(c) => call[c].undo
    BY <1>1, <1>2, DestroyFacts
  <1>4. Goes(c) /\ CallOK(c)'
    BY <1>1, <1>3, Ending
  <1>5. FilteredBox(b)'
    BY DEF FilteredBox
  <1>6. rules \in [Boxes -> SUBSET Commands]
    BY DEF FcInv, FcTypeOK
  <1> QED BY <1>1, <1>4, <1>5, <1>6, Moves

LEMMA TeardownStep ==
  ASSUME FcInv, NEW c \in Calls, Teardown(c)
  PROVE  FcInv'
  <1>1. call[c].pc \in {"untable", "unset"}
    BY DEF Teardown, CallAt
  <1>2. call[c].pc \in Removing /\ call[c].pc # "idle"
    BY <1>1 DEF Removing
  <1>3. Head(call[c].todo) = "destroy" /\ held = c
    BY <1>2, Going DEF CallOK
  <1> PICK b \in Boxes : b = call[c].box
    BY <1>2, <1>3, DestroyFacts
  <1>4. UNCHANGED <<entry, workspaces, vms, syncs, agent, started, rooted>>
    BY DEF Teardown, AgentAlone
  <1>5. NoFault \/ Fault(b, "teardown")
    BY DEF Teardown
  <1>6. RestOK' /\ BlameGrows
    <2>1. faults' \in 0 .. MaxFaults /\ blame' \in [Boxes -> SUBSET Causes] /\ BlameGrows
      BY <1>5, Blames DEF Causes
    <2> QED BY <1>4, <2>1, Typed DEF RestOK
  <1>7. CASE /\ Fault(b, "teardown") /\ EndPart(c, FALSE, FALSE)
             /\ held' = "none" /\ UNCHANGED rules
    <2>1. "teardown" \in blame'[b]
      BY <1>7, Faults DEF Causes
    <2> QED BY <1>2, <1>3, <1>4, <1>6, <1>7, <2>1, LateEnd
  <1>8. CASE \E off \in SUBSET Commands, p \in {"unset", "kill"} :
                rules' = [rules EXCEPT ![b] = @ \ off] /\ Place(c, p) /\ UNCHANGED held
    <2> PICK off \in SUBSET Commands, p \in {"unset", "kill"} :
                rules' = [rules EXCEPT ![b] = @ \ off] /\ Place(c, p) /\ UNCHANGED held
      BY <1>8
    <2>1. p \in Removing /\ p # "clean"
      BY DEF Removing
    <2>2. Goes(c) /\ CallOK(c)' /\ Destroying(b)'
      BY <1>2, <1>3, <2>1, LatePlace
    <2>3. FilteredBox(b)'
      BY <2>2 DEF FilteredBox
    <2>4. rules' \in [Boxes -> SUBSET Commands] /\ (\A a \in Boxes : a # b => rules'[a] = rules[a])
      BY DEF FcInv, FcTypeOK
    <2> QED BY <1>2, <1>4, <1>6, <2>2, <2>3, <2>4, Moves
  <1>9. InTable \subseteq Commands /\ {"set"} \subseteq Commands
    BY DEF InTable, Commands
  <1> QED BY <1>7, <1>8, <1>9 DEF Teardown

LEMMA TerminateVmStep ==
  ASSUME FcInv, NEW c \in Calls, TerminateVm(c)
  PROVE  FcInv'
  <1>1. call[c].pc = "kill"
    BY DEF TerminateVm, CallAt
  <1>2. call[c].pc \in Removing /\ call[c].pc # "idle"
    BY <1>1 DEF Removing
  <1>3. Head(call[c].todo) = "destroy" /\ held = c
    BY <1>2, Going DEF CallOK
  <1> PICK b \in Boxes : b = call[c].box
    BY <1>2, <1>3, DestroyFacts
  <1>4. UNCHANGED <<entry, workspaces, rules, syncs, agent, started, rooted>>
    BY DEF TerminateVm, AgentAlone
  <1>5. NoFault \/ Fault(b, "terminate")
    BY DEF TerminateVm
  <1>6. RestOK' /\ BlameGrows
    <2>1. faults' \in 0 .. MaxFaults /\ blame' \in [Boxes -> SUBSET Causes] /\ BlameGrows
      BY <1>5, Blames DEF Causes
    <2> QED BY <1>4, <2>1, Typed DEF RestOK
  <1>7. CASE /\ Fault(b, "terminate") /\ EndPart(c, FALSE, FALSE)
             /\ held' = "none" /\ UNCHANGED vms
    <2>1. "terminate" \in blame'[b]
      BY <1>7, Faults DEF Causes
    <2> QED BY <1>2, <1>3, <1>4, <1>6, <1>7, <2>1, LateEnd
  <1>8. CASE vms' = vms \ {b} /\ Place(c, "clean") /\ UNCHANGED held
    <2>1. "clean" \in Removing /\ b \notin vms'
      BY <1>8 DEF Removing
    <2>2. Goes(c) /\ CallOK(c)' /\ Destroying(b)'
      BY <1>2, <1>3, <1>8, <2>1, LatePlace
    <2>3. FilteredBox(b)'
      BY <2>2 DEF FilteredBox
    <2>4. rules \in [Boxes -> SUBSET Commands]
      BY DEF FcInv, FcTypeOK
    <2> QED BY <1>2, <1>4, <1>6, <1>8, <2>2, <2>3, <2>4, Moves
  <1> QED BY <1>7, <1>8 DEF TerminateVm

LEMMA CleanWorkspaceStep ==
  ASSUME FcInv, NEW c \in Calls, CleanWorkspace(c)
  PROVE  FcInv'
  <1>1. call[c].pc = "clean"
    BY DEF CleanWorkspace, CallAt
  <1>2. call[c].pc \in Removing /\ call[c].pc # "idle"
    BY <1>1 DEF Removing
  <1>3. Head(call[c].todo) = "destroy" /\ held = c
    BY <1>2, Going DEF CallOK
  <1> PICK b \in Boxes : b = call[c].box
    BY <1>2, <1>3, DestroyFacts
  <1>4. b \notin vms
    BY <1>1, Going DEF CallOK
  <1>5. UNCHANGED <<entry, vms, rules, syncs, agent, started, rooted>> /\ held' = "none"
    BY DEF CleanWorkspace, AgentAlone, VmAlone
  <1>6. RestOK' /\ BlameGrows
    <2>1. NoFault \/ Fault(b, "workspace")
      BY DEF CleanWorkspace
    <2>2. faults' \in 0 .. MaxFaults /\ blame' \in [Boxes -> SUBSET Causes] /\ BlameGrows
      BY <2>1, Blames DEF Causes
    <2>3. workspaces' \subseteq Boxes
      BY Typed DEF CleanWorkspace, RestOK
    <2> QED BY <1>5, <2>2, <2>3, Typed DEF RestOK
  <1>7. EndPart(c, TRUE, FALSE) \/ EndPart(c, FALSE, FALSE)
    BY DEF CleanWorkspace
  <1>8. CASE EndPart(c, TRUE, FALSE)
    BY <1>2, <1>3, <1>4, <1>5, <1>6, <1>8, LateEnd
  <1>9. CASE EndPart(c, FALSE, FALSE)
    BY <1>2, <1>3, <1>4, <1>5, <1>6, <1>9, LateEnd
  <1> QED BY <1>7, <1>8, <1>9

-----------------------------------------------------------------------------
(* What begins a call, and what goes wrong from outside.                   *)

LEMMA FcPartsOK ==
  ASSUME NEW op \in Operations
  PROVE  FcParts(op) \in Todos /\ FcParts(op) = IF op = "restore" THEN Whole ELSE <<op>>
  BY DEF FcParts, Todos, Restoring, Whole

LEMMA BeginStep ==
  ASSUME FcInv, NEW c \in Calls, NEW op \in Operations, NEW b \in Boxes, FcBegin(c, op, b)
  PROVE  FcInv'
  <1>1. call \in [Calls -> CallSpace] /\ CallOK(c) /\ call[c].pc = "idle" /\ call[c] = NoCall
    BY DEF FcInv, FcBegin, BeginCall, CallAt, CallOK
  <1>2. call' = [call EXCEPT ![c] = [op |-> op, box |-> b, pc |-> "dispatch", todo |-> FcParts(op),
                                     undo |-> FALSE]]
    BY DEF FcBegin, BeginCall
  <1>3. UNCHANGED <<entry, workspaces, vms, rules, syncs, held, agent, started, rooted, faults, blame>>
    BY DEF FcBegin, fcOwn, NoFault
  <1>4. IF op \in {"create", "restore"}
        THEN status[b] = "unborn" /\ status' = [status EXCEPT ![b] = "pending"]
        ELSE status[b] = "live" /\ UNCHANGED status
    BY DEF FcBegin, BeginCall
  <1>5. call'[c] = [op |-> op, box |-> b, pc |-> "dispatch", todo |-> FcParts(op), undo |-> FALSE]
        /\ (\A d \in Calls : d # c => call'[d] = call[d])
    BY <1>1, <1>2
  <1>6. call'[c] \in CallSpace
    BY <1>5, FcPartsOK DEF CallSpace, Places
  <1>7. call' \in [Calls -> CallSpace]
    BY <1>1, <1>2, <1>5, <1>6
  <1>8. status' \in [Boxes -> {"unborn", "pending", "live", "failed", "destroyed"}]
    BY <1>4 DEF FcInv, FcTypeOK, CallsTypeOK
  <1>9. FcTypeOK'
    BY <1>3, <1>7, <1>8 DEF FcInv, FcTypeOK, CallsTypeOK, CallSpace
  <1>10. CallOK(c)'
    <2>1. TodoOK(call[c])' /\ FilterOK(call[c])'
      BY <1>5, FcPartsOK DEF TodoOK, FilterOK, Restoring
    <2>2. held # c
      BY <1>1 DEF CallOK, Removing
    <2>3. Creates(c)' => status'[b] = "pending"
      BY <1>4, <1>5 DEF Creates, FcInv, FcTypeOK, CallsTypeOK
    <2>4. ~Creates(c)' => status'[b] = "live"
      BY <1>4, <1>5 DEF Creates
    <2> QED BY <1>3, <1>5, <2>1, <2>2, <2>3, <2>4, Elsewhere DEF CallOK
  <1>11. ASSUME NEW d \in Calls, d # c PROVE CallOK(d)'
    <2>1. CallOK(d) /\ call'[d] = call[d]
      BY <1>5, <1>11 DEF FcInv
    <2>2. CASE call[d].pc = "idle"
      BY <1>3, <2>1, <2>2 DEF CallOK, NoCall, Creates, TodoOK, FilterOK, Early, Removing, Asking,
         Commands, Operations
    <2>3. CASE call[d].pc # "idle"
      <3>1. status[call[d].box] \in {"pending", "live", "destroyed"} /\ call[d].box \in Boxes
        BY <2>1, <2>3 DEF CallOK
      <3>2. status'[call[d].box] = status[call[d].box]
        BY <1>4, <3>1 DEF FcInv, FcTypeOK, CallsTypeOK
      <3> QED BY <1>3, <2>1, <3>2 DEF CallOK, Creates, TodoOK, FilterOK
    <2> QED BY <2>2, <2>3
  <1>12. Apart'
    <2>1. ASSUME NEW d \in Calls, d # c, Creates(c)', Creates(d)' PROVE call'[d].box # b
      <3>1. Creates(d) /\ CallOK(d) /\ call'[d] = call[d]
        BY <1>5, <2>1 DEF Creates, FcInv
      <3>2. status[call[d].box] = "pending" /\ status[b] = "unborn"
        BY <1>4, <1>5, <2>1, <3>1 DEF CallOK, Creates
      <3> QED BY <3>1, <3>2
    <2>2. ASSUME NEW d \in Calls, NEW e \in Calls, d # c, e # c, d # e, Creates(d)', Creates(e)'
          PROVE  call'[d].box # call'[e].box
      BY <1>5, <2>2 DEF Creates, FcInv, Apart
    <2> QED BY <1>5, <2>1, <2>2 DEF Apart
  <1>13. ASSUME NEW a \in Allowlisted PROVE FilteredBox(a)'
    <2>1. FilteredBox(a) /\ a \in Boxes /\ held # c
      BY <1>1, BackendAssumption DEF FcInv, CallOK, Removing
    <2>2. Destroying(a) => Destroying(a)'
      BY <1>3, <1>5, <2>1 DEF Destroying
    <2>3. status'[a] = "live" => status[a] = "live"
      BY <1>4, <2>1 DEF FcInv, FcTypeOK, CallsTypeOK
    <2> QED BY <1>3, <2>1, <2>2, <2>3 DEF FilteredBox
  <1>14. blame' \in [Boxes -> SUBSET Causes]
    BY <1>3 DEF FcInv
  <1> QED BY <1>7, <1>9, <1>10, <1>11, <1>12, <1>13, <1>14 DEF FcInv

LEMMA DropStep ==
  ASSUME FcInv, NEW c \in Calls, FcDrop(c)
  PROVE  FcInv'
  <1>1. call[c].pc # "idle"
    BY DEF FcDrop, DropCall, CallAt
  <1> PICK b \in Boxes : b = call[c].box
    BY <1>1, Going
  <1>2. Fault(b, "dropped") /\ call' = [call EXCEPT ![c] = NoCall]
        /\ status' = (IF status[b] = "pending" THEN [status EXCEPT ![b] = "failed"] ELSE status)
    BY DEF FcDrop, DropCall
  <1>3. UNCHANGED <<entry, syncs, agent, started, rooted>>
    BY DEF FcDrop, AgentAlone
  <1>4. faults' \in 0 .. MaxFaults /\ blame' \in [Boxes -> SUBSET Causes] /\ BlameGrows
        /\ "dropped" \in blame'[b]
    BY <1>2, Faults DEF Causes
  <1>5. RestOK'
    <2>1. workspaces' \subseteq Boxes
      BY Typed DEF FcDrop, RestOK
    <2> QED BY <1>3, <1>4, <2>1, Typed DEF RestOK
  <1>6. held' = (IF held = c THEN "none" ELSE held)
    BY DEF FcDrop
  <1>7. held' # c
    BY <1>6, BackendAssumption
  <1>8. NoCall \in CallSpace
    BY DEF NoCall, CallSpace, Todos, Places
  <1>9. call' \in [Calls -> CallSpace] /\ call'[c] = NoCall /\ \A d \in Calls : d # c => call'[d] = call[d]
    BY <1>2, <1>8 DEF FcInv
  <1>10. Goes(c)
    BY <1>2, <1>9 DEF Goes, FcInv, FcTypeOK, CallsTypeOK
  <1>11. CallOK(c)'
    BY <1>7, <1>9, BackendAssumption DEF CallOK, NoCall, Creates, TodoOK, FilterOK, Early, Removing, Asking,
       Commands, Operations
  <1>12. rules' \in [Boxes -> SUBSET Commands] /\ (\A a \in Boxes : a # b => rules'[a] = rules[a])
    <2>1. \/ rules' = rules
          \/ call[c].pc \in Commands /\ rules' = [rules EXCEPT ![b] = @ \cup {call[c].pc}]
          \/ \E off \in SUBSET Commands : rules' = [rules EXCEPT ![b] = @ \ off]
      <3>1. InTable \in SUBSET Commands /\ {"set"} \in SUBSET Commands /\ {} \in SUBSET Commands
        BY DEF InTable, Commands
      <3>2. rules[b] = rules[b] \ {}
        OBVIOUS
      <3> QED BY <3>1, <3>2 DEF FcDrop
    <2> QED BY <2>1 DEF FcInv, FcTypeOK
  <1>13. vms' \subseteq vms \cup (IF Creates(c) THEN {b} ELSE {})
    <2>1. CASE At(c, "create")
      <3>1. Creates(c)
        BY <1>1, <2>1, CreateFacts DEF At, Part
      <3> QED BY <3>1 DEF FcDrop
    <2>2. CASE ~At(c, "create")
      BY <2>2 DEF FcDrop
    <2> QED BY <2>1, <2>2
  <1>14. FilteredBox(b)'
    BY <1>4 DEF FilteredBox
  <1> QED BY <1>1, <1>4, <1>5, <1>6, <1>10, <1>11, <1>12, <1>13, <1>14, Moves

LEMMA RestartStep ==
  ASSUME FcInv, FcRestarts
  PROVE  FcInv'
  <1>1. call' = [c \in Calls |-> NoCall] /\ held' = "none"
    BY DEF FcRestarts, ForgetCalls
  <1>2. status' = [b \in Boxes |-> IF b \in Pending THEN "failed" ELSE status[b]]
        /\ entry' = [b \in Boxes |-> "none"]
    BY DEF FcRestarts, ForgetCalls
  <1>3. blame' = [b \in Boxes |-> IF entry[b] # "none" \/ status[b] \in {"pending", "live"}
                                  THEN blame[b] \cup {"lost"} ELSE blame[b]]
    BY DEF FcRestarts
  <1>4. NoCall \in CallSpace
    BY DEF NoCall, CallSpace, Todos, Places
  <1>5. call' \in [Calls -> CallSpace]
    BY <1>1, <1>4
  <1>6. blame' \in [Boxes -> SUBSET Causes]
    BY <1>3 DEF FcInv, Causes
  <1>7. FcTypeOK'
    <2>1. faults' \in 0 .. MaxFaults
      BY BackendAssumption DEF FcRestarts, FcInv, FcTypeOK, CallsTypeOK
    <2>2. CallsTypeOK'
      BY <1>2, <1>5, <2>1 DEF FcRestarts, FcInv, FcTypeOK, CallsTypeOK, CallSpace
    <2> QED BY <2>2 DEF FcRestarts, FcInv, FcTypeOK
  <1>8. ASSUME NEW c \in Calls PROVE CallOK(c)'
    BY <1>1, BackendAssumption DEF CallOK, NoCall, Creates, TodoOK, FilterOK, Early, Removing, Asking,
       Commands, Operations
  <1>9. Apart'
    BY <1>1 DEF Apart, Creates, NoCall
  <1>10. ASSUME NEW b \in Allowlisted PROVE FilteredBox(b)'
    <2>1. b \in Boxes
      BY BackendAssumption
    <2>2. status'[b] = "live" => "lost" \in blame'[b]
      BY <1>2, <1>3, <2>1
    <2> QED BY <2>2 DEF FilteredBox
  <1> QED BY <1>5, <1>6, <1>7, <1>8, <1>9, <1>10 DEF FcInv

\* Steps that leave calls, sandboxes and rules alone.
LEMMA Untouched ==
  ASSUME FcInv, FcTypeOK', UNCHANGED <<call, status, blame, vms, rules, held>>
  PROVE  FcInv'
  <1>1. \A c \in Calls : CallOK(c)'
    BY DEF FcInv, CallOK, TodoOK, FilterOK, Creates
  <1>2. Apart' /\ \A b \in Allowlisted : FilteredBox(b)'
    BY DEF FcInv, Apart, Creates, FilteredBox, Destroying
  <1> QED BY <1>1, <1>2 DEF FcInv

LEMMA AgentSteps ==
  ASSUME FcInv, AgentComesUp \/ AgentDies
  PROVE  FcInv'
  <1>1. UNCHANGED <<entry, workspaces, call, status, blame, vms, rules, syncs, held, started>>
    BY DEF AgentComesUp, AgentDies
  <1>2. faults' \in 0 .. MaxFaults
    BY BackendAssumption DEF AgentComesUp, AgentDies, FcInv, FcTypeOK, CallsTypeOK
  <1>3. agent' \in {"off", "starting", "on"} /\ rooted' \subseteq Boxes
    BY DEF AgentComesUp, AgentDies, FcInv, FcTypeOK
  <1>4. FcTypeOK'
    BY <1>1, <1>2, <1>3 DEF FcInv, FcTypeOK, CallsTypeOK
  <1> QED BY <1>1, <1>4, Untouched

-----------------------------------------------------------------------------
LEMMA FcStep == FcInv /\ [FcNext]_fcVars => FcInv'
  <1> SUFFICES ASSUME FcInv, [FcNext]_fcVars PROVE FcInv'
    OBVIOUS
  <1>1. ASSUME NEW c \in Calls, NEW op \in Operations, NEW b \in Boxes, FcBegin(c, op, b) PROVE FcInv'
    BY <1>1, BeginStep
  <1>2. ASSUME NEW c \in Calls, FcGoesOn(c) PROVE FcInv'
    BY <1>2, StartVmStep, ApplyCommandStep, EarlyStep, LookupStep, AskingStep, InspectStep, ArchiveStep,
       ClearStep, UnpackStep, RemoveEntryStep, TeardownStep, TerminateVmStep, CleanWorkspaceStep
       DEF FcGoesOn
  <1>3. ASSUME NEW c \in Calls, FcDrop(c) PROVE FcInv'
    BY <1>3, DropStep
  <1>4. CASE AgentComesUp \/ AgentDies
    BY <1>4, AgentSteps
  <1>5. CASE FcRestarts
    BY <1>5, RestartStep
  <1>6. CASE UNCHANGED fcVars
    <2>1. FcTypeOK'
      BY <1>6 DEF fcVars, fcOwn, callVars, FcInv, FcTypeOK, CallsTypeOK
    <2> QED BY <1>6, <2>1, Untouched DEF fcVars, fcOwn, callVars
  <1> QED BY <1>1, <1>2, <1>3, <1>4, <1>5, <1>6 DEF FcNext

LEMMA FcAlways == FcSpec => []FcInv
  BY FcInitInv, FcStep, PTL DEF FcSpec

\* The variables of the Firecracker backend keep their types, for any sandboxes, concurrent
\* calls and number of faults (FirecrackerBackend).
THEOREM FcTypes == FcSpec => []FcTypeOK
  <1>1. FcInv => FcTypeOK
    BY DEF FcInv
  <1> QED BY <1>1, FcAlways, PTL

LEMMA FcFilters == FcInv => UnfilteredOnlyInPassing
  BY BackendAssumption DEF FcInv, FilteredBox, UnfilteredOnlyInPassing, Filter

\* The drop rule of a live sandbox with an allowlist is in force as long as its VM runs, but
\* in the middle of a destroy or after one that failed or was dropped there, or after a
\* restart of the server: create puts the rules in place one by one before anybody is told
\* of the sandbox, and no other call takes them away (create, apply, destroy).
THEOREM FcFiltered == FcSpec => []UnfilteredOnlyInPassing
  BY FcFilters, FcAlways, PTL
-----------------------------------------------------------------------------
(* What destroy takes away, and what a restore that fails leaves.  Relative *)
(* to FcInv, of each call how far its removal is, and of each sandbox what  *)
(* is left of it once it is destroyed or its restore has been undone.       *)

\* A restore that has made its sandbox and is between two of its parts.
Built(c) == call[c].op = "restore" /\ call[c].pc = "dispatch" /\ call[c].todo # Whole

GoneCall(c) ==
    LET k == call[c]
        b == k.box
    IN
    /\ k.pc \in Removing => entry[b] = "none" /\ b \notin syncs
    /\ k.pc = "unset" => rules[b] \subseteq {"set", "masquerade"}
    /\ k.pc \in {"kill", "clean"} => rules[b] \subseteq {"masquerade"}
    /\ k.pc \in Commands \cup {"resolve"} => b \in Networked
    /\ Built(c) => entry[b] = "vm"

Stripped(b) == b \notin vms \cup syncs /\ rules[b] \subseteq {"masquerade"}

GoneBox(b) ==
    /\ b \notin Networked => rules[b] = {} /\ b \notin syncs
    /\ status[b] = "destroyed" =>
          entry[b] = "none" /\ Stripped(b) /\ (b \in workspaces => "late" \in blame[b])
    /\ status[b] = "failed" /\ blame[b] \subseteq {"unpack"} => Stripped(b) /\ b \notin workspaces

FcGoneInv ==
    /\ \A c \in Calls : GoneCall(c)
    /\ \A b \in Boxes : GoneBox(b)

\* All that a step of c for b does to the other calls and sandboxes.
OnlyAt(c, b) ==
    /\ \A a \in Boxes : a # b =>
          /\ rules'[a] = rules[a] /\ status'[a] = status[a] /\ entry'[a] = entry[a]
          /\ blame'[a] = blame[a]
          /\ (a \in vms' => a \in vms) /\ (a \in syncs' => a \in syncs)
          /\ (a \in workspaces' => a \in workspaces)
    /\ \A d \in Calls : d # c => call'[d] = call[d]
    /\ ~Creates(c) => entry'[b] \in {entry[b], "none"} /\ (b \in syncs' => b \in syncs)
                      /\ rules'[b] \subseteq rules[b]

\* It keeps the invariant if it does for its own call and sandbox.
LEMMA GoneStep ==
  ASSUME FcInv, FcGoneInv, NEW c \in Calls, call[c].pc # "idle", NEW b \in Boxes, b = call[c].box,
         OnlyAt(c, b), GoneCall(c)', GoneBox(b)'
  PROVE  FcGoneInv'
  <1>1. ASSUME NEW a \in Boxes, a # b PROVE GoneBox(a)'
    <2>1. GoneBox(a)
      BY DEF FcGoneInv
    <2> QED BY <1>1, <2>1 DEF OnlyAt, GoneBox, Stripped
  <1>2. ASSUME NEW d \in Calls, d # c PROVE GoneCall(d)'
    <2>1. GoneCall(d) /\ CallOK(d) /\ call'[d] = call[d]
      BY <1>2 DEF FcGoneInv, FcInv, OnlyAt
    <2>2. CASE call[d].pc = "idle"
      BY <2>1, <2>2 DEF GoneCall, Built, Removing, Commands
    <2>3. CASE call[d].pc # "idle" /\ call[d].box # b
      <3>1. call[d].box \in Boxes
        BY <2>1, <2>3 DEF CallOK
      <3> QED BY <2>1, <2>3, <3>1 DEF GoneCall, Built, OnlyAt
    <2>4. CASE call[d].pc # "idle" /\ call[d].box = b
      <3>1. ~Creates(c) /\ ~Creates(d)
        BY <1>2, <2>4, Alone
      <3> QED BY <2>1, <2>4, <3>1 DEF GoneCall, Built, OnlyAt, Creates
    <2> QED BY <2>2, <2>3, <2>4
  <1> QED BY <1>1, <1>2 DEF FcGoneInv

\* What the invariants say of the step's own call and sandbox.
LEMMA OwnFacts ==
  ASSUME FcInv, FcGoneInv, NEW c \in Calls, call[c].pc # "idle"
  PROVE  /\ call[c].box \in Boxes /\ GoneCall(c) /\ GoneBox(call[c].box)
         /\ IF Creates(c) THEN status[call[c].box] = "pending"
            ELSE status[call[c].box] \in {"live", "destroyed"}
  <1>1. CallOK(c) /\ call[c].box \in Boxes
    BY Going
  <1>2. GoneCall(c) /\ GoneBox(call[c].box)
    BY <1>1 DEF FcGoneInv
  <1> QED BY <1>1, <1>2 DEF CallOK

\* A call that returns, or goes to a place, is where nothing is asked of it or there.
LEMMA GonePlace ==
  ASSUME FcInv, NEW c \in Calls, call[c].pc # "idle", NEW p \in Places, Place(c, p)
  PROVE  /\ call'[c].pc = p /\ call'[c].op = call[c].op /\ call'[c].box = call[c].box
         /\ call'[c].todo = call[c].todo /\ call'[c].undo = call[c].undo
         /\ status' = status
         /\ \A d \in Calls : d # c => call'[d] = call[d]
  <1>1. Goes(c) /\ call'[c] = [call[c] EXCEPT !.pc = p] /\ status' = status
    BY Placing
  <1> QED BY <1>1, Going DEF Goes, CallSpace

LEMMA GoneReturn ==
  ASSUME FcInv, NEW c \in Calls, call[c].pc # "idle", NEW ok \in BOOLEAN, Returned(c, ok)
  PROVE  /\ call'[c] = NoCall /\ GoneCall(c)'
         /\ \A d \in Calls : d # c => call'[d] = call[d]
         /\ \A a \in Boxes : a # call[c].box => status'[a] = status[a]
         /\ Creates(c) => status'[call[c].box] = IF ok THEN "live" ELSE "failed"
         /\ ~Creates(c) => status'[call[c].box] = IF call[c].op = "destroy" /\ ok THEN "destroyed"
                                                  ELSE status[call[c].box]
  <1>1. call \in [Calls -> CallSpace]
        /\ status \in [Boxes -> {"unborn", "pending", "live", "failed", "destroyed"}]
    BY DEF FcInv, FcTypeOK, CallsTypeOK
  <1>2. call'[c] = NoCall /\ \A d \in Calls : d # c => call'[d] = call[d]
    BY <1>1 DEF Returned
  <1>3. GoneCall(c)'
    BY <1>2 DEF GoneCall, Built, NoCall, Removing, Commands
  <1>4. call[c].box \in Boxes /\ status' = Told(c, ok)
    BY Going DEF Returned
  <1> QED BY <1>1, <1>2, <1>3, <1>4 DEF Told, Creates

LEMMA FaultAt ==
  ASSUME FcInv, NEW b \in Boxes, NEW cause, Fault(b, cause)
  PROVE  (\A a \in Boxes : a # b => blame'[a] = blame[a]) /\ blame'[b] = blame[b] \cup {cause}
  BY DEF FcInv, Fault

\* How a part that is not undone by its failure ends.
LEMMA EndsPlain ==
  ASSUME FcInv, NEW c \in Calls, call[c].pc # "idle", NEW ok \in BOOLEAN, EndPart(c, ok, FALSE)
  PROVE  \/ (~ok \/ call[c].undo) /\ Returned(c, FALSE)
         \/ ok /\ ~call[c].undo /\ Returned(c, TRUE)
         \/ /\ ok /\ ~call[c].undo /\ call[c].op = "restore" /\ status' = status
            /\ call[c].todo \in {Whole, <<"clear", "unpack">>}
            /\ call' = [call EXCEPT ![c].todo = Tail(@), ![c].pc = "dispatch"]
  <1>1. CallOK(c) /\ call[c] \in CallSpace
    BY DEF FcInv
  <1>2. Len(call[c].todo) # 1 /\ ~call[c].undo =>
           call[c].op = "restore" /\ call[c].todo \in {Whole, <<"clear", "unpack">>}
    BY <1>1, Queues DEF CallOK, TodoOK, Restoring
  <1> QED BY <1>2 DEF EndPart, ReturnCall, Returned

\* A restore that goes on to its next part, and one that turns back.
LEMMA GoneNext ==
  ASSUME FcInv, NEW c \in Calls, call[c].pc # "idle",
         call' = [call EXCEPT ![c].todo = Tail(@), ![c].pc = "dispatch"],
         call[c].op = "restore", entry'[call[c].box] = "vm"
  PROVE  /\ GoneCall(c)'
         /\ \A d \in Calls : d # c => call'[d] = call[d]
  <1>1. call'[c].pc = "dispatch" /\ call'[c].box = call[c].box
    BY Going DEF FcInv, CallSpace
  <1>2. \A d \in Calls : d # c => call'[d] = call[d]
    BY DEF FcInv
  <1> QED BY <1>1, <1>2 DEF GoneCall, Built, Removing, Commands

LEMMA GoneBack ==
  ASSUME FcInv, NEW c \in Calls, call[c].pc # "idle",
         call' = [call EXCEPT ![c].todo = <<"destroy">>, ![c].undo = TRUE, ![c].pc = "dispatch"],
         call[c].op = "restore", entry'[call[c].box] = "vm"
  PROVE  /\ GoneCall(c)'
         /\ \A d \in Calls : d # c => call'[d] = call[d]
  <1>1. call'[c].pc = "dispatch" /\ call'[c].box = call[c].box
    BY Going DEF FcInv, CallSpace
  <1>2. \A d \in Calls : d # c => call'[d] = call[d]
    BY DEF FcInv
  <1> QED BY <1>1, <1>2 DEF GoneCall, Built, Removing, Commands

\* exec, read_file, write_file, inspect and create_snapshot take nothing away, and only the
\* agent makes a directory: the root of a sandbox that may be gone.
LEMMA AskingGone ==
  ASSUME FcInv, FcGoneInv, NEW c \in Calls,
         FcInspect(c) \/ FcArchive(c) \/ Lookup(c) \/ ConnectAgent(c) \/ RetryAgent(c) \/ AskAgent(c)
  PROVE  FcGoneInv'
  <1>1. call[c].pc # "idle"
        /\ (call[c].pc = "dispatch" => Head(call[c].todo) \in {"inspect", "snapshot", "exec", "read", "write"})
        /\ (call[c].pc # "dispatch" => call[c].pc \in Asking)
    BY DEF FcInspect, FcArchive, Lookup, ConnectAgent, RetryAgent, AskAgent, At, CallAt, Part, Asking
  <1>2. Head(call[c].todo) \in {"inspect", "snapshot", "exec", "read", "write"}
    BY <1>1, Going DEF CallOK
  <1>3. ~Creates(c) /\ call[c].op # "destroy" /\ ~call[c].undo
    BY <1>1, <1>2, Going, PartSays DEF Creates
  <1> PICK b \in Boxes : b = call[c].box
    BY <1>1, OwnFacts
  <1>4. GoneBox(b) /\ status[b] \in {"live", "destroyed"}
    BY <1>1, <1>3, OwnFacts
  <1>5. UNCHANGED <<entry, vms, rules, syncs>>
    BY DEF FcInspect, FcArchive, Lookup, ConnectAgent, RetryAgent, AskAgent, fcOwn
  <1>6. /\ GoneCall(c)' /\ \A d \in Calls : d # c => call'[d] = call[d]
        /\ \A a \in Boxes : status'[a] = status[a]
    <2>1. CASE \E ok \in BOOLEAN : EndPart(c, ok, FALSE)
      <3>1. \E ok \in BOOLEAN : Returned(c, ok)
        BY <1>1, <1>3, <2>1, EndsPlain DEF Creates
      <3> QED BY <1>1, <1>3, <3>1, GoneReturn
    <2>2. CASE \E p \in Asking : Place(c, p)
      <3> PICK p \in Asking : Place(c, p)
        BY <2>2
      <3>1. p \in Places /\ p \notin Removing \cup Commands \cup {"resolve", "dispatch"}
        BY DEF Places, Asking, Removing, Commands
      <3>2. /\ call'[c].pc = p /\ status' = status
            /\ \A d \in Calls : d # c => call'[d] = call[d]
        BY <1>1, <3>1, GonePlace
      <3>3. GoneCall(c)'
        BY <3>1, <3>2 DEF GoneCall, Built, Removing
      <3> QED BY <3>2, <3>3
    <2>3. /\ FcInspect(c) \/ FcArchive(c) => \E ok \in BOOLEAN : EndPart(c, ok, FALSE)
          /\ Lookup(c) => EndPart(c, FALSE, FALSE) \/ Place(c, "connect")
          /\ ConnectAgent(c) => Place(c, "ask") \/ Place(c, "retry")
          /\ RetryAgent(c) => EndPart(c, FALSE, FALSE) \/ Place(c, "ask")
          /\ AskAgent(c) => \E ok \in BOOLEAN : EndPart(c, ok, FALSE)
      BY DEF FcInspect, FcArchive, Lookup, ConnectAgent, RetryAgent, AskAgent
    <2> QED BY <2>1, <2>2, <2>3 DEF Asking
  <1>7. /\ \A a \in Boxes : a # b => blame'[a] = blame[a] /\ (a \in workspaces' => a \in workspaces)
        /\ blame[b] \subseteq blame'[b]
        /\ b \in workspaces' => b \in workspaces \/ (entry[b] = "none" => "late" \in blame'[b])
    <2>1. blame \in [Boxes -> SUBSET Causes]
      BY DEF FcInv
    <2>2. CASE AskAgent(c)
      BY <2>1, <2>2 DEF AskAgent
    <2>3. CASE NoFault \/ Fault(b, "archive")
      <3>1. UNCHANGED workspaces \/ AskAgent(c)
        BY DEF FcInspect, FcArchive, Lookup, ConnectAgent, RetryAgent
      <3>2. (\A a \in Boxes : a # b => blame'[a] = blame[a]) /\ blame[b] \subseteq blame'[b]
        BY <2>3, FaultAt DEF NoFault
      <3> QED BY <2>2, <3>1, <3>2
    <2> QED BY <2>2, <2>3 DEF FcInspect, FcArchive, Lookup, ConnectAgent, RetryAgent
  <1>8. OnlyAt(c, b)
    BY <1>5, <1>6, <1>7 DEF OnlyAt
  <1>9. GoneBox(b)'
    BY <1>4, <1>5, <1>6, <1>7 DEF GoneBox, Stripped
  <1> QED BY <1>1, <1>6, <1>8, <1>9, GoneStep

\* A part of create that fails leaves what is there, and a trace of why.
LEMMA CreateFails ==
  ASSUME FcInv, FcGoneInv, NEW c \in Calls, call[c].pc # "idle", Creates(c), ~call[c].undo,
         NEW b \in Boxes, b = call[c].box, NEW cause, cause # "unpack",
         Fault(b, cause), EndPart(c, FALSE, FALSE),
         b \notin Networked => rules'[b] = {} /\ b \notin syncs'
  PROVE  /\ GoneCall(c)' /\ GoneBox(b)'
         /\ \A d \in Calls : d # c => call'[d] = call[d]
         /\ \A a \in Boxes : a # b => status'[a] = status[a]
         /\ \A a \in Boxes : a # b => blame'[a] = blame[a]
  <1>1. Returned(c, FALSE)
    BY EndsPlain
  <1>2. /\ GoneCall(c)' /\ status'[b] = "failed"
        /\ \A d \in Calls : d # c => call'[d] = call[d]
        /\ \A a \in Boxes : a # b => status'[a] = status[a]
    BY <1>1, GoneReturn
  <1>3. cause \in blame'[b] /\ \A a \in Boxes : a # b => blame'[a] = blame[a]
    BY FaultAt
  <1>4. GoneBox(b)'
    BY <1>2, <1>3 DEF GoneBox
  <1> QED BY <1>2, <1>3, <1>4

\* One that goes on.
LEMMA CreateGoesOn ==
  ASSUME FcInv, FcGoneInv, NEW c \in Calls, call[c].pc # "idle", Creates(c),
         NEW b \in Boxes, b = call[c].box, NEW p \in Early, Place(c, p), NoFault,
         p \in Commands \cup {"resolve"} => b \in Networked,
         b \notin Networked => rules'[b] = {} /\ b \notin syncs'
  PROVE  /\ GoneCall(c)' /\ GoneBox(b)'
         /\ \A d \in Calls : d # c => call'[d] = call[d]
         /\ UNCHANGED <<status, blame>>
  <1>1. p \in Places /\ p \notin Removing \cup {"unset", "kill", "clean", "dispatch"}
    BY DEF Places, Early, Removing, Commands
  <1>2. /\ call'[c].pc = p /\ call'[c].box = b /\ status' = status
        /\ \A d \in Calls : d # c => call'[d] = call[d]
    BY <1>1, GonePlace
  <1>3. GoneCall(c)'
    BY <1>1, <1>2 DEF GoneCall, Built
  <1>4. status[b] = "pending"
    BY OwnFacts
  <1>5. GoneBox(b)'
    BY <1>2, <1>4 DEF GoneBox
  <1> QED BY <1>2, <1>3, <1>5 DEF NoFault

LEMMA CreateGone ==
  ASSUME FcInv, FcGoneInv, NEW c \in Calls,
         StartVm(c) \/ ApplyCommand(c) \/ ResolveAllowlist(c) \/ PrepareWorkspace(c)
  PROVE  FcGoneInv'
  <1>1. call[c].pc # "idle" /\ Head(call[c].todo) = "create"
    <2>1. StartVm(c) => call[c].pc = "dispatch" /\ Head(call[c].todo) = "create"
      BY DEF StartVm, At, CallAt, Part
    <2>2. ~StartVm(c) => call[c].pc \in Early /\ call[c].pc # "idle"
      BY DEF ApplyCommand, ResolveAllowlist, PrepareWorkspace, CallAt, Early, Commands
    <2> QED BY <2>1, <2>2, Going DEF CallOK
  <1> PICK b \in Boxes : b = call[c].box
    BY <1>1, CreateFacts
  <1>2. Creates(c) /\ ~call[c].undo /\ GoneCall(c) /\ GoneBox(b)
    BY <1>1, CreateFacts, OwnFacts
  <1>3. rules \in [Boxes -> SUBSET Commands]
    BY DEF FcInv, FcTypeOK
  <1>4. /\ UNCHANGED entry
        /\ \A a \in Boxes : a # b =>
              /\ rules'[a] = rules[a]
              /\ (a \in vms' => a \in vms) /\ (a \in syncs' => a \in syncs)
              /\ (a \in workspaces' => a \in workspaces)
    <2>1. CASE ApplyCommand(c)
      BY <1>3, <2>1 DEF ApplyCommand
    <2>2. CASE StartVm(c) \/ ResolveAllowlist(c) \/ PrepareWorkspace(c)
      BY <2>2 DEF StartVm, ResolveAllowlist, PrepareWorkspace, fcOwn
    <2> QED BY <2>1, <2>2
  <1>5. b \notin Networked => rules'[b] = {} /\ b \notin syncs'
    <2>1. ApplyCommand(c) => b \in Networked
      BY <1>2 DEF ApplyCommand, CallAt, GoneCall
    <2>2. ResolveAllowlist(c) => b \in Networked
      BY <1>2 DEF ResolveAllowlist, CallAt, GoneCall
    <2>3. StartVm(c) \/ PrepareWorkspace(c) => UNCHANGED <<rules, syncs>>
      BY DEF StartVm, PrepareWorkspace, fcOwn
    <2> QED BY <1>2, <2>1, <2>2, <2>3 DEF GoneBox
  <1>6. CASE EndPart(c, FALSE, FALSE) /\ \E cause \in {"boot", "rule", "resolve", "workspace"} : Fault(b, cause)
    <2> PICK cause \in {"boot", "rule", "resolve", "workspace"} : Fault(b, cause)
      BY <1>6
    <2>1. Returned(c, FALSE)
      BY <1>1, <1>6, EndsPlain
    <2>2. /\ GoneCall(c)' /\ GoneBox(b)'
          /\ \A d \in Calls : d # c => call'[d] = call[d]
          /\ \A a \in Boxes : a # b => status'[a] = status[a]
          /\ \A a \in Boxes : a # b => blame'[a] = blame[a]
      BY <1>1, <1>2, <1>5, <1>6, <2>1, CreateFails DEF Returned
    <2>3. OnlyAt(c, b)
      BY <1>2, <1>4, <2>2 DEF OnlyAt
    <2> QED BY <1>1, <2>2, <2>3, GoneStep
  <1>7. CASE NoFault /\ \E p \in Early : Place(c, p) /\ (p \in Commands \cup {"resolve"} => b \in Networked)
    <2> PICK p \in Early : Place(c, p) /\ (p \in Commands \cup {"resolve"} => b \in Networked)
      BY <1>7
    <2>1. /\ GoneCall(c)' /\ GoneBox(b)'
          /\ \A d \in Calls : d # c => call'[d] = call[d]
          /\ UNCHANGED <<status, blame>>
      BY <1>1, <1>2, <1>5, <1>7, CreateGoesOn
    <2>2. OnlyAt(c, b)
      BY <1>2, <1>4, <2>1 DEF OnlyAt
    <2> QED BY <1>1, <2>1, <2>2, GoneStep
  <1>8. CASE StartVm(c)
    <2>1. /\ {"set", "prepare"} \subseteq Early
          /\ "prepare" \notin Commands \cup {"resolve"}
      BY DEF Early, Commands
    <2>2. \/ EndPart(c, FALSE, FALSE) /\ Fault(b, "boot")
          \/ NoFault /\ Place(c, IF b \in Networked THEN "set" ELSE "prepare")
      BY <1>8 DEF StartVm
    <2> QED BY <1>6, <1>7, <2>1, <2>2
  <1>9. CASE ApplyCommand(c)
    <2> PICK r \in Commands : CallAt(c, r)
          /\ \/ Place(c, AfterCommand(b, r)) /\ NoFault
             \/ Fault(b, "rule") /\ EndPart(c, FALSE, FALSE)
      BY <1>9 DEF ApplyCommand
    <2>1. AfterCommand(b, r) \in Early /\ b \in Networked
      BY <1>2 DEF AfterCommand, Early, Commands, GoneCall, CallAt
    <2> QED BY <1>6, <1>7, <2>1
  <1>10. CASE ResolveAllowlist(c) \/ PrepareWorkspace(c)
    <2>1. {"prepare", "insert"} \subseteq Early /\ {"prepare", "insert"} \cap (Commands \cup {"resolve"}) = {}
      BY DEF Early, Commands
    <2>2. \/ EndPart(c, FALSE, FALSE) /\ (Fault(b, "resolve") \/ Fault(b, "workspace"))
          \/ NoFault /\ (Place(c, "prepare") \/ Place(c, "insert"))
      BY <1>10 DEF ResolveAllowlist, PrepareWorkspace
    <2> QED BY <1>6, <1>7, <2>1, <2>2
  <1> QED BY <1>8, <1>9, <1>10

LEMMA InsertGone ==
  ASSUME FcInv, FcGoneInv, NEW c \in Calls, InsertEntry(c)
  PROVE  FcGoneInv'
  <1>1. call[c].pc # "idle" /\ Head(call[c].todo) = "create"
    BY Going DEF InsertEntry, CallAt, Early, CallOK
  <1> PICK b \in Boxes : b = call[c].box
    BY <1>1, CreateFacts
  <1>2. Creates(c) /\ ~call[c].undo /\ GoneBox(b) /\ status[b] = "pending"
    BY <1>1, CreateFacts, OwnFacts
  <1>3. entry' = [entry EXCEPT ![b] = "vm"] /\ EndPart(c, TRUE, FALSE)
        /\ UNCHANGED <<workspaces, vms, rules, syncs, blame>>
    BY DEF InsertEntry, fcOwn, NoFault
  <1>4. entry'[b] = "vm" /\ \A a \in Boxes : a # b => entry'[a] = entry[a]
    BY <1>3 DEF FcInv, FcTypeOK, CallsTypeOK
  <1>5. /\ GoneCall(c)' /\ status'[b] \in {"pending", "live"}
        /\ \A d \in Calls : d # c => call'[d] = call[d]
        /\ \A a \in Boxes : a # b => status'[a] = status[a]
    <2>1. CASE Returned(c, TRUE)
      BY <1>1, <1>2, <2>1, GoneReturn
    <2>2. CASE /\ call[c].op = "restore" /\ status' = status
               /\ call' = [call EXCEPT ![c].todo = Tail(@), ![c].pc = "dispatch"]
      BY <1>1, <1>2, <1>4, <2>2, GoneNext
    <2> QED BY <1>1, <1>2, <1>3, <2>1, <2>2, EndsPlain
  <1>6. OnlyAt(c, b)
    BY <1>2, <1>3, <1>4, <1>5 DEF OnlyAt
  <1>7. GoneBox(b)'
    BY <1>2, <1>3, <1>5 DEF GoneBox
  <1> QED BY <1>1, <1>5, <1>6, <1>7, GoneStep

\* The parts of restore after create: what fails and is not undone has another cause than
\* the archive.
LEMMA RestoreGone ==
  ASSUME FcInv, FcGoneInv, NEW c \in Calls, FcClear(c) \/ FcUnpack(c)
  PROVE  FcGoneInv'
  <1>1. call[c].pc = "dispatch" /\ Head(call[c].todo) \in {"clear", "unpack"}
    BY DEF FcClear, FcUnpack, At, CallAt, Part
  <1>2. call[c].op = "restore" /\ ~call[c].undo /\ call[c].todo \in {<<"clear", "unpack">>, <<"unpack">>}
    BY <1>1, Going, PartSays
  <1> PICK b \in Boxes : b = call[c].box
    BY <1>1, Going
  <1>3. Creates(c) /\ GoneCall(c) /\ GoneBox(b) /\ status[b] = "pending"
    BY <1>1, <1>2, OwnFacts DEF Creates
  <1>4. UNCHANGED <<entry, vms, rules, syncs>> /\ entry[b] = "vm"
    BY <1>1, <1>2, <1>3, Queues DEF FcClear, FcUnpack, fcOwn, GoneCall, Built
  <1>5. /\ \A a \in Boxes : a # b => blame'[a] = blame[a]
        /\ \A a \in Boxes : a # b => (a \in workspaces' => a \in workspaces)
    <2>1. NoFault \/ Fault(b, "clear") \/ Fault(b, "unpack")
      BY DEF FcClear, FcUnpack
    <2>2. \A a \in Boxes : a # b => blame'[a] = blame[a]
      BY <2>1, FaultAt DEF NoFault
    <2> QED BY <2>2 DEF FcClear, FcUnpack
  <1>6. /\ GoneCall(c)' /\ (status'[b] \in {"pending", "live"} \/ (status'[b] = "failed" /\ "clear" \in blame'[b]))
        /\ \A d \in Calls : d # c => call'[d] = call[d]
        /\ \A a \in Boxes : a # b => status'[a] = status[a]
    <2>1. CASE Returned(c, TRUE)
      BY <1>1, <1>3, <2>1, GoneReturn
    <2>2. CASE Returned(c, FALSE) /\ Fault(b, "clear")
      <3>1. "clear" \in blame'[b]
        BY <2>2, FaultAt
      <3> QED BY <1>1, <1>3, <2>2, <3>1, GoneReturn
    <2>3. CASE /\ status' = status
               /\ call' = [call EXCEPT ![c].todo = <<"destroy">>, ![c].undo = TRUE, ![c].pc = "dispatch"]
      BY <1>1, <1>2, <1>3, <1>4, <2>3, GoneBack
    <2>4. CASE /\ status' = status
               /\ call' = [call EXCEPT ![c].todo = Tail(@), ![c].pc = "dispatch"]
      BY <1>1, <1>2, <1>3, <1>4, <2>4, GoneNext
    <2>5. ASSUME NEW ok \in BOOLEAN, EndPart(c, ok, TRUE)
          PROVE  \/ Returned(c, TRUE)
                 \/ /\ status' = status
                    /\ \/ call' = [call EXCEPT ![c].todo = <<"destroy">>, ![c].undo = TRUE, ![c].pc = "dispatch"]
                       \/ call' = [call EXCEPT ![c].todo = Tail(@), ![c].pc = "dispatch"]
      BY <1>2, <2>5 DEF EndPart, ReturnCall, Returned
    <2>6. ASSUME EndPart(c, FALSE, FALSE) PROVE Returned(c, FALSE)
      BY <1>1, <1>2, <2>6, EndsPlain
    <2>7. (\E ok \in BOOLEAN : EndPart(c, ok, TRUE)) \/ (EndPart(c, FALSE, FALSE) /\ Fault(b, "clear"))
      BY DEF FcClear, FcUnpack, EndPart
    <2> QED BY <1>2, <2>1, <2>2, <2>3, <2>4, <2>5, <2>6, <2>7
  <1>7. OnlyAt(c, b)
    BY <1>3, <1>4, <1>5, <1>6 DEF OnlyAt
  <1>8. GoneBox(b)'
    BY <1>3, <1>4, <1>6 DEF GoneBox
  <1> QED BY <1>1, <1>6, <1>7, <1>8, GoneStep

\* A destroy that ends: what is left of the sandbox is what was left before, unless the
\* last step has taken it all.
LEMMA DestroyEnds ==
  ASSUME FcInv, FcGoneInv, NEW c \in Calls, call[c].pc # "idle", Head(call[c].todo) = "destroy",
         NEW b \in Boxes, b = call[c].box, NEW ok \in BOOLEAN, EndPart(c, ok, FALSE),
         ~ok => (\E cause \in Causes \ {"unpack"} : Fault(b, cause)) \/ (NoFault /\ ~Creates(c)),
         ok => /\ NoFault
               /\ entry'[b] = "none" /\ Stripped(b)' /\ b \notin workspaces',
         UNCHANGED <<entry, vms, rules, syncs>>, workspaces' \subseteq workspaces,
         \A a \in Boxes : a # b => (a \in workspaces' <=> a \in workspaces)
  PROVE  FcGoneInv'
  <1>1. /\ call[c].op = "destroy" \/ (call[c].op = "restore" /\ call[c].undo)
        /\ Creates(c) => call[c].undo
    BY DestroyFacts
  <1>2. GoneCall(c) /\ GoneBox(b)
        /\ IF Creates(c) THEN status[b] = "pending" ELSE status[b] \in {"live", "destroyed"}
    BY OwnFacts
  <1>3. /\ \A a \in Boxes : a # b => blame'[a] = blame[a]
        /\ blame[b] \subseteq blame'[b]
        /\ ~ok /\ Creates(c) => ~(blame'[b] \subseteq {"unpack"})
    <2>1. CASE NoFault
      BY <2>1 DEF NoFault, Fault, FcInv, FcTypeOK, CallsTypeOK
    <2>2. CASE \E cause \in Causes \ {"unpack"} : Fault(b, cause)
      BY <2>2, FaultAt
    <2> QED BY <2>1, <2>2
  <1>4. CASE Creates(c)
    <2>1. Returned(c, FALSE)
      BY <1>1, <1>4, EndsPlain
    <2>2. /\ GoneCall(c)' /\ status'[b] = "failed"
          /\ \A d \in Calls : d # c => call'[d] = call[d]
          /\ \A a \in Boxes : a # b => status'[a] = status[a]
      BY <1>4, <2>1, GoneReturn
    <2>3. OnlyAt(c, b)
      BY <1>3, <1>4, <2>2 DEF OnlyAt
    <2>4. GoneBox(b)'
      BY <1>2, <1>3, <1>4, <2>2 DEF GoneBox, Stripped
    <2> QED BY <2>2, <2>3, <2>4, GoneStep
  <1>5. CASE ~Creates(c)
    <2>1. call[c].op = "destroy"
      BY <1>1, <1>5 DEF Creates
    <2>2. Returned(c, ok)
      <3>1. ~call[c].undo
        BY <2>1, Going DEF TodoOK
      <3> QED BY <2>1, <3>1, EndsPlain
    <2>3. /\ GoneCall(c)' /\ status'[b] = IF ok THEN "destroyed" ELSE status[b]
          /\ \A d \in Calls : d # c => call'[d] = call[d]
          /\ \A a \in Boxes : a # b => status'[a] = status[a]
      BY <1>5, <2>1, <2>2, GoneReturn
    <2>4. OnlyAt(c, b)
      BY <1>3, <1>5, <2>3 DEF OnlyAt
    <2>5. GoneBox(b)'
      BY <1>2, <1>3, <1>5, <2>3 DEF GoneBox, Stripped
    <2> QED BY <2>3, <2>4, <2>5, GoneStep
  <1> QED BY <1>4, <1>5

\* A destroy that goes on: less is left of the sandbox than before.
LEMMA DestroyGoesOn ==
  ASSUME FcInv, FcGoneInv, NEW c \in Calls, call[c].pc # "idle", Head(call[c].todo) = "destroy",
         NEW b \in Boxes, b = call[c].box, NEW p \in Removing, Place(c, p), NoFault,
         entry'[b] = "none", b \notin syncs', vms' \subseteq vms, syncs' \subseteq syncs,
         rules'[b] \subseteq rules[b], UNCHANGED workspaces,
         \A a \in Boxes : a # b => rules'[a] = rules[a] /\ entry'[a] = entry[a],
         p = "unset" => rules'[b] \subseteq {"set", "masquerade"},
         p \in {"kill", "clean"} => rules'[b] \subseteq {"masquerade"}
  PROVE  FcGoneInv'
  <1>1. p \in Places /\ p \notin Commands \cup {"resolve", "dispatch"}
    BY DEF Places, Removing, Commands
  <1>2. /\ call'[c].pc = p /\ call'[c].box = b /\ status' = status
        /\ \A d \in Calls : d # c => call'[d] = call[d]
    BY <1>1, GonePlace
  <1>3. GoneCall(c)'
    BY <1>1, <1>2 DEF GoneCall, Built
  <1>4. GoneBox(b) /\ blame' = blame
        /\ IF Creates(c) THEN status[b] = "pending" ELSE status[b] \in {"live", "destroyed"}
    BY OwnFacts DEF NoFault
  <1>5. GoneBox(b)'
    BY <1>2, <1>4 DEF GoneBox, Stripped
  <1>6. OnlyAt(c, b)
    BY <1>2, <1>4 DEF OnlyAt
  <1> QED BY <1>3, <1>5, <1>6, GoneStep

LEMMA RemoveEntryGone ==
  ASSUME FcInv, FcGoneInv, NEW c \in Calls, RemoveEntry(c)
  PROVE  FcGoneInv'
  <1>1. call[c].pc = "dispatch" /\ Head(call[c].todo) = "destroy"
    BY DEF RemoveEntry, At, CallAt, Part
  <1> PICK b \in Boxes : b = call[c].box
    BY <1>1, DestroyFacts
  <1>2. UNCHANGED <<workspaces, vms, rules>> /\ NoFault
    BY DEF RemoveEntry
  <1>3. CASE entry[b] = "none"
    <2>1. EndPart(c, FALSE, FALSE) /\ UNCHANGED <<entry, syncs>>
      BY <1>3 DEF RemoveEntry
    <2>2. call[c].op # "restore"
      <3>1. call[c].todo # Whole
        BY <1>1, DestroyFacts, Queues
      <3> QED BY <1>1, <1>3, <3>1, OwnFacts DEF GoneCall, Built
    <2>3. ~Creates(c)
      BY <1>1, <2>2, DestroyFacts DEF Creates
    <2> QED BY <1>1, <1>2, <2>1, <2>3, DestroyEnds
  <1>4. CASE entry[b] # "none"
    <2>1. /\ entry' = [entry EXCEPT ![b] = "none"]
          /\ syncs' = syncs \ {b}
          /\ Place(c, IF b \in Networked THEN "untable" ELSE "kill")
      BY <1>4 DEF RemoveEntry
    <2>2. entry'[b] = "none" /\ \A a \in Boxes : a # b => entry'[a] = entry[a]
      BY <2>1 DEF FcInv, FcTypeOK, CallsTypeOK
    <2>3. b \notin Networked => rules[b] = {}
      BY <1>1, OwnFacts DEF GoneBox
    <2>4. CASE b \in Networked
      BY <1>1, <1>2, <2>1, <2>2, <2>4, DestroyGoesOn DEF Removing
    <2>5. CASE b \notin Networked
      BY <1>1, <1>2, <2>1, <2>2, <2>3, <2>5, DestroyGoesOn DEF Removing
    <2> QED BY <2>4, <2>5
  <1> QED BY <1>3, <1>4

LEMMA TeardownGone ==
  ASSUME FcInv, FcGoneInv, NEW c \in Calls, Teardown(c)
  PROVE  FcGoneInv'
  <1>1. call[c].pc \in {"untable", "unset"}
    BY DEF Teardown, CallAt
  <1>2. call[c].pc \in Removing /\ call[c].pc # "idle"
    BY <1>1 DEF Removing
  <1>3. Head(call[c].todo) = "destroy"
    BY <1>2, Going DEF CallOK
  <1> PICK b \in Boxes : b = call[c].box
    BY <1>2, <1>3, DestroyFacts
  <1>4. UNCHANGED <<entry, workspaces, vms, syncs>>
    BY DEF Teardown
  <1>5. GoneCall(c)
    BY <1>2, OwnFacts
  <1>6. CASE Fault(b, "teardown") /\ EndPart(c, FALSE, FALSE) /\ UNCHANGED rules
    BY <1>2, <1>3, <1>4, <1>6, DestroyEnds DEF Causes
  <1>7. rules \in [Boxes -> SUBSET Commands]
    BY DEF FcInv, FcTypeOK
  <1>8. CASE /\ call[c].pc = "untable" /\ rules' = [rules EXCEPT ![b] = @ \ InTable]
             /\ Place(c, "unset") /\ NoFault
    <2>1. /\ rules'[b] = rules[b] \ InTable
          /\ \A a \in Boxes : a # b => rules'[a] = rules[a]
      BY <1>7, <1>8
    <2>2. rules'[b] \subseteq {"set", "masquerade"}
      BY <1>7, <2>1 DEF InTable, Commands
    <2> QED BY <1>2, <1>3, <1>4, <1>5, <1>8, <2>1, <2>2, DestroyGoesOn DEF Removing, GoneCall
  <1>9. CASE /\ call[c].pc = "unset" /\ rules' = [rules EXCEPT ![b] = @ \ {"set"}]
             /\ Place(c, "kill") /\ NoFault
    <2>1. /\ rules'[b] = rules[b] \ {"set"}
          /\ \A a \in Boxes : a # b => rules'[a] = rules[a]
      BY <1>7, <1>9
    <2>2. rules'[b] \subseteq {"masquerade"}
      BY <1>5, <1>9, <2>1 DEF GoneCall
    <2> QED BY <1>2, <1>3, <1>4, <1>5, <1>9, <2>1, <2>2, DestroyGoesOn DEF Removing, GoneCall
  <1> QED BY <1>1, <1>6, <1>8, <1>9 DEF Teardown, CallAt

LEMMA TerminateVmGone ==
  ASSUME FcInv, FcGoneInv, NEW c \in Calls, TerminateVm(c)
  PROVE  FcGoneInv'
  <1>1. call[c].pc = "kill"
    BY DEF TerminateVm, CallAt
  <1>2. call[c].pc \in Removing /\ call[c].pc # "idle"
    BY <1>1 DEF Removing
  <1>3. Head(call[c].todo) = "destroy"
    BY <1>2, Going DEF CallOK
  <1> PICK b \in Boxes : b = call[c].box
    BY <1>2, <1>3, DestroyFacts
  <1>4. UNCHANGED <<entry, workspaces, rules, syncs>>
    BY DEF TerminateVm
  <1>5. GoneCall(c)
    BY <1>2, OwnFacts
  <1>6. CASE Fault(b, "terminate") /\ EndPart(c, FALSE, FALSE) /\ UNCHANGED vms
    BY <1>2, <1>3, <1>4, <1>6, DestroyEnds DEF Causes
  <1>7. CASE vms' = vms \ {b} /\ Place(c, "clean") /\ NoFault
    BY <1>1, <1>2, <1>3, <1>4, <1>5, <1>7, DestroyGoesOn DEF Removing, GoneCall
  <1> QED BY <1>6, <1>7 DEF TerminateVm

LEMMA CleanWorkspaceGone ==
  ASSUME FcInv, FcGoneInv, NEW c \in Calls, CleanWorkspace(c)
  PROVE  FcGoneInv'
  <1>1. call[c].pc = "clean"
    BY DEF CleanWorkspace, CallAt
  <1>2. call[c].pc \in Removing /\ call[c].pc # "idle"
    BY <1>1 DEF Removing
  <1>3. Head(call[c].todo) = "destroy" /\ call[c].box \notin vms
    BY <1>1, <1>2, Going DEF CallOK
  <1> PICK b \in Boxes : b = call[c].box
    BY <1>2, <1>3, DestroyFacts
  <1>4. UNCHANGED <<entry, vms, rules, syncs>>
    BY DEF CleanWorkspace, VmAlone
  <1>5. entry[b] = "none" /\ Stripped(b)
    BY <1>1, <1>2, <1>3, OwnFacts DEF GoneCall, Stripped
  <1>6. CASE workspaces' = workspaces \ {b} /\ EndPart(c, TRUE, FALSE) /\ NoFault
    <2>1. entry'[b] = "none" /\ Stripped(b)' /\ b \notin workspaces'
      BY <1>4, <1>5, <1>6 DEF Stripped
    <2> QED BY <1>2, <1>3, <1>4, <1>6, <2>1, DestroyEnds
  <1>7. CASE Fault(b, "workspace") /\ EndPart(c, FALSE, FALSE) /\ UNCHANGED workspaces
    BY <1>2, <1>3, <1>4, <1>7, DestroyEnds DEF Causes
  <1> QED BY <1>6, <1>7 DEF CleanWorkspace

-----------------------------------------------------------------------------
(* The beginning of a call, and what goes wrong from outside.              *)

LEMMA BeginGone ==
  ASSUME FcInv, FcGoneInv, NEW c \in Calls, NEW op \in Operations, NEW b \in Boxes, FcBegin(c, op, b)
  PROVE  FcGoneInv'
  <1>1. UNCHANGED <<entry, workspaces, vms, rules, syncs, blame>>
    BY DEF FcBegin, fcOwn, NoFault
  <1>2. call'[c] = [op |-> op, box |-> b, pc |-> "dispatch", todo |-> FcParts(op), undo |-> FALSE]
        /\ (\A d \in Calls : d # c => call'[d] = call[d])
    BY DEF FcBegin, BeginCall, FcInv
  <1>3. status' = status \/ (status[b] = "unborn" /\ status' = [status EXCEPT ![b] = "pending"])
    BY DEF FcBegin, BeginCall
  <1>4. ASSUME NEW d \in Calls PROVE GoneCall(d)'
    <2>1. CASE d = c
      BY <1>2, <2>1, FcPartsOK DEF GoneCall, Built, Removing, Commands
    <2>2. CASE d # c
      BY <1>1, <1>2, <2>2 DEF FcGoneInv, GoneCall, Built
    <2> QED BY <2>1, <2>2
  <1>5. ASSUME NEW a \in Boxes PROVE GoneBox(a)'
    <2>1. GoneBox(a) /\ (status'[a] = status[a] \/ status'[a] = "pending")
      BY <1>3 DEF FcGoneInv, FcInv, FcTypeOK, CallsTypeOK
    <2> QED BY <1>1, <2>1 DEF GoneBox, Stripped
  <1> QED BY <1>4, <1>5 DEF FcGoneInv

LEMMA DropGone ==
  ASSUME FcInv, FcGoneInv, NEW c \in Calls, FcDrop(c)
  PROVE  FcGoneInv'
  <1>1. call[c].pc # "idle"
    BY DEF FcDrop, DropCall, CallAt
  <1> PICK b \in Boxes : b = call[c].box
    BY <1>1, Going
  <1>2. Fault(b, "dropped") /\ call' = [call EXCEPT ![c] = NoCall]
        /\ status' = (IF status[b] = "pending" THEN [status EXCEPT ![b] = "failed"] ELSE status)
    BY DEF FcDrop, DropCall
  <1>3. call'[c] = NoCall /\ \A d \in Calls : d # c => call'[d] = call[d]
    BY <1>2 DEF FcInv
  <1>4. GoneCall(c)'
    BY <1>3 DEF GoneCall, Built, NoCall, Removing, Commands
  <1>5. GoneCall(c) /\ GoneBox(b)
        /\ IF Creates(c) THEN status[b] = "pending" ELSE status[b] \in {"live", "destroyed"}
    BY <1>1, OwnFacts
  <1>6. /\ blame'[b] = blame[b] \cup {"dropped"}
        /\ \A a \in Boxes : a # b => blame'[a] = blame[a]
    BY <1>2, FaultAt
  <1>7. /\ IF Creates(c) THEN status'[b] = "failed" ELSE status'[b] = status[b]
        /\ \A a \in Boxes : a # b => status'[a] = status[a]
    BY <1>2, <1>5 DEF FcInv, FcTypeOK, CallsTypeOK
  <1>8. UNCHANGED <<entry, syncs>>
    BY DEF FcDrop
  <1>9. /\ \A a \in Boxes : a # b => rules'[a] = rules[a]
        /\ b \notin Networked => rules'[b] \subseteq rules[b]
        /\ ~Creates(c) => rules'[b] \subseteq rules[b]
    <2>1. call[c].pc \in Commands => Creates(c) /\ b \in Networked
      <3>1. call[c].pc \in Commands => Head(call[c].todo) = "create"
        BY <1>1, Going DEF CallOK, Early
      <3> QED BY <1>1, <1>5, <3>1, CreateFacts DEF GoneCall
    <2>2. \/ rules' = rules
          \/ call[c].pc \in Commands /\ rules' = [rules EXCEPT ![b] = @ \cup {call[c].pc}]
          \/ \E off : rules' = [rules EXCEPT ![b] = @ \ off]
      <3>1. rules[b] = rules[b] \ {}
        OBVIOUS
      <3> QED BY <3>1 DEF FcDrop
    <2> QED BY <2>1, <2>2 DEF FcInv, FcTypeOK
  <1>10. /\ \A a \in Boxes : a # b => (a \in vms' => a \in vms) /\ (a \in workspaces' => a \in workspaces)
         /\ ~Creates(c) => vms' \subseteq vms /\ workspaces' \subseteq workspaces
    <2>1. At(c, "create") => Creates(c)
      BY <1>1, CreateFacts DEF At, Part
    <2>2. CallAt(c, "prepare") => Creates(c)
      <3>1. CallAt(c, "prepare") => Head(call[c].todo) = "create"
        BY <1>1, Going DEF CallOK, Early, CallAt
      <3> QED BY <1>1, <3>1, CreateFacts
    <2>3. /\ vms' \subseteq vms \/ (At(c, "create") /\ vms' = vms \cup {b})
          /\ \/ workspaces' \subseteq workspaces
             \/ CallAt(c, "prepare") /\ workspaces' = workspaces \cup {b}
      BY DEF FcDrop
    <2> QED BY <2>1, <2>2, <2>3
  <1>11. OnlyAt(c, b)
    BY <1>3, <1>6, <1>7, <1>8, <1>9, <1>10 DEF OnlyAt
  <1>12. GoneBox(b)'
    BY <1>5, <1>6, <1>7, <1>8, <1>9, <1>10 DEF GoneBox, Stripped
  <1> QED BY <1>1, <1>4, <1>11, <1>12, GoneStep

LEMMA RestartGone ==
  ASSUME FcInv, FcGoneInv, FcRestarts
  PROVE  FcGoneInv'
  <1>1. /\ entry' = [b \in Boxes |-> "none"]
        /\ call' = [c \in Calls |-> NoCall]
        /\ status' = [b \in Boxes |-> IF b \in Pending THEN "failed" ELSE status[b]]
        /\ syncs' = {} /\ UNCHANGED <<workspaces, vms, rules>>
    BY DEF FcRestarts, ForgetCalls
  <1>2. blame' = [b \in Boxes |-> IF entry[b] # "none" \/ status[b] \in {"pending", "live"}
                                  THEN blame[b] \cup {"lost"} ELSE blame[b]]
    BY DEF FcRestarts
  <1>3. ASSUME NEW c \in Calls PROVE GoneCall(c)'
    BY <1>1 DEF GoneCall, Built, NoCall, Removing, Commands
  <1>4. ASSUME NEW b \in Boxes PROVE GoneBox(b)'
    <2>1. CASE status[b] = "pending"
      <3>1. status'[b] = "failed" /\ "lost" \in blame'[b] /\ GoneBox(b)
        BY <1>1, <1>2, <2>1 DEF Pending, FcGoneInv
      <3> QED BY <1>1, <3>1 DEF GoneBox
    <2>2. CASE status[b] # "pending"
      <3>1. status'[b] = status[b] /\ blame[b] \subseteq blame'[b] /\ GoneBox(b) /\ entry'[b] = "none"
        BY <1>1, <1>2, <2>2 DEF Pending, FcGoneInv
      <3> QED BY <1>1, <3>1 DEF GoneBox, Stripped
    <2> QED BY <2>1, <2>2
  <1> QED BY <1>3, <1>4 DEF FcGoneInv

LEMMA GoneUntouched ==
  ASSUME FcGoneInv, UNCHANGED <<entry, workspaces, call, status, blame, vms, rules, syncs>>
  PROVE  FcGoneInv'
  BY DEF FcGoneInv, GoneCall, GoneBox, Built, Stripped

LEMMA FcGoneInit == FcInit => FcGoneInv
  BY DEF FcInit, CallsInit, FcGoneInv, GoneCall, GoneBox, Built, Stripped, NoCall, Removing, Commands

LEMMA FcGoneStep == FcInv /\ FcGoneInv /\ [FcNext]_fcVars => FcGoneInv'
  <1> SUFFICES ASSUME FcInv, FcGoneInv, [FcNext]_fcVars PROVE FcGoneInv'
    OBVIOUS
  <1>1. ASSUME NEW c \in Calls, NEW op \in Operations, NEW b \in Boxes, FcBegin(c, op, b)
        PROVE  FcGoneInv'
    BY <1>1, BeginGone
  <1>2. ASSUME NEW c \in Calls, FcGoesOn(c) PROVE FcGoneInv'
    BY <1>2, AskingGone, CreateGone, InsertGone, RestoreGone, RemoveEntryGone, TeardownGone,
       TerminateVmGone, CleanWorkspaceGone DEF FcGoesOn
  <1>3. ASSUME NEW c \in Calls, FcDrop(c) PROVE FcGoneInv'
    BY <1>3, DropGone
  <1>4. CASE AgentComesUp \/ AgentDies
    BY <1>4, GoneUntouched DEF AgentComesUp, AgentDies
  <1>5. CASE FcRestarts
    BY <1>5, RestartGone
  <1>6. CASE UNCHANGED fcVars
    BY <1>6, GoneUntouched DEF fcVars, fcOwn, callVars
  <1> QED BY <1>1, <1>2, <1>3, <1>4, <1>5, <1>6 DEF FcNext

LEMMA FcGoneAlways == FcSpec => []FcGoneInv
  BY FcInitInv, FcGoneInit, FcStep, FcGoneStep, PTL DEF FcSpec

LEMMA FcGoneSays == FcGoneInv => FcDestroyedIsGone /\ FcRestoreUndone
  BY DEF FcGoneInv, GoneBox, Stripped, FcDestroyedIsGone, FcRestoreUndone

\* A sandbox that destroy reported gone has no VM, no refresh task and no rule but the shared
\* masquerading, and a directory only if a call that had looked it up came to the agent
\* later: the steps of destroy take them away in turn, with the mutex held and no entry in
\* the map, and nothing that is left under way can bring them back (destroy).
THEOREM FcGone == FcSpec => []FcDestroyedIsGone
  BY FcGoneAlways, FcGoneSays, PTL

\* A restore that is refused for its shared workspace, or whose archive cannot be unpacked,
\* destroys what its create made: nobody else knows the sandbox, so that its entry is still
\* there and all of the destroy runs (restore_snapshot).
THEOREM FcUndone == FcSpec => []FcRestoreUndone
  BY FcGoneAlways, FcGoneSays, PTL
=============================================================================
