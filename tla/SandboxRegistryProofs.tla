----------------------- MODULE SandboxRegistryProofs -----------------------
(***************************************************************************)
(* Types, what a name stands for, the refinement of NameDirectory, and the *)
(* agreement of the map, the rows, the bindings and the backend, for any   *)
(* number of requests, names, sandboxes and snapshots and any number of    *)
(* failures and restarts.                                                  *)
(*                                                                         *)
(* RegistryInv says what the name, the sandbox and the snapshot in a       *)
(* request's hand still are when it writes them to the affinities.         *)
(* ControlInv, relative to it, says what a creation, a destruction and the *)
(* hydration may take for granted of the sandbox in hand (SoundInv,        *)
(* HydrationInv) and which of them is to blame for each difference between *)
(* the backend and what is known of it (AgreeInv).  Most steps are Quiet   *)
(* for it; each of the others is shown at the one sandbox it changes.      *)
(* A name passes to another sandbox at its binding, until when its creator *)
(* alone has it (Alone).                                                   *)
(***************************************************************************)
EXTENDS SandboxRegistry, TLAPS

\* Places with a sandbox in hand, and calls that begin with one or with a name.
HasSandbox == {"bind", "row", "map", "inspect", "clear", "config", "prepare", "start",
               "processes", "purge", "reclaim", "destroy", "unmap", "unbind", "unrow",
               "forget", "lookup", "record", "archive", "remember"}
BeginsWithSandbox == {"snapshot", "target", "expire", "destroy"}
BeginsWithName == {"find", "resolve", "run", "auto"}

\* A request in local state q has in hand what it needs ...
HandOK(q) ==
    /\ q \in Request
    /\ q.pc \in HasSandbox => q.s # None
    /\ q.pc \in {"enter", "hydrate"} =>
          /\ q.op # "none"
          /\ q.op \in BeginsWithSandbox => q.s # None
          /\ q.op \in BeginsWithName => q.name # Unnamed
    /\ q.pc \in {"bind", "remember", "affinity"} => q.name # Unnamed
    /\ q.pc \in {"archive", "remember"} => q.k # None

\* ... and what it will write to the affinities is so.
Claims(q, names, snapshots, files) ==
    /\ q.pc = "bind" => names[q.s] = q.name
    /\ q.pc \in {"archive", "remember"} => snapshots[q.k] = q.name
    /\ q.pc = "remember" => q.k \in files
ClaimsOK(q) == Claims(q, named, snaps, artifacts)

\* A sandbox is bound by one request only.
OneBinder ==
    \A r, x \in Requests :
        At(r, "bind") /\ At(x, "bind") /\ req[r].s = req[x].s => r = x

DirectoryTyped ==
    /\ named \in [Sandboxes -> Configs \cup {Absent}]
    /\ affinity \in [Names -> [sandbox : Sandboxes \cup {None}, snapshot : Snapshots \cup {None}]]
    /\ snaps \in [Snapshots -> Configs \cup {Absent}]
    /\ artifacts \in SUBSET Snapshots

RestTyped ==
    /\ live \in SUBSET Sandboxes
    /\ known \in [Sandboxes -> Configs \cup {Absent}]
    /\ rows \in [Sandboxes -> Configs \cup {Absent}]
    /\ owned \in SUBSET Sandboxes
    /\ hydrated \in BOOLEAN
    /\ hydrating \in Requests \cup {None}
    /\ told \in [Sandboxes -> {"no", "early", "yes"}]
    /\ intact \in BOOLEAN
    /\ damaged \in SUBSET Sandboxes
    /\ aborts \in 0 .. MaxAborts
    /\ restarts \in 0 .. MaxRestarts

RegistryInv ==
    /\ DirectoryTyped
    /\ RestTyped
    /\ req \in [Requests -> Request]
    /\ \A r \in Requests : HandOK(req[r]) /\ ClaimsOK(req[r])
    /\ OneBinder
    /\ \A k \in artifacts : snaps[k] # Absent
    /\ AffinityIsOwn

\* What each step leaves alone: who is about to bind, but for a new sandbox, and which
\* sandboxes there have been.
Keeps ==
    /\ \A x \in Requests :
          req'[x].pc = "bind" => req'[x] = req[x] \/ named[req'[x].s] = Absent
    /\ \A s \in Sandboxes : named[s] # Absent => named'[s] = named[s]

-----------------------------------------------------------------------------
\* No sandbox and no snapshot is the number 0.
LEMMA Ids == None \notin Sandboxes /\ None \notin Snapshots /\ None \notin Requests
BY RegistryAssumption DEF None, Sandboxes, Snapshots

\* No entry is no name.
LEMMA Entries == Absent \notin Configs /\ Unnamed \in Configs /\ Names = Configs \ {Unnamed}
BY RegistryAssumption DEF Configs

\* A request that has ended.
LEMMA IdleOK == HandOK(Idle) /\ ClaimsOK(Idle) /\ Idle.pc = "idle"
<1>1. Idle \in Request
      BY Entries DEF Idle, Request, Ops, Places
<1> QED BY <1>1 DEF Idle, HandOK, ClaimsOK, Claims, HasSandbox

\* Where a call begins, once the server is hydrated.
LEMMA FirstOK ==
    ASSUME NEW q \in Request, q.op # "none", q.op \in BeginsWithSandbox => q.s # None,
           q.op \in BeginsWithName => q.name # Unnamed
    PROVE  LET n == [q EXCEPT !.pc = First(q.op)] IN
           HandOK(n) /\ ClaimsOK(n) /\ n.pc # "bind"
<1> DEFINE n == [q EXCEPT !.pc = First(q.op)]
<1>1. /\ First(q.op) \in {"create", "load", "lookup", "affinity", "config", "purge", "processes"}
      /\ First(q.op) \in {"lookup", "config", "purge", "processes"} => q.op \in BeginsWithSandbox
      /\ First(q.op) = "affinity" => q.op \in BeginsWithName
      <2>1. q.op \in Ops \ {"none"}
            BY DEF Request
      <2>2. CASE q.op \in {"create", "new"} BY <2>2 DEF First
      <2>3. CASE q.op = "restore" BY <2>3 DEF First
      <2>4. CASE q.op = "snapshot" BY <2>4 DEF First, BeginsWithSandbox
      <2>5. CASE q.op \in {"find", "resolve", "run", "auto"} BY <2>5 DEF First, BeginsWithName
      <2>6. CASE q.op = "target" BY <2>6 DEF First, BeginsWithSandbox
      <2>7. CASE q.op = "expire" BY <2>7 DEF First, BeginsWithSandbox
      <2>8. CASE q.op = "destroy" BY <2>8 DEF First, BeginsWithSandbox
      <2> QED BY <2>1, <2>2, <2>3, <2>4, <2>5, <2>6, <2>7, <2>8 DEF Ops
<1>2. n \in Request /\ n.pc = First(q.op) /\ n.s = q.s /\ n.name = q.name
      BY <1>1 DEF Request, Places
<1> QED BY <1>1, <1>2 DEF HandOK, ClaimsOK, Claims, HasSandbox

\* A step of one request that leaves the names alone keeps the invariant if its next
\* local state is in order.
LEMMA Moves ==
    ASSUME RegistryInv, NEW r \in Requests, NEW q, Set(r, q), HandOK(q), ClaimsOK(q),
           q.pc # "bind", UNCHANGED <<named, affinity, snaps, artifacts>>, RestTyped'
    PROVE  RegistryInv' /\ Keeps
<1>1. req' \in [Requests -> Request] /\ req'[r] = q
      BY DEF RegistryInv, Set, HandOK
<1>2. \A x \in Requests \ {r} : req'[x] = req[x]
      BY DEF RegistryInv, Set
<1>3. \A x \in Requests : HandOK(req'[x]) /\ ClaimsOK(req'[x])
      BY <1>1, <1>2 DEF RegistryInv
<1>4. (\A x \in Requests : HandOK(req[x]) /\ ClaimsOK(req[x]))'
      BY <1>3 DEF ClaimsOK, Claims
<1>5. OneBinder'
      BY <1>1, <1>2 DEF RegistryInv, OneBinder, At
<1>6. DirectoryTyped' /\ AffinityIsOwn' /\ (\A k \in artifacts : snaps[k] # Absent)'
      BY DEF RegistryInv, DirectoryTyped, AffinityIsOwn
<1>7. Keeps
      BY <1>1, <1>2 DEF Keeps
<1> QED BY <1>1, <1>4, <1>5, <1>6, <1>7 DEF RegistryInv

LEMMA Returns ==
    ASSUME RegistryInv, NEW r \in Requests, Return(r),
           UNCHANGED <<named, affinity, snaps, artifacts>>, RestTyped'
    PROVE  RegistryInv' /\ Keeps
<1>1. Idle.pc # "bind"
      BY DEF Idle
<1> QED BY <1>1, IdleOK, Moves DEF Return

\* Where a request goes that needs no more than what it has in hand.
LEMMA Goes ==
    ASSUME RegistryInv, NEW r \in Requests, NEW place \in Places,
           place \notin {"enter", "hydrate", "bind", "archive", "remember", "affinity"},
           place \in HasSandbox => req[r].s # None,
           Goto(r, place), UNCHANGED <<named, affinity, snaps, artifacts>>, RestTyped'
    PROVE  RegistryInv' /\ Keeps
<1> DEFINE q == [req[r] EXCEPT !.pc = place]
<1>1. req[r] \in Request
      BY DEF RegistryInv
<1>2. q \in Request /\ q.pc = place /\ q.s = req[r].s
      BY <1>1 DEF Request
<1>3. HandOK(q) /\ ClaimsOK(q) /\ q.pc # "bind"
      BY <1>2 DEF HandOK, ClaimsOK, Claims
<1>4. Set(r, q)
      BY DEF Goto
<1> HIDE DEF q
<1> QED BY <1>3, <1>4, Moves

-----------------------------------------------------------------------------
\* The steps of one request, by what they are part of.

LEMMA CallStep ==
    ASSUME RegistryInv, NEW r \in Requests, NEW op \in Ops \ {"none"}, NEW q \in Request,
           Call(r, op, q), op \in BeginsWithSandbox => q.s # None,
           op \in BeginsWithName => q.name # Unnamed
    PROVE  RegistryInv' /\ Keeps
<1> DEFINE n == [q EXCEPT !.op = op, !.pc = IF hydrated THEN First(op) ELSE "enter"]
           m == [q EXCEPT !.op = op]
<1>1. m \in Request /\ m.op = op /\ m.s = q.s /\ m.name = q.name
      BY DEF Request
<1>2. HandOK(n) /\ ClaimsOK(n) /\ n.pc # "bind"
  <2>1. CASE hydrated
    <3>1. n = [m EXCEPT !.pc = First(m.op)]
          BY <2>1 DEF Request
    <3> HIDE DEF m, n
    <3> QED BY <3>1, <1>1, FirstOK
  <2>2. CASE ~hydrated
    <3>1. n \in Request /\ n.pc = "enter" /\ n.op = op /\ n.s = q.s /\ n.name = q.name
          BY <2>2 DEF Request, Places
    <3> QED BY <3>1 DEF HandOK, ClaimsOK, Claims, HasSandbox
  <2> QED BY <2>1, <2>2
<1>3. Set(r, n) /\ UNCHANGED <<named, affinity, snaps, artifacts>>
      BY DEF Call, OnlyRequest, store
<1>4. RestTyped'
      BY DEF Call, OnlyRequest, store, hydration, failures, RegistryInv, RestTyped
<1> HIDE DEF n
<1> QED BY <1>2, <1>3, <1>4, Moves

LEMMA BeginStep ==
    ASSUME RegistryInv, NEW r \in Requests, Begin(r)
    PROVE  RegistryInv' /\ Keeps
<1>1. Idle \in Request
      BY IdleOK DEF HandOK
<1>2. CASE Create(r)
  <2>1. PICK op \in {"create", "new"}, c \in Configs : Call(r, op, [Idle EXCEPT !.name = c])
        BY <1>2 DEF Create
  <2>2. [Idle EXCEPT !.name = c] \in Request
        BY <1>1 DEF Request, Idle
  <2> QED BY <2>1, <2>2, CallStep DEF Ops, BeginsWithSandbox, BeginsWithName
<1>3. CASE RestoreSnapshot(r)
  <2>1. PICK k \in Snapshots : Call(r, "restore", [Idle EXCEPT !.k = k])
        BY <1>3 DEF RestoreSnapshot
  <2>2. [Idle EXCEPT !.k = k] \in Request
        BY <1>1 DEF Request, Idle
  <2> QED BY <2>1, <2>2, CallStep DEF Ops, BeginsWithSandbox, BeginsWithName
<1>4. CASE Resolve(r)
  <2>1. PICK op \in {"find", "resolve", "run", "auto"}, n \in Names :
            Call(r, op, [Idle EXCEPT !.name = n])
        BY <1>4 DEF Resolve
  <2>2. [Idle EXCEPT !.name = n] \in Request /\ [Idle EXCEPT !.name = n].name # Unnamed
        BY <1>1, Entries DEF Request, Idle
  <2> QED BY <2>1, <2>2, CallStep DEF Ops, BeginsWithSandbox, BeginsWithName
<1>5. CASE OnSandbox(r)
  <2>1. PICK op \in {"snapshot", "target", "destroy"}, s \in Sandboxes :
            Call(r, op, [Idle EXCEPT !.s = s])
        BY <1>5 DEF OnSandbox
  <2>2. [Idle EXCEPT !.s = s] \in Request /\ [Idle EXCEPT !.s = s].s # None
        BY <1>1, Ids DEF Request, Idle
  <2> QED BY <2>1, <2>2, CallStep DEF Ops, BeginsWithName
<1>6. CASE Expire(r)
  <2>1. PICK s \in owned : Call(r, "expire", [Idle EXCEPT !.s = s, !.purging = TRUE])
        BY <1>6 DEF Expire
  <2> DEFINE q == [Idle EXCEPT !.s = s, !.purging = TRUE]
  <2>2. s \in Sandboxes
        BY DEF RegistryInv, RestTyped
  <2>3. q \in Request /\ q.s # None
        BY <1>1, <2>2, Ids DEF Request, Idle
  <2> HIDE DEF q
  <2> QED BY <2>1, <2>3, CallStep DEF Ops, BeginsWithName, q
<1> QED BY <1>2, <1>3, <1>4, <1>5, <1>6 DEF Begin

\* A failure is counted within the bound.
LEMMA Counted ==
    ASSUME RestTyped, aborts < MaxAborts, aborts' = aborts + 1
    PROVE  aborts' \in 0 .. MaxAborts
<1>1. aborts \in Nat /\ MaxAborts \in Nat
      BY RegistryAssumption DEF RestTyped
<1> QED BY <1>1

-----------------------------------------------------------------------------
\* ensure_hydrated.
LEMMA HydrationStep ==
    ASSUME RegistryInv, NEW r \in Requests,
           Enter(r) \/ Hydrate(r) \/ HydrateOne(r) \/ HydrateFlakes(r) \/ Hydrated(r)
    PROVE  RegistryInv' /\ Keeps
<1> DEFINE first == [req[r] EXCEPT !.pc = First(req[r].op)]
<1>1. HandOK(req[r]) /\ req[r] \in Request
      BY DEF RegistryInv, HandOK
<1>2. req[r].pc \in {"enter", "hydrate"} =>
          HandOK(first) /\ ClaimsOK(first) /\ first.pc # "bind"
      BY <1>1, FirstOK DEF HandOK
<1> HIDE DEF first
<1>3. CASE Enter(r)
  <2>1. Set(r, first) /\ UNCHANGED <<named, affinity, snaps, artifacts>>
        BY <1>3 DEF Enter, Goto, OnlyRequest, store, first
  <2>2. RestTyped'
        BY <1>3 DEF Enter, OnlyRequest, store, hydration, failures, RegistryInv, RestTyped
  <2> QED BY <1>2, <1>3, <2>1, <2>2, Moves DEF Enter, At
<1>4. CASE Hydrate(r)
  <2> DEFINE q == [req[r] EXCEPT !.pc = "hydrate", !.todo = {s \in Sandboxes : rows[s] # Absent}]
  <2>1. q \in Request /\ q.pc = "hydrate" /\ q.op = req[r].op /\ q.s = req[r].s
            /\ q.name = req[r].name
        BY <1>1 DEF Request, Places
  <2>2. HandOK(q) /\ ClaimsOK(q) /\ q.pc # "bind"
        BY <1>1, <1>4, <2>1 DEF HandOK, ClaimsOK, Claims, HasSandbox, Hydrate, At
  <2>3. Set(r, q) /\ UNCHANGED <<named, affinity, snaps, artifacts>>
        BY <1>4 DEF Hydrate, store
  <2>4. RestTyped'
        BY <1>4 DEF Hydrate, store, NoFailure, failures, RegistryInv, RestTyped
  <2> HIDE DEF q
  <2> QED BY <2>2, <2>3, <2>4, Moves
<1>5. CASE HydrateOne(r) \/ HydrateFlakes(r)
  <2>1. PICK s \in req[r].todo, f \in BOOLEAN :
            Set(r, [req[r] EXCEPT !.todo = @ \ {s}, !.flaky = f])
    <3>1. CASE HydrateOne(r)
      <4>1. PICK s \in req[r].todo : Set(r, [req[r] EXCEPT !.todo = @ \ {s}])
            BY <3>1 DEF HydrateOne
      <4>2. [req[r] EXCEPT !.todo = @ \ {s}]
                = [req[r] EXCEPT !.todo = @ \ {s}, !.flaky = req[r].flaky]
            BY <1>1 DEF Request
      <4>3. req[r].flaky \in BOOLEAN
            BY <1>1 DEF Request
      <4> QED BY <4>1, <4>2, <4>3
    <3>2. CASE HydrateFlakes(r)
          BY <3>2 DEF HydrateFlakes
    <3> QED BY <1>5, <3>1, <3>2
  <2> DEFINE q == [req[r] EXCEPT !.todo = @ \ {s}, !.flaky = f]
  <2>2. q \in Request /\ q.pc = req[r].pc /\ q.op = req[r].op /\ q.s = req[r].s
            /\ q.name = req[r].name
        BY <1>1 DEF Request
  <2>3. HandOK(q) /\ ClaimsOK(q) /\ q.pc # "bind"
        BY <1>1, <1>5, <2>2 DEF HandOK, ClaimsOK, Claims, HasSandbox, HydrateOne, HydrateFlakes, At
  <2>4. UNCHANGED <<named, affinity, snaps, artifacts>>
        BY <1>5 DEF HydrateOne, HydrateFlakes, store
  <2>5. RestTyped'
    <3>1. CASE HydrateOne(r)
          BY <3>1 DEF HydrateOne, store, hydration, NoFailure, failures, RegistryInv, RestTyped
    <3>2. CASE HydrateFlakes(r)
      <4>1. aborts' \in 0 .. MaxAborts
            BY <3>2, Counted DEF HydrateFlakes, RegistryInv
      <4> QED BY <3>2, <4>1 DEF HydrateFlakes, store, hydration, RegistryInv, RestTyped
    <3> QED BY <1>5, <3>1, <3>2
  <2> HIDE DEF q
  <2> QED BY <2>1, <2>3, <2>4, <2>5, Moves DEF q
<1>6. CASE Hydrated(r)
  <2>1. RestTyped'
        BY <1>1, <1>6 DEF Hydrated, store, NoFailure, failures, RegistryInv, RestTyped, Request
  <2>2. UNCHANGED <<named, affinity, snaps, artifacts>>
        BY <1>6 DEF Hydrated, store
  <2>3. CASE req[r].flaky
        BY <1>6, <2>1, <2>2, <2>3, Returns DEF Hydrated
  <2>4. CASE ~req[r].flaky
    <3>1. Set(r, first)
          BY <1>6, <2>4 DEF Hydrated, Goto, first
    <3> QED BY <1>2, <1>6, <2>1, <2>2, <3>1, Moves DEF Hydrated, At
  <2> QED BY <2>3, <2>4
<1> QED BY <1>3, <1>4, <1>5, <1>6

\* A step that changes the affinities, or creates a sandbox or a snapshot: what other
\* requests have in hand stays as it was.
LEMMA Grows ==
    ASSUME RegistryInv, NEW r \in Requests, NEW q, Set(r, q), HandOK(q),
           Claims(q, named', snaps', artifacts'),
           q.pc = "bind" => named[q.s] = Absent,
           \A s \in Sandboxes : named[s] # Absent => named'[s] = named[s],
           \A k \in Snapshots : snaps[k] # Absent => snaps'[k] = snaps[k],
           artifacts \subseteq artifacts',
           DirectoryTyped', RestTyped', (\A k \in artifacts : snaps[k] # Absent)',
           AffinityIsOwn'
    PROVE  RegistryInv' /\ Keeps
<1>1. req' \in [Requests -> Request] /\ req'[r] = q
      BY DEF RegistryInv, Set, HandOK
<1>2. \A x \in Requests \ {r} : req'[x] = req[x]
      BY DEF RegistryInv, Set
<1>3. ASSUME NEW x \in Requests \ {r}
      PROVE  /\ HandOK(req[x]) /\ Claims(req[x], named', snaps', artifacts')
             /\ req[x].pc = "bind" => req[x].s \in Sandboxes /\ named[req[x].s] # Absent
  <2>1. HandOK(req[x]) /\ ClaimsOK(req[x]) /\ req[x] \in Request
        BY DEF RegistryInv
  <2>2. req[x].name \in Configs /\ req[x].name # Absent
        BY <2>1, Entries DEF Request
  <2>3. CASE req[x].pc = "bind"
    <3>1. req[x].s \in Sandboxes
          BY <2>1, <2>3 DEF HandOK, HasSandbox, Request
    <3> QED BY <2>1, <2>2, <2>3, <3>1 DEF ClaimsOK, Claims
  <2>4. CASE req[x].pc \in {"archive", "remember"}
    <3>1. req[x].k \in Snapshots
          BY <2>1, <2>4 DEF HandOK, Request
    <3> QED BY <2>1, <2>2, <2>4, <3>1 DEF ClaimsOK, Claims
  <2>5. CASE req[x].pc \notin {"bind", "archive", "remember"}
        BY <2>1, <2>5 DEF ClaimsOK, Claims
  <2> QED BY <2>3, <2>4, <2>5
<1>4. (\A x \in Requests : HandOK(req[x]) /\ ClaimsOK(req[x]))'
  <2>1. SUFFICES ASSUME NEW x \in Requests
                 PROVE  HandOK(req'[x]) /\ Claims(req'[x], named', snaps', artifacts')
        BY DEF ClaimsOK
  <2>2. CASE x = r
        BY <1>1, <2>2 DEF ClaimsOK, Claims
  <2>3. CASE x # r
        BY <1>2, <1>3, <2>3 DEF ClaimsOK, Claims
  <2> QED BY <2>2, <2>3
<1>5. OneBinder'
  <2>1. SUFFICES ASSUME NEW x \in Requests, NEW y \in Requests, req'[x].pc = "bind",
                        req'[y].pc = "bind", req'[x].s = req'[y].s
                 PROVE  x = y
        BY DEF OneBinder, At
  <2>2. CASE x = r /\ y # r
        BY <1>1, <1>2, <1>3, <2>1, <2>2
  <2>3. CASE x # r /\ y = r
        BY <1>1, <1>2, <1>3, <2>1, <2>3
  <2>4. CASE x # r /\ y # r
        BY <1>2, <2>1, <2>4 DEF RegistryInv, OneBinder, At
  <2> QED BY <2>2, <2>3, <2>4
<1>6. Keeps
      BY <1>1, <1>2 DEF Keeps
<1> QED BY <1>1, <1>4, <1>5, <1>6 DEF RegistryInv

-----------------------------------------------------------------------------
\* create_sandbox and restore_snapshot.
LEMMA NewSandboxStep ==
    ASSUME RegistryInv, NEW r \in Requests, NewSandbox(r)
    PROVE  RegistryInv' /\ Keeps
<1>1. req[r] \in Request
      BY DEF RegistryInv
<1>2. UNCHANGED <<known, affinity, rows, snaps, artifacts, owned, hydrated, hydrating, told,
                  intact, damaged, aborts, restarts>>
      BY DEF NewSandbox, store, hydration, NoFailure, failures
<1>3. CASE \E s \in Fresh(named) :
              /\ live' = live \cup {s}
              /\ named' = [named EXCEPT ![s] = req[r].name]
              /\ Set(r, [req[r] EXCEPT !.s = s,
                            !.pc = IF req[r].name = Unnamed THEN "row" ELSE "bind"])
  <2>1. PICK s \in Fresh(named) :
              /\ live' = live \cup {s}
              /\ named' = [named EXCEPT ![s] = req[r].name]
              /\ Set(r, [req[r] EXCEPT !.s = s,
                            !.pc = IF req[r].name = Unnamed THEN "row" ELSE "bind"])
        BY <1>3
  <2> DEFINE q == [req[r] EXCEPT !.s = s,
                       !.pc = IF req[r].name = Unnamed THEN "row" ELSE "bind"]
  <2>2. s \in Sandboxes /\ named[s] = Absent /\ s # None
        BY Ids DEF Fresh, RegistryInv, DirectoryTyped
  <2>3. /\ q \in Request
        /\ q.s = s
        /\ q.name = req[r].name
        /\ q.name = Unnamed => q.pc = "row"
        /\ q.name # Unnamed => q.pc = "bind"
        BY <1>1, <2>2 DEF Request, Places
  <2>4. Set(r, q)
        BY <2>1
  <2> HIDE DEF q
  <2>5. /\ named' \in [Sandboxes -> Configs \cup {Absent}]
        /\ named'[s] = q.name
        /\ \A x \in Sandboxes : named[x] # Absent => named'[x] = named[x]
        BY <1>1, <2>1, <2>2, <2>3 DEF RegistryInv, DirectoryTyped, Request
  <2>6. HandOK(q) /\ Claims(q, named', snaps', artifacts')
        BY <2>2, <2>3, <2>5 DEF HandOK, ClaimsOK, Claims
  <2>7. DirectoryTyped' /\ RestTyped' /\ (\A k \in artifacts : snaps[k] # Absent)'
        BY <1>2, <2>1, <2>2, <2>5 DEF RegistryInv, DirectoryTyped, RestTyped
  <2>8. AffinityIsOwn'
    <3>1. \A n \in Names : affinity[n].sandbox \in Sandboxes \cup {None} /\ n # Absent
          BY Entries DEF RegistryInv, DirectoryTyped
    <3> QED BY <1>2, <2>5, <3>1 DEF RegistryInv, AffinityIsOwn
  <2> QED BY <1>2, <2>2, <2>3, <2>4, <2>5, <2>6, <2>7, <2>8, Grows
<1>4. CASE Return(r) /\ UNCHANGED <<live, named>>
  <2>1. RestTyped'
        BY <1>2, <1>4 DEF RegistryInv, RestTyped
  <2> QED BY <1>2, <1>4, <2>1, Returns
<1> QED BY <1>3, <1>4 DEF NewSandbox

LEMMA CreationStep ==
    ASSUME RegistryInv, NEW r \in Requests,
           BackendCreate(r) \/ BackendRestore(r) \/ BindSandbox(r) \/ UpsertActive(r)
               \/ InsertKnown(r)
    PROVE  RegistryInv' /\ Keeps
<1>1. req[r] \in Request /\ HandOK(req[r]) /\ ClaimsOK(req[r])
      BY DEF RegistryInv
<1>2. CASE BackendCreate(r) \/ BackendRestore(r)
      BY <1>2, NewSandboxStep DEF BackendCreate, BackendRestore
<1>3. CASE BindSandbox(r)
  <2> DEFINE q == [req[r] EXCEPT !.pc = "row"]
  <2>1. q \in Request /\ q.pc = "row" /\ q.s = req[r].s
        BY <1>1 DEF Request, Places
  <2>2. Set(r, q)
        BY <1>3 DEF BindSandbox, Goto
  <2> HIDE DEF q
  <2>3. req[r].s \in Sandboxes /\ req[r].s # None /\ req[r].name \in Names
        BY <1>1, <1>3, Entries DEF BindSandbox, At, HandOK, HasSandbox, Request
  <2>4. HandOK(q) /\ Claims(q, named', snaps', artifacts') /\ q.pc # "bind"
        BY <2>1, <2>3 DEF HandOK, Claims
  <2>5. UNCHANGED <<named, snaps, artifacts>>
        BY <1>3 DEF BindSandbox
  <2>6. /\ affinity' \in [Names -> [sandbox : Sandboxes \cup {None},
                                    snapshot : Snapshots \cup {None}]]
        /\ affinity'[req[r].name].sandbox = req[r].s
        /\ affinity'[req[r].name].snapshot = affinity[req[r].name].snapshot
        /\ \A n \in Names \ {req[r].name} : affinity'[n] = affinity[n]
        BY <1>3, <2>3 DEF BindSandbox, RegistryInv, DirectoryTyped
  <2>7. named[req[r].s] = req[r].name
        BY <1>1, <1>3 DEF BindSandbox, At, ClaimsOK, Claims
  <2>8. AffinityIsOwn'
        BY <2>5, <2>6, <2>7 DEF RegistryInv, AffinityIsOwn
  <2>9. RestTyped' /\ DirectoryTyped' /\ (\A k \in artifacts : snaps[k] # Absent)'
        BY <1>3, <2>6 DEF BindSandbox, hydration, NoFailure, failures, RegistryInv, RestTyped,
                          DirectoryTyped
  <2> QED BY <2>2, <2>4, <2>5, <2>8, <2>9, Grows
<1>4. CASE UpsertActive(r)
  <2>1. req[r].s # None
        BY <1>1, <1>4 DEF UpsertActive, At, HandOK, HasSandbox
  <2>2. RestTyped'
        BY <1>1, <1>4, <2>1 DEF UpsertActive, hydration, NoFailure, failures, RegistryInv,
                                RestTyped, Request
  <2>3. Goto(r, "map") /\ UNCHANGED <<named, affinity, snaps, artifacts>>
        BY <1>4 DEF UpsertActive
  <2> QED BY <2>1, <2>2, <2>3, Goes DEF Places
<1>5. CASE InsertKnown(r)
  <2>1. req[r].s # None
        BY <1>1, <1>5 DEF InsertKnown, At, HandOK, HasSandbox
  <2>2. RestTyped'
        BY <1>1, <1>5, <2>1 DEF InsertKnown, store, hydration, NoFailure, failures,
                                RegistryInv, RestTyped, Request
  <2>3. Return(r) \/ Goto(r, "config") \/ Goto(r, "start")
        BY <1>5 DEF InsertKnown, AfterCreation
  <2>4. UNCHANGED <<named, affinity, snaps, artifacts>>
        BY <1>5 DEF InsertKnown, store
  <2>5. CASE Return(r)
        BY <2>2, <2>4, <2>5, Returns
  <2>6. CASE Goto(r, "config") \/ Goto(r, "start")
        BY <2>1, <2>2, <2>4, <2>6, Goes DEF Places
  <2> QED BY <2>3, <2>5, <2>6
<1> QED BY <1>2, <1>3, <1>4, <1>5

\* create_snapshot, and the first half of restore_snapshot.
LEMMA SnapshotStep ==
    ASSUME RegistryInv, NEW r \in Requests,
           LoadSnapshot(r) \/ LookUp(r) \/ RecordSnapshot(r) \/ Archive(r) \/ Remember(r)
    PROVE  RegistryInv' /\ Keeps
<1>1. req[r] \in Request /\ HandOK(req[r]) /\ ClaimsOK(req[r])
      BY DEF RegistryInv
<1>2. CASE LoadSnapshot(r) \/ LookUp(r)
  <2>1. RestTyped' /\ UNCHANGED <<named, affinity, snaps, artifacts>>
        BY <1>2 DEF LoadSnapshot, LookUp, OnlyRequest, store, hydration, failures,
                    RegistryInv, RestTyped
  <2>2. CASE Return(r)
        BY <2>1, <2>2, Returns
  <2>3. CASE LoadSnapshot(r) /\ ~Return(r)
    <3> DEFINE q == [req[r] EXCEPT !.name = snaps[req[r].k], !.pc = "restore"]
    <3>1. req[r].k \in artifacts /\ Set(r, q)
          BY <2>3 DEF LoadSnapshot
    <3>2. snaps[req[r].k] \in Configs
          BY <3>1 DEF RegistryInv, DirectoryTyped
    <3>3. q \in Request /\ q.pc = "restore"
          BY <1>1, <3>2 DEF Request, Places
    <3> HIDE DEF q
    <3>4. HandOK(q) /\ ClaimsOK(q) /\ q.pc # "bind"
          BY <3>3 DEF HandOK, HasSandbox, ClaimsOK, Claims
    <3> QED BY <2>1, <3>1, <3>4, Moves
  <2>4. CASE LookUp(r) /\ ~Return(r)
    <3> DEFINE q == [req[r] EXCEPT !.name = known[req[r].s], !.pc = "record"]
    <3>1. known[req[r].s] # Absent /\ Set(r, q) /\ At(r, "lookup")
          BY <2>4 DEF LookUp
    <3>2. req[r].s \in Sandboxes /\ req[r].s # None
          BY <1>1, <3>1 DEF At, HandOK, HasSandbox, Request
    <3>3. known[req[r].s] \in Configs
          BY <3>1, <3>2 DEF RegistryInv, RestTyped
    <3>4. q \in Request /\ q.pc = "record" /\ q.s = req[r].s
          BY <1>1, <3>3 DEF Request, Places
    <3> HIDE DEF q
    <3>5. HandOK(q) /\ ClaimsOK(q) /\ q.pc # "bind"
          BY <3>2, <3>4 DEF HandOK, ClaimsOK, Claims
    <3> QED BY <2>1, <3>1, <3>5, Moves
  <2> QED BY <1>2, <2>2, <2>3, <2>4
<1>3. CASE RecordSnapshot(r)
  <2>1. RestTyped' /\ UNCHANGED <<named, affinity, artifacts>>
        BY <1>3 DEF RecordSnapshot, hydration, NoFailure, failures, RegistryInv, RestTyped
  <2>2. CASE Return(r) /\ UNCHANGED snaps
        BY <2>1, <2>2, Returns
  <2>3. ASSUME NEW k \in Fresh(snaps), snaps' = [snaps EXCEPT ![k] = req[r].name],
               Set(r, [req[r] EXCEPT !.k = k, !.pc = "archive"])
        PROVE  RegistryInv' /\ Keeps
    <3> DEFINE q == [req[r] EXCEPT !.k = k, !.pc = "archive"]
    <3>1. k \in Snapshots /\ k # None /\ snaps[k] = Absent
          BY Ids DEF Fresh, RegistryInv, DirectoryTyped
    <3>2. q \in Request /\ q.pc = "archive" /\ q.k = k /\ q.s = req[r].s /\ q.name = req[r].name
          BY <1>1, <3>1 DEF Request, Places
    <3>3. Set(r, q)
          BY <2>3
    <3> HIDE DEF q
    <3>4. /\ snaps' \in [Snapshots -> Configs \cup {Absent}]
          /\ snaps'[k] = q.name
          /\ \A j \in Snapshots : snaps[j] # Absent => snaps'[j] = snaps[j]
          BY <1>1, <2>3, <3>1, <3>2 DEF RegistryInv, DirectoryTyped, Request
    <3>5. HandOK(q) /\ Claims(q, named', snaps', artifacts') /\ q.pc # "bind"
          BY <1>1, <1>3, <3>1, <3>2, <3>4
             DEF HandOK, HasSandbox, Claims, RecordSnapshot, At
    <3>6. \A j \in artifacts : j \in Snapshots /\ snaps'[j] = snaps[j] /\ snaps[j] # Absent
          BY <3>4 DEF RegistryInv, DirectoryTyped
    <3>7. AffinityIsOwn'
          BY <2>1, <3>6 DEF RegistryInv, AffinityIsOwn
    <3>8. DirectoryTyped' /\ (\A j \in artifacts : snaps[j] # Absent)'
          BY <2>1, <3>4, <3>6 DEF RegistryInv, DirectoryTyped
    <3> QED BY <2>1, <3>3, <3>4, <3>5, <3>7, <3>8, Grows
  <2> QED BY <1>3, <2>2, <2>3 DEF RecordSnapshot
<1>4. CASE Archive(r)
  <2>1. RestTyped' /\ UNCHANGED <<named, affinity, snaps>>
        BY <1>4 DEF Archive, hydration, NoFailure, failures, RegistryInv, RestTyped
  <2>2. /\ req[r].k \in Snapshots /\ req[r].k # None /\ req[r].s # None
        /\ snaps[req[r].k] = req[r].name /\ req[r].name \in Configs
        BY <1>1, <1>4 DEF Archive, At, HandOK, HasSandbox, ClaimsOK, Claims, Request
  <2>3. CASE req[r].s \notin live
        BY <1>4, <2>1, <2>3, Returns DEF Archive
  <2>4. CASE req[r].s \in live
    <3> DEFINE next == [req[r] EXCEPT !.pc = "remember"]
    <3>1. artifacts' = artifacts \cup {req[r].k}
          BY <1>4, <2>4 DEF Archive
    <3>2. AffinityIsOwn' /\ DirectoryTyped' /\ (\A j \in artifacts : snaps[j] # Absent)'
          BY <2>1, <2>2, <3>1, Entries DEF RegistryInv, AffinityIsOwn, DirectoryTyped
    <3>3. PICK q : /\ Set(r, q) /\ HandOK(q) /\ q.pc # "bind"
                   /\ Claims(q, named', snaps', artifacts')
      <4>1. CASE req[r].name = Unnamed
        <5>1. Set(r, Idle)
              BY <1>4, <2>4, <4>1 DEF Archive, Return
        <5>2. Claims(Idle, named', snaps', artifacts')
              BY DEF Claims, Idle
        <5> QED BY <5>1, <5>2, IdleOK
      <4>2. CASE req[r].name # Unnamed
        <5>1. Set(r, next)
              BY <1>4, <2>4, <4>2 DEF Archive, Goto
        <5>2. /\ next \in Request /\ next.pc = "remember" /\ next.k = req[r].k
              /\ next.s = req[r].s /\ next.name = req[r].name
              BY <1>1 DEF Request, Places
        <5> HIDE DEF next
        <5>3. HandOK(next) /\ Claims(next, named', snaps', artifacts') /\ next.pc # "bind"
              BY <2>1, <2>2, <3>1, <4>2, <5>2 DEF HandOK, Claims
        <5> QED BY <5>1, <5>3
      <4> QED BY <4>1, <4>2
    <3> QED BY <2>1, <3>1, <3>2, <3>3, Grows
  <2> QED BY <2>3, <2>4
<1>5. CASE Remember(r)
  <2>1. RestTyped' /\ UNCHANGED <<named, snaps, artifacts>>
        BY <1>5 DEF Remember, hydration, NoFailure, failures, RegistryInv, RestTyped
  <2>2. /\ req[r].k \in Snapshots /\ req[r].k \in artifacts
        /\ snaps[req[r].k] = req[r].name /\ req[r].name \in Names
        BY <1>1, <1>5, Entries
           DEF Remember, At, HandOK, HasSandbox, ClaimsOK, Claims, Request
  <2>3. /\ affinity' \in [Names -> [sandbox : Sandboxes \cup {None},
                                    snapshot : Snapshots \cup {None}]]
        /\ affinity'[req[r].name].snapshot = req[r].k
        /\ affinity'[req[r].name].sandbox = affinity[req[r].name].sandbox
        /\ \A n \in Names \ {req[r].name} : affinity'[n] = affinity[n]
        BY <1>5, <2>2 DEF Remember, RegistryInv, DirectoryTyped
  <2>4. AffinityIsOwn'
        BY <2>1, <2>2, <2>3 DEF RegistryInv, AffinityIsOwn
  <2>5. DirectoryTyped' /\ (\A j \in artifacts : snaps[j] # Absent)'
        BY <2>1, <2>3 DEF RegistryInv, DirectoryTyped
  <2>6. Set(r, Idle) /\ Claims(Idle, named', snaps', artifacts')
        BY <1>5 DEF Remember, Return, Claims, Idle
  <2> QED BY <2>1, <2>4, <2>5, <2>6, IdleOK, Grows
<1> QED BY <1>2, <1>3, <1>4, <1>5

\* Where a call goes that has found no sandbox.
LEMMA NoSandboxGoes ==
    ASSUME NEW r \in Requests, NEW q \in Request, NoSandbox(r, q)
    PROVE  \E n : Set(r, n) /\ HandOK(n) /\ n.pc \notin {"bind", "archive", "remember"}
<1>1. CASE Set(r, [q EXCEPT !.pc = "create", !.s = None, !.k = None])
  <2> DEFINE n == [q EXCEPT !.pc = "create", !.s = None, !.k = None]
  <2>1. n \in Request /\ n.pc = "create"
        BY DEF Request, Places
  <2>2. Set(r, n)
        BY <1>1
  <2> HIDE DEF n
  <2> QED BY <2>1, <2>2 DEF HandOK, HasSandbox
<1>2. CASE Set(r, [q EXCEPT !.pc = "load", !.s = None])
  <2> DEFINE n == [q EXCEPT !.pc = "load", !.s = None]
  <2>1. n \in Request /\ n.pc = "load"
        BY DEF Request, Places
  <2>2. Set(r, n)
        BY <1>2
  <2> HIDE DEF n
  <2> QED BY <2>1, <2>2 DEF HandOK, HasSandbox
<1>3. CASE Return(r)
      BY <1>3, IdleOK DEF Return, Idle
<1> QED BY <1>1, <1>2, <1>3 DEF NoSandbox

\* A sandbox is taken away from whatever name stands for it.
LEMMA Unbinds ==
    ASSUME RegistryInv, NEW s, affinity' = Unbound(s), UNCHANGED <<named, snaps, artifacts>>
    PROVE  AffinityIsOwn' /\ DirectoryTyped' /\ (\A k \in artifacts : snaps[k] # Absent)'
<1>1. \A n \in Names : /\ affinity'[n] \in [sandbox : Sandboxes \cup {None},
                                            snapshot : Snapshots \cup {None}]
                       /\ affinity'[n].snapshot = affinity[n].snapshot
                       /\ affinity'[n].sandbox \in {affinity[n].sandbox, None}
      BY DEF RegistryInv, DirectoryTyped, Unbound
<1>2. affinity' \in [Names -> [sandbox : Sandboxes \cup {None}, snapshot : Snapshots \cup {None}]]
      BY <1>1 DEF Unbound
<1> QED BY <1>1, <1>2 DEF RegistryInv, DirectoryTyped, AffinityIsOwn

\* resolve_affinity.
LEMMA ResolveStep ==
    ASSUME RegistryInv, NEW r \in Requests,
           ReadAffinity(r) \/ InspectBound(r) \/ InspectFlakes(r) \/ ClearBinding(r)
    PROVE  RegistryInv' /\ Keeps
<1>1. req[r] \in Request /\ HandOK(req[r]) /\ ClaimsOK(req[r])
      BY DEF RegistryInv
<1>2. CASE ReadAffinity(r)
  <2> DEFINE a == affinity[req[r].name]
             q == [req[r] EXCEPT !.s = a.sandbox, !.k = a.snapshot]
             n == [q EXCEPT !.pc = "inspect"]
  <2>1. RestTyped' /\ UNCHANGED <<named, affinity, snaps, artifacts>>
        BY <1>2 DEF ReadAffinity, OnlyRequest, store, hydration, failures, RegistryInv,
                    RestTyped
  <2>2. req[r].name \in Names
        BY <1>1, <1>2, Entries DEF ReadAffinity, At, HandOK, Request
  <2>3. a.sandbox \in Sandboxes \cup {None} /\ a.snapshot \in Snapshots \cup {None}
        BY <2>2 DEF RegistryInv, DirectoryTyped
  <2>4. q \in Request /\ q.s = a.sandbox
        BY <1>1, <2>3 DEF Request
  <2>5. n \in Request /\ n.s = a.sandbox /\ n.pc = "inspect"
        BY <1>1, <2>3 DEF Request, Places
  <2>6. IF a.sandbox = None THEN NoSandbox(r, q) ELSE Set(r, n)
        BY <1>2 DEF ReadAffinity
  <2> HIDE DEF a, q, n
  <2>7. CASE a.sandbox = None
    <3>1. PICK m : Set(r, m) /\ HandOK(m) /\ m.pc \notin {"bind", "archive", "remember"}
          BY <2>4, <2>6, <2>7, NoSandboxGoes
    <3> QED BY <2>1, <3>1, Moves DEF ClaimsOK, Claims
  <2>8. CASE a.sandbox # None
    <3>1. HandOK(n) /\ ClaimsOK(n) /\ n.pc # "bind"
          BY <2>5, <2>8 DEF HandOK, ClaimsOK, Claims
    <3> QED BY <2>1, <2>6, <2>8, <3>1, Moves
  <2> QED BY <2>7, <2>8
<1>3. CASE InspectBound(r)
  <2>1. req[r].s # None
        BY <1>1, <1>3 DEF InspectBound, At, HandOK, HasSandbox
  <2>2. RestTyped' /\ UNCHANGED <<named, affinity, snaps, artifacts>>
        BY <1>3 DEF InspectBound, Tell, store, hydration, NoFailure, failures, RegistryInv,
                    RestTyped
  <2>3. Return(r) \/ Goto(r, "clear") \/ Goto(r, "config")
        BY <1>3 DEF InspectBound
  <2>4. CASE Return(r)
        BY <2>2, <2>4, Returns
  <2>5. CASE Goto(r, "clear") \/ Goto(r, "config")
        BY <2>1, <2>2, <2>5, Goes DEF Places
  <2> QED BY <2>3, <2>4, <2>5
<1>4. CASE InspectFlakes(r)
  <2> DEFINE n == [req[r] EXCEPT !.pc = "clear", !.flaky = TRUE]
  <2>1. n \in Request /\ n.pc = "clear" /\ n.s = req[r].s
        BY <1>1 DEF Request, Places
  <2>2. req[r].s # None
        BY <1>1, <1>4 DEF InspectFlakes, At, HandOK, HasSandbox
  <2>3. Set(r, n) /\ UNCHANGED <<named, affinity, snaps, artifacts>>
        BY <1>4 DEF InspectFlakes, store
  <2> HIDE DEF n
  <2>4. aborts' \in 0 .. MaxAborts
        BY <1>4, Counted DEF InspectFlakes, RegistryInv
  <2>5. RestTyped'
        BY <1>4, <2>4 DEF InspectFlakes, store, hydration, RegistryInv, RestTyped
  <2>6. HandOK(n) /\ ClaimsOK(n) /\ n.pc # "bind"
        BY <2>1, <2>2 DEF HandOK, ClaimsOK, Claims
  <2> QED BY <2>3, <2>5, <2>6, Moves
<1>5. CASE ClearBinding(r)
  <2>1. RestTyped' /\ UNCHANGED <<named, snaps, artifacts>>
        BY <1>5 DEF ClearBinding, hydration, NoFailure, failures, RegistryInv, RestTyped
  <2>2. [req[r] EXCEPT !.flaky = FALSE] \in Request
        BY <1>1 DEF Request
  <2>3. PICK m : Set(r, m) /\ HandOK(m) /\ m.pc \notin {"bind", "archive", "remember"}
        BY <1>5, <2>2, NoSandboxGoes DEF ClearBinding
  <2>4. Claims(m, named', snaps', artifacts')
        BY <2>3 DEF Claims
  <2>5. AffinityIsOwn' /\ DirectoryTyped' /\ (\A k \in artifacts : snaps[k] # Absent)'
        BY <1>5, <2>1, Unbinds DEF ClearBinding
  <2> QED BY <2>1, <2>3, <2>4, <2>5, Grows
<1> QED BY <1>2, <1>3, <1>4, <1>5

\* What start_run does with its sandbox.
LEMMA RunStep ==
    ASSUME RegistryInv, NEW r \in Requests,
           SandboxConfig(r) \/ PrepareRun(r) \/ StartProcess(r)
    PROVE  RegistryInv' /\ Keeps
<1>1. req[r] \in Request /\ HandOK(req[r])
      BY DEF RegistryInv
<1>2. req[r].s # None /\ req[r].s \in Sandboxes
      BY <1>1 DEF SandboxConfig, PrepareRun, StartProcess, At, HandOK, HasSandbox, Request
<1>3. UNCHANGED <<named, affinity, snaps, artifacts>>
      BY DEF SandboxConfig, PrepareRun, StartProcess, OnlyRequest, store
<1>4. RestTyped'
  <2>1. CASE SandboxConfig(r) \/ PrepareRun(r)
        BY <2>1 DEF SandboxConfig, PrepareRun, OnlyRequest, store, hydration, failures,
                    RegistryInv, RestTyped
  <2>2. CASE StartProcess(r)
    <3>1. owned' \in SUBSET Sandboxes
          BY <1>2, <2>2 DEF StartProcess, RegistryInv, RestTyped
    <3>2. told' \in [Sandboxes -> {"no", "early", "yes"}]
          BY <2>2 DEF StartProcess, Tell, RegistryInv, RestTyped
    <3> QED BY <2>2, <3>1, <3>2 DEF StartProcess, hydration, NoFailure, failures, RegistryInv,
                                    RestTyped
  <2> QED BY <2>1, <2>2
<1>5. CASE Return(r)
      BY <1>3, <1>4, <1>5, Returns
<1>6. CASE Goto(r, "prepare") \/ Goto(r, "start")
      BY <1>2, <1>3, <1>4, <1>6, Goes DEF Places
<1>7. CASE PrepareRun(r) /\ ~Return(r) /\ ~Goto(r, "start")
  <2> DEFINE n == [req[r] EXCEPT !.name = Unnamed, !.s = None, !.k = None,
                                 !.overflow = TRUE, !.pc = "create"]
  <2>1. n \in Request /\ n.pc = "create"
        BY <1>1, Entries DEF Request, Places
  <2>2. Set(r, n)
        BY <1>7 DEF PrepareRun
  <2> HIDE DEF n
  <2>3. HandOK(n) /\ ClaimsOK(n) /\ n.pc # "bind"
        BY <2>1 DEF HandOK, HasSandbox, ClaimsOK, Claims
  <2> QED BY <1>3, <1>4, <2>2, <2>3, Moves
<1> QED BY <1>5, <1>6, <1>7 DEF SandboxConfig, StartProcess

-----------------------------------------------------------------------------
\* destroy_sandbox and purge_process.
LEMMA DestroyStep ==
    ASSUME RegistryInv, NEW r \in Requests,
           PurgeProcesses(r) \/ InspectOwned(r) \/ BackendDestroy(r) \/ Unmap(r) \/ Unbind(r)
               \/ RemoveActive(r) \/ ForgetProcess(r)
    PROVE  RegistryInv' /\ Keeps
<1>1. req[r] \in Request /\ HandOK(req[r])
      BY DEF RegistryInv
<1>2. req[r].s # None /\ req[r].s \in Sandboxes
      BY <1>1 DEF PurgeProcesses, InspectOwned, BackendDestroy, Unmap, Unbind, RemoveActive,
                  ForgetProcess, At, HandOK, HasSandbox, Request
<1>3. RestTyped' /\ UNCHANGED <<named, snaps, artifacts>>
  <2>1. CASE PurgeProcesses(r) \/ InspectOwned(r)
        BY <2>1 DEF PurgeProcesses, InspectOwned, OnlyRequest, store, hydration, failures,
                    RegistryInv, RestTyped
  <2>2. CASE BackendDestroy(r)
        BY <2>2 DEF BackendDestroy, store, hydration, NoFailure, failures, RegistryInv,
                    RestTyped
  <2>3. CASE Unmap(r)
        BY <2>3 DEF Unmap, store, hydration, NoFailure, failures, RegistryInv, RestTyped
  <2>4. CASE Unbind(r) \/ RemoveActive(r) \/ ForgetProcess(r)
        BY <2>4 DEF Unbind, RemoveActive, ForgetProcess, hydration, NoFailure, failures,
                    RegistryInv, RestTyped
  <2> QED BY <2>1, <2>2, <2>3, <2>4
<1>4. CASE Unbind(r)
  <2> DEFINE n == [req[r] EXCEPT !.pc = "unrow"]
  <2>1. n \in Request /\ n.pc = "unrow" /\ n.s = req[r].s
        BY <1>1 DEF Request, Places
  <2>2. Set(r, n)
        BY <1>4 DEF Unbind, Goto
  <2> HIDE DEF n
  <2>3. HandOK(n) /\ Claims(n, named', snaps', artifacts') /\ n.pc # "bind"
        BY <1>2, <2>1 DEF HandOK, Claims
  <2>4. AffinityIsOwn' /\ DirectoryTyped' /\ (\A k \in artifacts : snaps[k] # Absent)'
        BY <1>3, <1>4, Unbinds DEF Unbind
  <2> QED BY <1>3, <2>2, <2>3, <2>4, Grows
<1>5. CASE ~Unbind(r)
  <2>1. UNCHANGED affinity
        BY <1>5 DEF PurgeProcesses, InspectOwned, BackendDestroy, Unmap, RemoveActive,
                    ForgetProcess, OnlyRequest, store
  <2>2. CASE Return(r)
        BY <1>3, <2>1, <2>2, Returns
  <2>3. CASE \E place \in {"destroy", "reclaim", "unmap", "unbind", "forget"} : Goto(r, place)
        BY <1>2, <1>3, <2>1, <2>3, Goes DEF Places
  <2>4. ASSUME NEW place \in {"purge", "destroy"}, NEW b \in BOOLEAN,
               Set(r, [req[r] EXCEPT !.pc = place, !.purging = b])
        PROVE  RegistryInv' /\ Keeps
    <3> DEFINE n == [req[r] EXCEPT !.pc = place, !.purging = b]
    <3>1. n \in Request /\ n.pc = place /\ n.s = req[r].s
          BY <1>1 DEF Request, Places
    <3>2. Set(r, n)
          BY <2>4
    <3> HIDE DEF n
    <3>3. HandOK(n) /\ ClaimsOK(n) /\ n.pc # "bind"
          BY <1>2, <3>1 DEF HandOK, ClaimsOK, Claims
    <3> QED BY <1>3, <2>1, <3>2, <3>3, Moves
  <2>5. CASE PurgeProcesses(r)
        BY <2>2, <2>3, <2>4, <2>5 DEF PurgeProcesses
  <2>6. CASE InspectOwned(r) \/ BackendDestroy(r) \/ Unmap(r) \/ RemoveActive(r)
        BY <2>2, <2>3, <2>6 DEF InspectOwned, BackendDestroy, Unmap, RemoveActive
  <2>7. CASE ForgetProcess(r)
        BY <2>2, <2>4, <2>7 DEF ForgetProcess
  <2> QED BY <1>5, <2>5, <2>6, <2>7
<1> QED BY <1>4, <1>5

-----------------------------------------------------------------------------
\* Failures, deaths and restarts.

\* What a request has half created or half destroyed is a sandbox.
LEMMA HalfDoneIs ==
    ASSUME RegistryInv, NEW r \in Requests
    PROVE  HalfDone(r) \subseteq Sandboxes
<1>1. HandOK(req[r]) /\ req[r] \in Request
      BY DEF RegistryInv
<1> QED BY <1>1 DEF HalfDone, Halfway, HandOK, HasSandbox, Request

LEMMA FailStep ==
    ASSUME RegistryInv, NEW r \in Requests, CallFails(r) \/ DestroyFails(r)
    PROVE  RegistryInv' /\ Keeps
<1>1. aborts' \in 0 .. MaxAborts
      BY Counted DEF CallFails, DestroyFails, RegistryInv
<1>2. RestTyped'
  <2>1. damaged' \in SUBSET Sandboxes
        BY HalfDoneIs DEF CallFails, DestroyFails, RegistryInv, RestTyped
  <2> QED BY <1>1, <2>1 DEF CallFails, DestroyFails, store, hydration, RegistryInv, RestTyped
<1>3. Return(r) /\ UNCHANGED <<named, affinity, snaps, artifacts>>
      BY DEF CallFails, DestroyFails, store
<1> QED BY <1>2, <1>3, Returns

LEMMA DieStep ==
    ASSUME RegistryInv, NEW s \in Sandboxes, Die(s)
    PROVE  RegistryInv' /\ Keeps
<1>1. aborts' \in 0 .. MaxAborts
      BY Counted DEF Die, RegistryInv
<1>2. RestTyped'
      BY <1>1 DEF Die, store, hydration, RegistryInv, RestTyped
<1>3. UNCHANGED <<named, affinity, snaps, artifacts, req>>
      BY DEF Die, store
<1>4. DirectoryTyped' /\ AffinityIsOwn' /\ (\A k \in artifacts : snaps[k] # Absent)'
      BY <1>3 DEF RegistryInv, DirectoryTyped, AffinityIsOwn
<1>5. (\A r \in Requests : HandOK(req[r]) /\ ClaimsOK(req[r]))' /\ OneBinder'
      BY <1>3 DEF RegistryInv, ClaimsOK, Claims, OneBinder, At
<1>6. Keeps
      BY <1>3 DEF Keeps
<1> QED BY <1>2, <1>3, <1>4, <1>5, <1>6 DEF RegistryInv

LEMMA RestartStep ==
    ASSUME RegistryInv, Restart
    PROVE  RegistryInv' /\ Keeps
<1>1. restarts' \in 0 .. MaxRestarts
  <2>1. restarts \in Nat /\ MaxRestarts \in Nat
        BY RegistryAssumption DEF RegistryInv, RestTyped
  <2> QED BY <2>1 DEF Restart
<1>2. RestTyped'
  <2>1. damaged' \in SUBSET Sandboxes
        BY HalfDoneIs DEF Restart, RegistryInv, RestTyped
  <2> QED BY <1>1, <2>1 DEF Restart, store, RegistryInv, RestTyped
<1>3. UNCHANGED <<named, affinity, snaps, artifacts>> /\ req' = [r \in Requests |-> Idle]
      BY DEF Restart, store
<1>4. DirectoryTyped' /\ AffinityIsOwn' /\ (\A k \in artifacts : snaps[k] # Absent)'
      BY <1>3 DEF RegistryInv, DirectoryTyped, AffinityIsOwn
<1>5. \A r \in Requests : req'[r] = Idle
      BY <1>3
<1>6. req' \in [Requests -> Request] /\ OneBinder' /\ Keeps
      BY <1>3, <1>5, IdleOK DEF OneBinder, At, HandOK, Keeps
<1>7. (\A r \in Requests : HandOK(req[r]) /\ ClaimsOK(req[r]))'
      BY <1>5, IdleOK DEF ClaimsOK, Claims
<1> QED BY <1>2, <1>4, <1>6, <1>7 DEF RegistryInv

-----------------------------------------------------------------------------
LEMMA InitInv == RegistryInit => RegistryInv
<1> SUFFICES ASSUME RegistryInit
             PROVE  RegistryInv
    OBVIOUS
<1>1. DirectoryTyped
      BY DEF RegistryInit, DirectoryTyped
<1>2. 0 \in 0 .. MaxAborts /\ 0 \in 0 .. MaxRestarts
      BY RegistryAssumption
<1>3. RestTyped
      BY <1>2 DEF RegistryInit, RestTyped
<1>4. \A r \in Requests : req[r] = Idle
      BY DEF RegistryInit
<1>5. req \in [Requests -> Request] /\ OneBinder
      BY <1>4, IdleOK DEF RegistryInit, HandOK, OneBinder, At
<1>6. AffinityIsOwn /\ artifacts = {}
      BY DEF RegistryInit, AffinityIsOwn
<1> QED BY <1>1, <1>3, <1>4, <1>5, <1>6, IdleOK DEF RegistryInv

LEMMA NextInv == RegistryInv /\ [RegistryNext]_vars => RegistryInv' /\ Keeps
<1> SUFFICES ASSUME RegistryInv, [RegistryNext]_vars
             PROVE  RegistryInv' /\ Keeps
    OBVIOUS
<1>1. ASSUME NEW r \in Requests, Begin(r) \/ Proceed(r) \/ Fail(r)
      PROVE  RegistryInv' /\ Keeps
  <2>1. CASE Proceed(r)
        BY <2>1, HydrationStep, CreationStep, SnapshotStep, ResolveStep, RunStep, DestroyStep
           DEF Proceed
  <2>2. CASE Fail(r)
        BY <2>2, HydrationStep, ResolveStep, FailStep DEF Fail
  <2> QED BY <1>1, <2>1, <2>2, BeginStep
<1>2. CASE UNCHANGED vars
  <2>1. UNCHANGED <<named, affinity, snaps, artifacts, req>> /\ RestTyped'
        BY <1>2 DEF vars, store, hydration, failures, RegistryInv, RestTyped
  <2>2. DirectoryTyped' /\ AffinityIsOwn' /\ (\A k \in artifacts : snaps[k] # Absent)'
        BY <2>1 DEF RegistryInv, DirectoryTyped, AffinityIsOwn
  <2>3. (\A r \in Requests : HandOK(req[r]) /\ ClaimsOK(req[r]))' /\ OneBinder' /\ Keeps
        BY <2>1 DEF RegistryInv, ClaimsOK, Claims, OneBinder, At, Keeps
  <2> QED BY <2>1, <2>2, <2>3 DEF RegistryInv
<1> QED BY <1>1, <1>2, DieStep, RestartStep DEF RegistryNext

LEMMA InvHolds == RegistrySpec => []RegistryInv
BY InitInv, NextInv, PTL DEF RegistrySpec

\* Every variable keeps its shape.
THEOREM RegistryTypes == RegistrySpec => []RegistryTypeOK
<1>1. RegistryInv => RegistryTypeOK
      BY DEF RegistryInv, DirectoryTyped, RestTyped, RegistryTypeOK
<1> QED BY <1>1, InvHolds, PTL

\* What a name stands for was created under it, and its snapshot is one of its own that
\* can be restored, whichever calls race, fail or are cut off by a restart.
THEOREM RegistryAffinities == RegistrySpec => []AffinityIsOwn
BY InvHolds, PTL DEF RegistryInv

-----------------------------------------------------------------------------
\* The names implement NameDirectory.

Spent == {s \in Sandboxes : named[s] # Absent} \ BeforeBind
SameBound == \A n \in Names : affinity'[n].sandbox = affinity[n].sandbox

\* Steps that bind and unbind nothing: sandboxes are spent at most.
LEMMA SpendStep ==
    ASSUME RegistryInv, RegistryInv', Keeps, SameBound
    PROVE  Directory!Spend
<1>1. Spent \subseteq Spent'
  <2>1. SUFFICES ASSUME NEW s \in Spent
                 PROVE  s \in Spent'
        OBVIOUS
  <2>2. s \in Sandboxes /\ named[s] # Absent /\ named'[s] # Absent
        BY <2>1 DEF Spent, Keeps
  <2>3. ASSUME NEW x \in Requests, req'[x].pc = "bind", req'[x].s = s
        PROVE  FALSE
    <3>1. req'[x] = req[x]
          BY <2>2, <2>3 DEF Keeps
    <3> QED BY <2>1, <2>3, <3>1 DEF Spent, BeforeBind, At
  <2> QED BY <2>2, <2>3 DEF Spent, BeforeBind, At
<1>2. Spent' \in SUBSET Sandboxes /\ Spent' = Spent \cup Spent'
      BY <1>1 DEF Spent
<1>3. [n \in Names |-> affinity'[n].sandbox] = [n \in Names |-> affinity[n].sandbox]
      BY DEF SameBound
<1> QED BY <1>2, <1>3 DEF Directory!Spend, Spent

\* Steps that take a name away: nobody comes to bind, nobody has bound.
LEMMA UnbindStep ==
    ASSUME RegistryInv, NEW r \in Requests, ClearBinding(r) \/ Unbind(r)
    PROVE  \E s \in Sandboxes : Directory!Unbind(s)
<1> DEFINE s == req[r].s
<1>1. HandOK(req[r]) /\ req[r].pc \in {"clear", "unbind"}
      BY DEF RegistryInv, ClearBinding, Unbind, At
<1>2. s \in Sandboxes
      BY <1>1 DEF HandOK, HasSandbox, Request
<1>3. affinity' = Unbound(s) /\ UNCHANGED named
      BY DEF ClearBinding, Unbind
<1>4. PICK m : Set(r, m) /\ m.pc # "bind"
  <2>1. CASE Unbind(r)
    <3> DEFINE m == [req[r] EXCEPT !.pc = "unrow"]
    <3>1. Set(r, m) /\ m.pc = "unrow"
          BY <1>1, <2>1 DEF Unbind, Goto, HandOK, Request
    <3> QED BY <3>1
  <2>2. CASE ClearBinding(r)
    <3>1. [req[r] EXCEPT !.flaky = FALSE] \in Request
          BY <1>1 DEF HandOK, Request
    <3> QED BY <2>2, <3>1, NoSandboxGoes DEF ClearBinding
  <2> QED BY <2>1, <2>2
<1>5. BeforeBind' = BeforeBind
  <2>1. \A x \in Requests : At(x, "bind")' <=> At(x, "bind")
        BY <1>1, <1>4 DEF At, Set, RegistryInv
  <2>2. \A x \in Requests : At(x, "bind") => req'[x] = req[x]
        BY <1>1, <1>4 DEF At, Set, RegistryInv
  <2> QED BY <2>1, <2>2 DEF BeforeBind
<1>6. Spent' = Spent
      BY <1>3, <1>5 DEF Spent
<1>7. [n \in Names |-> affinity'[n].sandbox]
          = [n \in Names |-> IF affinity[n].sandbox = s THEN None ELSE affinity[n].sandbox]
  <2>1. \A n \in Names : affinity'[n].sandbox
                             = IF affinity[n].sandbox = s THEN None ELSE affinity[n].sandbox
        BY <1>3 DEF Unbound, RegistryInv, DirectoryTyped
  <2> QED BY <2>1
<1> HIDE DEF s
<1> QED BY <1>2, <1>6, <1>7 DEF Directory!Unbind, Spent

\* The step that binds: the sandbox was this request's alone to bind.
LEMMA BindStep ==
    ASSUME RegistryInv, NEW r \in Requests, BindSandbox(r)
    PROVE  \E n \in Names : Directory!Bind(n)
<1> DEFINE s == req[r].s
           n == req[r].name
<1>1. HandOK(req[r]) /\ ClaimsOK(req[r]) /\ req[r].pc = "bind"
      BY DEF RegistryInv, BindSandbox, At
<1>2. s \in Sandboxes /\ n \in Names /\ named[s] = n /\ n # Absent
      BY <1>1, Entries DEF HandOK, HasSandbox, Request, ClaimsOK, Claims
<1>3. s \in Sandboxes \ Spent
      BY <1>1, <1>2 DEF Spent, BeforeBind, At
<1>4. UNCHANGED named /\ Set(r, [req[r] EXCEPT !.pc = "row"])
      BY DEF BindSandbox, Goto
<1>5. BeforeBind' = BeforeBind \ {s}
  <2>1. ~At(r, "bind")' /\ At(r, "bind")
        BY <1>1, <1>4 DEF At, Set, RegistryInv, HandOK, Request
  <2>2. \A x \in Requests \ {r} : req'[x] = req[x]
        BY <1>4 DEF Set, RegistryInv
  <2>3. \A x \in Requests \ {r} : At(x, "bind") => req[x].s # s
        BY <2>1 DEF RegistryInv, OneBinder
  <2> QED BY <2>1, <2>2, <2>3 DEF BeforeBind, At
<1>6. Spent' = Spent \cup {s}
      BY <1>1, <1>2, <1>4, <1>5 DEF Spent, BeforeBind, At
<1>7. [m \in Names |-> affinity'[m].sandbox]
          = [[m \in Names |-> affinity[m].sandbox] EXCEPT ![n] = s]
  <2>1. \A m \in Names : affinity'[m].sandbox = IF m = n THEN s ELSE affinity[m].sandbox
        BY <1>2 DEF BindSandbox, RegistryInv, DirectoryTyped
  <2> QED BY <1>2, <2>1
<1> HIDE DEF s, n
<1> QED BY <1>2, <1>3, <1>6, <1>7 DEF Directory!Bind, Spent

\* Every other step leaves the bindings alone.
LEMMA OtherSteps ==
    ASSUME RegistryInv, [RegistryNext]_vars,
           \A r \in Requests : ~BindSandbox(r) /\ ~ClearBinding(r) /\ ~Unbind(r)
    PROVE  SameBound
<1>1. ASSUME NEW r \in Requests, Begin(r) PROVE UNCHANGED affinity
      BY <1>1 DEF Begin, Create, RestoreSnapshot, Resolve, OnSandbox, Expire, Call,
                  OnlyRequest, store
<1>2. ASSUME NEW r \in Requests, Proceed(r), ~Remember(r) PROVE UNCHANGED affinity
  <2>1. CASE Enter(r) \/ Hydrate(r) \/ HydrateOne(r) \/ Hydrated(r) \/ BackendCreate(r)
                 \/ BackendRestore(r) \/ UpsertActive(r) \/ InsertKnown(r)
        BY <2>1 DEF Enter, Hydrate, HydrateOne, Hydrated, BackendCreate, BackendRestore,
                    NewSandbox, UpsertActive, InsertKnown, OnlyRequest, store
  <2>2. CASE LoadSnapshot(r) \/ LookUp(r) \/ RecordSnapshot(r) \/ Archive(r)
                 \/ ReadAffinity(r) \/ InspectBound(r) \/ SandboxConfig(r) \/ PrepareRun(r)
                 \/ StartProcess(r)
        BY <2>2 DEF LoadSnapshot, LookUp, RecordSnapshot, Archive, ReadAffinity, InspectBound,
                    SandboxConfig, PrepareRun, StartProcess, OnlyRequest, store
  <2>3. CASE PurgeProcesses(r) \/ InspectOwned(r) \/ BackendDestroy(r) \/ Unmap(r)
                 \/ RemoveActive(r) \/ ForgetProcess(r)
        BY <2>3 DEF PurgeProcesses, InspectOwned, BackendDestroy, Unmap, RemoveActive,
                    ForgetProcess, OnlyRequest, store
  <2> QED BY <1>2, <2>1, <2>2, <2>3 DEF Proceed
<1>3. ASSUME NEW r \in Requests, Remember(r) PROVE SameBound
      BY <1>3 DEF Remember, SameBound, RegistryInv, DirectoryTyped
<1>4. ASSUME NEW r \in Requests, Fail(r) PROVE UNCHANGED affinity
      BY <1>4 DEF Fail, HydrateFlakes, InspectFlakes, CallFails, DestroyFails, store
<1>5. CASE (\E s \in Sandboxes : Die(s)) \/ Restart \/ UNCHANGED vars
      BY <1>5 DEF Die, Restart, vars, store, SameBound
<1> QED BY <1>1, <1>2, <1>3, <1>4, <1>5 DEF RegistryNext, SameBound

\* The names are a directory in which a sandbox is bound at most once: no late request
\* ever brings an old binding back.
THEOREM RegistryRefinesDirectory == RegistrySpec => ImplementsDirectory
<1>1. RegistryInit => Directory!DirectoryInit
  <2> SUFFICES ASSUME RegistryInit
               PROVE  Directory!DirectoryInit
      OBVIOUS
  <2>1. [n \in Names |-> affinity[n].sandbox] = [n \in Names |-> None]
        BY DEF RegistryInit
  <2>2. Spent = {}
        BY DEF RegistryInit, Spent
  <2> QED BY <2>1, <2>2 DEF Directory!DirectoryInit, Spent
<1>2. RegistryInv /\ RegistryInv' /\ [RegistryNext]_vars
          => [Directory!DirectoryNext]_(Directory!dvars)
  <2> SUFFICES ASSUME RegistryInv, RegistryInv', [RegistryNext]_vars
               PROVE  Directory!DirectoryNext
      OBVIOUS
  <2>1. CASE \E r \in Requests : BindSandbox(r)
        BY <2>1, BindStep DEF Directory!DirectoryNext
  <2>2. CASE \E r \in Requests : ClearBinding(r) \/ Unbind(r)
        BY <2>2, UnbindStep DEF Directory!DirectoryNext
  <2>3. CASE \A r \in Requests : ~BindSandbox(r) /\ ~ClearBinding(r) /\ ~Unbind(r)
        BY <2>3, OtherSteps, NextInv, SpendStep DEF Directory!DirectoryNext
  <2> QED BY <2>1, <2>2, <2>3
<1> QED BY <1>1, <1>2, InvHolds, PTL
        DEF RegistrySpec, ImplementsDirectory, Directory!DirectorySpec

-----------------------------------------------------------------------------
(* The map, the rows and the backend.                                      *)

Creating == {"bind", "row", "map"}
Ending == {"processes", "purge", "reclaim", "destroy", "unmap", "unbind", "unrow", "forget"}
Gone == {"unmap", "unbind", "unrow", "forget"}
Blamed == Creating \cup {"unmap", "unbind", "unrow"}

\* What request r takes for granted of its sandbox still is so: a sandbox in creation is
\* not in the map nor, before its row is written, in the rows, and no client may have it
\* from anybody but by its name, early; one that is destroyed has been told, is gone from
\* the backend and, past the map, from the map.
Sound(r) ==
    LET q == req[r]  s == req[r].s IN
    /\ s # None => named[s] # Absent
    /\ q.op \in {"expire", "destroy"} =>
          told[s] # "no" /\ q.pc \in {"enter", "hydrate"} \cup Ending
    /\ q.pc \in Ending => q.op \in {"expire", "destroy"}
    /\ q.pc \in Gone => s \notin live
    /\ q.pc = "clear" => s \notin live \/ q.flaky
    /\ q.pc \in {"unbind", "unrow"} => known[s] = Absent \/ told[s] = "early"
    /\ q.pc \in Creating =>
          /\ named[s] = q.name
          /\ told[s] # "yes"
          /\ s \in live \/ told[s] = "early" \/ s \in damaged
    /\ q.pc \in {"bind", "row"} => rows[s] = Absent /\ known[s] = Absent
    /\ q.pc = "map" =>
          rows[s] = q.name \/ (rows[s] = Absent /\ told[s] = "early" /\ s \notin live)

OneCreator ==
    \A r, x \in Requests :
        req[r].pc \in Creating /\ req[x].pc \in Creating /\ req[r].s = req[x].s => r = x

\* Nobody knows of a sandbox before it is created, and no process owns one nobody was told of.
Born ==
    /\ \A s \in Sandboxes :
          named[s] = Absent => s \notin live /\ known[s] = Absent /\ rows[s] = Absent
                               /\ told[s] = "no"
    /\ \A s \in owned : told[s] # "no"

SoundInv == (\A r \in Requests : Sound(r)) /\ OneCreator /\ Born /\ MapIsPersisted

\* One request hydrates; until it has, no other call begins; what it has inspected, and
\* afterwards all that runs and has a row, is in the map, but for a sandbox that is about
\* to be put there.
HydrationInv ==
    /\ \A r \in Requests : At(r, "hydrate") <=> hydrating = r
    /\ hydrating # None => ~hydrated
    /\ ~hydrated => \A r \in Requests : req[r].pc \in {"idle", "enter", "hydrate"}
    /\ \A r \in Requests : At(r, "hydrate") /\ ~req[r].flaky =>
          \A s \in live \ req[r].todo : rows[s] # Absent => known[s] = rows[s]
    /\ hydrated /\ intact =>
          \A s \in live : rows[s] # Absent =>
              known[s] = rows[s] \/ \E r \in Requests : At(r, "map") /\ req[r].s = s

\* Somebody with sandbox s at one of these places.
Some(s, places) == \E r \in Requests : req[r].pc \in places /\ req[r].s = s

\* Who is to blame when the backend, the map, the rows and the names differ about a sandbox
\* that no failure has damaged: its creation or its destruction.
Agree(s) ==
    s \notin damaged =>
        /\ s \in live =>
              \/ rows[s] = named[s] /\ (hydrated => known[s] = named[s])
              \/ Some(s, Creating)
        /\ s \notin live =>
              ((\E n \in Names : affinity[n].sandbox = s) => Some(s, {"unmap", "unbind"}))
        /\ s \notin live /\ told[s] # "early" =>
              /\ known[s] # Absent => Some(s, {"unmap"})
              /\ rows[s] # Absent => Some(s, {"unmap", "unbind", "unrow"})

AgreeInv == \A s \in Sandboxes : Agree(s)

\* Until a sandbox is bound, nobody but its creator has it: no client was told of it, no
\* name stands for it and no other request has it in hand.
Alone ==
    \A x \in Requests : At(x, "bind") =>
        /\ told[req[x].s] = "no"
        /\ \A n \in Names : affinity[n].sandbox # req[x].s
        /\ \A y \in Requests \ {x} : req[y].s # req[x].s

\* Which sandbox request r may have in hand after its step: the one it had, one that a
\* client was told of, one that a name stands for.
MayHave(r, s) ==
    s \in {req[r].s, None} \/ told[s] # "no" \/ \E n \in Names : affinity[n].sandbox = s

ControlInv == SoundInv /\ HydrationInv /\ AgreeInv /\ Alone

Only(r) == \A x \in Requests \ {r} : req'[x] = req[x]
World == <<live, named, known, rows, told>>
NoneBound == \A n \in Names : affinity'[n].sandbox \in {affinity[n].sandbox, None}

\* A step of request r alone, neither in a creation nor in the part of a destruction that
\* writes: nobody else sees more of it than a process that is forgotten.
Quiet(r) ==
    /\ Only(r)
    /\ UNCHANGED <<World, hydration, intact, failures>>
    /\ owned' \subseteq owned
    /\ NoneBound
    /\ req[r].pc \notin Creating \cup {"hydrate", "unmap", "unbind", "unrow"}
    /\ req'[r].pc \notin Creating \cup {"hydrate", "unbind", "unrow"}
    /\ MayHave(r, req'[r].s)
    /\ hydrated \/ req'[r].pc \in {"idle", "enter"}
    /\ Sound(r)'

LEMMA Sets ==
    ASSUME RegistryInv, NEW r \in Requests, NEW q, Set(r, q)
    PROVE  req'[r] = q /\ Only(r)
BY DEF RegistryInv, Set, Only

LEMMA Idles ==
    ASSUME NEW r \in Requests, req[r] = Idle
    PROVE  Sound(r) /\ req[r].pc = "idle"
BY DEF Sound, Idle, Creating, Ending, Gone

\* Only the calls that hydrate go on before the server is hydrated.
LEMMA Hydrating ==
    ASSUME HydrationInv, NEW r \in Requests, req[r].pc \notin {"idle", "enter", "hydrate"}
    PROVE  hydrated
BY DEF HydrationInv

LEMMA FirstPlace ==
    ASSUME NEW op \in Ops \ {"none"}
    PROVE  /\ First(op) \in {"create", "load", "lookup", "affinity", "config", "purge",
                             "processes"}
           /\ First(op) \in {"purge", "processes"} <=> op \in {"expire", "destroy"}
<1>1. CASE op \in {"create", "new"} BY <1>1 DEF First
<1>2. CASE op = "restore" BY <1>2 DEF First
<1>3. CASE op = "snapshot" BY <1>3 DEF First
<1>4. CASE op \in {"find", "resolve", "run", "auto"} BY <1>4 DEF First
<1>5. CASE op = "target" BY <1>5 DEF First
<1>6. CASE op \in {"expire", "destroy"} BY <1>6 DEF First
<1> QED BY <1>1, <1>2, <1>3, <1>4, <1>5, <1>6 DEF Ops

\* Where call op has begun, in local state n.
Began(r, op, n) ==
    /\ Set(r, n)
    /\ n.op = op
    /\ n.pc = IF hydrated THEN First(op) ELSE "enter"
    /\ n.s # None => named[n.s] # Absent /\ told[n.s] # "no"
    /\ op \in {"expire", "destroy"} => told[n.s] # "no"

LEMMA CallSets ==
    ASSUME NEW r \in Requests, NEW op \in Ops \ {"none"}, NEW q \in Request, Call(r, op, q),
           q.s # None => named[q.s] # Absent /\ told[q.s] # "no",
           op \in {"expire", "destroy"} => told[q.s] # "no"
    PROVE  \E n : Began(r, op, n)
<1> DEFINE n == [q EXCEPT !.op = op, !.pc = IF hydrated THEN First(op) ELSE "enter"]
<1>1. n.s = q.s /\ n.op = op /\ n.pc = IF hydrated THEN First(op) ELSE "enter"
      BY DEF Request
<1>2. Set(r, n)
      BY DEF Call
<1> HIDE DEF n
<1> QED BY <1>1, <1>2 DEF Began

LEMMA CallQuiet ==
    ASSUME RegistryInv, RegistryInv', ControlInv, NEW r \in Requests, Begin(r)
    PROVE  Quiet(r)
<1>0. Idle \in Request
      BY IdleOK DEF HandOK
<1>1. PICK op, n : op \in Ops \ {"none"} /\ Began(r, op, n)
  <2>1. CASE Create(r)
    <3>1. PICK op \in {"create", "new"}, c \in Configs : Call(r, op, [Idle EXCEPT !.name = c])
          BY <2>1 DEF Create
    <3> DEFINE q == [Idle EXCEPT !.name = c]
    <3>3. q \in Request /\ q.s = None
          BY <1>0 DEF Request, Idle
    <3>4. Call(r, op, q)
          BY <3>1
    <3> HIDE DEF q
    <3> QED BY <3>1, <3>3, <3>4, CallSets DEF Ops
  <2>2. CASE RestoreSnapshot(r)
    <3>1. PICK k \in Snapshots : Call(r, "restore", [Idle EXCEPT !.k = k])
          BY <2>2 DEF RestoreSnapshot
    <3> DEFINE q == [Idle EXCEPT !.k = k]
    <3>3. q \in Request /\ q.s = None
          BY <1>0 DEF Request, Idle
    <3>4. Call(r, "restore", q)
          BY <3>1
    <3> HIDE DEF q
    <3> QED BY <3>1, <3>3, <3>4, CallSets DEF Ops
  <2>3. CASE Resolve(r)
    <3>1. PICK op \in {"find", "resolve", "run", "auto"}, m \in Names :
              Call(r, op, [Idle EXCEPT !.name = m])
          BY <2>3 DEF Resolve
    <3> DEFINE q == [Idle EXCEPT !.name = m]
    <3>3. q \in Request /\ q.s = None
          BY <1>0, Entries DEF Request, Idle
    <3>4. Call(r, op, q)
          BY <3>1
    <3> HIDE DEF q
    <3> QED BY <3>1, <3>3, <3>4, CallSets DEF Ops
  <2>4. CASE OnSandbox(r)
    <3>1. PICK op \in {"snapshot", "target", "destroy"}, s \in Sandboxes :
              told[s] # "no" /\ Call(r, op, [Idle EXCEPT !.s = s])
          BY <2>4 DEF OnSandbox
    <3>2. named[s] # Absent
          BY <3>1 DEF ControlInv, SoundInv, Born
    <3> DEFINE q == [Idle EXCEPT !.s = s]
    <3>3. q \in Request /\ q.s = s
          BY <1>0 DEF Request, Idle
    <3>4. Call(r, op, q)
          BY <3>1
    <3> HIDE DEF q
    <3> QED BY <3>1, <3>2, <3>3, <3>4, CallSets DEF Ops
  <2>5. CASE Expire(r)
    <3>1. PICK s \in owned : Call(r, "expire", [Idle EXCEPT !.s = s, !.purging = TRUE])
          BY <2>5 DEF Expire
    <3>2. s \in Sandboxes /\ told[s] # "no" /\ named[s] # Absent
          BY DEF ControlInv, SoundInv, Born, RegistryInv, RestTyped
    <3> DEFINE q == [Idle EXCEPT !.s = s, !.purging = TRUE]
    <3>3. q \in Request /\ q.s = s
          BY <1>0, <3>2 DEF Request, Idle
    <3>4. Call(r, "expire", q)
          BY <3>1
    <3> HIDE DEF q
    <3> QED BY <3>1, <3>2, <3>3, <3>4, CallSets DEF Ops
  <2> QED BY <2>1, <2>2, <2>3, <2>4, <2>5 DEF Begin
<1>2. UNCHANGED <<World, hydration, intact, failures, owned, affinity>> /\ req[r].pc = "idle"
      BY DEF Begin, Create, RestoreSnapshot, Resolve, OnSandbox, Expire, Call, OnlyRequest,
             World, store, hydration, failures, At
<1>3. req'[r] = n /\ Only(r)
      BY <1>1, Sets DEF Began
<1>4. /\ n.pc \in {"enter", "create", "load", "lookup", "affinity", "config", "purge", "processes"}
      /\ n.pc \in {"purge", "processes"} => op \in {"expire", "destroy"}
      /\ op \in {"expire", "destroy"} => n.pc \in {"enter", "purge", "processes"}
      /\ hydrated \/ n.pc = "enter"
      BY <1>1, FirstPlace DEF Began
<1>5. Sound(r)'
      BY <1>1, <1>2, <1>3, <1>4 DEF Began, Sound, World, Creating, Ending, Gone
<1>6. MayHave(r, req'[r].s)
      BY <1>1, <1>3 DEF Began, MayHave
<1> QED BY <1>2, <1>3, <1>4, <1>5, <1>6 DEF Quiet, NoneBound, Creating


\* What a request knows of itself when it takes a step.
LEMMA Own ==
    ASSUME RegistryInv, ControlInv, NEW r \in Requests
    PROVE  /\ req[r] \in Request /\ HandOK(req[r]) /\ Sound(r)
           /\ req[r].pc \in HasSandbox => req[r].s \in Sandboxes /\ req[r].s # None
BY DEF RegistryInv, ControlInv, SoundInv, HandOK, Request

\* A step of request r to local state q in which nothing else changes but snapshots and
\* what a process owns.
LEMMA Steps ==
    ASSUME RegistryInv, ControlInv, NEW r \in Requests, NEW q, Set(r, q),
           UNCHANGED <<World, hydration, intact, failures>>, owned' \subseteq owned, NoneBound,
           req[r].pc \notin Creating \cup {"idle", "enter", "hydrate", "unmap", "unbind", "unrow"},
           q.pc \notin Creating \cup {"hydrate", "unbind", "unrow"},
           q.s # None => named[q.s] # Absent,
           q.op \in {"expire", "destroy"} => told[q.s] # "no" /\ q.pc \in Ending,
           q.pc \in Ending => q.op \in {"expire", "destroy"},
           q.pc \in Gone => q.s \notin live,
           q.pc = "clear" => q.s \notin live \/ q.flaky, MayHave(r, q.s)
    PROVE  Quiet(r)
<1>1. req'[r] = q /\ Only(r)
      BY Sets
<1>2. Sound(r)'
      BY <1>1 DEF Sound, World, Creating
<1>3. hydrated
      BY Hydrating DEF ControlInv
<1> QED BY <1>1, <1>2, <1>3 DEF Quiet

LEMMA StepReturns ==
    ASSUME RegistryInv, ControlInv, NEW r \in Requests, Return(r),
           UNCHANGED <<World, hydration, intact, failures>>, owned' \subseteq owned, NoneBound,
           req[r].pc \notin Creating \cup {"idle", "enter", "hydrate", "unmap", "unbind", "unrow"}
    PROVE  Quiet(r)
<1>1. Set(r, Idle)
      BY DEF Return
<1>2. Idle.pc = "idle" /\ Idle.s = None /\ Idle.op = "none"
      BY DEF Idle
<1> QED BY <1>1, <1>2, Steps DEF Creating, Ending, Gone, MayHave

LEMMA StepGoes ==
    ASSUME RegistryInv, ControlInv, NEW r \in Requests, NEW place, Goto(r, place),
           UNCHANGED <<World, hydration, intact, failures>>, owned' \subseteq owned, NoneBound,
           req[r].pc \notin Creating \cup {"idle", "enter", "hydrate", "unmap", "unbind", "unrow"},
           place \notin Creating \cup {"hydrate", "unbind", "unrow", "clear"},
           place \in Ending <=> req[r].pc \in Ending,
           place \in Gone => req[r].s \notin live
    PROVE  Quiet(r)
<1> DEFINE q == [req[r] EXCEPT !.pc = place]
<1>1. Set(r, q)
      BY DEF Goto
<1>2. q.pc = place /\ q.s = req[r].s /\ q.op = req[r].op
      BY Own DEF Request
<1> HIDE DEF q
<1> QED BY <1>1, <1>2, Own, Steps DEF Sound, MayHave


\* What a request does that writes no row, no entry of the map and no binding.
LEMMA SnapshotQuiet ==
    ASSUME RegistryInv, RegistryInv', ControlInv, NEW r \in Requests,
           LoadSnapshot(r) \/ LookUp(r) \/ RecordSnapshot(r) \/ Archive(r) \/ Remember(r)
    PROVE  Quiet(r)
<1>1. UNCHANGED <<World, hydration, intact, failures, owned>> /\ NoneBound
  <2>1. CASE Remember(r)
        BY <2>1 DEF Remember, World, NoFailure, NoneBound, RegistryInv, DirectoryTyped
  <2>2. CASE ~Remember(r)
        BY <2>2 DEF LoadSnapshot, LookUp, RecordSnapshot, Archive, OnlyRequest, NoFailure, World,
                    store, NoneBound
  <2> QED BY <2>1, <2>2
<1>2. req[r].pc \in {"load", "lookup", "record", "archive", "remember"}
      BY DEF LoadSnapshot, LookUp, RecordSnapshot, Archive, Remember, At
<1>3. req[r] \in Request /\ Sound(r)
      BY Own
<1>4. CASE Return(r)
      BY <1>1, <1>2, <1>4, StepReturns DEF Creating
<1>5. CASE Goto(r, "remember")
      BY <1>1, <1>2, <1>5, StepGoes DEF Creating, Ending, Gone
<1>6. ASSUME NEW q, Set(r, q), q.s = req[r].s, q.op = req[r].op,
             q.pc \in {"restore", "record", "archive"}
      PROVE  Quiet(r)
      BY <1>1, <1>2, <1>3, <1>6, Steps DEF Sound, Creating, Ending, Gone, MayHave
<1>7. CASE LoadSnapshot(r) /\ ~Return(r)
  <2> DEFINE q == [req[r] EXCEPT !.name = snaps[req[r].k], !.pc = "restore"]
  <2>1. Set(r, q)
        BY <1>7 DEF LoadSnapshot
  <2>2. q.s = req[r].s /\ q.op = req[r].op /\ q.pc = "restore"
        BY <1>3 DEF Request
  <2> HIDE DEF q
  <2> QED BY <1>6, <2>1, <2>2
<1>8. CASE LookUp(r) /\ ~Return(r)
  <2> DEFINE q == [req[r] EXCEPT !.name = known[req[r].s], !.pc = "record"]
  <2>1. Set(r, q)
        BY <1>8 DEF LookUp
  <2>2. q.s = req[r].s /\ q.op = req[r].op /\ q.pc = "record"
        BY <1>3 DEF Request
  <2> HIDE DEF q
  <2> QED BY <1>6, <2>1, <2>2
<1>9. CASE RecordSnapshot(r) /\ ~Return(r)
  <2>1. PICK k \in Fresh(snaps) : Set(r, [req[r] EXCEPT !.k = k, !.pc = "archive"])
        BY <1>9 DEF RecordSnapshot
  <2> DEFINE q == [req[r] EXCEPT !.k = k, !.pc = "archive"]
  <2>2. q.s = req[r].s /\ q.op = req[r].op /\ q.pc = "archive"
        BY <1>3 DEF Request
  <2>3. Set(r, q)
        BY <2>1
  <2> HIDE DEF q
  <2> QED BY <1>6, <2>2, <2>3
<1> QED BY <1>4, <1>5, <1>7, <1>8, <1>9 DEF Archive, Remember

\* A call that has found no sandbox under its name.
LEMMA NoSandboxQuiet ==
    ASSUME NEW r \in Requests, NEW q \in Request, NoSandbox(r, q),
           q.op \notin {"expire", "destroy"}
    PROVE  \E n : /\ Set(r, n) /\ n.s = None /\ n.op \notin {"expire", "destroy"}
                  /\ n.pc \in {"create", "load", "idle"}
<1>1. CASE Set(r, [q EXCEPT !.pc = "create", !.s = None, !.k = None])
  <2> DEFINE n == [q EXCEPT !.pc = "create", !.s = None, !.k = None]
  <2>1. n.s = None /\ n.op = q.op /\ n.pc = "create"
        BY DEF Request
  <2>2. Set(r, n)
        BY <1>1
  <2> HIDE DEF n
  <2> QED BY <2>1, <2>2
<1>2. CASE Set(r, [q EXCEPT !.pc = "load", !.s = None])
  <2> DEFINE n == [q EXCEPT !.pc = "load", !.s = None]
  <2>1. n.s = None /\ n.op = q.op /\ n.pc = "load"
        BY DEF Request
  <2>2. Set(r, n)
        BY <1>2
  <2> HIDE DEF n
  <2> QED BY <2>1, <2>2
<1>3. CASE Return(r)
      BY <1>3 DEF Return, Idle
<1> QED BY <1>1, <1>2, <1>3 DEF NoSandbox


\* What a call does that looks for its sandbox or makes it work, but for telling its id.
LEMMA EnterQuiet ==
    ASSUME RegistryInv, ControlInv, NEW r \in Requests, Enter(r)
    PROVE  Quiet(r)
<1> DEFINE q == [req[r] EXCEPT !.pc = First(req[r].op)]
<1>1. req[r].op \in Ops \ {"none"} /\ req[r].pc = "enter"
      BY Own DEF HandOK, Enter, At, Request
<1>2. q.pc = First(req[r].op) /\ q.s = req[r].s /\ q.op = req[r].op
      BY Own DEF Request
<1>3. Set(r, q)
      BY DEF Enter, Goto
<1> HIDE DEF q
<1>4. req'[r] = q /\ Only(r)
      BY <1>3, Sets
<1>5. UNCHANGED <<World, hydration, intact, failures, owned, affinity>> /\ hydrated
      BY DEF Enter, OnlyRequest, World, store
<1>6. Sound(r)'
      BY <1>1, <1>2, <1>4, <1>5, FirstPlace, Own DEF Sound, World, Creating, Ending, Gone
<1> QED BY <1>1, <1>2, <1>4, <1>5, <1>6, FirstPlace DEF Quiet, NoneBound, Creating, MayHave

LEMMA CreateFails ==
    ASSUME RegistryInv, ControlInv, NEW r \in Requests, BackendCreate(r) \/ BackendRestore(r),
           Fresh(named) = {}
    PROVE  Quiet(r)
<1>1. Return(r) /\ req[r].pc \in {"create", "restore"}
      BY DEF BackendCreate, BackendRestore, NewSandbox, At
<1>2. UNCHANGED <<World, hydration, intact, failures, owned, affinity>>
      BY DEF BackendCreate, BackendRestore, NewSandbox, NoFailure, World, store
<1> QED BY <1>1, <1>2, StepReturns DEF Creating, NoneBound

\* resolve_affinity, with the name's sandbox or without one.
LEMMA LooksQuiet ==
    ASSUME RegistryInv, ControlInv, NEW r \in Requests, NEW q \in Request, NoSandbox(r, q),
           q.op = req[r].op, req[r].pc \in {"affinity", "clear"},
           UNCHANGED <<World, hydration, intact, failures>>, owned' \subseteq owned, NoneBound
    PROVE  Quiet(r)
<1>1. q.op \notin {"expire", "destroy"}
      BY Own DEF Sound, Ending
<1>2. PICK n : /\ Set(r, n) /\ n.s = None /\ n.op \notin {"expire", "destroy"}
               /\ n.pc \in {"create", "load", "idle"}
      BY <1>1, NoSandboxQuiet
<1> QED BY <1>2, Steps DEF Creating, Ending, Gone, MayHave

LEMMA ReadQuiet ==
    ASSUME RegistryInv, ControlInv, NEW r \in Requests, ReadAffinity(r)
    PROVE  Quiet(r)
<1> DEFINE a == affinity[req[r].name]
           q == [req[r] EXCEPT !.s = a.sandbox, !.k = a.snapshot]
           n == [q EXCEPT !.pc = "inspect"]
<1>1. UNCHANGED <<World, hydration, intact, failures, owned, affinity>> /\ req[r].pc = "affinity"
      BY DEF ReadAffinity, OnlyRequest, World, store, At
<1>2. req[r].name \in Names
      BY <1>1, Own, Entries DEF HandOK, Request
<1>3. a.sandbox \in Sandboxes \cup {None} /\ a.snapshot \in Snapshots \cup {None}
      BY <1>2 DEF RegistryInv, DirectoryTyped
<1>4. q \in Request /\ q.op = req[r].op /\ q.s = a.sandbox
      BY <1>3, Own DEF Request
<1>5. CASE a.sandbox = None
  <2>1. NoSandbox(r, q)
        BY <1>5 DEF ReadAffinity
  <2> HIDE DEF q
  <2> QED BY <1>1, <1>4, <2>1, LooksQuiet DEF NoneBound
<1>6. CASE a.sandbox # None
  <2>1. Set(r, n)
        BY <1>6 DEF ReadAffinity
  <2>2. n.pc = "inspect" /\ n.op = req[r].op /\ n.s = a.sandbox
        BY <1>4 DEF Request
  <2>3. named[a.sandbox] # Absent
        BY <1>2, <1>6, Entries DEF RegistryInv, AffinityIsOwn
  <2>4. n.op \notin {"expire", "destroy"}
        BY <1>1, <2>2, Own DEF Sound, Ending
  <2>5. MayHave(r, n.s)
        BY <1>2, <2>2 DEF MayHave
  <2> HIDE DEF n, a
  <2> QED BY <1>1, <2>1, <2>2, <2>3, <2>4, <2>5, Steps DEF Creating, Ending, Gone, NoneBound
<1> QED BY <1>5, <1>6

LEMMA InspectQuiet ==
    ASSUME RegistryInv, ControlInv, NEW r \in Requests, InspectBound(r), UNCHANGED told
    PROVE  Quiet(r)
<1> DEFINE q == [req[r] EXCEPT !.pc = "clear"]
<1>1. UNCHANGED <<World, hydration, intact, failures, owned, affinity>> /\ req[r].pc = "inspect"
      BY DEF InspectBound, NoFailure, World, store, At
<1>2. CASE Return(r)
      BY <1>1, <1>2, StepReturns DEF Creating, NoneBound
<1>3. CASE Goto(r, "config")
      BY <1>1, <1>3, StepGoes DEF Creating, Ending, Gone, NoneBound
<1>4. CASE req[r].s \notin live /\ Goto(r, "clear")
  <2>1. Set(r, q)
        BY <1>4 DEF Goto
  <2>2. q.pc = "clear" /\ q.s = req[r].s /\ q.op = req[r].op
        BY Own DEF Request
  <2> HIDE DEF q
  <2>3. q.op \notin {"expire", "destroy"} /\ (q.s # None => named[q.s] # Absent)
        BY <1>1, <2>2, Own DEF Sound, Ending
  <2> QED BY <1>1, <1>4, <2>1, <2>2, <2>3, Steps DEF Creating, Ending, Gone, NoneBound, MayHave
<1> QED BY <1>2, <1>3, <1>4 DEF InspectBound

LEMMA ClearQuiet ==
    ASSUME RegistryInv, ControlInv, NEW r \in Requests, ClearBinding(r)
    PROVE  Quiet(r)
<1> DEFINE q == [req[r] EXCEPT !.flaky = FALSE]
<1>1. UNCHANGED <<World, hydration, intact, failures, owned>> /\ req[r].pc = "clear"
      BY DEF ClearBinding, NoFailure, World, At
<1>2. q \in Request /\ q.op = req[r].op /\ NoSandbox(r, q)
      BY Own DEF Request, ClearBinding
<1>3. NoneBound
      BY DEF NoneBound, ClearBinding, Unbound, RegistryInv, DirectoryTyped
<1> HIDE DEF q
<1> QED BY <1>1, <1>2, <1>3, LooksQuiet

LEMMA RunQuiet ==
    ASSUME RegistryInv, ControlInv, NEW r \in Requests,
           SandboxConfig(r) \/ PrepareRun(r) \/ (StartProcess(r) /\ UNCHANGED <<told, owned>>)
    PROVE  Quiet(r)
<1> DEFINE q == [req[r] EXCEPT !.name = Unnamed, !.s = None, !.k = None, !.overflow = TRUE,
                               !.pc = "create"]
<1>1. UNCHANGED <<World, hydration, intact, failures, owned, affinity>>
      BY DEF SandboxConfig, PrepareRun, StartProcess, OnlyRequest, NoFailure, World, store
<1>2. req[r].pc \in {"config", "prepare", "start"}
      BY DEF SandboxConfig, PrepareRun, StartProcess, At
<1>3. CASE Return(r)
      BY <1>1, <1>2, <1>3, StepReturns DEF Creating, NoneBound
<1>4. ASSUME NEW place \in {"prepare", "start"}, Goto(r, place)
      PROVE  Quiet(r)
      BY <1>1, <1>2, <1>4, StepGoes DEF Creating, Ending, Gone, NoneBound
<1>5. CASE Set(r, q)
  <2>1. q.pc = "create" /\ q.s = None /\ q.op = req[r].op
        BY Own DEF Request
  <2>2. q.op \notin {"expire", "destroy"}
        BY <1>2, <2>1, Own DEF Sound, Ending
  <2> HIDE DEF q
  <2> QED BY <1>1, <1>2, <1>5, <2>1, <2>2, Steps DEF Creating, Ending, Gone, NoneBound, MayHave
<1> QED BY <1>3, <1>4, <1>5 DEF SandboxConfig, PrepareRun, StartProcess

\* What a destruction does that takes nothing from the backend, the map or the rows.
LEMMA DestroyQuiet ==
    ASSUME RegistryInv, ControlInv, NEW r \in Requests,
           \/ PurgeProcesses(r) \/ InspectOwned(r) \/ ForgetProcess(r)
           \/ BackendDestroy(r) /\ req[r].s \notin live
    PROVE  Quiet(r)
<1>1. UNCHANGED <<World, hydration, intact, failures, affinity>> /\ owned' \subseteq owned
      BY DEF PurgeProcesses, InspectOwned, ForgetProcess, BackendDestroy, OnlyRequest, NoFailure,
             World, store
<1>2. req[r].pc \in {"processes", "purge", "reclaim", "destroy", "forget"}
      BY DEF PurgeProcesses, InspectOwned, ForgetProcess, BackendDestroy, At
<1>3. CASE Return(r)
      BY <1>1, <1>2, <1>3, StepReturns DEF Creating, NoneBound
<1>4. ASSUME NEW place \in {"destroy", "reclaim", "unmap"}, Goto(r, place),
             place = "unmap" => req[r].s \notin live
      PROVE  Quiet(r)
      BY <1>1, <1>2, <1>4, StepGoes DEF Creating, Ending, Gone, NoneBound
<1>5. ASSUME NEW place \in {"purge", "destroy"}, NEW p \in BOOLEAN,
             Set(r, [req[r] EXCEPT !.pc = place, !.purging = p])
      PROVE  Quiet(r)
  <2> DEFINE q == [req[r] EXCEPT !.pc = place, !.purging = p]
  <2>1. q.pc = place /\ q.s = req[r].s /\ q.op = req[r].op
        BY Own DEF Request
  <2>2. Set(r, q)
        BY <1>5
  <2> HIDE DEF q
  <2>3. /\ q.s # None => named[q.s] # Absent
        /\ q.op \in {"expire", "destroy"} /\ told[q.s] # "no"
        BY <1>2, <2>1, Own DEF Sound, Ending
  <2> QED BY <1>1, <1>2, <1>5, <2>1, <2>2, <2>3, Steps DEF Creating, Ending, Gone, NoneBound, MayHave
<1> QED BY <1>3, <1>4, <1>5 DEF PurgeProcesses, InspectOwned, ForgetProcess, BackendDestroy


-----------------------------------------------------------------------------
\* What a step leaves of the invariant that it does not touch.

\* Outside sandbox s nothing has changed.
Elsewhere(s) ==
    \A y \in Sandboxes \ {s} :
        /\ y \in live' <=> y \in live
        /\ y \in damaged' <=> y \in damaged
        /\ named'[y] = named[y] /\ known'[y] = known[y] /\ rows'[y] = rows[y]
        /\ told'[y] = told[y]

\* A request with another sandbox in hand sees nothing of it.
LEMMA SoundElsewhere ==
    ASSUME RegistryInv, ControlInv, NEW s, Elsewhere(s),
           NEW x \in Requests, req'[x] = req[x], req[x].s # s
    PROVE  Sound(x)'
<1>1. req[x] \in Request /\ HandOK(req[x]) /\ Sound(x)
      BY Own
<1>2. CASE req[x].s # None
  <2>1. req[x].s \in Sandboxes \ {s}
        BY <1>1, <1>2 DEF Request
  <2> QED BY <1>1, <2>1 DEF Sound, Elsewhere
<1>3. CASE req[x].s = None
  <2>1. req[x].pc \notin HasSandbox
        BY <1>1, <1>3 DEF HandOK
  <2>2. req[x].op \notin {"expire", "destroy"}
        BY <1>1, <1>3, <2>1 DEF Sound, HandOK, HasSandbox, BeginsWithSandbox, Ending
  <2> QED BY <1>1, <1>3, <2>1, <2>2 DEF Sound, HasSandbox, Creating, Ending, Gone
<1> QED BY <1>2, <1>3

LEMMA CreatorsKept ==
    ASSUME ControlInv, NEW r \in Requests, Only(r),
           req'[r].pc \in Creating => req[r].pc \in Creating /\ req'[r].s = req[r].s
    PROVE  OneCreator'
<1>1. \A x \in Requests :
          req'[x].pc \in Creating => req[x].pc \in Creating /\ req'[x].s = req[x].s
      BY DEF Only
<1> QED BY <1>1 DEF ControlInv, SoundInv, OneCreator

\* Once the server is hydrated, only what is in the map counts.
LEMMA HydrationKept ==
    ASSUME ControlInv, NEW r \in Requests, Only(r), hydrated, UNCHANGED hydration,
           req[r].pc # "hydrate", req'[r].pc # "hydrate",
           intact' =>
              intact /\ \A s \in live' : rows'[s] # Absent =>
                  known'[s] = rows'[s] \/ \E x \in Requests : At(x, "map")' /\ req'[x].s = s
    PROVE  HydrationInv'
<1>1. hydrating = None
      BY DEF ControlInv, HydrationInv
<1>2. \A x \in Requests : ~At(x, "hydrate")
      BY <1>1, Ids DEF ControlInv, HydrationInv
<1>3. \A x \in Requests : ~At(x, "hydrate")'
      BY <1>2 DEF Only, At
<1>4. \A x \in Requests : hydrating' # x
      BY <1>1, Ids DEF hydration
<1>5. hydrated' /\ hydrating' = None
      BY <1>1 DEF hydration
<1>6. \A x \in Requests : ~At(x, "hydrate")' /\ hydrating' # x
      BY <1>3, <1>4
<1> QED BY <1>5, <1>6 DEF HydrationInv

\* Where nothing changes and nobody leaves the place that is to blame.
LEMMA AgreeKept ==
    ASSUME ControlInv, NEW y \in Sandboxes, hydrated' => hydrated,
           y \notin damaged' =>
               /\ y \notin damaged
               /\ y \in live' <=> y \in live
               /\ named'[y] = named[y] /\ known'[y] = known[y] /\ rows'[y] = rows[y]
               /\ told'[y] = told[y]
               /\ \A x \in Requests : req[x].s = y /\ req[x].pc \in Blamed => req'[x] = req[x],
           \A n \in Names : affinity'[n].sandbox = y => affinity[n].sandbox = y
    PROVE  Agree(y)'
<1> SUFFICES ASSUME y \notin damaged'
             PROVE  Agree(y)'
    BY DEF Agree
<1>1. Agree(y)
      BY DEF ControlInv, AgreeInv
<1>2. \A x \in Requests : req[x].s = y /\ req[x].pc \in Blamed => req'[x] = req[x]
      OBVIOUS
<1>3. /\ Some(y, Creating) => Some(y, Creating)'
      /\ Some(y, {"unmap"}) => Some(y, {"unmap"})'
      /\ Some(y, {"unmap", "unbind"}) => Some(y, {"unmap", "unbind"})'
      /\ Some(y, {"unmap", "unbind", "unrow"}) => Some(y, {"unmap", "unbind", "unrow"})'
      BY <1>2 DEF Some, Blamed
<1> QED BY <1>1, <1>3 DEF Agree

LEMMA AgreeElsewhere ==
    ASSUME RegistryInv, ControlInv, NEW s, Elsewhere(s), NEW y \in Sandboxes, y # s,
           hydrated' => hydrated,
           \A n \in Names : affinity'[n].sandbox = y => affinity[n].sandbox = y,
           \A x \in Requests : req[x].s = y /\ req[x].pc \in Blamed => req'[x] = req[x]
    PROVE  Agree(y)'
<1>1. /\ y \in damaged' <=> y \in damaged
      /\ y \in live' <=> y \in live
      /\ named'[y] = named[y] /\ known'[y] = known[y] /\ rows'[y] = rows[y]
      /\ told'[y] = told[y]
      BY DEF Elsewhere
<1> QED BY <1>1, AgreeKept

\* Who is about to bind a sandbox has it to himself as long as nobody else gets it.
LEMMA AloneKept ==
    ASSUME RegistryInv, ControlInv, NEW r \in Requests, Only(r), req'[r].pc # "bind",
           MayHave(r, req'[r].s),
           \A n \in Names : affinity'[n].sandbox \in {affinity[n].sandbox, None, req[r].s},
           \A y \in Sandboxes : y # req[r].s => told'[y] = told[y]
    PROVE  Alone'
<1> SUFFICES ASSUME NEW x \in Requests, req'[x].pc = "bind"
             PROVE  /\ told'[req'[x].s] = "no"
                    /\ \A n \in Names : affinity'[n].sandbox # req'[x].s
                    /\ \A y \in Requests \ {x} : req'[y].s # req'[x].s
    BY DEF Alone, At
<1>1. x # r /\ req'[x] = req[x] /\ At(x, "bind")
      BY DEF Only, At
<1>2. req[x].s \in Sandboxes /\ req[x].s # None
      BY <1>1, Own DEF At, HasSandbox
<1>3. /\ told[req[x].s] = "no"
      /\ \A n \in Names : affinity[n].sandbox # req[x].s
      /\ \A y \in Requests \ {x} : req[y].s # req[x].s
      BY <1>1 DEF ControlInv, Alone
<1>4. req[r].s # req[x].s
      BY <1>1, <1>3
<1>5. req'[r].s # req[x].s
      BY <1>2, <1>3, <1>4 DEF MayHave
<1>6. \A y \in Requests \ {x} : req'[y].s # req[x].s
      BY <1>3, <1>5 DEF Only
<1>7. \A n \in Names : affinity'[n].sandbox # req[x].s
      BY <1>2, <1>3, <1>4
<1> QED BY <1>1, <1>2, <1>3, <1>4, <1>6, <1>7

\* A step that is quiet is quiet for all of it.
LEMMA QuietInv ==
    ASSUME RegistryInv, ControlInv, NEW r \in Requests, Quiet(r)
    PROVE  ControlInv'
<1>1. /\ Only(r) /\ Sound(r)' /\ owned' \subseteq owned /\ NoneBound
      /\ UNCHANGED <<World, hydration, intact, failures>>
      /\ req[r].pc \notin Creating \cup {"hydrate", "unmap", "unbind", "unrow"}
      /\ req'[r].pc \notin Creating \cup {"hydrate", "unbind", "unrow"}
      /\ MayHave(r, req'[r].s)
      BY DEF Quiet
<1>2. damaged' = damaged /\ (\A s : Elsewhere(s))
      BY <1>1 DEF failures, Elsewhere, World
<1>3. SoundInv'
  <2>1. ASSUME NEW x \in Requests PROVE Sound(x)'
    <3>1. CASE x = r
          BY <1>1, <3>1
    <3>2. CASE x # r
      <4>1. req'[x] = req[x] /\ Sound(x)
            BY <1>1, <3>2, Own DEF Only
      <4> QED BY <1>1, <1>2, <4>1 DEF Sound, World
    <3> QED BY <3>1, <3>2
  <2>2. OneCreator'
        BY <1>1, CreatorsKept
  <2>3. Born' /\ MapIsPersisted'
        BY <1>1 DEF ControlInv, SoundInv, Born, MapIsPersisted, World
  <2> QED BY <2>1, <2>2, <2>3 DEF SoundInv
<1>4. HydrationInv'
  <2>1. \A x \in Requests : At(x, "hydrate")' <=> At(x, "hydrate")
        BY <1>1 DEF Only, At
  <2>2. \A x \in Requests : At(x, "hydrate") => req'[x] = req[x]
        BY <1>1 DEF Only, At
  <2>3. \A x \in Requests : At(x, "map") => At(x, "map")' /\ req'[x].s = req[x].s
        BY <1>1 DEF Only, At, Creating
  <2>4. ~hydrated => \A x \in Requests : req'[x].pc \in {"idle", "enter", "hydrate"}
        BY <1>1 DEF Quiet, Only, ControlInv, HydrationInv
  <2>5. UNCHANGED <<live, known, rows, hydrated, hydrating, intact>>
        BY <1>1 DEF World, hydration
  <2> QED BY <2>1, <2>2, <2>3, <2>4, <2>5 DEF ControlInv, HydrationInv
<1>5. AgreeInv'
  <2>1. SUFFICES ASSUME NEW y \in Sandboxes
                 PROVE  Agree(y)'
        BY DEF AgreeInv
  <2>2. \A n \in Names : affinity'[n].sandbox = y => affinity[n].sandbox = y
        BY <1>1, <2>1, Ids DEF NoneBound
  <2>3. \A x \in Requests :
            req[x].pc \in Blamed => req'[x] = req[x]
        BY <1>1 DEF Only, Blamed
  <2>4. y # None /\ hydrated' = hydrated
        BY <1>1, <2>1, Ids DEF hydration
  <2> QED BY <1>2, <2>1, <2>2, <2>3, <2>4, AgreeElsewhere
<1>6. Alone'
  <2>1. \A n \in Names : affinity'[n].sandbox \in {affinity[n].sandbox, None, req[r].s}
        BY <1>1 DEF NoneBound
  <2>2. told' = told /\ req'[r].pc # "bind"
        BY <1>1 DEF World, Creating
  <2> QED BY <1>1, <2>1, <2>2, AloneKept
<1> QED BY <1>3, <1>4, <1>5, <1>6 DEF ControlInv


\* A step of request r at sandbox s, once the server is hydrated: what is left to show of
\* it is what s looks like afterwards and what those think of it who have it in hand.
LEMMA EffectInv ==
    ASSUME RegistryInv, RegistryInv', ControlInv, NEW r \in Requests, NEW s \in Sandboxes,
           Only(r), Elsewhere(s), UNCHANGED hydration,
           req[r].pc \notin {"idle", "enter", "hydrate"}, req'[r].pc # "hydrate",
           req[r].s = s \/ req[r].pc \notin Blamed,
           \A n \in Names : \A y \in Sandboxes \ {s} :
               affinity'[n].sandbox = y => affinity[n].sandbox = y,
           Sound(r)', \A x \in Requests \ {r} : req[x].s = s => Sound(x)',
           OneCreator', Born', MapIsPersisted',
           intact' => intact /\ (s \in live' /\ rows'[s] # Absent =>
                                     \/ known'[s] = rows'[s]
                                     \/ \E x \in Requests : At(x, "map")' /\ req'[x].s = s),
           Agree(s)', Alone'
    PROVE  ControlInv'
<1>1. SoundInv'
  <2>1. ASSUME NEW x \in Requests \ {r}, req[x].s # s PROVE Sound(x)'
    <3>1. req'[x] = req[x]
          BY DEF Only
    <3> QED BY <2>1, <3>1, SoundElsewhere
  <2> QED BY <2>1 DEF SoundInv
<1>2. hydrated
      BY Hydrating DEF ControlInv
<1>3. HydrationInv'
  <2>1. ASSUME intact', NEW y \in live', rows'[y] # Absent
        PROVE  known'[y] = rows'[y] \/ \E x \in Requests : At(x, "map")' /\ req'[x].s = y
    <3>1. CASE y = s
          BY <2>1, <3>1
    <3>2. CASE y # s
      <4>1. y \in live /\ rows[y] # Absent /\ known'[y] = known[y] /\ rows'[y] = rows[y]
            BY <2>1, <3>2 DEF RegistryInv, RestTyped, Elsewhere
      <4>2. known[y] = rows[y] \/ \E x \in Requests : At(x, "map") /\ req[x].s = y
            BY <1>2, <2>1, <4>1 DEF ControlInv, HydrationInv
      <4>3. ASSUME NEW x \in Requests, At(x, "map"), req[x].s = y
            PROVE  At(x, "map")' /\ req'[x].s = y
        <5>1. x # r
              BY <3>2, <4>3 DEF At, Creating, Blamed
        <5> QED BY <4>3, <5>1 DEF Only, At
      <4> QED BY <4>1, <4>2, <4>3
    <3> QED BY <3>1, <3>2
  <2> QED BY <1>2, <2>1, HydrationKept
<1>4. AgreeInv'
  <2>1. SUFFICES ASSUME NEW y \in Sandboxes, y # s
                 PROVE  Agree(y)'
        BY DEF AgreeInv
  <2>2. \A n \in Names : affinity'[n].sandbox = y => affinity[n].sandbox = y
        BY <2>1
  <2>3. \A x \in Requests :
            req[x].s = y /\ req[x].pc \in Blamed => req'[x] = req[x]
        BY <2>1 DEF Only
  <2>4. hydrated' = hydrated
        BY DEF hydration
  <2> QED BY <2>1, <2>2, <2>3, <2>4, AgreeElsewhere
<1> QED BY <1>1, <1>3, <1>4 DEF ControlInv

\* The creator of a sandbox that is about to be bound meets no step at another sandbox.
LEMMA EffectAlone ==
    ASSUME RegistryInv, ControlInv, NEW r \in Requests, NEW s \in Sandboxes, req[r].s = s,
           Only(r), Elsewhere(s), req'[r].pc # "bind", req'[r].s \in {s, None},
           RegistryInv', \A n \in Names : \A y \in Sandboxes \ {s} :
               affinity'[n].sandbox = y => affinity[n].sandbox = y
    PROVE  Alone'
<1>1. MayHave(r, req'[r].s)
      BY DEF MayHave
<1>2. \A n \in Names : affinity'[n].sandbox \in {affinity[n].sandbox, None, req[r].s}
      BY DEF RegistryInv, DirectoryTyped
<1>3. \A y \in Sandboxes : y # req[r].s => told'[y] = told[y]
      BY DEF Elsewhere
<1> QED BY <1>1, <1>2, <1>3, AloneKept

-----------------------------------------------------------------------------
\* A creation.

\* A sandbox is nobody's until it is created.
LEMMA FreshIsFree ==
    ASSUME RegistryInv, ControlInv, NEW s \in Fresh(named)
    PROVE  /\ s \in Sandboxes /\ named[s] = Absent /\ s \notin live
           /\ known[s] = Absent /\ rows[s] = Absent /\ told[s] = "no"
           /\ \A x \in Requests : req[x].s # s
           /\ \A n \in Names : affinity[n].sandbox # s
<1>1. s \in Sandboxes /\ named[s] = Absent
      BY DEF Fresh, RegistryInv, DirectoryTyped
<1>2. s # None
      BY <1>1, Ids
<1>3. \A x \in Requests : req[x].s # s
      BY <1>1, <1>2, Own DEF Sound
<1>4. \A n \in Names : affinity[n].sandbox # s
      BY <1>1, <1>2, Entries DEF RegistryInv, AffinityIsOwn
<1> QED BY <1>1, <1>3, <1>4 DEF ControlInv, SoundInv, Born

LEMMA NewEffect ==
    ASSUME RegistryInv, RegistryInv', ControlInv, NEW r \in Requests,
           BackendCreate(r) \/ BackendRestore(r), Fresh(named) # {}
    PROVE  ControlInv'
<1>1. PICK s \in Fresh(named) :
              /\ live' = live \cup {s}
              /\ named' = [named EXCEPT ![s] = req[r].name]
              /\ Set(r, [req[r] EXCEPT !.s = s,
                            !.pc = IF req[r].name = Unnamed THEN "row" ELSE "bind"])
      BY DEF BackendCreate, BackendRestore, NewSandbox
<1> DEFINE q == [req[r] EXCEPT !.s = s, !.pc = IF req[r].name = Unnamed THEN "row" ELSE "bind"]
<1>2. /\ s \in Sandboxes /\ named[s] = Absent /\ s \notin live
      /\ known[s] = Absent /\ rows[s] = Absent /\ told[s] = "no"
      /\ \A x \in Requests : req[x].s # s
      /\ \A n \in Names : affinity[n].sandbox # s
      BY <1>1, FreshIsFree
<1>3. q.s = s /\ q.op = req[r].op /\ q.pc \in {"row", "bind"} /\ q.name = req[r].name
      BY Own DEF Request
<1>4. Set(r, q)
      BY <1>1
<1> HIDE DEF q
<1>5. req'[r] = q /\ Only(r)
      BY <1>4, Sets
<1>6. /\ UNCHANGED <<known, rows, told, affinity, owned, hydration, intact, failures>>
      /\ req[r].pc \in {"create", "restore"}
      BY DEF BackendCreate, BackendRestore, NewSandbox, store, NoFailure, At
<1>7. damaged' = damaged
      BY <1>6 DEF failures
<1>8. named'[s] = req[r].name /\ (\A y \in Sandboxes \ {s} : named'[y] = named[y])
      BY <1>1, <1>2 DEF RegistryInv, DirectoryTyped
<1>9. req[r].name # Absent
      BY Own, Entries DEF Request
<1>10. Elsewhere(s)
      BY <1>1, <1>6, <1>7, <1>8 DEF Elsewhere
<1>11. Sound(r)'
  <2>1. q.op \notin {"expire", "destroy"}
        BY <1>3, <1>6, Own DEF Sound, Ending
  <2> QED BY <1>1, <1>2, <1>3, <1>5, <1>6, <1>8, <1>9, <2>1 DEF Sound, Ending, Gone
<1>12. OneCreator'
  <2>1. \A x \in Requests \ {r} : req'[x].s # s
        BY <1>2, <1>5 DEF Only
  <2>2. \A x \in Requests \ {r} : req'[x] = req[x]
        BY <1>5 DEF Only
  <2> QED BY <1>3, <1>5, <2>1, <2>2 DEF OneCreator, ControlInv, SoundInv
<1>13. Born'
      BY <1>1, <1>2, <1>6, <1>8, <1>9 DEF Born, ControlInv, SoundInv
<1>14. MapIsPersisted'
      BY <1>6 DEF MapIsPersisted, ControlInv, SoundInv
<1>15. Agree(s)'
  <2>1. s \in live'
        BY <1>1
  <2>2. Some(s, Creating)'
        BY <1>3, <1>5 DEF Some, Creating
  <2> QED BY <2>1, <2>2 DEF Agree
<1>16. Alone'
  <2>1. SUFFICES ASSUME NEW x \in Requests, req'[x].pc = "bind"
                 PROVE  /\ told[req'[x].s] = "no"
                        /\ \A n \in Names : affinity[n].sandbox # req'[x].s
                        /\ \A y \in Requests \ {x} : req'[y].s # req'[x].s
        BY <1>6 DEF Alone, At
  <2>2. CASE x = r
        BY <1>2, <1>3, <1>5, <2>2 DEF Only
  <2>3. CASE x # r
    <3>1. req'[x] = req[x] /\ At(x, "bind")
          BY <1>5, <2>1, <2>3 DEF Only, At
    <3>2. /\ told[req[x].s] = "no"
          /\ \A n \in Names : affinity[n].sandbox # req[x].s
          /\ \A y \in Requests \ {x} : req[y].s # req[x].s
          BY <3>1 DEF ControlInv, Alone
    <3>3. req'[r].s # req[x].s
          BY <1>2, <1>3, <1>5
    <3>4. \A y \in Requests \ {x} : req'[y].s # req[x].s
          BY <1>5, <3>2, <3>3 DEF Only
    <3> QED BY <3>1, <3>2, <3>4
  <2> QED BY <2>2, <2>3
<1> QED BY <1>2, <1>3, <1>5, <1>6, <1>10, <1>11, <1>12, <1>13, <1>14, <1>15, <1>16, EffectInv
        DEF Creating, Blamed

LEMMA BindEffect ==
    ASSUME RegistryInv, RegistryInv', ControlInv, NEW r \in Requests,
           BindSandbox(r) \/ UpsertActive(r)
    PROVE  ControlInv'
<1>0. PICK s : s = req[r].s
      OBVIOUS
<1> DEFINE place == IF At(r, "bind") THEN "row" ELSE "map"
           q == [req[r] EXCEPT !.pc = place]
<1>1. req[r].pc \in {"bind", "row"}
      BY DEF BindSandbox, UpsertActive, At
<1>2. s \in Sandboxes /\ s # None /\ Sound(r) /\ req[r].name # Absent
      BY <1>0, <1>1, Own, Entries DEF HasSandbox, Request
<1>3. q.s = s /\ q.op = req[r].op /\ q.pc = place /\ q.name = req[r].name
      BY <1>0, Own DEF Request
<1>4. Set(r, q)
      BY DEF BindSandbox, UpsertActive, Goto, At
<1>5. req'[r] = q /\ Only(r)
      BY <1>4, Sets
<1>6. UNCHANGED <<live, named, known, told, owned, hydration, intact, failures>>
      BY DEF BindSandbox, UpsertActive, NoFailure
<1>7. damaged' = damaged
      BY <1>6 DEF failures
<1>8. rows'[s] = (IF At(r, "row") THEN req[r].name ELSE Absent)
      /\ (\A y \in Sandboxes \ {s} : rows'[y] = rows[y])
      BY <1>0, <1>1, <1>2 DEF BindSandbox, UpsertActive, At, RegistryInv, RestTyped, Sound
<1>9. \A n \in Names : \A y \in Sandboxes \ {s} :
               affinity'[n].sandbox = y => affinity[n].sandbox = y
      BY <1>0 DEF BindSandbox, UpsertActive, RegistryInv, DirectoryTyped
<1>10. /\ named[s] = req[r].name /\ told[s] # "yes" /\ known[s] = Absent
       /\ s \in live \/ told[s] = "early" \/ s \in damaged
      BY <1>0, <1>1, <1>2 DEF Sound, Creating
<1>11. place \in {"row", "map"} /\ (place = "map" <=> At(r, "row"))
      BY <1>1 DEF At
<1> HIDE DEF q, place
<1>12. Elsewhere(s)
      BY <1>6, <1>7, <1>8 DEF Elsewhere
<1>13. Sound(r)'
      BY <1>0, <1>1, <1>2, <1>3, <1>5, <1>6, <1>7, <1>8, <1>10, <1>11 DEF Sound, Creating, Ending, Gone
<1>14. ASSUME NEW x \in Requests \ {r}, req[x].s = s PROVE Sound(x)'
  <2>1. req'[x] = req[x] /\ Sound(x)
        BY <1>5, Own DEF Only
  <2>2. req[x].pc \notin Creating
        BY <1>0, <1>1, <1>14 DEF ControlInv, SoundInv, OneCreator, Creating
  <2> QED BY <1>6, <2>1, <2>2 DEF Sound, Creating
<1>15. OneCreator'
      BY <1>0, <1>1, <1>3, <1>5, CreatorsKept DEF Creating
<1>16. Born' /\ MapIsPersisted'
      BY <1>2, <1>6, <1>8, <1>10 DEF Born, MapIsPersisted, ControlInv, SoundInv
<1>17. Agree(s)'
  <2>1. Some(s, Creating)'
        BY <1>3, <1>5, <1>11 DEF Some, Creating
  <2>2. SUFFICES ASSUME s \notin damaged, s \notin live, NEW n \in Names, affinity'[n].sandbox = s
                 PROVE  Some(s, {"unmap", "unbind"})'
        BY <1>6, <1>7, <1>10, <2>1 DEF Agree
  <2>3. told[s] = "early"
        BY <1>10, <2>2
  <2>4. ~At(r, "bind")
        BY <1>0, <2>3 DEF ControlInv, Alone
  <2>5. affinity[n].sandbox = s
        BY <2>2, <2>4 DEF BindSandbox, UpsertActive
  <2>6. Agree(s)
        BY <1>2 DEF ControlInv, AgreeInv
  <2>7. Some(s, {"unmap", "unbind"})
        BY <2>2, <2>5, <2>6 DEF Agree
  <2> QED BY <1>1, <1>5, <2>7 DEF Some, Only
<1>18. rows'[s] # Absent => At(r, "map")' /\ req'[r].s = s
      BY <1>3, <1>5, <1>8, <1>11 DEF At
<1>19. Alone'
      BY <1>0, <1>2, <1>3, <1>5, <1>9, <1>11, <1>12, EffectAlone
<1> QED BY <1>0, <1>1, <1>2, <1>3, <1>5, <1>6, <1>9, <1>11, <1>12, <1>13, <1>14, <1>15, <1>16, <1>17,
           <1>18, <1>19, EffectInv


LEMMA InsertEffect ==
    ASSUME RegistryInv, RegistryInv', ControlInv, NEW r \in Requests, InsertKnown(r)
    PROVE  ControlInv'
<1>0. PICK s : s = req[r].s
      OBVIOUS
<1>1. req[r].pc = "map" /\ req[r].op \notin {"expire", "destroy"}
      BY Own DEF InsertKnown, At, Sound, Ending
<1>2. s \in Sandboxes /\ s # None /\ Sound(r) /\ req[r].name # Absent /\ named[s] # Absent
      BY <1>0, <1>1, Own, Entries DEF HasSandbox, Request, Sound
<1>3. /\ named[s] = req[r].name /\ told[s] # "yes"
      /\ s \in live \/ told[s] = "early" \/ s \in damaged
      /\ rows[s] = req[r].name \/ (rows[s] = Absent /\ told[s] = "early" /\ s \notin live)
      BY <1>0, <1>1, <1>2 DEF Sound, Creating
<1>4. UNCHANGED <<live, named, rows, affinity, owned, hydration, intact, failures>>
      BY DEF InsertKnown, NoFailure, store
<1>5. damaged' = damaged
      BY <1>4 DEF failures
<1>6. /\ known'[s] = req[r].name
      /\ told'[s] = IF told[s] = "early" THEN "early" ELSE "yes"
      /\ \A y \in Sandboxes \ {s} : known'[y] = known[y] /\ told'[y] = told[y]
      BY <1>0, <1>2 DEF InsertKnown, RegistryInv, RestTyped
<1>7. PICK n : Set(r, n) /\ n.pc \in {"idle", "config", "start"} /\ n.s \in {s, None}
               /\ n.op \in {req[r].op, "none"}
  <2>1. CASE Return(r)
        BY <2>1 DEF Return, Idle
  <2>2. ASSUME NEW place \in {"config", "start"}, Goto(r, place)
        PROVE  \E n : Set(r, n) /\ n.pc \in {"idle", "config", "start"} /\ n.s \in {s, None}
                      /\ n.op \in {req[r].op, "none"}
    <3> DEFINE n == [req[r] EXCEPT !.pc = place]
    <3>1. Set(r, n)
          BY <2>2 DEF Goto
    <3>2. n.pc = place /\ n.s = s /\ n.op = req[r].op
          BY <1>0, Own DEF Request
    <3> HIDE DEF n
    <3> QED BY <3>1, <3>2
  <2> QED BY <2>1, <2>2 DEF InsertKnown, AfterCreation
<1>8. req'[r] = n /\ Only(r)
      BY <1>7, Sets
<1>9. Elsewhere(s)
      BY <1>4, <1>5, <1>6 DEF Elsewhere
<1>10. Sound(r)'
      BY <1>1, <1>2, <1>4, <1>7, <1>8 DEF Sound, Creating, Ending, Gone
<1>11. ASSUME NEW x \in Requests \ {r}, req[x].s = s PROVE Sound(x)'
  <2>1. req'[x] = req[x] /\ Sound(x)
        BY <1>8, Own DEF Only
  <2>2. req[x].pc \notin Creating
        BY <1>0, <1>1, <1>11 DEF ControlInv, SoundInv, OneCreator, Creating
  <2>3. told[s] \in {"no", "early", "yes"}
        BY <1>2 DEF RegistryInv, RestTyped
  <2> QED BY <1>3, <1>4, <1>6, <1>11, <2>1, <2>2, <2>3 DEF Sound, Creating, Ending
<1>12. OneCreator'
      BY <1>7, <1>8, CreatorsKept DEF Creating
<1>13. Born' /\ MapIsPersisted'
  <2>1. \A y \in Sandboxes : (told[y] # "no" => told'[y] # "no") /\ (told[y] = "early" => told'[y] = "early")
        BY <1>6
  <2>2. owned \subseteq Sandboxes
        BY DEF RegistryInv, RestTyped
  <2>3. \A y \in Sandboxes : named[y] = Absent => known'[y] = known[y] /\ told'[y] = told[y]
        BY <1>2, <1>6
  <2>4. Born'
        BY <1>4, <2>1, <2>2, <2>3 DEF Born, ControlInv, SoundInv
  <2>5. MapIsPersisted'
        BY <1>3, <1>4, <1>6, <2>1 DEF MapIsPersisted, ControlInv, SoundInv
  <2> QED BY <2>4, <2>5
<1>14. Agree(s)'
  <2>1. SUFFICES ASSUME s \notin damaged, s \notin live, NEW m \in Names, affinity[m].sandbox = s
                 PROVE  Some(s, {"unmap", "unbind"})'
        BY <1>3, <1>4, <1>5, <1>6 DEF Agree
  <2>2. Agree(s)
        BY <1>2 DEF ControlInv, AgreeInv
  <2>3. Some(s, {"unmap", "unbind"})
        BY <2>1, <2>2 DEF Agree
  <2> QED BY <1>1, <1>8, <2>3 DEF Some, Only
<1>15. s \in live' => known'[s] = rows'[s]
      BY <1>3, <1>4, <1>6
<1>16. /\ req[r].pc \notin {"idle", "enter", "hydrate"} /\ req'[r].pc # "hydrate"
       /\ UNCHANGED <<hydration, affinity, intact>>
      BY <1>1, <1>4, <1>7, <1>8
<1>17. \A m \in Names : \A y \in Sandboxes \ {s} :
               affinity'[m].sandbox = y => affinity[m].sandbox = y
      BY <1>16
<1>18. Alone'
  <2>1. req'[r].pc # "bind" /\ req'[r].s \in {s, None}
        BY <1>7, <1>8
  <2> QED BY <1>0, <1>2, <1>8, <1>9, <1>17, <2>1, EffectAlone
<1> HIDE DEF Only, Elsewhere, Agree, Sound, Born, MapIsPersisted, OneCreator, Alone
<1> QED BY <1>0, <1>2, <1>18, <1>8, <1>9, <1>10, <1>11, <1>12, <1>13, <1>14, <1>15, <1>16, <1>17,
           EffectInv

-----------------------------------------------------------------------------
\* A client gets to know a sandbox: whether early or not, it stays what it was.
LEMMA TellEffect ==
    ASSUME RegistryInv, RegistryInv', ControlInv, NEW r \in Requests,
           InspectBound(r) \/ StartProcess(r), Tell(req[r].s), req[r].s \in live, Return(r)
    PROVE  ControlInv'
<1>0. PICK s : s = req[r].s
      OBVIOUS
<1>1. req[r].pc \in {"inspect", "start"}
      BY DEF InspectBound, StartProcess, At
<1>2. s \in Sandboxes /\ s # None /\ named[s] # Absent
      BY <1>0, <1>1, Own DEF HasSandbox, Sound
<1>3. UNCHANGED <<live, named, known, rows, affinity, hydration, intact, failures>>
      BY DEF InspectBound, StartProcess, NoFailure, store
<1>4. damaged' = damaged
      BY <1>3 DEF failures
<1>5. /\ told'[s] = IF told[s] = "early" \/ InCreation(s) THEN "early" ELSE "yes"
      /\ \A y \in Sandboxes \ {s} : told'[y] = told[y]
      BY <1>0, <1>2 DEF Tell, RegistryInv, RestTyped
<1>6. owned' \subseteq owned \cup {s}
      BY <1>0 DEF InspectBound, StartProcess, store
<1>7. req'[r] = Idle /\ Only(r) /\ Idle.pc = "idle" /\ Idle.s = None
      BY Sets DEF Return, Idle
<1>8. Elsewhere(s)
      BY <1>3, <1>4, <1>5 DEF Elsewhere
<1>9. Sound(r)'
      BY <1>7 DEF Sound, Idle, Creating, Ending, Gone
<1>10. ASSUME NEW x \in Requests \ {r}, req[x].s = s PROVE Sound(x)'
  <2>1. req'[x] = req[x] /\ Sound(x)
        BY <1>7, Own DEF Only
  <2>2. req[x].pc \in Creating => told'[s] = "early"
        BY <1>5, <1>10 DEF InCreation, Creating
  <2> QED BY <1>3, <1>4, <1>5, <1>10, <2>1, <2>2 DEF Sound
<1>11. OneCreator'
      BY <1>7, CreatorsKept DEF Creating
<1>12. Born' /\ MapIsPersisted'
  <2>1. \A y \in Sandboxes : told[y] = "early" => told'[y] = "early"
        BY <1>5
  <2>2. \A y \in Sandboxes : told[y] # "no" => told'[y] # "no"
        BY <1>5
  <2>3. \A y \in Sandboxes : named[y] = Absent => told'[y] = told[y]
        BY <1>2, <1>5
  <2>4. owned \subseteq Sandboxes /\ told'[s] # "no"
        BY <1>5 DEF RegistryInv, RestTyped
  <2> QED BY <1>3, <1>6, <2>1, <2>2, <2>3, <2>4
          DEF Born, MapIsPersisted, ControlInv, SoundInv
<1>13. Agree(s)'
  <2>1. Agree(s) /\ s \in live
        BY <1>0, <1>2 DEF ControlInv, AgreeInv
  <2>2. Some(s, Creating) => Some(s, Creating)'
        BY <1>1, <1>7 DEF Some, Only, Creating
  <2> QED BY <1>3, <1>4, <2>1, <2>2 DEF Agree, hydration
<1>14. intact' =>
          intact /\ (s \in live' /\ rows'[s] # Absent =>
                        \/ known'[s] = rows'[s]
                        \/ \E x \in Requests : At(x, "map")' /\ req'[x].s = s)
  <2>1. hydrated
        BY <1>1, Hydrating DEF ControlInv
  <2>2. ASSUME NEW x \in Requests, At(x, "map"), req[x].s = s
        PROVE  At(x, "map")' /\ req'[x].s = s
        BY <1>1, <1>7, <2>2 DEF At, Only
  <2> QED BY <1>3, <2>1, <2>2 DEF ControlInv, HydrationInv
<1>15. /\ req[r].pc \notin {"idle", "enter", "hydrate"} /\ req'[r].pc # "hydrate"
       /\ UNCHANGED <<hydration, affinity>>
      BY <1>1, <1>3, <1>7
<1>16. Alone'
      BY <1>0, <1>2, <1>7, <1>8, <1>15, EffectAlone
<1> QED BY <1>0, <1>2, <1>7, <1>8, <1>9, <1>10, <1>11, <1>12, <1>13, <1>14, <1>15, <1>16, EffectInv
        DEF Blamed, Creating


-----------------------------------------------------------------------------
\* A destruction.

\* Who destroys a sandbox has got it from somebody who was told, and if it is still being
\* created, early.
LEMMA DestroyMeetsCreation ==
    ASSUME RegistryInv, ControlInv, NEW r \in Requests, NEW x \in Requests,
           req[r].pc \in Ending, req[x].pc \in Creating, req[x].s = req[r].s
    PROVE  told[req[r].s] = "early"
<1>1. req[r].s \in Sandboxes
      BY Own DEF HasSandbox, Ending
<1>2. told[req[r].s] \in {"no", "early", "yes"}
      BY <1>1 DEF RegistryInv, RestTyped
<1>3. Sound(r) /\ Sound(x)
      BY Own
<1> QED BY <1>2, <1>3 DEF Sound

LEMMA DestroyEffect ==
    ASSUME RegistryInv, RegistryInv', ControlInv, NEW r \in Requests, BackendDestroy(r),
           req[r].s \in live
    PROVE  ControlInv'
<1>0. PICK s : s = req[r].s
      OBVIOUS
<1> DEFINE q == [req[r] EXCEPT !.pc = "unmap"]
<1>1. req[r].pc \in {"reclaim", "destroy"}
      BY DEF BackendDestroy
<1>2. s \in Sandboxes /\ s # None /\ Sound(r)
      BY <1>0, <1>1, Own DEF HasSandbox
<1>3. /\ UNCHANGED <<named, known, rows, told, owned, affinity, hydration, intact, failures>>
      /\ live' = live \ {s} /\ Set(r, q)
      BY <1>0 DEF BackendDestroy, NoFailure, store, Goto
<1>4. q.pc = "unmap" /\ q.s = s /\ q.op = req[r].op
      BY <1>0, Own DEF Request
<1> HIDE DEF q
<1>5. req'[r] = q /\ Only(r)
      BY <1>3, Sets
<1>6. damaged' = damaged
      BY <1>3 DEF failures
<1>7. Elsewhere(s)
      BY <1>3, <1>6 DEF Elsewhere
<1>8. Sound(r)'
      BY <1>0, <1>1, <1>2, <1>3, <1>4, <1>5 DEF Sound, Creating, Ending, Gone
<1>9. ASSUME NEW x \in Requests \ {r}, req[x].s = s PROVE Sound(x)'
  <2>1. req'[x] = req[x] /\ Sound(x)
        BY <1>5, Own DEF Only
  <2>2. req[x].pc \in Creating => told[s] = "early"
        BY <1>0, <1>1, <1>9, DestroyMeetsCreation DEF Ending
  <2> QED BY <1>3, <1>9, <2>1, <2>2 DEF Sound
<1>10. OneCreator'
      BY <1>4, <1>5, CreatorsKept DEF Creating
<1>11. Born' /\ MapIsPersisted'
      BY <1>3 DEF Born, MapIsPersisted, ControlInv, SoundInv
<1>12. Agree(s)'
  <2>1. Some(s, {"unmap"})' /\ Some(s, {"unmap", "unbind"})'
        /\ Some(s, {"unmap", "unbind", "unrow"})'
        BY <1>4, <1>5 DEF Some
  <2> QED BY <1>3, <2>1 DEF Agree
<1>13. /\ req[r].pc \notin {"idle", "enter", "hydrate"} /\ req'[r].pc # "hydrate"
       /\ UNCHANGED <<hydration, affinity, intact>> /\ s \notin live'
      BY <1>1, <1>3, <1>4, <1>5
<1>14. Alone'
      BY <1>0, <1>2, <1>4, <1>5, <1>7, <1>13, EffectAlone
<1> QED BY <1>0, <1>2, <1>5, <1>7, <1>8, <1>9, <1>10, <1>11, <1>12, <1>13, <1>14, EffectInv

\* After the backend: the map, the bindings, the row.
LEMMA RemoveEffect ==
    ASSUME RegistryInv, RegistryInv', ControlInv, NEW r \in Requests,
           Unmap(r) \/ Unbind(r) \/ RemoveActive(r)
    PROVE  ControlInv'
<1>0. PICK s : s = req[r].s
      OBVIOUS
<1>1. req[r].pc \in {"unmap", "unbind", "unrow"}
      BY DEF Unmap, Unbind, RemoveActive, At
<1>2. /\ s \in Sandboxes /\ s # None /\ Sound(r) /\ s \notin live
      /\ req[r].pc # "unmap" => known[s] = Absent \/ told[s] = "early"
      BY <1>0, <1>1, Own DEF HasSandbox, Sound, Gone
<1>3. UNCHANGED <<live, named, told, owned, hydration, intact, failures>>
      BY DEF Unmap, Unbind, RemoveActive, NoFailure, store
<1>4. damaged' = damaged
      BY <1>3 DEF failures
<1>5. /\ \A y \in Sandboxes \ {s} : known'[y] = known[y] /\ rows'[y] = rows[y]
      /\ known'[s] = IF At(r, "unmap") THEN Absent ELSE known[s]
      /\ rows'[s] = IF At(r, "unrow") THEN Absent ELSE rows[s]
      BY <1>0, <1>2 DEF Unmap, Unbind, RemoveActive, At, RegistryInv, RestTyped, store
<1>6. /\ \A n \in Names : \A y \in Sandboxes :
            affinity'[n].sandbox = y => affinity[n].sandbox = y
      /\ At(r, "unbind") => \A n \in Names : affinity'[n].sandbox # s
      BY <1>0, <1>2, Ids DEF Unmap, Unbind, RemoveActive, At, Unbound, RegistryInv, DirectoryTyped,
                             store
<1>7. PICK n : /\ Set(r, n) /\ n.s \in {s, None} /\ n.op \in {req[r].op, "none"}
               /\ n.pc \in {"unbind", "unrow", "forget", "idle"}
               /\ n.pc # "idle" => n.s = s /\ n.op = req[r].op
               /\ n.pc = "idle" => n.op = "none" /\ n.s = None
               /\ At(r, "unmap") => n.pc = "unbind"
               /\ At(r, "unbind") => n.pc = "unrow"
               /\ At(r, "unrow") => n.pc \in {"forget", "idle"}
  <2>1. CASE At(r, "unrow") /\ Return(r)
        BY <2>1 DEF Return, Idle, At
  <2>2. ASSUME NEW place \in {"unbind", "unrow", "forget"}, Goto(r, place),
               \/ At(r, "unmap") /\ place = "unbind"
               \/ At(r, "unbind") /\ place = "unrow"
               \/ At(r, "unrow") /\ place = "forget"
        PROVE  \E n : /\ Set(r, n) /\ n.s = s /\ n.op = req[r].op /\ n.pc = place
    <3> DEFINE n == [req[r] EXCEPT !.pc = place]
    <3>1. Set(r, n)
          BY <2>2 DEF Goto
    <3>2. n.pc = place /\ n.s = s /\ n.op = req[r].op
          BY <1>0, Own DEF Request
    <3> HIDE DEF n
    <3> QED BY <3>1, <3>2
  <2>3. \/ At(r, "unmap") /\ Goto(r, "unbind")
        \/ At(r, "unbind") /\ Goto(r, "unrow")
        \/ At(r, "unrow") /\ (Goto(r, "forget") \/ Return(r))
        BY DEF Unmap, Unbind, RemoveActive
  <2> QED BY <2>1, <2>2, <2>3 DEF At
<1>8. req'[r] = n /\ Only(r)
      BY <1>7, Sets
<1>9. Elsewhere(s)
      BY <1>3, <1>4, <1>5 DEF Elsewhere
<1>10. Sound(r)'
  <2>1. CASE n.pc = "idle"
        BY <1>7, <1>8, <2>1 DEF Sound, Creating, Ending, Gone
  <2>2. CASE n.pc # "idle"
    <3>1. n.s = s /\ n.op = req[r].op /\ n.pc \in {"unbind", "unrow", "forget"}
          BY <1>7, <2>2
    <3>2. named[s] # Absent /\ told[s] # "no" /\ n.op \in {"expire", "destroy"}
          BY <1>0, <1>1, <1>2, <3>1 DEF Sound, Ending
    <3>3. n.pc \in {"unbind", "unrow"} => known'[s] = Absent \/ told'[s] = "early"
          BY <1>1, <1>2, <1>3, <1>5, <1>7 DEF At
    <3> QED BY <1>2, <1>3, <1>8, <3>1, <3>2, <3>3 DEF Sound, Creating, Ending, Gone
  <2> QED BY <2>1, <2>2
<1>11. ASSUME NEW x \in Requests \ {r}, req[x].s = s PROVE Sound(x)'
  <2>1. req'[x] = req[x] /\ Sound(x)
        BY <1>8, Own DEF Only
  <2>2. req[x].pc \in Creating => told[s] = "early"
        BY <1>0, <1>1, <1>11, DestroyMeetsCreation DEF Ending
  <2>3. (known'[s] = known[s] \/ known'[s] = Absent) /\ (rows'[s] = rows[s] \/ rows'[s] = Absent)
        BY <1>5
  <2> QED BY <1>2, <1>3, <1>4, <1>11, <2>1, <2>2, <2>3 DEF Sound, Creating
<1>12. OneCreator'
      BY <1>7, <1>8, CreatorsKept DEF Creating
<1>13. Born' /\ MapIsPersisted'
  <2>1. Born'
        BY <1>2, <1>3, <1>5 DEF Born, ControlInv, SoundInv
  <2>2. MapIsPersisted'
    <3>1. At(r, "unrow") => known[s] = Absent \/ told[s] = "early"
          BY <1>2 DEF At
    <3>2. At(r, "unmap") => ~At(r, "unrow")
          BY DEF At
    <3> QED BY <1>3, <1>5, <3>1, <3>2 DEF MapIsPersisted, ControlInv, SoundInv
  <2> QED BY <2>1, <2>2
<1>14. Agree(s)'
  <2>1. SUFFICES ASSUME s \notin damaged
                 PROVE  Agree(s)'
        BY <1>4 DEF Agree
  <2>2. Agree(s)
        BY <1>2 DEF ControlInv, AgreeInv
  <2>3. told[s] # "early" /\ known'[s] # Absent => Some(s, {"unmap"})'
    <3>1. SUFFICES ASSUME told[s] # "early", known'[s] # Absent
                   PROVE  FALSE
          OBVIOUS
    <3>2. ~At(r, "unmap") /\ known[s] # Absent
          BY <1>5, <3>1
    <3> QED BY <1>2, <3>1, <3>2 DEF At
  <2>4. (\E m \in Names : affinity'[m].sandbox = s) => Some(s, {"unmap", "unbind"})'
    <3>1. CASE At(r, "unmap")
          BY <1>7, <1>8, <3>1 DEF Some
    <3>2. CASE At(r, "unbind")
          BY <1>6, <3>2
    <3>3. CASE At(r, "unrow")
      <4>1. ASSUME NEW x \in Requests, req[x].pc \in {"unmap", "unbind"}, req[x].s = s
            PROVE  Some(s, {"unmap", "unbind"})'
        <5>1. req'[x] = req[x]
              BY <1>8, <3>3, <4>1 DEF Only, At
        <5> QED BY <4>1, <5>1 DEF Some
      <4> QED BY <1>2, <1>6, <2>1, <2>2, <4>1 DEF Agree, Some
    <3> QED BY <1>1, <3>1, <3>2, <3>3 DEF At
  <2>5. rows'[s] # Absent => Some(s, {"unmap", "unbind", "unrow"})'
    <3>1. CASE At(r, "unrow")
          BY <1>5, <3>1
    <3>2. CASE ~At(r, "unrow")
          BY <1>1, <1>7, <1>8, <3>2 DEF At, Some
    <3> QED BY <3>1, <3>2
  <2> QED BY <1>2, <1>3, <2>3, <2>4, <2>5 DEF Agree
<1>15. /\ req[r].pc \notin {"idle", "enter", "hydrate"} /\ req'[r].pc # "hydrate"
       /\ UNCHANGED <<hydration, intact>> /\ s \notin live'
      BY <1>1, <1>2, <1>3, <1>7, <1>8
<1>16. Alone'
  <2>1. req'[r].pc # "bind" /\ req'[r].s \in {s, None}
        BY <1>7, <1>8
  <2> QED BY <1>0, <1>2, <1>6, <1>8, <1>9, <2>1, EffectAlone
<1> QED BY <1>0, <1>2, <1>6, <1>8, <1>9, <1>10, <1>11, <1>12, <1>13, <1>14, <1>15, <1>16, EffectInv


-----------------------------------------------------------------------------
\* ensure_hydrated.  While the server is not hydrated, nobody has a sandbox in creation or
\* in destruction.

\* What a request assumes that has not gone on yet.
LEMMA Waits ==
    ASSUME NEW x \in Requests, req'[x].pc \in {"idle", "enter", "hydrate"},
           req'[x].s # None => named'[req'[x].s] # Absent,
           req'[x].op \in {"expire", "destroy"} =>
               told'[req'[x].s] # "no" /\ req'[x].pc # "idle"
    PROVE  Sound(x)'
BY DEF Sound, Creating, Ending, Gone

LEMMA WaitingInv ==
    ASSUME RegistryInv, RegistryInv', ControlInv, NEW r \in Requests, ~hydrated, Only(r),
           UNCHANGED <<live, named, rows, told, owned, affinity, damaged>>,
           \A y \in Sandboxes : known'[y] = known[y] \/ (y \in live /\ known'[y] = rows[y]),
           hydrated' => \A y \in live : rows[y] # Absent => known'[y] = rows[y],
           Sound(r)', req'[r].pc \notin Creating, req'[r].s \in {req[r].s, None}, HydrationInv'
    PROVE  ControlInv'
<1>1. \A x \in Requests : req[x].pc \in {"idle", "enter", "hydrate"}
      BY DEF ControlInv, HydrationInv
<1>2. SoundInv'
  <2>1. ASSUME NEW x \in Requests \ {r} PROVE Sound(x)'
    <3>1. req'[x] = req[x] /\ Sound(x) /\ req[x].pc \in {"idle", "enter", "hydrate"}
          BY <1>1, Own DEF Only
    <3> QED BY <3>1, Waits DEF Sound, Ending
  <2>2. OneCreator'
        BY CreatorsKept
  <2>3. Born'
        BY DEF Born, ControlInv, SoundInv
  <2>4. MapIsPersisted'
        BY DEF MapIsPersisted, ControlInv, SoundInv
  <2> QED BY <2>1, <2>2, <2>3, <2>4 DEF SoundInv
<1>3. AgreeInv'
  <2>1. SUFFICES ASSUME NEW y \in Sandboxes, y \notin damaged
                 PROVE  Agree(y)'
        BY DEF AgreeInv, Agree
  <2>2. ~Some(y, Creating) /\ ~Some(y, {"unmap"}) /\ ~Some(y, {"unmap", "unbind"})
        /\ ~Some(y, {"unmap", "unbind", "unrow"})
        BY <1>1 DEF Some, Creating
  <2>3. Agree(y)
        BY DEF ControlInv, AgreeInv
  <2>4. CASE y \in live
    <3>1. rows[y] = named[y] /\ named[y] # Absent
          BY <2>1, <2>2, <2>3, <2>4 DEF Agree, ControlInv, SoundInv, Born
    <3> QED BY <2>4, <3>1 DEF Agree
  <2>5. CASE y \notin live
        BY <2>1, <2>2, <2>3, <2>5 DEF Agree
  <2> QED BY <2>4, <2>5
<1>4. Alone'
  <2>1. MayHave(r, req'[r].s) /\ req'[r].pc # "bind"
        BY DEF MayHave, Creating
  <2> QED BY <2>1, AloneKept
<1> QED BY <1>2, <1>3, <1>4 DEF ControlInv

LEMMA HydrationEffect ==
    ASSUME RegistryInv, RegistryInv', ControlInv, NEW r \in Requests,
           Hydrate(r) \/ HydrateOne(r) \/ HydrateFlakes(r) \/ Hydrated(r)
    PROVE  ControlInv'
<1>1. HydrationInv /\ req[r] \in Request /\ HandOK(req[r]) /\ Sound(r)
      BY Own DEF ControlInv
<1>2. req[r].pc \in {"enter", "hydrate"} /\ ~hydrated
  <2>1. CASE Hydrate(r)
        BY <2>1 DEF Hydrate, At
  <2>2. CASE ~Hydrate(r)
    <3>1. At(r, "hydrate")
          BY <2>2 DEF HydrateOne, HydrateFlakes, Hydrated
    <3>2. hydrating = r /\ r # None
          BY <1>1, <3>1, Ids DEF HydrationInv
    <3> QED BY <1>1, <3>1, <3>2 DEF HydrationInv, At
  <2> QED BY <2>1, <2>2
<1>3. UNCHANGED <<live, named, rows, told, owned, affinity, damaged>>
      BY DEF Hydrate, HydrateOne, HydrateFlakes, Hydrated, store, NoFailure, failures
<1>5. \A x \in Requests : req[x].pc \in {"idle", "enter", "hydrate"}
      BY <1>1, <1>2 DEF HydrationInv
\* The request goes on with q, and the others wait.
<1>6. ASSUME NEW q, Set(r, q), q.pc \in {"enter", "hydrate"}, q.s = req[r].s, q.op = req[r].op,
             \A y \in Sandboxes : known'[y] = known[y] \/ (y \in live /\ known'[y] = rows[y]),
             ~hydrated', HydrationInv'
      PROVE  ControlInv'
  <2>1. req'[r] = q /\ Only(r)
        BY <1>6, Sets
  <2>2. Sound(r)'
        BY <1>1, <1>2, <1>3, <1>6, <2>1, Waits DEF Sound, Ending
  <2> QED BY <1>2, <1>3, <1>6, <2>1, <2>2, WaitingInv DEF Creating
<1>7. CASE Hydrate(r)
  <2> DEFINE q == [req[r] EXCEPT !.pc = "hydrate", !.todo = {s \in Sandboxes : rows[s] # Absent}]
  <2>1. q.pc = "hydrate" /\ q.s = req[r].s /\ q.op = req[r].op
        /\ q.todo = {s \in Sandboxes : rows[s] # Absent}
        BY <1>1 DEF Request
  <2>2. Set(r, q) /\ hydrating = None /\ hydrating' = r /\ UNCHANGED <<known, hydrated, intact>>
        BY <1>7 DEF Hydrate, NoFailure
  <2> HIDE DEF q
  <2>3. req'[r] = q /\ Only(r)
        BY <2>2, Sets
  <2>4. \A x \in Requests \ {r} : ~At(x, "hydrate")' /\ hydrating' # x
        BY <1>1, <2>2, <2>3, Ids DEF HydrationInv, Only, At
  <2>5. \A x \in Requests : req'[x].pc \in {"idle", "enter", "hydrate"}
        BY <1>5, <2>1, <2>3 DEF Only
  <2>6. live \subseteq Sandboxes
        BY DEF RegistryInv, RestTyped
  <2>7. \A s \in live' \ req'[r].todo : rows'[s] = Absent
        BY <1>3, <2>1, <2>3, <2>6
  <2>8. HydrationInv'
        BY <1>2, <2>1, <2>2, <2>3, <2>4, <2>5, <2>7 DEF HydrationInv, At
  <2> QED BY <1>2, <1>6, <2>1, <2>2, <2>8
<1>8. CASE HydrateOne(r)
  <2>1. PICK s \in req[r].todo :
            /\ known' = IF s \in live THEN [known EXCEPT ![s] = rows[s]] ELSE known
            /\ Set(r, [req[r] EXCEPT !.todo = @ \ {s}])
        BY <1>8 DEF HydrateOne
  <2> DEFINE q == [req[r] EXCEPT !.todo = @ \ {s}]
  <2>2. q.pc = req[r].pc /\ q.s = req[r].s /\ q.op = req[r].op /\ q.flaky = req[r].flaky
        /\ q.todo = req[r].todo \ {s}
        BY <1>1 DEF Request
  <2>3. Set(r, q) /\ At(r, "hydrate") /\ UNCHANGED <<hydrated, hydrating, intact>>
        BY <1>8, <2>1 DEF HydrateOne, NoFailure, hydration
  <2> HIDE DEF q
  <2>4. req'[r] = q /\ Only(r)
        BY <2>3, Sets
  <2>5. /\ s \in Sandboxes
        /\ \A y \in Sandboxes : known'[y] = IF y = s /\ y \in live THEN rows[y] ELSE known[y]
        BY <1>1, <2>1 DEF Request, RegistryInv, RestTyped
  <2>6. live \subseteq Sandboxes
        BY DEF RegistryInv, RestTyped
  <2>7. HydrationInv'
    <3>1. hydrating = r /\ (\A x \in Requests \ {r} : ~At(x, "hydrate"))
          BY <1>1, <2>3 DEF HydrationInv
    <3>2. At(r, "hydrate")' /\ (\A x \in Requests \ {r} : ~At(x, "hydrate")')
          BY <2>2, <2>3, <2>4, <3>1 DEF Only, At
    <3>3. ASSUME ~req'[r].flaky, NEW y \in live' \ req'[r].todo, rows'[y] # Absent
          PROVE  known'[y] = rows'[y]
          BY <1>1, <1>3, <2>2, <2>3, <2>4, <2>5, <2>6, <3>3 DEF HydrationInv
    <3>4. \A x \in Requests : req'[x].pc \in {"idle", "enter", "hydrate"}
          BY <1>5, <2>2, <2>4 DEF Only
    <3> QED BY <1>2, <2>3, <3>1, <3>2, <3>3, <3>4 DEF HydrationInv
  <2>8. \A y \in Sandboxes : known'[y] = known[y] \/ (y \in live /\ known'[y] = rows[y])
        BY <2>5
  <2> QED BY <1>2, <1>6, <2>2, <2>3, <2>7, <2>8
<1>9. CASE HydrateFlakes(r)
  <2>1. PICK s \in req[r].todo : Set(r, [req[r] EXCEPT !.todo = @ \ {s}, !.flaky = TRUE])
        BY <1>9 DEF HydrateFlakes
  <2> DEFINE q == [req[r] EXCEPT !.todo = @ \ {s}, !.flaky = TRUE]
  <2>2. q.pc = req[r].pc /\ q.s = req[r].s /\ q.op = req[r].op /\ q.flaky
        BY <1>1 DEF Request
  <2>3. Set(r, q) /\ At(r, "hydrate") /\ UNCHANGED <<known, hydrated, hydrating, intact>>
        BY <1>9, <2>1 DEF HydrateFlakes, hydration
  <2> HIDE DEF q
  <2>4. req'[r] = q /\ Only(r)
        BY <2>3, Sets
  <2>5. HydrationInv'
    <3>1. hydrating = r /\ (\A x \in Requests \ {r} : ~At(x, "hydrate"))
          BY <1>1, <2>3 DEF HydrationInv
    <3>2. At(r, "hydrate")' /\ (\A x \in Requests \ {r} : ~At(x, "hydrate")')
          BY <2>2, <2>3, <2>4, <3>1 DEF Only, At
    <3>3. \A x \in Requests : req'[x].pc \in {"idle", "enter", "hydrate"}
          BY <1>5, <2>2, <2>4 DEF Only
    <3> QED BY <1>2, <2>2, <2>3, <2>4, <3>1, <3>2, <3>3 DEF HydrationInv
  <2> QED BY <1>2, <1>6, <2>2, <2>3, <2>5
<1>10. CASE Hydrated(r)
  <2>1. /\ At(r, "hydrate") /\ req[r].todo = {} /\ hydrating' = None /\ hydrated' = ~req[r].flaky
        /\ UNCHANGED <<known, intact>>
        BY <1>10 DEF Hydrated, NoFailure
  <2>2. hydrating = r /\ (\A x \in Requests \ {r} : ~At(x, "hydrate"))
        BY <1>1, <2>1 DEF HydrationInv
  <2>3. PICK n : /\ Set(r, n) /\ n.s \in {req[r].s, None}
                 /\ req[r].flaky => n = Idle
                 /\ ~req[r].flaky =>
                        n.pc = First(req[r].op) /\ n.s = req[r].s /\ n.op = req[r].op
    <3>1. CASE req[r].flaky
          BY <1>10, <3>1 DEF Hydrated, Return, Idle
    <3>2. CASE ~req[r].flaky
      <4> DEFINE q == [req[r] EXCEPT !.pc = First(req[r].op)]
      <4>1. Set(r, q)
            BY <1>10, <3>2 DEF Hydrated, Goto
      <4>2. q.pc = First(req[r].op) /\ q.s = req[r].s /\ q.op = req[r].op
            BY <1>1 DEF Request
      <4> HIDE DEF q
      <4> QED BY <3>2, <4>1, <4>2
    <3> QED BY <3>1, <3>2
  <2>4. req'[r] = n /\ Only(r)
        BY <2>3, Sets
  <2>5. req[r].op \in Ops \ {"none"}
        BY <1>1, <2>1 DEF HandOK, At, Request
  <2>6. Sound(r)' /\ req'[r].pc \notin Creating \cup {"hydrate"} /\ (req[r].flaky => req'[r].pc = "idle")
    <3>1. CASE req[r].flaky
          BY <2>3, <2>4, <3>1 DEF Sound, Idle, Creating, Ending, Gone
    <3>2. CASE ~req[r].flaky
          BY <1>1, <1>3, <2>3, <2>4, <2>5, <3>2, FirstPlace DEF Sound, Creating, Ending, Gone
    <3> QED BY <3>1, <3>2
  <2>7. HydrationInv'
    <3>1. \A x \in Requests : ~At(x, "hydrate")' /\ hydrating' # x
          BY <2>1, <2>2, <2>4, <2>6, Ids DEF Only, At
    <3>2. CASE req[r].flaky
      <4>1. \A x \in Requests : req'[x].pc \in {"idle", "enter", "hydrate"}
            BY <1>5, <2>4, <2>6, <3>2 DEF Only
      <4>2. ~hydrated' /\ hydrating' = None
            BY <2>1, <3>2
      <4> QED BY <3>1, <4>1, <4>2 DEF HydrationInv
    <3>3. CASE ~req[r].flaky
      <4>1. \A s \in live' : rows'[s] # Absent => known'[s] = rows'[s]
            BY <1>1, <1>3, <2>1, <3>3 DEF HydrationInv
      <4>2. hydrated' /\ hydrating' = None
            BY <2>1, <3>3
      <4> QED BY <3>1, <4>1, <4>2 DEF HydrationInv
    <3> QED BY <3>2, <3>3
  <2>8. hydrated' => \A y \in live : rows[y] # Absent => known'[y] = rows[y]
        BY <1>1, <2>1 DEF HydrationInv
  <2>9. req'[r].s \in {req[r].s, None}
        BY <2>3, <2>4
  <2> QED BY <1>2, <1>3, <2>1, <2>4, <2>6, <2>7, <2>8, <2>9, WaitingInv
<1> QED BY <1>7, <1>8, <1>9, <1>10


-----------------------------------------------------------------------------
\* Failures.

\* What is left after one: a sandbox less, a request less, and those damaged whose call was
\* cut off half way.
LEMMA FaultInv ==
    ASSUME RegistryInv, ControlInv, UNCHANGED <<named, known, rows, told, owned, affinity>>,
           hydrated' = hydrated, live' \subseteq live,
           damaged \subseteq damaged', live \ live' \subseteq damaged',
           \A x \in Requests : \/ req'[x] = req[x]
                               \/ /\ Sound(x)' /\ req'[x].pc \notin Creating
                                  /\ req'[x].s \in {req[x].s, None}
                                  /\ req[x].pc \in Blamed => req[x].s \in damaged'
    PROVE  SoundInv' /\ AgreeInv' /\ Alone'
<1>1. ASSUME NEW x \in Requests PROVE Sound(x)'
  <2>1. Sound(x)
        BY Own
  <2> QED BY <2>1 DEF Sound
<1>2. OneCreator'
      BY DEF ControlInv, SoundInv, OneCreator
<1>3. Born' /\ MapIsPersisted'
      BY DEF Born, MapIsPersisted, ControlInv, SoundInv
<1>4. AgreeInv'
  <2>1. SUFFICES ASSUME NEW y \in Sandboxes
                 PROVE  Agree(y)'
        BY DEF AgreeInv
  <2>2. y \notin damaged' =>
            /\ y \notin damaged
            /\ y \in live' <=> y \in live
            /\ \A x \in Requests : req[x].s = y /\ req[x].pc \in Blamed => req'[x] = req[x]
        OBVIOUS
  <2> QED BY <2>2, AgreeKept
<1>5. Alone'
  <2>1. \A x \in Requests : req'[x].pc = "bind" => At(x, "bind") /\ req'[x] = req[x]
        BY DEF Creating, At
  <2>2. \A x \in Requests : req'[x].s \in {req[x].s, None}
        OBVIOUS
  <2>3. \A x \in Requests : At(x, "bind") => req[x].s # None
        BY Own, Ids DEF At, HasSandbox
  <2> QED BY <2>1, <2>2, <2>3 DEF ControlInv, Alone, At
<1> QED BY <1>1, <1>2, <1>3, <1>4, <1>5 DEF SoundInv

\* A request that has failed.
LEMMA IdleIsSound ==
    ASSUME NEW r \in Requests, req'[r] = Idle
    PROVE  Sound(r)' /\ req'[r].pc = "idle" /\ req'[r].pc \notin Creating \cup {"hydrate"}
BY DEF Sound, Idle, Creating, Ending, Gone

LEMMA FlakeEffect ==
    ASSUME RegistryInv, RegistryInv', ControlInv, NEW r \in Requests, InspectFlakes(r)
    PROVE  ControlInv'
<1> DEFINE q == [req[r] EXCEPT !.pc = "clear", !.flaky = TRUE]
<1>1. /\ At(r, "inspect") /\ Set(r, q)
      /\ UNCHANGED <<live, named, known, rows, told, owned, affinity, hydration, intact, damaged>>
      BY DEF InspectFlakes, store
<1>2. q.pc = "clear" /\ q.s = req[r].s /\ q.op = req[r].op /\ q.flaky
      BY Own DEF Request
<1> HIDE DEF q
<1>3. req'[r] = q /\ Only(r)
      BY <1>1, Sets
<1>4. Sound(r)' /\ req'[r].pc \notin Creating
      BY <1>1, <1>2, <1>3, Own DEF At, Sound, Creating, Ending, Gone
<1>5. SoundInv' /\ AgreeInv' /\ Alone'
  <2>1. req[r].pc \notin Blamed /\ req'[r].s = req[r].s
        BY <1>1, <1>2, <1>3 DEF At, Blamed, Creating
  <2>2. hydrated' = hydrated
        BY <1>1 DEF hydration
  <2> QED BY <1>1, <1>3, <1>4, <2>1, <2>2, FaultInv DEF Only
<1>6. hydrated
      BY <1>1, Hydrating DEF ControlInv, At
<1>7. ASSUME NEW x \in Requests, At(x, "map") PROVE At(x, "map")' /\ req'[x].s = req[x].s
      BY <1>1, <1>3, <1>7 DEF Only, At
<1>8. HydrationInv'
  <2>1. intact' => intact /\ \A s \in live' : rows'[s] # Absent =>
                  known'[s] = rows'[s] \/ \E x \in Requests : At(x, "map")' /\ req'[x].s = s
        BY <1>1, <1>6, <1>7 DEF ControlInv, HydrationInv
  <2>2. req[r].pc # "hydrate" /\ req'[r].pc # "hydrate"
        BY <1>1, <1>2, <1>3 DEF At
  <2> QED BY <1>1, <1>3, <1>6, <2>1, <2>2, HydrationKept
<1> QED BY <1>5, <1>8 DEF ControlInv

LEMMA FailEffect ==
    ASSUME RegistryInv, RegistryInv', ControlInv, NEW r \in Requests,
           CallFails(r) \/ DestroyFails(r)
    PROVE  ControlInv'
<1>1. /\ UNCHANGED <<named, known, rows, told, owned, affinity, hydrated>>
      /\ live' \subseteq live /\ damaged \subseteq damaged' /\ live \ live' \subseteq damaged'
      /\ req[r].pc \in Blamed => req[r].s \in damaged'
      BY DEF CallFails, DestroyFails, store, hydration, Blamed, Creating, HalfDone, Halfway
<1>2. req'[r] = Idle /\ Only(r)
      BY Sets DEF CallFails, DestroyFails, Return
<1>3. Sound(r)' /\ req'[r].pc \notin Creating \cup {"hydrate"} /\ req'[r].pc = "idle"
      BY <1>2, IdleIsSound
<1>4. SoundInv' /\ AgreeInv' /\ Alone'
  <2>1. req'[r].s = None
        BY <1>2 DEF Idle
  <2> QED BY <1>1, <1>2, <1>3, <2>1, FaultInv DEF Only
<1>5. HydrationInv'
  <2>1. CASE At(r, "hydrate")
    <3>1. hydrating = r /\ ~hydrated /\ (\A x \in Requests \ {r} : ~At(x, "hydrate"))
          BY <2>1, Ids DEF ControlInv, HydrationInv
    <3>2. CallFails(r) /\ hydrating' = None
          BY <2>1, <3>1 DEF CallFails, DestroyFails, At
    <3>3. \A x \in Requests : ~At(x, "hydrate")' /\ hydrating' # x
          BY <1>2, <1>3, <3>1, <3>2, Ids DEF Only, At
    <3>4. \A x \in Requests : req'[x].pc \in {"idle", "enter", "hydrate"}
          BY <1>2, <1>3, <3>1 DEF Only, ControlInv, HydrationInv
    <3> QED BY <1>1, <3>1, <3>2, <3>3, <3>4 DEF HydrationInv
  <2>2. CASE ~At(r, "hydrate")
    <3>1. req[r].pc \notin {"idle", "enter", "hydrate"}
          BY <2>2 DEF CallFails, DestroyFails, At
    <3>2. hydrated
          BY <3>1, Hydrating DEF ControlInv
    <3>3. ~intact' /\ UNCHANGED hydration
          BY <2>2 DEF CallFails, DestroyFails, hydration, ControlInv, HydrationInv
    <3> QED BY <1>2, <1>3, <3>1, <3>2, <3>3, HydrationKept
  <2> QED BY <2>1, <2>2
<1> QED BY <1>4, <1>5 DEF ControlInv

LEMMA DieEffect ==
    ASSUME RegistryInv, RegistryInv', ControlInv, NEW s \in Sandboxes, Die(s)
    PROVE  ControlInv'
<1>1. /\ UNCHANGED <<named, known, rows, told, owned, affinity, hydrated, hydrating, req, intact>>
      /\ live' \subseteq live /\ damaged \subseteq damaged' /\ live \ live' \subseteq damaged'
      BY DEF Die, store, hydration
<1>2. SoundInv' /\ AgreeInv' /\ Alone'
      BY <1>1, FaultInv
<1>3. HydrationInv'
      BY <1>1 DEF ControlInv, HydrationInv, At
<1> QED BY <1>2, <1>3 DEF ControlInv

LEMMA RestartEffect ==
    ASSUME RegistryInv, RegistryInv', ControlInv, Restart
    PROVE  ControlInv'
<1>1. /\ UNCHANGED <<named, rows, told, owned, affinity>> /\ live' \subseteq live
      /\ ~hydrated' /\ hydrating' = None
      /\ damaged \subseteq damaged' /\ live \ live' \subseteq damaged'
      /\ \A x \in Requests : HalfDone(x) \subseteq damaged'
      BY DEF Restart, store
<1>2. \A s \in Sandboxes : known'[s] = Absent
      BY DEF Restart
<1>3. \A r \in Requests : req'[r] = Idle
      BY DEF Restart
<1>4. \A r \in Requests : Sound(r)' /\ req'[r].pc \notin Creating
      BY <1>3, IdleIsSound
<1>5. SoundInv'
      BY <1>1, <1>2, <1>4 DEF SoundInv, OneCreator, Born, MapIsPersisted, ControlInv
<1>6. HydrationInv'
      BY <1>1, <1>3, Ids DEF HydrationInv, At, Idle
<1>7. AgreeInv'
  <2>1. SUFFICES ASSUME NEW y \in Sandboxes, y \notin damaged'
                 PROVE  Agree(y)'
        BY DEF AgreeInv, Agree
  <2>2. \A x \in Requests : req[x].pc \in Blamed => req[x].s # y
        BY <1>1, <2>1 DEF HalfDone, Halfway, Blamed, Creating
  <2>3. ~Some(y, Creating) /\ ~Some(y, {"unmap", "unbind"})
        /\ ~Some(y, {"unmap", "unbind", "unrow"})
        BY <2>2 DEF Some, Blamed
  <2>4. Agree(y) /\ y \notin damaged /\ (y \in live' <=> y \in live)
        BY <1>1, <2>1 DEF ControlInv, AgreeInv
  <2> QED BY <1>1, <1>2, <2>3, <2>4 DEF Agree
<1>8. Alone'
      BY <1>3 DEF Alone, At, Idle
<1> QED BY <1>5, <1>6, <1>7, <1>8 DEF ControlInv

-----------------------------------------------------------------------------
LEMMA ControlInit == RegistryInit => ControlInv
<1> SUFFICES ASSUME RegistryInit
             PROVE  ControlInv
    OBVIOUS
<1>1. \A r \in Requests : req[r] = Idle
      BY DEF RegistryInit
<1>2. /\ live = {} /\ owned = {} /\ ~hydrated /\ hydrating = None
      /\ \A s \in Sandboxes : known[s] = Absent /\ rows[s] = Absent /\ told[s] = "no"
      /\ \A n \in Names : affinity[n].sandbox = None
      BY DEF RegistryInit
<1>3. \A r \in Requests : Sound(r) /\ req[r].pc = "idle"
      BY <1>1, Idles
<1>4. SoundInv
      BY <1>2, <1>3 DEF SoundInv, OneCreator, Creating, Born, MapIsPersisted
<1>5. HydrationInv
      BY <1>2, <1>3, Ids DEF HydrationInv, At
<1>6. AgreeInv /\ Alone
      BY <1>2, <1>3, Ids DEF AgreeInv, Agree, Alone, At
<1> QED BY <1>4, <1>5, <1>6 DEF ControlInv

LEMMA ControlNext ==
    RegistryInv /\ RegistryInv' /\ ControlInv /\ [RegistryNext]_vars => ControlInv'
<1> SUFFICES ASSUME RegistryInv, RegistryInv', ControlInv, [RegistryNext]_vars
             PROVE  ControlInv'
    OBVIOUS
<1>1. ASSUME NEW r \in Requests, Begin(r)
      PROVE  ControlInv'
      BY <1>1, CallQuiet, QuietInv
<1>2. ASSUME NEW r \in Requests, Proceed(r)
      PROVE  ControlInv'
  <2>1. CASE Enter(r) \/ Hydrate(r) \/ HydrateOne(r) \/ Hydrated(r)
        BY <2>1, EnterQuiet, QuietInv, HydrationEffect
  <2>2. CASE BackendCreate(r) \/ BackendRestore(r)
        BY <2>2, CreateFails, QuietInv, NewEffect
  <2>3. CASE BindSandbox(r) \/ UpsertActive(r) \/ InsertKnown(r)
        BY <2>3, BindEffect, InsertEffect
  <2>4. CASE LoadSnapshot(r) \/ LookUp(r) \/ RecordSnapshot(r) \/ Archive(r) \/ Remember(r)
        BY <2>4, SnapshotQuiet, QuietInv
  <2>5. CASE ReadAffinity(r) \/ ClearBinding(r) \/ SandboxConfig(r) \/ PrepareRun(r)
        BY <2>5, ReadQuiet, ClearQuiet, RunQuiet, QuietInv
  <2>6. CASE InspectBound(r)
    <3>1. CASE UNCHANGED told
          BY <2>6, <3>1, InspectQuiet, QuietInv
    <3>2. CASE Tell(req[r].s) /\ req[r].s \in live /\ Return(r)
          BY <2>6, <3>2, TellEffect
    <3> QED BY <2>6, <3>1, <3>2 DEF InspectBound
  <2>7. CASE StartProcess(r)
    <3>1. CASE UNCHANGED <<owned, told>>
          BY <2>7, <3>1, RunQuiet, QuietInv
    <3>2. CASE Tell(req[r].s) /\ req[r].s \in live /\ Return(r)
          BY <2>7, <3>2, TellEffect
    <3> QED BY <2>7, <3>1, <3>2 DEF StartProcess
  <2>8. CASE PurgeProcesses(r) \/ InspectOwned(r) \/ ForgetProcess(r)
        BY <2>8, DestroyQuiet, QuietInv
  <2>9. CASE BackendDestroy(r)
        BY <2>9, DestroyQuiet, QuietInv, DestroyEffect
  <2>10. CASE Unmap(r) \/ Unbind(r) \/ RemoveActive(r)
        BY <2>10, RemoveEffect
  <2> QED BY <1>2, <2>1, <2>2, <2>3, <2>4, <2>5, <2>6, <2>7, <2>8, <2>9, <2>10 DEF Proceed
<1>3. ASSUME NEW r \in Requests, Fail(r)
      PROVE  ControlInv'
      BY <1>3, HydrationEffect, FlakeEffect, FailEffect DEF Fail
<1>4. CASE UNCHANGED vars
  <2>1. UNCHANGED <<World, owned, affinity, hydrated, hydrating, req, intact, damaged>>
        BY <1>4 DEF vars, store, hydration, failures, World
  <2>2. SoundInv'
        BY <2>1 DEF ControlInv, SoundInv, Sound, OneCreator, Born, MapIsPersisted, World
  <2>3. HydrationInv'
        BY <2>1 DEF ControlInv, HydrationInv, At, World
  <2>4. AgreeInv'
        BY <2>1 DEF ControlInv, AgreeInv, Agree, Some, World
  <2>5. Alone'
        BY <2>1 DEF ControlInv, Alone, At, World
  <2> QED BY <2>2, <2>3, <2>4, <2>5 DEF ControlInv
<1> QED BY <1>1, <1>2, <1>3, <1>4, DieEffect, RestartEffect DEF RegistryNext

LEMMA ControlHolds == RegistrySpec => []ControlInv
<1>1. RegistryInv /\ ControlInv /\ [RegistryNext]_vars => ControlInv'
      BY NextInv, ControlNext
<1> QED BY <1>1, ControlInit, InvHolds, PTL DEF RegistrySpec

\* What the map knows has its row, so that a server that starts again finds it.
THEOREM RegistryPersists == RegistrySpec => []MapIsPersisted
BY ControlHolds, PTL DEF ControlInv, SoundInv

\* A server that has hydrated knows every sandbox that runs and has a row, whatever had
\* failed before it started, and however many requests wait for the hydration.
THEOREM RegistryHydrated == RegistrySpec => []HydratedKnowsLive
<1>1. RegistryInv /\ ControlInv => HydratedKnowsLive
      BY DEF ControlInv, HydrationInv, HydratedKnowsLive, Rest, At
<1> QED BY <1>1, InvHolds, ControlHolds, PTL

\* The hydration that others wait for is one that some request performs.
THEOREM RegistryWorker == RegistrySpec => []HydrationHasWorker
<1>1. RegistryInv /\ ControlInv => HydrationHasWorker
      BY DEF RegistryInv, RestTyped, ControlInv, HydrationInv, HydrationHasWorker
<1> QED BY <1>1, InvHolds, ControlHolds, PTL

\* Creations, destructions, failures and restarts in any order leave the backend, the map,
\* the rows and the names in agreement about every sandbox that was not itself cut off half
\* way; one that was destroyed while it was being created may stay in the map and the rows.
THEOREM RegistryAgrees == RegistrySpec => []AtRestAllAgree
<1>1. RegistryInv /\ ControlInv => AtRestAllAgree
  <2> SUFFICES ASSUME ControlInv, Rest, NEW s \in Sandboxes \ damaged
               PROVE  \/ /\ s \in live /\ rows[s] = named[s]
                         /\ hydrated => known[s] = named[s]
                      \/ /\ s \notin live
                         /\ \A n \in Names : affinity[n].sandbox # s
                         /\ told[s] = "early" \/ (known[s] = Absent /\ rows[s] = Absent)
      BY DEF AtRestAllAgree
  <2>1. ~Some(s, Creating) /\ ~Some(s, {"unmap"}) /\ ~Some(s, {"unmap", "unbind"})
        /\ ~Some(s, {"unmap", "unbind", "unrow"})
        BY DEF Rest, Some, Creating
  <2>2. Agree(s)
        BY DEF ControlInv, AgreeInv
  <2> QED BY <2>1, <2>2 DEF Agree
<1> QED BY <1>1, InvHolds, ControlHolds, PTL

\* A name is taken from a sandbox that runs only by one of which nothing was recorded yet,
\* or because its own inspect failed.
THEOREM RegistryNames == RegistrySpec => NameLostWithCause
<1>1. RegistryInv /\ ControlInv /\ [RegistryNext]_vars => LosesNameWithCause
  <2> SUFFICES ASSUME RegistryInv, ControlInv, [RegistryNext]_vars, NEW n \in Names,
                      affinity[n].sandbox \in live, affinity'[n].sandbox # affinity[n].sandbox
               PROVE  CauseOfLoss(n)
      BY DEF LosesNameWithCause
  <2>1. PICK r \in Requests : BindSandbox(r) \/ ClearBinding(r) \/ Unbind(r)
        BY OtherSteps DEF SameBound
  <2>2. HandOK(req[r]) /\ Sound(r)
        BY Own
  <2>3. CASE BindSandbox(r)
    <3>1. req[r].s \in Sandboxes /\ req[r].s # None /\ req[r].pc = "bind"
          BY <2>3, Own DEF BindSandbox, At, HasSandbox
    <3>2. affinity'[n].sandbox = req[r].s /\ req[r].name = n
          BY <2>3 DEF BindSandbox, RegistryInv, DirectoryTyped
    <3>3. named[req[r].s] = n /\ rows[req[r].s] = Absent /\ known[req[r].s] = Absent
          BY <2>2, <3>1, <3>2 DEF Sound, Creating
    <3> QED BY <3>1, <3>2, <3>3 DEF CauseOfLoss
  <2>4. CASE ClearBinding(r) \/ Unbind(r)
    <3>1. affinity[n].sandbox = req[r].s /\ affinity'[n].sandbox = None
          BY <2>4 DEF ClearBinding, Unbind, Unbound, RegistryInv, DirectoryTyped
    <3>2. CASE Unbind(r)
          BY <2>2, <3>1, <3>2 DEF Unbind, At, Sound, Gone
    <3>3. CASE ClearBinding(r)
      <4>1. req[r].pc = "clear" /\ req[r].flaky
            BY <2>2, <3>1, <3>3 DEF ClearBinding, At, Sound
      <4> QED BY <3>1, <4>1 DEF CauseOfLoss, At
    <3> QED BY <2>4, <3>2, <3>3
  <2> QED BY <2>1, <2>3, <2>4
<1>2. RegistryInv /\ ControlInv /\ [RegistryNext]_vars => [LosesNameWithCause]_vars
      BY <1>1
<1> QED BY <1>2, InvHolds, ControlHolds, PTL DEF RegistrySpec, NameLostWithCause
=============================================================================
