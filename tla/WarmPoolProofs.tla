--------------------------- MODULE WarmPoolProofs ---------------------------
(***************************************************************************)
(* Proofs about WarmPool for every set of clients, refill tasks and        *)
(* sandboxes and every target: its types, where each sandbox is, that a    *)
(* lease is exclusive, that stats counts nothing twice, and that the pool  *)
(* implements SandboxLease.                                                *)
(***************************************************************************)
EXTENDS WarmPool, FiniteSetTheorems, TLAPS

\* A local variable holds an id exactly at the awaits between taking the id out of
\* one collection and putting it into another.
CarryPlaces ==
    \A t \in Tasks : carry[t] # None <=> pc[t] \in {"push", "insert", "drop", "push_back"}

\* OnePlaceEach, one sandbox at a time.
Places1 ==
    /\ available \cap inUse = {}
    /\ available \subseteq created
    /\ inUse \subseteq created
    /\ \A t \in Tasks : carry[t] # None =>
          carry[t] \in created /\ carry[t] \notin available /\ carry[t] \notin inUse
    /\ \A t, u \in Tasks : carry[t] = carry[u] /\ carry[t] # None => t = u
    /\ \A s \in created : s \in available \/ s \in inUse \/ \E t \in Tasks : carry[t] = s

\* A refill task only fills; a client holds a sandbox only between its calls, or
\* while it asks for statistics.
CallPlaces ==
    /\ \A t \in Fillers : pc[t] \in {"idle", "fill", "create", "push"}
    /\ \A c \in Clients : lent[c] # None => pc[c] \in {"idle", "stats"}

\* The inductive invariant: the types, and what the code's local variables add to
\* the two properties.
PoolInv == PoolTypeOK /\ CarryPlaces /\ Places1 /\ CallPlaces /\ ExclusiveLease

LEMMA PoolInitInv == PoolInit => PoolInv
  <1> SUFFICES ASSUME PoolInit PROVE PoolInv
    OBVIOUS
  <1>1. PoolTypeOK
    BY DEF PoolInit, PoolTypeOK, Places, Tasks
  <1>2. CarryPlaces /\ CallPlaces
    BY DEF PoolInit, CarryPlaces, CallPlaces, Tasks
  <1>3. Places1 /\ ExclusiveLease
    BY DEF PoolInit, Places1, ExclusiveLease, Tasks
  <1> QED BY <1>1, <1>2, <1>3 DEF PoolInv

\* stats reads lengths, which are numbers because the sandboxes are finitely many.
LEMMA Lengths ==
  ASSUME PoolTypeOK
  PROVE  Cardinality(available) \in Nat /\ Cardinality(inUse) \in Nat
  <1>1. IsFiniteSet(available) /\ IsFiniteSet(inUse)
    BY FS_Subset, PoolAssumption DEF PoolTypeOK
  <1> QED BY <1>1, FS_CardinalityType

\* The steps that move no sandbox.
LEMMA QuietStep ==
  ASSUME PoolInv, NEW t \in Tasks,
         StartFill(t) \/ FillCheck(t) \/ CreateFails(t) \/ StartCheckout(t) \/ Unwind(t)
           \/ ReleaseDrop(t) \/ StatsAvailable(t) \/ StatsInUse(t)
  PROVE  PoolInv' /\ UNCHANGED <<created, lent>>
  <1> USE DEF PoolInv, At, Goto
  <1>0. UNCHANGED <<available, inUse, created, carry, lent>>
    BY DEF StartFill, FillCheck, CreateFails, StartCheckout, Unwind, ReleaseDrop,
           StatsAvailable, StatsInUse
  <1>1. PoolTypeOK'
    <2>1. CASE StartFill(t)
      BY <2>1 DEF StartFill, PoolTypeOK, Places
    <2>2. CASE FillCheck(t)
      BY <2>2 DEF FillCheck, PoolTypeOK, Places
    <2>3. CASE CreateFails(t)
      BY <2>3 DEF CreateFails, PoolTypeOK, Places
    <2>4. CASE StartCheckout(t)
      BY <2>4 DEF StartCheckout, PoolTypeOK, Places
    <2>5. CASE Unwind(t)
      BY <2>5 DEF Unwind, PoolTypeOK, Places
    <2>6. CASE ReleaseDrop(t)
      BY <2>6 DEF ReleaseDrop, PoolTypeOK, Places
    <2>7. CASE StatsAvailable(t)
      BY <2>7, Lengths DEF StatsAvailable, PoolTypeOK, Places
    <2>8. CASE StatsInUse(t)
      <3>1. t \in Clients
        BY <2>8 DEF StatsInUse, CallPlaces, Tasks
      <3> QED BY <2>8, <3>1, Lengths DEF StatsInUse, PoolTypeOK, Places
    <2> QED BY <2>1, <2>2, <2>3, <2>4, <2>5, <2>6, <2>7, <2>8
  <1>2. CarryPlaces' /\ CallPlaces'
    BY <1>0, PoolAssumption DEF CarryPlaces, CallPlaces, PoolTypeOK, Tasks, StartFill,
       FillCheck, CreateFails, StartCheckout, Unwind, ReleaseDrop, StatsAvailable, StatsInUse
  <1>3. Places1' /\ ExclusiveLease'
    BY <1>0 DEF Places1, ExclusiveLease
  <1> QED BY <1>0, <1>1, <1>2, <1>3

\* The backend, or the restore closure, hands out an id that nobody has.
LEMMA NewSandboxStep ==
  ASSUME PoolInv, NEW t \in Tasks, FillCreate(t) \/ Restore(t)
  PROVE  PoolInv' /\ UNCHANGED lent /\ Lease!Grow
  <1> USE DEF PoolInv, At, Goto, FillCreate, Restore, NewSandbox
  <1>1. PICK s \in Sandboxes \ created :
          /\ created' = created \cup {s}
          /\ carry' = [carry EXCEPT ![t] = s]
          /\ UNCHANGED <<available, inUse, availLock, useLock, lent, stat>>
    OBVIOUS
  <1>2. s # None /\ s \notin available /\ s \notin inUse
    BY PoolAssumption DEF Places1
  <1>3. PoolTypeOK'
    BY <1>1 DEF PoolTypeOK, Places
  <1>4. CarryPlaces'
    BY <1>1, <1>2 DEF CarryPlaces, PoolTypeOK
  <1>5. CallPlaces'
    BY <1>1, PoolAssumption DEF CallPlaces, PoolTypeOK, Tasks
  <1>6. Places1'
    <2>1. carry[t] = None /\ None \notin created
      BY PoolAssumption DEF CarryPlaces, PoolTypeOK
    <2>2. \A u \in Tasks : carry'[u] = IF u = t THEN s ELSE carry[u]
      BY <1>1 DEF PoolTypeOK
    <2>3. \A x \in created' : x \in available \/ x \in inUse \/ \E u \in Tasks : carry'[u] = x
      <3> SUFFICES ASSUME NEW x \in created', x \notin available, x \notin inUse
                   PROVE  \E u \in Tasks : carry'[u] = x
        OBVIOUS
      <3>1. CASE x = s
        BY <2>2, <3>1
      <3>2. CASE x # s
        <4>1. PICK u \in Tasks : carry[u] = x
          BY <1>1, <3>2 DEF Places1
        <4> QED BY <1>1, <2>1, <2>2, <3>2, <4>1
      <3> QED BY <3>1, <3>2
    <2>4. \A u, v \in Tasks : carry'[u] = carry'[v] /\ carry'[u] # None => u = v
      BY <1>1, <1>2, <2>2 DEF Places1
    <2>5. \A u \in Tasks : carry'[u] # None =>
            carry'[u] \in created' /\ carry'[u] \notin available /\ carry'[u] \notin inUse
      BY <1>1, <1>2, <2>2 DEF Places1
    <2> QED BY <1>1, <2>3, <2>4, <2>5 DEF Places1
  <1>7. ExclusiveLease'
    BY <1>1 DEF ExclusiveLease
  <1>8. Lease!Grow
    BY <1>1 DEF Lease!Grow
  <1> QED BY <1>1, <1>3, <1>4, <1>5, <1>6, <1>7, <1>8

\* A queue gains the id a call carries: fill's push and release's push.
LEMMA PushStep ==
  ASSUME PoolInv, NEW t \in Tasks, FillPush(t) \/ ReleasePush(t)
  PROVE  PoolInv' /\ UNCHANGED <<created, lent>>
  <1> USE DEF PoolInv, At, Goto, FillPush, ReleasePush
  <1>1. /\ available' = available \cup {carry[t]}
        /\ carry' = [carry EXCEPT ![t] = None]
        /\ UNCHANGED <<inUse, created, lent>>
    OBVIOUS
  <1>2. carry[t] \in Sandboxes /\ carry[t] # None
    BY DEF CarryPlaces, PoolTypeOK
  <1>3. PoolTypeOK'
    BY <1>1, <1>2 DEF PoolTypeOK, Places
  <1>4. CarryPlaces'
    BY <1>1 DEF CarryPlaces, PoolTypeOK
  <1>5. CallPlaces'
    BY <1>1, PoolAssumption DEF CallPlaces, PoolTypeOK, Tasks
  <1>6. Places1'
    BY <1>1, <1>2 DEF Places1, PoolTypeOK
  <1>7. ExclusiveLease'
    BY <1>1 DEF ExclusiveLease
  <1> QED BY <1>1, <1>3, <1>4, <1>5, <1>6, <1>7

\* A call takes an id out of the queue, or finds it empty.
LEMMA TakeStep ==
  ASSUME PoolInv, NEW t \in Tasks, Pop(t) \/ TakeOrRestore(t)
  PROVE  PoolInv' /\ UNCHANGED <<created, lent>>
  <1> USE DEF PoolInv, At, Goto, Pop, TakeOrRestore
  <1>0. t \in Clients /\ lent[t] = None /\ carry[t] = None
    BY DEF CallPlaces, CarryPlaces, Tasks
  <1>1. CASE UNCHANGED <<available, carry>>
    <2>1. UNCHANGED <<inUse, created, lent>>
      OBVIOUS
    <2>2. PoolTypeOK'
      BY <1>1 DEF PoolTypeOK, Places
    <2>3. CarryPlaces' /\ CallPlaces'
      BY <1>0, <1>1, PoolAssumption DEF CarryPlaces, CallPlaces, PoolTypeOK, Tasks
    <2>4. Places1' /\ ExclusiveLease'
      BY <1>1, <2>1 DEF Places1, ExclusiveLease
    <2> QED BY <2>1, <2>2, <2>3, <2>4
  <1>2. CASE \E s \in available : available' = available \ {s} /\ carry' = [carry EXCEPT ![t] = s]
    <2>1. PICK s \in available :
            available' = available \ {s} /\ carry' = [carry EXCEPT ![t] = s]
      BY <1>2
    <2>2. UNCHANGED <<inUse, created, lent>>
      OBVIOUS
    <2>3. s \in Sandboxes /\ s # None /\ s \in created /\ s \notin inUse
      BY PoolAssumption DEF PoolTypeOK, Places1
    <2>4. PoolTypeOK'
      BY <1>0, <2>1, <2>3 DEF PoolTypeOK, Places
    <2>5. pc' = [pc EXCEPT ![t] = "insert"]
      BY <2>1
    <2>6. CarryPlaces' /\ CallPlaces'
      BY <1>0, <2>1, <2>2, <2>3, <2>5, PoolAssumption
      DEF CarryPlaces, CallPlaces, PoolTypeOK, Tasks
    <2>7. Places1'
      <3>1. \A u \in Tasks : carry'[u] = IF u = t THEN s ELSE carry[u]
        BY <2>1 DEF PoolTypeOK
      <3>2. \A u \in Tasks : carry[u] # s
        BY <2>3 DEF Places1
      <3>3. \A x \in created : x \in available' \/ x \in inUse \/ \E u \in Tasks : carry'[u] = x
        <4> SUFFICES ASSUME NEW x \in created, x \notin available', x \notin inUse
                     PROVE  \E u \in Tasks : carry'[u] = x
          OBVIOUS
        <4>1. CASE x = s
          BY <3>1, <4>1
        <4>2. CASE x # s
          <5>1. PICK u \in Tasks : carry[u] = x
            BY <2>1, <4>2 DEF Places1
          <5>2. u # t
            BY <1>0, <5>1, PoolAssumption DEF PoolTypeOK
          <5> QED BY <3>1, <5>1, <5>2
        <4> QED BY <4>1, <4>2
      <3>4. \A u, v \in Tasks : carry'[u] = carry'[v] /\ carry'[u] # None => u = v
        BY <3>1, <3>2 DEF Places1
      <3>5. \A u \in Tasks : carry'[u] # None =>
              carry'[u] \in created /\ carry'[u] \notin available' /\ carry'[u] \notin inUse
        BY <2>1, <2>3, <3>1 DEF Places1
      <3> QED BY <2>1, <2>2, <3>3, <3>4, <3>5 DEF Places1
    <2>8. ExclusiveLease'
      BY <2>2 DEF ExclusiveLease
    <2> QED BY <2>2, <2>4, <2>6, <2>7, <2>8
  <1> QED BY <1>1, <1>2

\* A client gets its sandbox: the id it carries becomes one that is in use.
LEMMA InsertStep ==
  ASSUME PoolInv, NEW t \in Tasks, Insert(t)
  PROVE  PoolInv' /\ UNCHANGED created /\ Lease!Lend(t) /\ t \in Clients
  <1> USE DEF PoolInv, At, Goto, Insert
  <1>0. t \in Clients /\ lent[t] = None /\ carry[t] # None /\ carry[t] \in Sandboxes
    BY DEF CallPlaces, CarryPlaces, PoolTypeOK, Tasks
  <1>1. carry[t] \in created /\ carry[t] \notin available /\ carry[t] \notin inUse
    BY <1>0 DEF Places1
  <1>2. \A c \in Clients : lent[c] # carry[t]
    BY <1>0, <1>1 DEF ExclusiveLease
  <1>3. PoolTypeOK'
    BY <1>0 DEF PoolTypeOK, Places
  <1>4. CarryPlaces' /\ CallPlaces'
    BY <1>0, PoolAssumption DEF CarryPlaces, CallPlaces, PoolTypeOK, Tasks
  <1>5. Places1'
    BY <1>0, <1>1 DEF Places1, PoolTypeOK
  <1>6. ExclusiveLease'
    BY <1>0, <1>2 DEF ExclusiveLease, PoolTypeOK
  <1>7. Lease!Lend(t)
    BY <1>0, <1>1, <1>2 DEF Lease!Lend, Lease!Lent
  <1> QED BY <1>0, <1>3, <1>4, <1>5, <1>6, <1>7

\* A client gives its sandbox back, and the call carries it from then on.
LEMMA ReleaseStep ==
  ASSUME PoolInv, NEW t \in Tasks, ReleaseRemove(t)
  PROVE  PoolInv' /\ UNCHANGED created /\ Lease!Return(t) /\ t \in Clients
  <1> USE DEF PoolInv, At, Goto, ReleaseRemove
  <1>0. t \in Clients /\ lent[t] # None /\ lent[t] \in inUse /\ carry[t] = None
    BY DEF ExclusiveLease, CarryPlaces
  <1>1. /\ inUse' = inUse \ {lent[t]}
        /\ carry' = [carry EXCEPT ![t] = lent[t]]
        /\ lent' = [lent EXCEPT ![t] = None]
        /\ pc' = [pc EXCEPT ![t] = "drop"]
        /\ UNCHANGED <<available, created>>
    BY <1>0
  <1>2. lent[t] \in created /\ lent[t] \notin available
    BY <1>0 DEF Places1
  <1>3. PoolTypeOK'
    BY <1>0, <1>1 DEF PoolTypeOK, Places
  <1>4. CarryPlaces' /\ CallPlaces'
    BY <1>0, <1>1, PoolAssumption DEF CarryPlaces, CallPlaces, PoolTypeOK, Tasks
  <1>5. Places1'
    <2>1. \A u \in Tasks : carry'[u] = IF u = t THEN lent[t] ELSE carry[u]
      BY <1>1 DEF PoolTypeOK
    <2>2. \A u \in Tasks : carry[u] # lent[t]
      BY <1>0 DEF Places1
    <2>3. \A x \in created : x \in available \/ x \in inUse' \/ \E u \in Tasks : carry'[u] = x
      <3> SUFFICES ASSUME NEW x \in created, x \notin available, x \notin inUse'
                   PROVE  \E u \in Tasks : carry'[u] = x
        OBVIOUS
      <3>1. CASE x = lent[t]
        BY <2>1, <3>1
      <3>2. CASE x # lent[t]
        <4>1. PICK u \in Tasks : carry[u] = x
          BY <1>1, <3>2 DEF Places1
        <4>2. u # t
          BY <1>0, <4>1, PoolAssumption DEF PoolTypeOK
        <4> QED BY <2>1, <4>1, <4>2
      <3> QED BY <3>1, <3>2
    <2>4. \A u, v \in Tasks : carry'[u] = carry'[v] /\ carry'[u] # None => u = v
      BY <2>1, <2>2 DEF Places1
    <2>5. \A u \in Tasks : carry'[u] # None =>
            carry'[u] \in created /\ carry'[u] \notin available /\ carry'[u] \notin inUse'
      BY <1>1, <1>2, <2>1 DEF Places1
    <2> QED BY <1>1, <2>3, <2>4, <2>5 DEF Places1
  <1>6. ExclusiveLease'
    BY <1>0, <1>1 DEF ExclusiveLease, PoolTypeOK
  <1>7. Lease!Return(t)
    BY <1>0, <1>1 DEF Lease!Return
  <1> QED BY <1>0, <1>1, <1>3, <1>4, <1>5, <1>6, <1>7

\* Every step keeps the invariant, and is a step of the abstract lease or leaves its
\* variables alone.
LEMMA PoolStep ==
  ASSUME PoolInv, [PoolNext]_vars
  PROVE  PoolInv' /\ [Lease!LeaseNext]_(Lease!lvars)
  <1>1. CASE UNCHANGED vars
    <2>1. PoolInv'
      BY <1>1 DEF vars, PoolInv, PoolTypeOK, CarryPlaces, Places1, CallPlaces, ExclusiveLease
    <2> QED BY <1>1, <2>1 DEF vars, Lease!lvars
  <1>2. ASSUME NEW t \in Tasks, Begin(t) \/ Continue(t)
        PROVE  PoolInv' /\ [Lease!LeaseNext]_(Lease!lvars)
    <2>1. CASE Insert(t)
      BY <2>1, InsertStep DEF Lease!LeaseNext
    <2>2. CASE ReleaseRemove(t)
      BY <2>2, ReleaseStep DEF Lease!LeaseNext
    <2>3. CASE FillCreate(t) \/ Restore(t)
      BY <2>3, NewSandboxStep DEF Lease!LeaseNext
    <2>4. CASE ~(Insert(t) \/ ReleaseRemove(t) \/ FillCreate(t) \/ Restore(t))
      <3>1. PoolInv' /\ UNCHANGED <<created, lent>>
        BY <1>2, <2>4, QuietStep, PushStep, TakeStep DEF Begin, Continue
      <3> QED BY <3>1 DEF Lease!lvars
    <2> QED BY <2>1, <2>2, <2>3, <2>4
  <1> QED BY <1>1, <1>2 DEF PoolNext

LEMMA PoolInvariance == PoolSpec => []PoolInv
  <1>1. PoolInv /\ [PoolNext]_vars => PoolInv'
    BY PoolStep
  <1> QED BY <1>1, PoolInitInv, PTL DEF PoolSpec

\* Every variable of the pool keeps its shape, whatever the constants.
THEOREM PoolTypes == PoolSpec => []PoolTypeOK
  <1>1. PoolInv => PoolTypeOK
    BY DEF PoolInv
  <1> QED BY <1>1, PoolInvariance, PTL

\* No interleaving of fills, checkouts, restores and releases loses a sandbox or puts
\* one in two places.
THEOREM PoolPlaces == PoolSpec => []OnePlaceEach
  <1>1. PoolInv => OnePlaceEach
    <2> SUFFICES ASSUME PoolInv PROVE OnePlaceEach
      OBVIOUS
    <2>1. \A s : s \in Carried <=> s # None /\ \E t \in Tasks : carry[t] = s
      BY DEF Carried
    <2>2. created = available \cup inUse \cup Carried
      <3>1. None \notin created
        BY PoolAssumption DEF PoolInv, PoolTypeOK
      <3> QED BY <2>1, <3>1 DEF PoolInv, Places1
    <2>3. available \cap inUse = {} /\ available \cap Carried = {} /\ inUse \cap Carried = {}
      BY <2>1 DEF PoolInv, Places1
    <2> QED BY <2>2, <2>3 DEF PoolInv, Places1, OnePlaceEach
  <1> QED BY <1>1, PoolInvariance, PTL

\* A lease is exclusive, and a leased sandbox is in use.
THEOREM PoolExclusive == PoolSpec => []ExclusiveLease
  <1>1. PoolInv => ExclusiveLease
    BY DEF PoolInv
  <1> QED BY <1>1, PoolInvariance, PTL

\* The pool, with its two mutexes and its awaits, implements the abstract lease.
THEOREM PoolRefinesLease == PoolSpec => ImplementsLease
  <1>1. PoolInit => Lease!LeaseInit
    BY DEF PoolInit, Lease!LeaseInit
  <1>2. PoolInv /\ [PoolNext]_vars => [Lease!LeaseNext]_(Lease!lvars)
    BY PoolStep
  <1> QED BY <1>1, <1>2, PoolInvariance, PTL DEF PoolSpec, ImplementsLease, Lease!LeaseSpec

-----------------------------------------------------------------------------
(* stats: what its two readings of the collections add up to.               *)

\* A call of stats() that has read one length holds `available` until it has read the
\* other; once it has, the two lengths stay within what has been created.
StatsOK ==
    \A c \in Clients :
        IF pc[c] = "stats"
        THEN availLock = c /\ stat[c].available = Cardinality(available)
        ELSE stat[c].available + stat[c].in_use <= Cardinality(created)

\* The queue and the sandboxes in use are apart, so that their lengths add up.
LEMMA LengthsAddUp ==
  ASSUME PoolInv
  PROVE  /\ Cardinality(created) \in Nat
         /\ Cardinality(available) + Cardinality(inUse) <= Cardinality(created)
  <1>1. IsFiniteSet(created) /\ IsFiniteSet(available) /\ IsFiniteSet(inUse)
    BY FS_Subset, PoolAssumption DEF PoolInv, PoolTypeOK
  <1>2. Cardinality(available \cup inUse)
          = Cardinality(available) + Cardinality(inUse) - Cardinality({})
    BY <1>1, FS_Union DEF PoolInv, Places1
  <1>3. Cardinality(available \cup inUse) <= Cardinality(created)
    <2>1. available \cup inUse \in SUBSET created
      BY DEF PoolInv, Places1
    <2> QED BY <1>1, <2>1, FS_Subset
  <1>4. Cardinality(created) \in Nat /\ Cardinality(available) \in Nat /\ Cardinality(inUse) \in Nat
    BY <1>1, FS_CardinalityType
  <1> QED BY <1>2, <1>3, <1>4, FS_EmptySet

\* What has been created stays so.
LEMMA CreatedGrows ==
  ASSUME PoolInv, PoolInv', [Lease!LeaseNext]_(Lease!lvars)
  PROVE  Cardinality(created) <= Cardinality(created')
  <1>1. created \in SUBSET created'
    BY DEF Lease!LeaseNext, Lease!Grow, Lease!Lend, Lease!Return, Lease!lvars
  <1>2. IsFiniteSet(created')
    BY FS_Subset, PoolAssumption DEF PoolInv, PoolTypeOK
  <1> QED BY <1>1, <1>2, FS_Subset

LEMMA StatsStep ==
  ASSUME PoolInv, StatsOK, [PoolNext]_vars
  PROVE  StatsOK'
  <1>1. PoolInv' /\ Cardinality(created) <= Cardinality(created')
    BY PoolStep, CreatedGrows
  <1>2. Cardinality(created) \in Nat /\ Cardinality(created') \in Nat
    BY <1>1, LengthsAddUp, FS_Subset, FS_CardinalityType, PoolAssumption DEF PoolInv, PoolTypeOK
  <1>3. ASSUME UNCHANGED vars PROVE StatsOK'
    BY <1>3 DEF vars, StatsOK
  <1>4. ASSUME NEW t \in Tasks, Begin(t) \/ Continue(t) PROVE StatsOK'
    <2> USE DEF At, Goto
    <2>0. ASSUME NEW c \in Clients, UNCHANGED stat, pc[c] # "stats", pc'[c] # "stats"
          PROVE  stat'[c].available + stat'[c].in_use <= Cardinality(created')
      <3>1. stat[c].available \in Nat /\ stat[c].in_use \in Nat
        BY DEF PoolInv, PoolTypeOK
      <3> QED BY <1>1, <1>2, <2>0, <3>1 DEF StatsOK
    <2>1. CASE StatsAvailable(t)
      <3> SUFFICES ASSUME NEW c \in Clients
                   PROVE  IF pc'[c] = "stats"
                          THEN availLock' = c /\ stat'[c].available = Cardinality(available')
                          ELSE stat'[c].available + stat'[c].in_use <= Cardinality(created')
        BY DEF StatsOK
      <3>1. c \in Tasks /\ c # None
        BY PoolAssumption DEF Tasks
      <3>2. CASE c = t
        BY <2>1, <3>1, <3>2 DEF StatsAvailable, PoolInv, PoolTypeOK
      <3>3. CASE c # t
        <4>1. pc[c] # "stats"
          BY <2>1, <3>1 DEF StatsAvailable, StatsOK
        <4>2. pc'[c] = pc[c] /\ stat'[c] = stat[c] /\ UNCHANGED created
          BY <2>1, <3>3 DEF StatsAvailable
        <4> QED BY <4>1, <4>2 DEF StatsOK
      <3> QED BY <3>2, <3>3
    <2>2. CASE StatsInUse(t)
      <3> SUFFICES ASSUME NEW c \in Clients
                   PROVE  IF pc'[c] = "stats"
                          THEN availLock' = c /\ stat'[c].available = Cardinality(available')
                          ELSE stat'[c].available + stat'[c].in_use <= Cardinality(created')
        BY DEF StatsOK
      <3>1. t \in Clients /\ availLock = t
        BY <2>2 DEF StatsInUse, PoolInv, CallPlaces, Tasks, StatsOK
      <3>2. CASE c = t
        <4>1. pc'[c] = "idle"
          BY <2>2, <3>2 DEF StatsInUse, PoolInv, PoolTypeOK
        <4>2. stat'[c].available = Cardinality(available) /\ stat'[c].in_use = Cardinality(inUse)
          BY <2>2, <3>1, <3>2 DEF StatsInUse, StatsOK, PoolInv, PoolTypeOK
        <4> QED BY <2>2, <4>1, <4>2, LengthsAddUp DEF StatsInUse
      <3>3. CASE c # t
        <4>1. pc[c] # "stats"
          BY <3>1, <3>3 DEF StatsOK
        <4>2. pc'[c] = pc[c] /\ stat'[c] = stat[c] /\ UNCHANGED created
          BY <2>2, <3>3 DEF StatsInUse
        <4> QED BY <4>1, <4>2 DEF StatsOK
      <3> QED BY <3>2, <3>3
    <2>3. CASE ~(StatsAvailable(t) \/ StatsInUse(t))
      <3>1. /\ UNCHANGED stat
            /\ \A c \in Clients : pc[c] = "stats" <=> pc'[c] = "stats"
        BY <1>4, <2>3 DEF PoolInv, PoolTypeOK, Tasks, Begin, Continue, StartFill, FillCheck,
           FillCreate, CreateFails, FillPush, StartCheckout, Pop, Unwind, Insert,
           TakeOrRestore, Restore, NewSandbox, ReleaseRemove, ReleaseDrop, ReleasePush
      <3>2. ASSUME NEW c \in Clients, pc[c] = "stats"
            PROVE  availLock' = c /\ available' = available
        <4>1. availLock = c /\ c # None /\ c \in Tasks
          BY <3>2, PoolAssumption DEF StatsOK, Tasks
        <4> QED BY <1>4, <2>3, <3>2, <4>1 DEF Begin, Continue, StartFill, FillCheck,
             FillCreate, CreateFails, FillPush, StartCheckout, Pop, Unwind, Insert,
             TakeOrRestore, Restore, NewSandbox, ReleaseRemove, ReleaseDrop, ReleasePush
      <3> QED BY <2>0, <3>1, <3>2 DEF StatsOK
    <2> QED BY <2>1, <2>2, <2>3
  <1> QED BY <1>3, <1>4 DEF PoolNext

\* stats() never counts a sandbox twice, although it reads the queue and the set in
\* use one after the other, whoever moves sandboxes in between.
THEOREM PoolStats == PoolSpec => []StatsCountOnce
  <1>1. PoolInit => StatsOK
    BY FS_EmptySet DEF PoolInit, StatsOK, Tasks
  <1>2. PoolInv /\ StatsOK /\ [PoolNext]_vars => StatsOK'
    BY StatsStep
  <1>3. StatsOK => StatsCountOnce
    BY DEF StatsOK, StatsCountOnce, At
  <1> QED BY <1>1, <1>2, <1>3, PoolInvariance, PTL DEF PoolSpec
=============================================================================
