-------------------------- MODULE AppleBackendProofs -------------------------
(***************************************************************************)
(* Proofs about AppleBackend for every set of sandboxes and calls and any  *)
(* number of faults: a call reads the reply to its own request, though     *)
(* lines carry no id, as long as no request of the session was abandoned;  *)
(* and what becomes of a sandbox, in the container CLI, in the backend's   *)
(* map and in the helper's, is what its callers were told of it, but for   *)
(* the causes that each theorem names.  At the end the types, with at most *)
(* one stray line for each fault; and that no line is lost between the two *)
(* processes, so that a call that reads has one coming.                    *)
(***************************************************************************)
EXTENDS AppleBackend, TLAPS

ApplePlaces == {"idle", "dispatch", "run", "cli", "fallback", "delete", "recover", "ensure", "lock",
           "write", "read", "blocked"}

\* Where a call has the mutex of the session.
Holding == {"write", "read"}

AppleCalls == [op : Operations \cup {"none"}, box : Boxes \cup {"none"}, pc : ApplePlaces,
              todo : Seq(Operations), undo : BOOLEAN]

AppleCallOK(k) == k \in AppleCalls /\ (k.pc # "idle" => k.todo # <<>>)

LineSpace == [op : Operations \cup {"torn"}, box : Boxes \cup {"none"}, for : Calls]
JobSpace == [op : Operations \cup {"torn"}, box : Boxes \cup {"none"}, for : Calls, step : Steps]
ResponseSpace == [kind : Replies, for : Calls]

Quiet == inbox = <<>> /\ outbox = <<>> /\ job = NoJob

\* The one request of call c is in one place only, or lost with the helper.
Exchange(c) ==
    \/ Quiet
    \/ \E l \in LineSpace :
          l.for = c /\ inbox = <<l>> /\ outbox = <<>> /\ job = NoJob
    \/ /\ job \in JobSpace /\ job.for = c /\ job.step # "idle"
       /\ inbox = <<>> /\ outbox = <<>>
    \/ \E a \in ResponseSpace :
          a.for = c /\ outbox = <<a>> /\ inbox = <<>> /\ job = NoJob

InStep ==
    strays = 0 =>
        /\ (\A c \in Calls : ~CallAt(c, "read")) => Quiet
        /\ \A c \in Calls : CallAt(c, "read") => Exchange(c)

CallsOK ==
    /\ DOMAIN call = Calls /\ call = [c \in Calls |-> call[c]]
    /\ \A c \in Calls : AppleCallOK(call[c])

MutexOK == \A c \in Calls : mutex = c <=> call[c].pc \in Holding

SessionOK ==
    /\ session \in BOOLEAN /\ running \in BOOLEAN /\ strays \in Nat
    /\ ~session => ~running
    /\ ~running => inbox = <<>> /\ job = NoJob

OwnInv == CallsOK /\ MutexOK /\ SessionOK /\ InStep

-----------------------------------------------------------------------------
LEMMA One ==
  ASSUME NEW e
  PROVE  Head(<<e>>) = e /\ Tail(<<e>>) = <<>> /\ Append(<<>>, e) = <<e>> /\ <<e>> # <<>>
  OBVIOUS

LEMMA Rest ==
  ASSUME NEW S, NEW t \in Seq(S), t # <<>>
  PROVE  /\ Head(t) \in S
         /\ Len(t) # 1 => Tail(t) \in Seq(S) /\ Tail(t) # <<>>
  <1>1. Head(t) \in S /\ Tail(t) \in Seq(S) /\ Len(Tail(t)) = Len(t) - 1 /\ Len(t) \in Nat
    OBVIOUS
  <1>2. \A q : q = <<>> => Len(q) = 0
    <2>1. Len(<<>>) = 0
      OBVIOUS
    <2> QED BY <2>1, Zenon
  <1> QED BY <1>1, <1>2

LEMMA InitOwn == AppleInit => OwnInv
  <1> SUFFICES ASSUME AppleInit PROVE OwnInv
    OBVIOUS
  <1> USE DEF AppleInit, CallsInit, HelperInit
  <1>1. NoCall \in AppleCalls /\ NoCall.pc = "idle"
    BY DEF NoCall, AppleCalls, ApplePlaces
  <1>2. CallsOK
    BY <1>1 DEF CallsOK, AppleCallOK
  <1>3. MutexOK
    BY <1>1, BackendAssumption DEF MutexOK, Holding, BackendAssumption
  <1>4. SessionOK /\ InStep
    BY <1>1 DEF SessionOK, InStep, CallAt, Quiet
  <1> QED BY <1>2, <1>3, <1>4 DEF OwnInv

\* The end of a part leaves the call at no place of the session.
LEMMA PartEnds ==
  ASSUME NEW c \in Calls, CallsOK, NEW ok \in BOOLEAN, PartDone(c, ok), call[c].pc # "idle"
  PROVE  \E k : /\ call' = [call EXCEPT ![c] = k]
                /\ AppleCallOK(k) /\ k.pc \in {"idle", "dispatch"}
  <1> DEFINE old == call[c]
  <1>1. old \in AppleCalls /\ old.todo # <<>> /\ old.todo \in Seq(Operations)
    BY DEF CallsOK, AppleCallOK, AppleCalls
  <1>2. NoCall \in AppleCalls /\ NoCall.pc = "idle"
    BY DEF NoCall, AppleCalls, ApplePlaces
  <1>3. PICK so \in BOOLEAN, undoes \in BOOLEAN : EndPart(c, so, undoes)
    <2>1. \A x, y : (ok \/ (x /\ y)) \in BOOLEAN
      OBVIOUS
    <2> QED BY DEF PartDone
  <1>4. CASE ReturnCall(c, FALSE) \/ ReturnCall(c, so)
    BY <1>2, <1>4 DEF ReturnCall, AppleCallOK
  <1>5. CASE call' = [call EXCEPT ![c].todo = <<"destroy">>, ![c].undo = TRUE, ![c].pc = "dispatch"]
    <2> DEFINE k == [old EXCEPT !.todo = <<"destroy">>, !.undo = TRUE, !.pc = "dispatch"]
    <2>1. call' = [call EXCEPT ![c] = k]
      BY <1>5, <1>1 DEF CallsOK
    <2>2. <<"destroy">> \in Seq(Operations) /\ <<"destroy">> # <<>>
      BY DEF Operations
    <2>3. AppleCallOK(k) /\ k.pc = "dispatch"
      BY <1>1, <2>2 DEF AppleCallOK, AppleCalls, ApplePlaces
    <2> QED BY <2>1, <2>3
  <1>6. CASE Len(old.todo) # 1 /\ call' = [call EXCEPT ![c].todo = Tail(@), ![c].pc = "dispatch"]
    <2> DEFINE k == [old EXCEPT !.todo = Tail(@), !.pc = "dispatch"]
    <2>1. call' = [call EXCEPT ![c] = k]
      BY <1>6, <1>1 DEF CallsOK
    <2>2. Tail(old.todo) \in Seq(Operations) /\ Tail(old.todo) # <<>>
      BY <1>1, <1>6, Rest
    <2>3. AppleCallOK(k) /\ k.pc = "dispatch"
      BY <1>1, <2>2 DEF AppleCallOK, AppleCalls, ApplePlaces
    <2> QED BY <2>1, <2>3
  <1> QED BY <1>3, <1>4, <1>5, <1>6 DEF EndPart

LEMMA Places1 ==
  ASSUME NEW c \in Calls, CallsOK, NEW p \in ApplePlaces, Place(c, p), call[c].pc # "idle"
  PROVE  \E k : call' = [call EXCEPT ![c] = k] /\ AppleCallOK(k) /\ k.pc = p
  <1> DEFINE k == [call[c] EXCEPT !.pc = p]
  <1>1. call[c] \in AppleCalls /\ call[c].todo # <<>>
    BY DEF CallsOK, AppleCallOK
  <1>2. call' = [call EXCEPT ![c] = k]
    BY DEF Place, CallsOK
  <1>3. AppleCallOK(k) /\ k.pc = p
    BY <1>1 DEF AppleCallOK, AppleCalls
  <1> QED BY <1>2, <1>3

\* A call goes on that neither had the mutex nor gets it.
LEMMA Aside ==
  ASSUME OwnInv, NEW c \in Calls, NEW k, call' = [call EXCEPT ![c] = k], AppleCallOK(k),
         call[c].pc \notin Holding, k.pc \notin Holding, HelperAlone, SessionAlone
  PROVE  OwnInv'
  <1> USE DEF OwnInv
  <1>1. \A d \in Calls : call'[d] = IF d = c THEN k ELSE call[d]
    BY DEF CallsOK
  <1>2. CallsOK'
    BY <1>1 DEF CallsOK
  <1>3. MutexOK'
    BY <1>1 DEF MutexOK, SessionAlone, sessionVars
  <1>4. SessionOK'
    BY DEF SessionOK, SessionAlone, sessionVars, HelperAlone, pipes
  <1>5. InStep'
    BY <1>1 DEF InStep, CallAt, Holding, Exchange, Quiet, SessionAlone, sessionVars, HelperAlone, pipes
  <1> QED BY <1>2, <1>3, <1>4, <1>5

LEMMA AsideDone ==
  ASSUME OwnInv, NEW c \in Calls, NEW ok \in BOOLEAN, PartDone(c, ok), call[c].pc # "idle",
         call[c].pc \notin Holding, HelperAlone, SessionAlone
  PROVE  OwnInv'
  <1>1. PICK k : call' = [call EXCEPT ![c] = k] /\ AppleCallOK(k) /\ k.pc \in {"idle", "dispatch"}
    BY PartEnds DEF OwnInv
  <1> QED BY <1>1, Aside DEF Holding

LEMMA AsidePlace ==
  ASSUME OwnInv, NEW c \in Calls, NEW p \in ApplePlaces, p \notin Holding, Place(c, p),
         call[c].pc # "idle", call[c].pc \notin Holding, HelperAlone, SessionAlone
  PROVE  OwnInv'
  <1>1. PICK k : call' = [call EXCEPT ![c] = k] /\ AppleCallOK(k) /\ k.pc = p
    BY Places1 DEF OwnInv
  <1> QED BY <1>1, Aside

LEMMA AsideReturn ==
  ASSUME OwnInv, NEW c \in Calls, NEW ok \in BOOLEAN, ReturnCall(c, ok),
         call[c].pc \notin Holding, HelperAlone, SessionAlone
  PROVE  OwnInv'
  <1>1. AppleCallOK(NoCall) /\ NoCall.pc \notin Holding
    BY DEF NoCall, AppleCalls, ApplePlaces, AppleCallOK, Holding
  <1> QED BY <1>1, Aside DEF ReturnCall

-----------------------------------------------------------------------------
LEMMA BeginOwn ==
  ASSUME OwnInv, NEW c \in Calls, NEW op \in Operations, NEW b \in Boxes, Begin(c, op, b)
  PROVE  OwnInv'
  <1> DEFINE k == [op |-> op, box |-> b, pc |-> "dispatch", todo |-> Parts(op), undo |-> FALSE]
  <1>1. call' = [call EXCEPT ![c] = k] /\ call[c].pc = "idle" /\ HelperAlone /\ SessionAlone
    BY DEF Begin, BeginCall, CallAt
  <1>2. Parts(op) \in Seq(Operations) /\ Parts(op) # <<>>
    <2>1. {"exec", "read", "create", "write"} \subseteq Operations
      BY DEF Operations
    <2>2. CASE op = "snapshot"
      <3>1. Parts(op) = <<"exec", "read", "exec">>
        BY <2>2 DEF Parts
      <3> QED BY <2>1, <3>1
    <2>3. CASE op = "restore"
      <3>1. Parts(op) = <<"create", "write", "exec", "exec">>
        BY <2>3 DEF Parts
      <3> QED BY <2>1, <3>1
    <2>4. CASE op # "snapshot" /\ op # "restore"
      <3>1. Parts(op) = <<op>>
        BY <2>4 DEF Parts
      <3> QED BY <3>1
    <2> QED BY <2>2, <2>3, <2>4
  <1>3. AppleCallOK(k) /\ k.pc \notin Holding
    BY <1>2 DEF AppleCallOK, AppleCalls, ApplePlaces, Holding
  <1> QED BY <1>1, <1>3, Aside DEF Holding

LEMMA DispatchOwn ==
  ASSUME OwnInv, NEW c \in Calls, Dispatch(c)
  PROVE  OwnInv'
  <1>1. call[c].pc = "dispatch" /\ call[c].pc # "idle" /\ call[c].pc \notin Holding
    BY DEF Dispatch, CallAt, Holding
  <1>2. HelperAlone /\ SessionAlone
    BY DEF Dispatch
  <1>3. \A b : Route(c, b) \in ApplePlaces /\ Route(c, b) \notin Holding
    BY DEF Route, ApplePlaces, Holding
  <1>4. \/ ReturnCall(c, FALSE) \/ PartDone(c, TRUE) \/ PartDone(c, FALSE)
        \/ Place(c, Route(c, call[c].box))
    BY DEF Dispatch
  <1> QED BY <1>1, <1>2, <1>3, <1>4, AsideReturn, AsideDone, AsidePlace

LEMMA DirectOwn ==
  ASSUME OwnInv, NEW c \in Calls,
         CreateDirect(c) \/ AccessDirect(c) \/ Fallback(c) \/ DestroyDirect(c) \/ DestroyUnknown(c)
  PROVE  OwnInv'
  <1>1. call[c].pc # "idle" /\ call[c].pc \notin Holding
    BY DEF CreateDirect, AccessDirect, Fallback, DestroyDirect, DestroyUnknown, CallAt, Holding
  <1>2. HelperAlone /\ SessionAlone
    BY DEF CreateDirect, AccessDirect, Fallback, DestroyDirect, DestroyUnknown
  <1>3. {"ensure", "blocked"} \subseteq ApplePlaces \ Holding
    BY DEF ApplePlaces, Holding
  <1>4. (call[c].box \in containers) \in BOOLEAN
    OBVIOUS
  <1>5. \/ PartDone(c, TRUE) \/ PartDone(c, FALSE) \/ PartDone(c, call[c].box \in containers)
        \/ Place(c, "ensure") \/ Place(c, "blocked")
    BY DEF CreateDirect, AccessDirect, Fallback, Overfills, DestroyDirect, DestroyUnknown
  <1> QED BY <1>1, <1>2, <1>3, <1>4, <1>5, AsideDone, AsidePlace

-----------------------------------------------------------------------------
(* The session.                                                            *)

LEMMA EnsureOwn ==
  ASSUME OwnInv, NEW c \in Calls, Ensure(c)
  PROVE  OwnInv'
  <1> USE DEF OwnInv
  <1>1. call[c].pc = "ensure" /\ mutex = "none"
    BY DEF Ensure, CallAt
  <1>2. PICK k : call' = [call EXCEPT ![c] = k] /\ AppleCallOK(k) /\ k.pc \in {"idle", "dispatch", "lock"}
    <2>1. CASE Place(c, "lock")
      BY <2>1, <1>1, Places1 DEF ApplePlaces
    <2>2. CASE PartDone(c, FALSE)
      BY <2>2, <1>1, PartEnds
    <2> QED BY <2>1, <2>2 DEF Ensure
  <1>3. \A d \in Calls : call'[d] = IF d = c THEN k ELSE call[d]
    BY <1>2 DEF CallsOK
  <1>4. CallsOK'
    BY <1>2, <1>3 DEF CallsOK
  <1>5. \A d \in Calls : call[d].pc \notin Holding /\ call'[d].pc \notin Holding
    BY <1>1, <1>2, <1>3, BackendAssumption DEF MutexOK, Holding, BackendAssumption
  <1>6. MutexOK'
    BY <1>1, <1>5, BackendAssumption DEF MutexOK, Ensure, BackendAssumption
  <1>7. UNCHANGED <<session, running, inbox, outbox, job, strays>>
        \/ /\ ~session /\ session' = TRUE /\ running' = TRUE /\ strays' = 0
           /\ inbox' = <<>> /\ outbox' = <<>> /\ job' = job
    BY DEF Ensure, pipes, SessionOK
  <1>8. SessionOK'
    <2>1. CASE UNCHANGED <<session, running, inbox, outbox, job, strays>>
      BY <2>1 DEF SessionOK
    <2>2. CASE session' = TRUE /\ running' = TRUE /\ strays' = 0
      BY <2>2 DEF SessionOK
    <2> QED BY <1>7, <2>1, <2>2
  <1>9. InStep'
    BY <1>5, <1>7 DEF InStep, CallAt, Quiet, Holding, SessionOK
  <1> QED BY <1>4, <1>6, <1>8, <1>9

LEMMA LockOwn ==
  ASSUME OwnInv, NEW c \in Calls, Lock(c)
  PROVE  OwnInv'
  <1> USE DEF OwnInv
  <1>1. call[c].pc = "lock" /\ mutex = "none" /\ HelperAlone
        /\ UNCHANGED <<session, strays>>
    BY DEF Lock, CallAt
  <1>2. CASE ~session
    <2>1. PartDone(c, FALSE) /\ SessionAlone
      BY <1>2 DEF Lock, SessionAlone, sessionVars
    <2> QED BY <1>1, <2>1, AsideDone DEF Holding
  <1>3. CASE session
    <2>1. PICK k : call' = [call EXCEPT ![c] = k] /\ AppleCallOK(k) /\ k.pc = "write"
      BY <1>1, <1>3, Places1 DEF Lock, ApplePlaces
    <2>2. \A d \in Calls : call'[d] = IF d = c THEN k ELSE call[d]
      BY <2>1 DEF CallsOK
    <2>3. CallsOK'
      BY <2>1, <2>2 DEF CallsOK
    <2>4. mutex' = c
      BY <1>3 DEF Lock
    <2>5. \A d \in Calls : call[d].pc \notin Holding
      BY <1>1, BackendAssumption DEF MutexOK, BackendAssumption
    <2>6. MutexOK'
      BY <2>1, <2>2, <2>4, <2>5 DEF MutexOK, Holding
    <2>7. SessionOK'
      BY <1>1 DEF SessionOK, HelperAlone, pipes
    <2>8. InStep'
      BY <1>1, <2>1, <2>2, <2>5 DEF InStep, CallAt, Holding, Quiet, HelperAlone, pipes
    <2> QED BY <2>3, <2>6, <2>7, <2>8
  <1> QED BY <1>2, <1>3

\* Who holds the mutex is the only one at the session.
LEMMA HoldsAlone ==
  ASSUME OwnInv, NEW c \in Calls, call[c].pc \in Holding
  PROVE  mutex = c /\ \A d \in Calls : d # c => call[d].pc \notin Holding
  BY DEF OwnInv, MutexOK

LEMMA WriteOwn ==
  ASSUME OwnInv, NEW c \in Calls, WriteRequest(c)
  PROVE  OwnInv'
  <1> USE DEF OwnInv
  <1>1. call[c].pc = "write" /\ running /\ UNCHANGED <<running, outbox, job, session, mutex, strays>>
    BY DEF WriteRequest, CallAt
  <1>2. PICK k : call' = [call EXCEPT ![c] = k] /\ AppleCallOK(k) /\ k.pc = "read"
    BY <1>1, Places1 DEF WriteRequest, ApplePlaces
  <1>3. \A d \in Calls : call'[d] = IF d = c THEN k ELSE call[d]
    BY <1>2 DEF CallsOK
  <1>4. CallsOK'
    BY <1>2, <1>3 DEF CallsOK
  <1>5. mutex = c /\ \A d \in Calls : d # c => call[d].pc \notin Holding
    BY <1>1, HoldsAlone DEF Holding
  <1>6. MutexOK'
    BY <1>1, <1>2, <1>3, <1>5 DEF MutexOK, Holding
  <1>7. SessionOK'
    BY <1>1 DEF SessionOK
  <1>8. InStep'
    <2> SUFFICES ASSUME strays = 0 PROVE Exchange(c)'
      BY <1>1, <1>2, <1>3, <1>5 DEF InStep, CallAt, Holding
    <2> DEFINE l == [op |-> IF torn THEN "torn" ELSE Part(c), box |-> call[c].box, for |-> c]
    <2>1. Quiet
      BY <1>1, <1>5 DEF InStep, CallAt, Holding
    <2>2. call[c] \in AppleCalls /\ call[c].todo # <<>>
      BY <1>1 DEF CallsOK, AppleCallOK
    <2>3. Part(c) \in Operations
      BY <2>2, Rest DEF AppleCalls, Part
    <2>4. l \in LineSpace /\ l.for = c
      BY <2>2, <2>3 DEF LineSpace, AppleCalls
    <2>5. inbox' = <<l>>
      BY <2>1, One DEF WriteRequest, Quiet
    <2> QED BY <1>1, <2>1, <2>4, <2>5 DEF Exchange, Quiet
  <1> QED BY <1>4, <1>6, <1>7, <1>8

\* A call leaves the session with its exchange over.
LEMMA Leaves ==
  ASSUME OwnInv, NEW c \in Calls, call[c].pc \in Holding, NEW ok \in BOOLEAN, PartDone(c, ok),
         mutex' = "none", SessionOK', strays' = strays, strays = 0 => Quiet'
  PROVE  OwnInv'
  <1>1. PICK k : call' = [call EXCEPT ![c] = k] /\ AppleCallOK(k) /\ k.pc \in {"idle", "dispatch"}
    BY PartEnds DEF OwnInv, Holding
  <1>2. \A d \in Calls : call'[d] = IF d = c THEN k ELSE call[d]
    BY <1>1 DEF OwnInv, CallsOK
  <1>3. CallsOK'
    BY <1>1, <1>2 DEF OwnInv, CallsOK
  <1>4. \A d \in Calls : call'[d].pc \notin Holding
    BY <1>1, <1>2, HoldsAlone DEF Holding
  <1>5. MutexOK'
    BY <1>4, BackendAssumption DEF MutexOK, BackendAssumption
  <1>6. InStep'
    BY <1>4 DEF InStep, CallAt, Holding
  <1> QED BY <1>3, <1>5, <1>6 DEF OwnInv

LEMMA ReadOwn ==
  ASSUME OwnInv, NEW c \in Calls, ReadReply(c)
  PROVE  OwnInv'
  <1>1. /\ call[c].pc = "read" /\ outbox # <<>> /\ outbox' = Tail(outbox) /\ mutex' = "none"
        /\ UNCHANGED <<running, inbox, job, session, strays>>
    BY DEF ReadReply, CallAt
  <1> DEFINE good == Head(outbox).kind \in Expected(Part(c))
  <1>2. PartDone(c, good) /\ good \in BOOLEAN
    BY DEF ReadReply
  <1>3. SessionOK'
    BY <1>1 DEF OwnInv, SessionOK
  <1>4. ASSUME strays = 0 PROVE Quiet'
    <2>1. Exchange(c)
      BY <1>1, <1>4 DEF OwnInv, InStep, CallAt
    <2>2. PICK a : outbox = <<a>> /\ inbox = <<>> /\ job = NoJob
      BY <1>1, <2>1 DEF Exchange, Quiet
    <2> QED BY <1>1, <2>2, One DEF Quiet
  <1> QED BY <1>1, <1>2, <1>3, <1>4, Leaves DEF Holding

LEMMA ResetOwn ==
  ASSUME OwnInv, NEW c \in Calls, ResetSession(c)
  PROVE  OwnInv'
  <1>1. /\ call[c].pc \in Holding /\ ~running /\ mutex' = "none" /\ PartDone(c, FALSE)
        /\ session' = FALSE /\ UNCHANGED <<running, inbox, outbox, job, strays>>
    BY DEF ResetSession, CallAt, Holding, HelperAlone, pipes
  <1>2. SessionOK'
    BY <1>1 DEF OwnInv, SessionOK
  <1>3. ASSUME strays = 0 PROVE Quiet'
    <2>1. CASE call[c].pc = "read"
      BY <1>1, <2>1 DEF ResetSession, CallAt, OwnInv, SessionOK, Quiet
    <2>2. CASE call[c].pc = "write"
      <3>1. Quiet
        BY <1>1, <1>3, <2>2, HoldsAlone DEF OwnInv, InStep, CallAt, Holding
      <3> QED BY <1>1, <3>1 DEF Quiet
    <2> QED BY <1>1, <2>1, <2>2 DEF Holding
  <1> QED BY <1>1, <1>2, <1>3, Leaves

\* The client goes away: what it wrote is a stray, what it had not written is nothing.
LEMMA DropOwn ==
  ASSUME OwnInv, NEW c \in Calls, Drop(c)
  PROVE  OwnInv'
  <1> USE DEF OwnInv
  <1>1. /\ call' = [call EXCEPT ![c] = NoCall] /\ HelperAlone /\ session' = session
        /\ mutex' = IF mutex = c THEN "none" ELSE mutex
        /\ strays' = IF call[c].pc = "read" THEN strays + 1 ELSE strays
    BY DEF Drop, DropCall, CallAt
  <1>2. AppleCallOK(NoCall) /\ NoCall.pc = "idle"
    BY DEF NoCall, AppleCalls, ApplePlaces, AppleCallOK
  <1>3. \A d \in Calls : call'[d] = IF d = c THEN NoCall ELSE call[d]
    BY <1>1 DEF CallsOK
  <1>4. CallsOK'
    BY <1>1, <1>2, <1>3 DEF CallsOK
  <1>5. MutexOK'
    BY <1>1, <1>2, <1>3, BackendAssumption DEF MutexOK, Holding, BackendAssumption
  <1>6. SessionOK'
    BY <1>1 DEF SessionOK, HelperAlone, pipes
  <1>7. InStep'
    <2>1. CASE call[c].pc = "read"
      BY <1>1, <2>1 DEF InStep, SessionOK
    <2>2. CASE call[c].pc # "read"
      BY <1>1, <1>2, <1>3, <2>2 DEF InStep, CallAt, Exchange, Quiet, HelperAlone, pipes
    <2> QED BY <2>1, <2>2
  <1> QED BY <1>4, <1>5, <1>6, <1>7

-----------------------------------------------------------------------------
(* The helper.                                                             *)

\* What no step of the helper changes.
Others == UNCHANGED <<call, mutex, session, strays>>

LEMMA HelperKeeps ==
  ASSUME OwnInv, Others, running, running' = TRUE, InStep'
  PROVE  OwnInv'
  BY DEF OwnInv, Others, CallsOK, MutexOK, SessionOK

\* A step of the job in hand, and its reply.
LEMMA Works ==
  ASSUME OwnInv, Others, running, running' = TRUE, inbox' = inbox, job.step # "idle",
         \/ \E s \in Steps \ {"idle"} : Step(s)
         \/ \E kind \in Replies : Reply(kind)
  PROVE  OwnInv'
  <1>1. ASSUME strays = 0, NEW c \in Calls, CallAt(c, "read") PROVE Exchange(c)'
    <2>1. job \in JobSpace /\ job.for = c /\ inbox = <<>> /\ outbox = <<>>
      BY <1>1 DEF OwnInv, InStep, Exchange, Quiet, NoJob
    <2>2. CASE \E s \in Steps \ {"idle"} : Step(s)
      <3>1. PICK s \in Steps \ {"idle"} : job' = [job EXCEPT !.step = s] /\ outbox' = outbox
        BY <2>2 DEF Step
      <3>2. job' \in JobSpace /\ job'.for = c /\ job'.step # "idle"
        BY <2>1, <3>1 DEF JobSpace
      <3> QED BY <2>1, <3>1, <3>2 DEF Exchange
    <2>3. CASE \E kind \in Replies : Reply(kind)
      <3>1. PICK kind \in Replies : outbox' = Append(outbox, [kind |-> kind, for |-> job.for])
                                   /\ job' = NoJob
        BY <2>3 DEF Reply
      <3> DEFINE a == [kind |-> kind, for |-> c]
      <3>2. outbox' = <<a>>
        BY <2>1, <3>1, One
      <3>3. a \in ResponseSpace /\ a.for = c
        BY DEF ResponseSpace
      <3> QED BY <2>1, <3>1, <3>2, <3>3 DEF Exchange
    <2> QED BY <2>2, <2>3
  <1>2. strays = 0 => \E c \in Calls : CallAt(c, "read")
    BY DEF OwnInv, InStep, Quiet, NoJob
  <1>3. InStep'
    BY <1>1, <1>2 DEF InStep, Others, CallAt
  <1> QED BY <1>3, HelperKeeps

LEMMA NextLineOwn ==
  ASSUME OwnInv, NextLine, Others
  PROVE  OwnInv'
  <1>1. running /\ running' = TRUE /\ job.step = "idle" /\ inbox # <<>> /\ inbox' = Tail(inbox)
    BY DEF NextLine, HelperAt, OwnInv, SessionOK
  <1>2. ASSUME strays = 0, NEW c \in Calls, CallAt(c, "read") PROVE Exchange(c)'
    <2>1. PICK l \in LineSpace : l.for = c /\ inbox = <<l>> /\ outbox = <<>> /\ job = NoJob
      BY <1>1, <1>2 DEF OwnInv, InStep, Exchange, Quiet
    <2>2. Head(inbox) = l /\ inbox' = <<>>
      BY <1>1, <2>1, One
    <2>3. CASE Answered(l)
      <3> DEFINE a == [kind |-> IF l.op = "destroy" THEN "ack" ELSE "error", for |-> l.for]
      <3>1. outbox' = <<a>> /\ job' = NoJob
        BY <2>1, <2>2, <2>3, One DEF NextLine
      <3>2. a \in ResponseSpace /\ a.for = c
        BY <2>1 DEF ResponseSpace, Replies
      <3> QED BY <2>2, <3>1, <3>2 DEF Exchange
    <2>4. CASE ~Answered(l)
      <3>1. job' = [op |-> l.op, box |-> l.box, for |-> l.for, step |-> FirstStep(l.op)]
            /\ outbox' = outbox
        BY <2>2, <2>4 DEF NextLine
      <3>2. FirstStep(l.op) \in Steps /\ FirstStep(l.op) # "idle"
        BY DEF FirstStep, Steps
      <3>3. job' \in JobSpace /\ job'.for = c /\ job'.step # "idle"
        BY <2>1, <3>1, <3>2 DEF JobSpace, LineSpace
      <3> QED BY <2>1, <2>2, <3>1, <3>3 DEF Exchange
    <2> QED BY <2>3, <2>4
  <1>3. strays = 0 => \E c \in Calls : CallAt(c, "read")
    BY <1>1 DEF OwnInv, InStep, Quiet
  <1>4. InStep'
    BY <1>2, <1>3 DEF InStep, Others, CallAt
  <1> QED BY <1>1, <1>4, HelperKeeps

\* Every step of the helper but the first of a request is one of the job in hand.
LEMMA Working ==
  ASSUME OwnInv, HelperStep, ~NextLine
  PROVE  /\ running /\ running' = TRUE /\ inbox' = inbox /\ job.step # "idle"
         /\ \/ \E s \in Steps \ {"idle"} : Step(s)
            \/ \E kind \in Replies : Reply(kind)
  <1>1. running /\ running' = TRUE /\ inbox' = inbox /\ job.step # "idle"
    BY DEF HelperStep, HelperAt, MakeWorkspace, CreateNetwork, InspectRuntime, RunSidecar,
           RunContainer, RemoveSidecar, RemoveNetwork, DeleteContainer, RemoveWorkspace, RunCommand,
           OwnInv, SessionOK
  <1>2. \/ \E s \in Steps \ {"idle"} : Step(s)
        \/ \E kind \in Replies : Reply(kind)
    <2>1. {"network", "gateway", "sidecar", "address", "container", "sidecar_off", "network_off",
           "workspace_off", "blocked"} \subseteq Steps \ {"idle"}
      BY DEF Steps
    <2>2. {"ack", "error"} \subseteq Replies /\ \A op, up : ReplyTo(op, up) \in Replies
      BY DEF Replies, ReplyTo
    <2>3. CASE MakeWorkspace
      BY <2>1, <2>2, <2>3 DEF MakeWorkspace
    <2>4. CASE CreateNetwork
      BY <2>1, <2>2, <2>4 DEF CreateNetwork
    <2>5. CASE InspectRuntime
      BY <2>1, <2>2, <2>5 DEF InspectRuntime
    <2>6. CASE RunSidecar
      BY <2>1, <2>2, <2>6 DEF RunSidecar
    <2>7. CASE RunContainer
      BY <2>1, <2>2, <2>7 DEF RunContainer
    <2>8. CASE RemoveSidecar
      BY <2>1, <2>2, <2>8 DEF RemoveSidecar
    <2>9. CASE RemoveNetwork
      BY <2>1, <2>2, <2>9 DEF RemoveNetwork
    <2>10. CASE DeleteContainer
      BY <2>1, <2>2, <2>10 DEF DeleteContainer
    <2>11. CASE RemoveWorkspace
      BY <2>1, <2>2, <2>11 DEF RemoveWorkspace
    <2>12. CASE RunCommand
      BY <2>1, <2>2, <2>12 DEF RunCommand
    <2> QED BY <2>3, <2>4, <2>5, <2>6, <2>7, <2>8, <2>9, <2>10, <2>11, <2>12
            DEF HelperStep
  <1> QED BY <1>1, <1>2

LEMMA HelperOwn ==
  ASSUME OwnInv, HelperGoesOn
  PROVE  OwnInv'
  <1>1. HelperStep /\ Others
    BY DEF HelperGoesOn, sessionVars, Others, HelperStep, BackendAlone, NextLine, MakeWorkspace,
           CreateNetwork, InspectRuntime, RunSidecar, RunContainer, RemoveSidecar, RemoveNetwork,
           DeleteContainer, RemoveWorkspace, RunCommand
  <1>2. CASE NextLine
    BY <1>1, <1>2, NextLineOwn
  <1>3. CASE ~NextLine
    BY <1>1, <1>3, Working, Works
  <1> QED BY <1>2, <1>3

LEMMA DiesOwn ==
  ASSUME OwnInv, HelperDies
  PROVE  OwnInv'
  <1>1. /\ running' = FALSE /\ inbox' = <<>> /\ job' = NoJob
        /\ UNCHANGED <<call, outbox, session, mutex, strays>>
    BY DEF HelperDies, Dies, BackendAlone, sessionVars
  <1>2. SessionOK'
    BY <1>1 DEF OwnInv, SessionOK
  <1>3. InStep'
    BY <1>1 DEF OwnInv, InStep, CallAt, Exchange, Quiet
  <1> QED BY <1>1, <1>2, <1>3 DEF OwnInv, CallsOK, MutexOK

LEMMA RestartOwn ==
  ASSUME AppleRestarts
  PROVE  OwnInv'
  <1>1. /\ running' = FALSE /\ inbox' = <<>> /\ job' = NoJob /\ outbox' = <<>>
        /\ session' = FALSE /\ mutex' = "none" /\ strays' = 0
        /\ call' = [c \in Calls |-> NoCall]
    BY DEF AppleRestarts, Dies, ForgetCalls
  <1>2. AppleCallOK(NoCall) /\ NoCall.pc = "idle"
    BY DEF NoCall, AppleCalls, ApplePlaces, AppleCallOK
  <1>3. CallsOK'
    BY <1>1, <1>2 DEF CallsOK
  <1>4. MutexOK'
    BY <1>1, <1>2, BackendAssumption DEF MutexOK, Holding, BackendAssumption
  <1>5. SessionOK' /\ InStep'
    BY <1>1, <1>2 DEF SessionOK, InStep, CallAt, Quiet
  <1> QED BY <1>3, <1>4, <1>5 DEF OwnInv

LEMMA StutterOwn == ASSUME OwnInv, UNCHANGED appleVars PROVE OwnInv'
  BY DEF OwnInv, appleVars, callVars, helperVars, pipes, sessionVars, CallsOK, MutexOK, SessionOK,
         InStep, CallAt, Exchange, Quiet

LEMMA VanishOwn ==
  ASSUME OwnInv, NEW b \in Boxes, ContainerVanishes(b)
  PROVE  OwnInv'
  BY DEF ContainerVanishes, HelperAlone, SessionAlone, pipes, sessionVars, OwnInv, CallsOK, MutexOK,
         SessionOK, InStep, CallAt, Exchange, Quiet

LEMMA StepOwn == OwnInv /\ [AppleNext]_appleVars => OwnInv'
  <1> SUFFICES ASSUME OwnInv, [AppleNext]_appleVars PROVE OwnInv'
    OBVIOUS
  <1>1. ASSUME NEW c \in Calls, NEW op \in Operations, NEW b \in Boxes, Begin(c, op, b) PROVE OwnInv'
    BY <1>1, BeginOwn
  <1>2. ASSUME NEW c \in Calls, CallGoesOn(c) PROVE OwnInv'
    BY <1>2, DispatchOwn, DirectOwn, EnsureOwn, LockOwn, WriteOwn, ReadOwn, ResetOwn DEF CallGoesOn
  <1>3. ASSUME NEW c \in Calls, Drop(c) PROVE OwnInv'
    BY <1>3, DropOwn
  <1> QED BY <1>1, <1>2, <1>3, VanishOwn, HelperOwn, DiesOwn, RestartOwn, StutterOwn DEF AppleNext

LEMMA OwnSays == OwnInv => OwnReply
  <1> SUFFICES ASSUME OwnInv, NEW c \in Calls, CallAt(c, "read"), outbox # <<>>, strays = 0
               PROVE  Head(outbox).for = c
    BY DEF OwnReply
  <1>1. Exchange(c)
    BY DEF OwnInv, InStep
  <1>2. PICK a : a.for = c /\ outbox = <<a>>
    BY <1>1 DEF Exchange, Quiet
  <1> QED BY <1>2, One

\* The reply a call reads is the one to its own request, as long as no call of the session
\* was dropped between its request and its reply: whatever the helper answers, however it
\* or the server dies, and whoever resets the session meanwhile (helper_request).
THEOREM AppleReplies == AppleSpec => []OwnReply
  BY OwnSays, InitOwn, StepOwn, PTL DEF AppleSpec

-----------------------------------------------------------------------------
(* What becomes of a sandbox.  The invariant below says what a sandbox's   *)
(* container, its entry and the helper's map may be, given what the calls  *)
(* for it have done: a container whose creation nobody awaits any more is  *)
(* known to the helper or has a cause to blame.                            *)

Lethal == {"create", "destroy"}

Busy(c) == call[c].pc # "idle"
Maker(c) == call[c].op \in {"create", "restore"}
Making(c) == Busy(c) /\ Part(c) = "create"
MakingOf(c, b) == Making(c) /\ call[c].box = b
Awaiting(c) == call[c].pc = "read"

\* What a call has still to do: a sandbox is created and destroyed by a first part alone,
\* and by the destroy of a restore that undoes.
Shape(k) ==
    /\ k.op \in Operations /\ k.box \in Boxes
    /\ k.undo => k.op = "restore" /\ k.todo = <<"destroy">>
    /\ k.op \in Lethal => k.todo = <<k.op>>
    /\ k.op \notin Lethal /\ ~k.undo =>
         /\ \A i \in 2 .. Len(k.todo) : k.todo[i] \notin Lethal
         /\ Head(k.todo) \in Lethal => k.op = "restore" /\ Head(k.todo) = "create" /\ Len(k.todo) # 1

\* Only a sandbox that the container CLI may run is created and deleted by it.
Routed(k) ==
    /\ k.pc = "run" => Head(k.todo) = "create" /\ Direct(k.box)
    /\ k.pc = "delete" => Head(k.todo) = "destroy" /\ Direct(k.box)
    /\ k.pc = "recover" => Head(k.todo) = "destroy"
    /\ k.pc \in {"cli", "fallback", "blocked"} => Head(k.todo) \notin Lethal
    /\ k.pc \in {"ensure", "lock", "write", "read"} /\ Head(k.todo) \in Lethal => ~Direct(k.box)

\* The helper has no line of b.
Clear(b) == job.box # b /\ \A i \in 1 .. Len(inbox) : inbox[i].box # b

Fresh(b) == b \notin containers /\ b \notin known /\ entry[b] = "none" /\ Clear(b)

OneMaker(c) == \A d \in Calls : Busy(d) /\ Maker(d) /\ call[d].box = call[c].box => d = c

CallStands(c) ==
    Busy(c) =>
        /\ Shape(call[c]) /\ Routed(call[c])
        /\ IF Maker(c) THEN status[call[c].box] = "pending" /\ OneMaker(c)
           ELSE status[call[c].box] \in {"live", "destroyed"}
        /\ call[c].op = "restore" /\ Part(c) # "create"
              /\ (Part(c) = "destroy" => call[c].pc = "dispatch")
           => entry[call[c].box] # "none"
        /\ Part(c) = "destroy" /\ call[c].pc # "dispatch" => entry[call[c].box] = "none"
        /\ Making(c) => entry[call[c].box] = "none"
        /\ Making(c) /\ ~Awaiting(c) => Fresh(call[c].box)

\* A request to create that the helper has before it is awaited, or was abandoned; one to
\* destroy is for a sandbox that has lost its entry.
Creation(b) ==
    /\ ~Direct(b)
    /\ \/ "crossed" \in blame[b]
       \/ status[b] = "failed" /\ entry[b] = "none" /\ "dropped" \in blame[b]
       \/ \E c \in Calls : MakingOf(c, b) /\ Awaiting(c)

Removal(b) ==
    /\ ~Direct(b) /\ entry[b] = "none" /\ status[b] # "unborn"
    /\ \A c \in Calls : ~MakingOf(c, b)

Due(op, b) == (op = "create" => Creation(b)) /\ (op = "destroy" => Removal(b))

LineStands(l) == l.op \in Operations \cup {"torn"} /\ l.box \in Boxes /\ Due(l.op, l.box)

JobStands ==
    \/ job = NoJob
    \/ /\ job.op \in Operations /\ job.box \in Boxes /\ job.step \in Steps \ {"idle"}
       /\ Due(job.op, job.box)
       /\ job.step \in {"workspace", "network", "gateway", "sidecar", "address", "container"}
          => job.op = "create"
       /\ job.step \in {"network", "gateway", "sidecar", "address"} => job.box \in Allowlisted
       /\ job.step \in {"delete", "workspace_off"} => job.op = "destroy"
       /\ job.step \in {"sidecar_off", "network_off"} => job.op \in Lethal
       /\ job.step \in {"command", "blocked"} => job.op \notin Lethal /\ job.box \in known
       /\ job.op \in Lethal => job.box \notin known

Sent(l) == \E i \in 1 .. Len(inbox) : inbox[i] = l
LinesStand == \A l \in LineSpace : Sent(l) => LineStands(l)

HelperStands == (~running => known = {}) /\ JobStands /\ LinesStand

\* The helper is about to delete the container of b.
Deleting(b) == job.op = "destroy" /\ job.box = b /\ job.step = "delete"

\* A sandbox of the helper whose creation is over.
Kept(b) ==
    \/ entry[b] = "helper"
    \/ /\ ~Direct(b) /\ status[b] \in {"pending", "live", "destroyed"}
       /\ \A c \in Calls : ~MakingOf(c, b)

BoxStands(b) ==
    /\ entry[b] = "direct" => Direct(b)
    /\ entry[b] = "helper" => ~Direct(b)
    /\ status[b] = "unborn" => Fresh(b)
    /\ b \in known => ~Direct(b)
    /\ b \in containers /\ Kept(b) /\ blame[b] \cap {"lost", "crossed"} = {} =>
         b \in known \/ (entry[b] # "helper" /\ ("delete" \in blame[b] \/ Deleting(b)))
    /\ b \in containers /\ status[b] = "destroyed" =>
         ~Direct(b) /\ blame[b] \cap {"delete", "lost", "crossed"} # {}
    /\ b \in containers /\ status[b] = "failed" =>
         blame[b] \cap {"run", "copy", "delete", "lost", "dropped", "crossed"} # {}

\* How far the helper is with a creation that a call awaits.
MakeStands(c) ==
    LET b == call[c].box IN
    Making(c) /\ Awaiting(c) /\ "crossed" \notin blame[b] =>
        /\ b \in containers => outbox # <<>> \/ blame[b] \cap {"lost", "run"} # {}
        /\ strays = 0 =>
            /\ inbox # <<>> => /\ b \notin containers /\ b \notin known
                               /\ Head(inbox).op = "create" /\ Head(inbox).box = b
            /\ job # NoJob => /\ job.op = "create" /\ job.box = b /\ b \notin known
                              /\ b \in containers => "run" \in blame[b]
            /\ outbox # <<>> /\ b \in containers =>
                 IF Head(outbox).kind = "ack" THEN b \in known \/ "lost" \in blame[b]
                 ELSE blame[b] \cap {"lost", "run"} # {}

\* ... and with a removal.
KillStands(c) ==
    LET b == call[c].box IN
    Awaiting(c) /\ Part(c) = "destroy" /\ "crossed" \notin blame[b] /\ strays = 0 =>
        /\ inbox # <<>> => Head(inbox).op = "destroy" /\ Head(inbox).box = b
        /\ job # NoJob /\ b \in containers =>
             /\ job.op = "destroy" /\ job.box = b
             /\ job.step = "delete" \/ blame[b] \cap {"delete", "lost"} # {}
        /\ outbox # <<>> /\ b \in containers => blame[b] \cap {"delete", "lost"} # {}

NetCauses == {"network", "delete", "teardown", "lost", "dropped", "vanished"}

NetStands(b) ==
    b \in networks \cup sidecars =>
        /\ b \in Allowlisted
        /\ blame[b] \cap NetCauses = {} =>
             /\ b \in known \/ b = job.box
             /\ b \in known => b \in containers
             /\ b = job.box => /\ job.step \notin {"workspace", "workspace_off"}
                               /\ b \in sidecars => job.step # "network_off"

MapsOK ==
    /\ status = [b \in Boxes |-> status[b]]
    /\ entry = [b \in Boxes |-> entry[b]]
    /\ blame = [b \in Boxes |-> blame[b]]

BoxInv ==
    /\ MapsOK /\ HelperStands
    /\ \A c \in Calls : CallStands(c) /\ MakeStands(c) /\ KillStands(c)
    /\ \A b \in Boxes : BoxStands(b) /\ NetStands(b)

-----------------------------------------------------------------------------
LEMMA Tails ==
  ASSUME NEW S, NEW t \in Seq(S), t # <<>>
  PROVE  /\ Len(t) \in Nat \ {0} /\ Len(Tail(t)) = Len(t) - 1
         /\ Head(t) = t[1]
         /\ \A i \in 1 .. Len(Tail(t)) : Tail(t)[i] = t[i + 1]
  OBVIOUS

LEMMA ShapeFacts ==
  ASSUME NEW k, AppleCallOK(k), k.pc # "idle", Shape(k)
  PROVE  /\ k.todo \in Seq(Operations) /\ k.todo # <<>> /\ Len(k.todo) \in Nat \ {0}
         /\ Head(k.todo) \in Operations
         /\ Head(k.todo) = "create" =>
              /\ ~k.undo
              /\ \/ k.op = "create" /\ Len(k.todo) = 1
                 \/ k.op = "restore" /\ Len(k.todo) # 1
         /\ Head(k.todo) = "destroy" =>
              \/ k.op = "destroy" /\ ~k.undo /\ Len(k.todo) = 1
              \/ k.op = "restore" /\ k.undo
         /\ Head(k.todo) \notin Lethal => ~k.undo /\ k.op \notin Lethal
  <1>1. k.todo \in Seq(Operations) /\ k.todo # <<>> /\ k.op \in Operations /\ k.undo \in BOOLEAN
    BY DEF AppleCallOK, AppleCalls, Shape
  <1>2. Len(k.todo) \in Nat \ {0}
    BY <1>1
  <1>3. Head(k.todo) \in Operations
    BY <1>1, <1>2
  <1>4. CASE k.undo
    <2>1. Head(k.todo) = "destroy" /\ k.op = "restore"
      BY <1>4, One DEF Shape
    <2> QED BY <1>1, <1>2, <1>3, <1>4, <2>1 DEF Lethal
  <1>5. CASE ~k.undo /\ k.op \in Lethal
    <2>1. k.todo = <<k.op>>
      BY <1>5 DEF Shape
    <2>2. Head(k.todo) = k.op /\ Len(k.todo) = 1
      <3>1. Len(<<k.op>>) = 1
        OBVIOUS
      <3> QED BY <2>1, <3>1, One
    <2> QED BY <1>1, <1>2, <1>3, <1>5, <2>2 DEF Lethal
  <1>6. CASE ~k.undo /\ k.op \notin Lethal
    BY <1>1, <1>2, <1>3, <1>6 DEF Shape, Lethal
  <1> QED BY <1>4, <1>5, <1>6

\* The next part of a call is none that creates or destroys.
LEMMA NextPart ==
  ASSUME NEW k, AppleCallOK(k), k.pc # "idle", Shape(k), ~k.undo, Len(k.todo) # 1
  PROVE  LET n == [k EXCEPT !.todo = Tail(@), !.pc = "dispatch"]
         IN  AppleCallOK(n) /\ Shape(n) /\ Head(n.todo) \notin Lethal
  <1> DEFINE n == [k EXCEPT !.todo = Tail(@), !.pc = "dispatch"]
  <1>1. k \in AppleCalls /\ k.todo \in Seq(Operations) /\ k.todo # <<>>
    BY DEF AppleCallOK, AppleCalls
  <1>2. Tail(k.todo) \in Seq(Operations) /\ Tail(k.todo) # <<>>
    BY <1>1, Rest
  <1>3. n.todo = Tail(k.todo) /\ n.pc = "dispatch" /\ n.op = k.op /\ n.box = k.box /\ n.undo = k.undo
        /\ n \in AppleCalls
    BY <1>1, <1>2 DEF AppleCalls, ApplePlaces
  <1>4. AppleCallOK(n)
    BY <1>2, <1>3 DEF AppleCallOK
  <1>5. k.op \notin Lethal
    <2> SUFFICES ASSUME k.op \in Lethal PROVE FALSE
      OBVIOUS
    <2>1. k.todo = <<k.op>>
      BY DEF Shape
    <2>2. Len(<<k.op>>) = 1
      OBVIOUS
    <2> QED BY <2>1, <2>2
  <1>6. \A i \in 2 .. Len(k.todo) : k.todo[i] \notin Lethal
    BY <1>5 DEF Shape
  <1>7. /\ Len(k.todo) \in Nat \ {0} /\ Len(Tail(k.todo)) = Len(k.todo) - 1 /\ Len(k.todo) # 1
        /\ \A i \in 1 .. Len(Tail(k.todo)) : Tail(k.todo)[i] = k.todo[i + 1]
    BY <1>1, Tails
  <1>8. Head(Tail(k.todo)) = Tail(k.todo)[1]
    BY <1>2, Tails
  <1>9. \A i \in 1 .. Len(Tail(k.todo)) : Tail(k.todo)[i] \notin Lethal
    <2> TAKE i \in 1 .. Len(Tail(k.todo))
    <2>1. i + 1 \in 2 .. Len(k.todo)
      BY <1>7
    <2> QED BY <1>6, <1>7, <2>1
  <1>10. 1 \in 1 .. Len(Tail(k.todo))
    BY <1>2, Tails
  <1>11. Head(n.todo) \notin Lethal
    BY <1>3, <1>7, <1>8, <1>9, <1>10
  <1>12. \A i \in 2 .. Len(n.todo) : n.todo[i] \notin Lethal
    BY <1>3, <1>7, <1>9
  <1>13. Shape(n)
    BY <1>3, <1>5, <1>11, <1>12 DEF Shape
  <1> HIDE DEF n
  <1>14. AppleCallOK(n) /\ Shape(n) /\ Head(n.todo) \notin Lethal
    BY <1>4, <1>11, <1>13
  <1> QED BY <1>14 DEF n

\* How a part of a call may end: what becomes of the call, and what the callers are told.
Over(old, k, was, v, ok) ==
    /\ AppleCallOK(k)
    /\ k.pc # "idle" => k.pc = "dispatch" /\ k.op = old.op /\ k.box = old.box /\ Shape(k) /\ v = was
    /\ Head(old.todo) = "create" =>
         IF ok THEN \/ old.op = "create" /\ k.pc = "idle" /\ v = "live"
                    \/ old.op = "restore" /\ k.pc # "idle" /\ Head(k.todo) \notin Lethal
         ELSE k.pc = "idle" /\ v = "failed"
    /\ Head(old.todo) = "destroy" =>
         /\ k.pc = "idle"
         /\ v = IF old.op = "restore" THEN "failed" ELSE IF ok THEN "destroyed" ELSE was
    /\ Head(old.todo) \notin Lethal =>
         IF old.op = "restore"
         THEN IF k.pc = "idle" THEN v = "live" ELSE Head(k.todo) # "create"
         ELSE v = was /\ (k.pc # "idle" => Head(k.todo) \notin Lethal)

LEMMA Outcome ==
  ASSUME CallsOK, MapsOK, NEW c \in Calls, Busy(c), Shape(call[c]), NEW ok \in BOOLEAN, PartDone(c, ok)
  PROVE  \E k, v : /\ call' = [call EXCEPT ![c] = k]
                   /\ status' = [status EXCEPT ![call[c].box] = v]
                   /\ Over(call[c], k, status[call[c].box], v, ok)
  <1> DEFINE old == call[c]
             b == call[c].box
             so == ok \/ (Len(old.todo) = 1 /\ old.op \in {"snapshot", "restore"})
             undoes == old.op = "restore" /\ Head(old.todo) # "create"
  <1>1. AppleCallOK(old) /\ old.pc # "idle" /\ old \in AppleCalls /\ old.undo \in BOOLEAN
    BY DEF CallsOK, AppleCallOK, AppleCalls, Busy
  <1>2. /\ old.todo # <<>> /\ Head(old.todo) \in Operations
        /\ Head(old.todo) = "create" =>
              /\ ~old.undo
              /\ \/ old.op = "create" /\ Len(old.todo) = 1
                 \/ old.op = "restore" /\ Len(old.todo) # 1
        /\ Head(old.todo) = "destroy" =>
              \/ old.op = "destroy" /\ ~old.undo /\ Len(old.todo) = 1
              \/ old.op = "restore" /\ old.undo
        /\ Head(old.todo) \notin Lethal => ~old.undo /\ old.op \notin Lethal
    BY <1>1, ShapeFacts
  <1>3. b \in Boxes /\ status[b] = status[b] /\ \A v : [status EXCEPT ![b] = v][b] = v
    BY DEF MapsOK, Shape
  <1>4. NoCall.pc = "idle" /\ AppleCallOK(NoCall)
    BY DEF NoCall, AppleCalls, ApplePlaces, AppleCallOK
  <1>5. status = [status EXCEPT ![b] = status[b]]
    BY <1>3 DEF MapsOK
  <1>6. EndPart(c, so, undoes)
    BY DEF PartDone, Part
  <1>7. old.undo => old.op = "restore" /\ Head(old.todo) = "destroy"
    BY One DEF Shape
  <1>8. CASE old.undo
    <2>1. ReturnCall(c, FALSE)
      BY <1>6, <1>8 DEF EndPart
    <2>2. call' = [call EXCEPT ![c] = NoCall] /\ status' = [status EXCEPT ![b] = "failed"]
      BY <2>1, <1>7, <1>8 DEF ReturnCall, Told
    <2>3. Over(old, NoCall, status[b], "failed", ok)
      BY <1>2, <1>4, <1>7, <1>8 DEF Over, Lethal
    <2> QED BY <2>2, <2>3
  <1>9. CASE ~old.undo /\ ~so /\ undoes
    <2> DEFINE k == [old EXCEPT !.todo = <<"destroy">>, !.undo = TRUE, !.pc = "dispatch"]
    <2>1. call' = [call EXCEPT ![c].todo = <<"destroy">>, ![c].undo = TRUE, ![c].pc = "dispatch"]
          /\ status' = status
      BY <1>6, <1>9, <1>1 DEF EndPart
    <2>2. call' = [call EXCEPT ![c] = k]
      BY <2>1, <1>1 DEF CallsOK
    <2>3. <<"destroy">> \in Seq(Operations) /\ <<"destroy">> # <<>> /\ Head(<<"destroy">>) = "destroy"
      BY DEF Operations
    <2>4. /\ AppleCallOK(k) /\ k.pc = "dispatch" /\ k.todo = <<"destroy">> /\ k.undo /\ k.op = old.op
          /\ k.box = old.box
      BY <1>1, <2>3 DEF AppleCallOK, AppleCalls, ApplePlaces
    <2>5. Shape(k)
      BY <2>4, <1>9 DEF Shape, Lethal
    <2>6. Head(k.todo) = "destroy"
      BY <2>3, <2>4
    <2>7. Head(old.todo) \notin Lethal /\ old.op = "restore"
      BY <1>2, <1>9 DEF Lethal
    <2> HIDE DEF k
    <2>8. Over(old, k, status[b], status[b], ok)
      BY <2>4, <2>5, <2>6, <2>7 DEF Over, Lethal
    <2> QED BY <2>1, <2>2, <2>8, <1>5
  <1>10. CASE ~old.undo /\ so /\ Len(old.todo) # 1
    <2> DEFINE k == [old EXCEPT !.todo = Tail(@), !.pc = "dispatch"]
    <2>1. call' = [call EXCEPT ![c].todo = Tail(@), ![c].pc = "dispatch"] /\ status' = status
      BY <1>6, <1>10 DEF EndPart
    <2>2. call' = [call EXCEPT ![c] = k]
      BY <2>1, <1>1 DEF CallsOK
    <2>3. AppleCallOK(k) /\ Shape(k) /\ Head(k.todo) \notin Lethal
      BY <1>1, <1>10, NextPart
    <2>4. k.pc = "dispatch" /\ k.op = old.op /\ k.box = old.box
      BY <1>1 DEF AppleCalls
    <2>5. ok /\ Head(old.todo) # "destroy" /\ (Head(old.todo) = "create" => old.op = "restore")
      BY <1>2, <1>10
    <2> HIDE DEF k
    <2>6. Over(old, k, status[b], status[b], ok)
      BY <2>3, <2>4, <2>5 DEF Over, Lethal
    <2> QED BY <2>1, <2>2, <2>6, <1>5
  <1>11. CASE ~old.undo /\ (IF so THEN Len(old.todo) = 1 ELSE ~undoes)
    <2>1. ReturnCall(c, so)
      BY <1>6, <1>11 DEF EndPart
    <2>2. call' = [call EXCEPT ![c] = NoCall] /\ status' = Told(c, so)
      BY <2>1 DEF ReturnCall
    <2>3. CASE old.op \in {"create", "restore"}
      <3> DEFINE v == IF so THEN "live" ELSE "failed"
      <3>1. status' = [status EXCEPT ![b] = v]
        BY <2>2, <2>3 DEF Told
      <3>2. Over(old, NoCall, status[b], v, ok)
        BY <1>2, <1>4, <1>11, <2>3 DEF Over, Lethal
      <3> QED BY <2>2, <3>1, <3>2
    <2>4. CASE old.op = "destroy"
      <3>1. old.todo = <<"destroy">>
        BY <2>4 DEF Shape, Lethal
      <3>2. Head(old.todo) = "destroy"
        BY <3>1, One
      <3>3. so <=> ok
        BY <2>4
      <3> DEFINE v == IF ok THEN "destroyed" ELSE status[b]
      <3>4. status' = [status EXCEPT ![b] = v]
        BY <2>2, <2>4, <3>3, <1>5 DEF Told
      <3>5. Over(old, NoCall, status[b], v, ok)
        BY <1>4, <2>4, <3>2 DEF Over, Lethal
      <3> QED BY <2>2, <3>4, <3>5
    <2>5. CASE old.op \notin {"create", "restore", "destroy"}
      <3>1. status' = status
        BY <2>2, <2>5 DEF Told
      <3>2. Head(old.todo) \notin Lethal
        BY <1>2, <2>5 DEF Lethal
      <3>3. Over(old, NoCall, status[b], status[b], ok)
        BY <1>4, <2>5, <3>2 DEF Over, Lethal
      <3> QED BY <2>2, <3>1, <3>3, <1>5
    <2> QED BY <2>3, <2>4, <2>5
  <1> QED BY <1>6, <1>8, <1>9, <1>10, <1>11 DEF EndPart

-----------------------------------------------------------------------------
(* A step for one sandbox leaves the others as they are.                   *)

Same(x) ==
    /\ status'[x] = status[x] /\ entry'[x] = entry[x] /\ blame'[x] = blame[x]
    /\ x \in containers' <=> x \in containers
    /\ x \in known' <=> x \in known
    /\ x \in networks' <=> x \in networks
    /\ x \in sidecars' <=> x \in sidecars

Around(b) == \A x \in Boxes : x # b => Same(x)
Worse == \A x \in Boxes : blame[x] \subseteq blame'[x]

\* A step of call c, which goes on as k, for its sandbox b.
Advances(c, b, k) ==
    /\ b \in Boxes /\ b = call[c].box /\ Busy(c)
    /\ call' = [call EXCEPT ![c] = k] /\ AppleCallOK(k)
    /\ k.pc # "idle" => k.box = b /\ k.op = call[c].op
    /\ k.pc # "idle" /\ Head(k.todo) = "create" => Making(c)
    /\ Around(b) /\ Worse /\ MapsOK' /\ UNCHANGED <<builtin, known, job>>
    /\ \A x \in Boxes : x # b /\ Clear(x) => Clear(x)'
    /\ ~Maker(c) => status'[b] \in {"live", "destroyed"}
    /\ entry'[b] \in {"none", entry[b]} \/ Making(c)

LEMMA Moved ==
  ASSUME CallsOK, NEW c \in Calls, NEW b, NEW k, Advances(c, b, k)
  PROVE  \A d \in Calls : call'[d] = IF d = c THEN k ELSE call[d]
  BY DEF CallsOK, Advances

\* Two calls for one sandbox do not create it.
LEMMA Bystander ==
  ASSUME NEW c \in Calls, NEW d \in Calls, CallStands(c), CallStands(d), Busy(c), Busy(d), d # c,
         call[d].box = call[c].box
  PROVE  ~Maker(c) /\ ~Maker(d)
  BY DEF CallStands, OneMaker

LEMMA MakerMakes ==
  ASSUME CallsOK, NEW c \in Calls, CallStands(c), Making(c)
  PROVE  Maker(c) /\ status[call[c].box] = "pending" /\ Shape(call[c])
  <1>1. Shape(call[c]) /\ AppleCallOK(call[c]) /\ call[c].pc # "idle"
    BY DEF CallsOK, CallStands, Making, Busy
  <1>2. Maker(c)
    BY <1>1, ShapeFacts DEF Making, Part, Maker
  <1> QED BY <1>1, <1>2 DEF CallStands, Making

LEMMA OtherCalls ==
  ASSUME OwnInv, BoxInv, NEW c \in Calls, NEW b, NEW k, Advances(c, b, k), NEW d \in Calls, d # c
  PROVE  CallStands(d)'
  <1>1. \A e \in Calls : call'[e] = IF e = c THEN k ELSE call[e]
    BY Moved DEF OwnInv
  <1>2. CallStands(c) /\ CallStands(d) /\ Busy(c)
    BY DEF BoxInv, Advances
  <1> SUFFICES ASSUME Busy(d) PROVE CallStands(d)'
    BY <1>1 DEF CallStands, Busy
  <1>3. Shape(call[d]) /\ Routed(call[d]) /\ call[d].box \in Boxes
    BY <1>2 DEF CallStands, Shape
  <1>4. PICK x \in Boxes : x = call[d].box
    BY <1>3
  <1>5. call'[d] = call[d] /\ builtin' = builtin
    BY <1>1 DEF Advances
  <1>6. (Shape(call[d]) /\ Routed(call[d]))'
    BY <1>3, <1>5 DEF Shape, Routed, Direct
  <1>7. CASE x # b
    <2>1. Same(x) /\ (Clear(x) => Clear(x)')
      BY <1>7 DEF Advances, Around
    <2>2. Fresh(x) => Fresh(x)'
      BY <2>1 DEF Fresh, Same
    <2>3. OneMaker(d) => OneMaker(d)'
      BY <1>1, <1>4, <1>5, <1>7 DEF OneMaker, Busy, Maker, Advances
    <2> QED BY <1>2, <1>4, <1>5, <1>6, <2>1, <2>2, <2>3
            DEF CallStands, Same, Busy, Maker, Making, Awaiting, Part
  <1>8. CASE x = b
    <2>1. ~Maker(c) /\ ~Maker(d)
      BY <1>2, <1>4, <1>8, Bystander DEF Advances
    <2>2. ~Making(d) /\ ~Making(c)
      BY <1>2, <2>1, MakerMakes DEF OwnInv
    <2>3. status'[b] \in {"live", "destroyed"} /\ entry'[b] \in {"none", entry[b]}
      BY <2>1, <2>2 DEF Advances
    <2> QED BY <1>2, <1>4, <1>5, <1>6, <1>8, <2>1, <2>2, <2>3
            DEF CallStands, Busy, Maker, Making, Awaiting, Part
  <1> QED BY <1>7, <1>8

LEMMA RestBoxes ==
  ASSUME OwnInv, BoxInv, NEW c \in Calls, NEW b, NEW k, Advances(c, b, k), NEW x \in Boxes, x # b
  PROVE  BoxStands(x)' /\ NetStands(x)'
  <1>1. \A e \in Calls : call'[e] = IF e = c THEN k ELSE call[e]
    BY Moved DEF OwnInv
  <1>2. Same(x) /\ (Clear(x) => Clear(x)') /\ UNCHANGED <<builtin, known, job>>
    BY DEF Advances, Around
  <1>3. \A d \in Calls : MakingOf(d, x)' <=> MakingOf(d, x)
    BY <1>1 DEF MakingOf, Making, Busy, Part, Advances
  <1>4. BoxStands(x) /\ NetStands(x)
    BY DEF BoxInv
  <1>5. Fresh(x) => Fresh(x)'
    BY <1>2 DEF Fresh, Same
  <1>6. Kept(x)' <=> Kept(x)
    BY <1>2, <1>3 DEF Kept, Same, Direct
  <1>7. Direct(x)' <=> Direct(x)
    BY <1>2 DEF Direct
  <1>8. Deleting(x)' <=> Deleting(x)
    BY <1>2 DEF Deleting
  <1>9. BoxStands(x)'
    BY <1>2, <1>4, <1>5, <1>6, <1>7, <1>8 DEF BoxStands, Same
  <1>10. NetStands(x)'
    BY <1>2, <1>4 DEF NetStands, Same
  <1> QED BY <1>9, <1>10

\* The helper's requests stand, unless c no longer awaits its creation.
LEMMA StillAsked ==
  ASSUME OwnInv, BoxInv, NEW c \in Calls, NEW b, NEW k, Advances(c, b, k),
         status'[b] # "unborn",
         Making(c) /\ Awaiting(c) =>
            \/ "crossed" \in blame'[b]
            \/ status'[b] = "failed" /\ entry'[b] = "none" /\ "dropped" \in blame'[b],
         NEW op, NEW x \in Boxes, Due(op, x)
  PROVE  Due(op, x)'
  <1>1. \A e \in Calls : call'[e] = IF e = c THEN k ELSE call[e]
    BY Moved DEF OwnInv
  <1>2. Direct(x)' <=> Direct(x)
    BY DEF Direct, Advances
  <1>3. blame[x] \subseteq blame'[x] /\ (entry'[b] \in {"none", entry[b]} \/ Making(c))
    BY DEF Advances, Worse
  <1>4. CASE x # b
    <2>1. Same(x)
      BY <1>4 DEF Advances, Around
    <2>2. \A d \in Calls : (MakingOf(d, x)' <=> MakingOf(d, x)) /\ (MakingOf(d, x) => Awaiting(d)' = Awaiting(d))
      BY <1>1, <1>4 DEF MakingOf, Making, Busy, Part, Advances, Awaiting
    <2> QED BY <1>2, <1>3, <2>1, <2>2 DEF Due, Creation, Removal, Same
  <1>5. CASE x = b
    <2>1. CallStands(c) /\ Busy(c) /\ b = call[c].box
      BY DEF BoxInv, Advances
    <2>2. status[b] \in {"pending", "live", "destroyed"}
      BY <2>1 DEF CallStands
    <2>3. \A d \in Calls : MakingOf(d, b)' => MakingOf(d, b)
      BY <1>1, <2>1 DEF MakingOf, Making, Busy, Part, Advances
    <2>4. Removal(b) => Removal(b)'
      BY <1>2, <1>3, <1>5, <2>1, <2>3 DEF Removal, MakingOf
    <2>5. ASSUME NEW d \in Calls, MakingOf(d, b), Awaiting(d) PROVE Creation(b)' \/ Direct(b)
      <3>1. CallStands(d) /\ Busy(d) /\ Maker(d) /\ call[d].box = b
        BY <2>5, MakerMakes DEF BoxInv, OwnInv, MakingOf, Making
      <3>2. d = c
        BY <2>1, <3>1, Bystander
      <3> QED BY <1>2, <1>5, <2>5, <3>2 DEF Creation, MakingOf
    <2>6. Creation(b) => Creation(b)'
      BY <1>2, <1>3, <1>5, <2>2, <2>5 DEF Creation
    <2> QED BY <1>5, <2>4, <2>6 DEF Due
  <1> QED BY <1>4, <1>5

LEMMA OtherReads ==
  ASSUME OwnInv, BoxInv, NEW c \in Calls, NEW b, NEW k, Advances(c, b, k), NEW d \in Calls, d # c,
         UNCHANGED <<inbox, outbox>>, strays' = 0 => strays = 0,
         b \in containers' => b \in containers \/ Making(c)
  PROVE  MakeStands(d)' /\ KillStands(d)'
  <1>1. \A e \in Calls : call'[e] = IF e = c THEN k ELSE call[e]
    BY Moved DEF OwnInv
  <1>2. CallStands(c) /\ CallStands(d) /\ Busy(c) /\ MakeStands(d) /\ KillStands(d)
    BY DEF BoxInv, Advances
  <1>3. call'[d] = call[d] /\ UNCHANGED <<known, job, inbox, outbox>>
    BY <1>1 DEF Advances
  <1> SUFFICES ASSUME Awaiting(d) PROVE MakeStands(d)' /\ KillStands(d)'
    BY <1>3 DEF MakeStands, KillStands, Awaiting
  <1>4. Busy(d) /\ call[d].box \in Boxes
    BY <1>2 DEF Awaiting, Busy, CallStands, Shape
  <1>5. PICK x \in Boxes : x = call[d].box
    BY <1>4
  <1>6. blame[x] \subseteq blame'[x]
    BY DEF Advances, Worse
  <1>7. CASE x # b
    <2>1. Same(x)
      BY <1>7 DEF Advances, Around
    <2>2. MakeStands(d)'
      BY <1>2, <1>3, <1>5, <2>1 DEF MakeStands, Same, Making, Busy, Part, Awaiting
    <2>3. KillStands(d)'
      BY <1>2, <1>3, <1>5, <2>1 DEF KillStands, Same, Busy, Part, Awaiting
    <2> QED BY <2>2, <2>3
  <1>8. CASE x = b
    <2>1. ~Maker(c) /\ ~Maker(d)
      BY <1>2, <1>4, <1>5, <1>8, Bystander DEF Advances
    <2>2. ~Making(d) /\ ~Making(c)
      BY <1>2, <2>1, MakerMakes DEF OwnInv
    <2>3. MakeStands(d)'
      BY <1>3, <2>2 DEF MakeStands, Making, Busy, Part
    <2>4. x \in containers' => x \in containers
      BY <1>8, <2>2
    <2>5. KillStands(d)'
      BY <1>2, <1>3, <1>5, <1>6, <2>4 DEF KillStands, Part, Awaiting
    <2> QED BY <2>3, <2>5
  <1> QED BY <1>7, <1>8

LEMMA NoOtherReads ==
  ASSUME OwnInv, NEW c \in Calls, NEW k, call' = [call EXCEPT ![c] = k], call[c].pc \in Holding,
         NEW d \in Calls, d # c
  PROVE  MakeStands(d)' /\ KillStands(d)'
  <1>1. call'[d] = call[d] /\ call[d].pc \notin Holding
    BY HoldsAlone DEF OwnInv, CallsOK
  <1> QED BY <1>1 DEF MakeStands, KillStands, Awaiting, Holding

LEMMA Assembled ==
  ASSUME OwnInv, BoxInv, NEW c \in Calls, NEW b, NEW k, Advances(c, b, k), HelperStands',
         \A d \in Calls : d # c => MakeStands(d)' /\ KillStands(d)',
         CallStands(c)', MakeStands(c)', KillStands(c)', BoxStands(b)', NetStands(b)'
  PROVE  BoxInv'
  <1>1. \A d \in Calls : CallStands(d)' /\ MakeStands(d)' /\ KillStands(d)'
    BY OtherCalls
  <1>2. \A x \in Boxes : BoxStands(x)' /\ NetStands(x)'
    BY RestBoxes
  <1> QED BY <1>1, <1>2 DEF BoxInv, Advances

\* The helper is left alone, but that it may have been started for nobody who reads.
HelperStays ==
    /\ UNCHANGED <<known, job, inbox>> /\ (running => running')
    /\ \/ outbox' = outbox /\ (strays' = 0 => strays = 0)
       \/ \A d \in Calls : ~Awaiting(d)

LEMMA Stays ==
  ASSUME HelperAlone, SessionAlone
  PROVE  HelperStays /\ UNCHANGED <<builtin, known, job, inbox>>
  BY DEF HelperStays, HelperAlone, SessionAlone, sessionVars, pipes

\* A step of a call that leaves the helper alone, from what it does to its own sandbox.
LEMMA CallMoves ==
  ASSUME OwnInv, BoxInv, NEW c \in Calls, NEW b, NEW k, Advances(c, b, k), HelperStays,
         status'[b] # "unborn", ~Awaiting(c), b \in containers' => b \in containers \/ Making(c),
         CallStands(c)', BoxStands(b)', NetStands(b)', k.pc # "read"
  PROVE  BoxInv'
  <1>1. UNCHANGED <<known, inbox, job>> /\ (running => running')
    BY DEF HelperStays
  <1>2. \A op : \A x \in Boxes : Due(op, x) => Due(op, x)'
    BY StillAsked
  <1>3. JobStands'
    <2>1. job = NoJob \/ job.box \in Boxes
      BY DEF BoxInv, HelperStands, JobStands
    <2> QED BY <1>1, <1>2, <2>1 DEF BoxInv, HelperStands, JobStands
  <1>4. LinesStand'
    BY <1>1, <1>2 DEF BoxInv, HelperStands, LinesStand, LineStands, Sent
  <1>5. HelperStands'
    BY <1>1, <1>3, <1>4 DEF BoxInv, HelperStands
  <1>6. \A d \in Calls : call'[d] = IF d = c THEN k ELSE call[d]
    BY Moved DEF OwnInv
  <1>7. MakeStands(c)' /\ KillStands(c)'
    BY <1>6 DEF MakeStands, KillStands, Awaiting
  <1>8. ASSUME NEW d \in Calls, d # c PROVE MakeStands(d)' /\ KillStands(d)'
    <2>1. CASE outbox' = outbox /\ (strays' = 0 => strays = 0)
      BY <1>1, <1>8, <2>1, OtherReads
    <2>2. CASE ~Awaiting(d)
      BY <1>6, <1>8, <2>2 DEF MakeStands, KillStands, Awaiting
    <2> QED BY <2>1, <2>2 DEF HelperStays
  <1> QED BY <1>5, <1>7, <1>8, Assembled

-----------------------------------------------------------------------------
(* What a step does to its own sandbox.                                    *)

\* Something is blamed for b, or nothing.
BlameMoves(b) ==
    /\ blame' = [x \in Boxes |-> blame'[x]] /\ Worse
    /\ \A x \in Boxes : x # b => blame'[x] = blame[x]

LEMMA AppleFaults ==
  ASSUME MapsOK, NEW b \in Boxes, NEW cause, Fault(b, cause)
  PROVE  BlameMoves(b) /\ cause \in blame'[b]
  <1>1. blame' = [blame EXCEPT ![b] = @ \cup {cause}]
    BY DEF Fault
  <1> QED BY <1>1 DEF BlameMoves, Worse, MapsOK

LEMMA AppleFaultless ==
  ASSUME MapsOK, NEW b \in Boxes, blame' = blame
  PROVE  BlameMoves(b)
  BY DEF BlameMoves, Worse, MapsOK

\* Only what is kept of b changes.
WorldMoves(b) ==
    \A x \in Boxes : x # b =>
        /\ x \in containers' <=> x \in containers
        /\ x \in networks' <=> x \in networks
        /\ x \in sidecars' <=> x \in sidecars

LEMMA Stands ==
  ASSUME OwnInv, BoxInv, NEW c \in Calls, Busy(c)
  PROVE  /\ Shape(call[c]) /\ Routed(call[c]) /\ AppleCallOK(call[c]) /\ call[c].box \in Boxes
         /\ Maker(c) => status[call[c].box] = "pending"
         /\ ~Maker(c) => status[call[c].box] \in {"live", "destroyed"}
         /\ Making(c) => /\ Maker(c) /\ entry[call[c].box] = "none"
                         /\ ~Awaiting(c) => Fresh(call[c].box)
         /\ CallStands(c) /\ BoxStands(call[c].box) /\ NetStands(call[c].box) /\ MapsOK
  <1>1. CallStands(c) /\ AppleCallOK(call[c])
    BY DEF BoxInv, OwnInv, CallsOK
  <1>2. call[c].box \in Boxes
    BY <1>1 DEF CallStands, Shape
  <1> QED BY <1>1, <1>2, MakerMakes DEF CallStands, BoxInv, OwnInv

\* What k is when a call goes on as k.
Follows(old, k) ==
    /\ AppleCallOK(k)
    /\ k.pc # "idle" => k.box = old.box /\ k.op = old.op
    /\ k.pc # "idle" /\ Head(k.todo) = "create" => Head(old.todo) = "create"

LEMMA MovesFrom ==
  ASSUME OwnInv, BoxInv, NEW c \in Calls, Busy(c), NEW b, b = call[c].box, NEW k, NEW v, NEW e,
         call' = [call EXCEPT ![c] = k], Follows(call[c], k),
         status' = [status EXCEPT ![b] = v], entry' = [entry EXCEPT ![b] = e],
         BlameMoves(b), WorldMoves(b), UNCHANGED <<builtin, known, job>>,
         \A x \in Boxes : x # b /\ Clear(x) => Clear(x)',
         ~Maker(c) => v \in {status[b], "destroyed"},
         e \in {"none", entry[b]} \/ Making(c)
  PROVE  Advances(c, b, k)
  <1>1. b \in Boxes /\ MapsOK
    BY Stands
  <1>2. status' = [x \in Boxes |-> IF x = b THEN v ELSE status[x]]
        /\ entry' = [x \in Boxes |-> IF x = b THEN e ELSE entry[x]]
    BY <1>1 DEF MapsOK
  <1>3. MapsOK'
    BY <1>2 DEF MapsOK, BlameMoves
  <1>4. Around(b)
    BY <1>2 DEF Around, Same, BlameMoves, WorldMoves
  <1>5. status'[b] = v /\ entry'[b] = e
    BY <1>1, <1>2
  <1>6. ~Maker(c) => status'[b] \in {"live", "destroyed"}
    BY <1>5, Stands
  <1> QED BY <1>1, <1>3, <1>4, <1>5, <1>6 DEF Advances, BlameMoves, Follows, Making, Part

LEMMA Onward ==
  ASSUME OwnInv, BoxInv, NEW c \in Calls, NEW b, NEW k, Advances(c, b, k),
         k.pc # "idle" =>
           /\ Shape(k) /\ Routed(k) /\ status'[b] = status[b]
           /\ k.op = "restore" /\ Head(k.todo) # "create" /\ (Head(k.todo) = "destroy" => k.pc = "dispatch")
              => entry'[b] # "none"
           /\ Head(k.todo) = "destroy" /\ k.pc # "dispatch" => entry'[b] = "none"
           /\ Head(k.todo) = "create" => entry'[b] = "none" /\ (k.pc # "read" => Fresh(b)')
  PROVE  CallStands(c)'
  <1>1. \A d \in Calls : call'[d] = IF d = c THEN k ELSE call[d]
    BY Moved DEF OwnInv
  <1>2. CallStands(c) /\ Busy(c)
    BY DEF BoxInv, Advances
  <1>3. builtin' = builtin
    BY DEF Advances
  <1> SUFFICES ASSUME k.pc # "idle" PROVE CallStands(c)'
    BY <1>1 DEF CallStands, Busy
  <1>4. call'[c] = k /\ k.box = b /\ k.op = call[c].op /\ b = call[c].box
    BY <1>1 DEF Advances
  <1>5. OneMaker(c) => OneMaker(c)'
    BY <1>1, <1>2, <1>4 DEF OneMaker, Busy, Maker
  <1>6. (Shape(call[c]) /\ Routed(call[c]))'
    BY <1>3, <1>4 DEF Shape, Routed, Direct
  <1>7. ~Maker(c) => status'[b] \in {"live", "destroyed"}
    BY DEF Advances
  <1> QED BY <1>2, <1>4, <1>5, <1>6, <1>7 DEF CallStands, Maker, Making, Awaiting, Part, Busy

LEMMA BoxMoves ==
  ASSUME OwnInv, BoxInv, NEW c \in Calls, NEW b, NEW k, Advances(c, b, k),
         b \in containers' => b \in containers,
         b \in containers' /\ Kept(b)' => Kept(b),
         b \in containers' /\ status'[b] = "destroyed" =>
            status[b] = "destroyed"
            \/ (~Direct(b) /\ blame'[b] \cap {"delete", "lost", "crossed"} # {}),
         b \in containers' /\ status'[b] = "failed" =>
            blame'[b] \cap {"run", "copy", "delete", "lost", "dropped", "crossed"} # {},
         status'[b] # "unborn", entry'[b] \in {"none", entry[b]}
  PROVE  BoxStands(b)'
  <1>1. BoxStands(b)
    BY DEF BoxInv, Advances
  <1>2. blame[b] \subseteq blame'[b] /\ UNCHANGED <<builtin, known, job>>
    BY DEF Advances, Worse
  <1>3. (Direct(b)' <=> Direct(b)) /\ (Deleting(b)' <=> Deleting(b))
    BY <1>2 DEF Direct, Deleting
  <1> QED BY <1>1, <1>2, <1>3 DEF BoxStands

LEMMA NetMoves ==
  ASSUME BoxInv, NEW c \in Calls, NEW b, NEW k, Advances(c, b, k),
         b \in networks' => b \in networks, b \in sidecars' => b \in sidecars,
         b \in containers /\ b \in known =>
           \/ b \in containers' \/ b \notin networks' \cup sidecars'
           \/ blame'[b] \cap NetCauses # {}
  PROVE  NetStands(b)'
  <1>1. NetStands(b)
    BY DEF BoxInv, Advances
  <1>2. blame[b] \subseteq blame'[b] /\ UNCHANGED <<known, job>>
    BY DEF Advances, Worse
  <1>3. CASE blame'[b] \cap NetCauses = {}
    <2>1. blame[b] \cap NetCauses = {}
      BY <1>2, <1>3
    <2> QED BY <1>1, <1>2, <1>3, <2>1 DEF NetStands
  <1>4. CASE blame'[b] \cap NetCauses # {}
    BY <1>1, <1>4 DEF NetStands
  <1> QED BY <1>3, <1>4

\* The sandbox's creation is as far as it was, for every call but c.
LEMMA OnlyMaker ==
  ASSUME OwnInv, BoxInv, NEW c \in Calls, NEW b, NEW k, Advances(c, b, k)
  PROVE  /\ \A d \in Calls : d # c => (MakingOf(d, b)' <=> MakingOf(d, b))
         /\ Making(c) => \A d \in Calls : d # c => ~MakingOf(d, b)
         /\ MakingOf(c, b)' <=> (k.pc # "idle" /\ Head(k.todo) = "create")
         /\ ~Making(c) => \A d \in Calls : ~MakingOf(d, b)
  <1>1. \A d \in Calls : call'[d] = IF d = c THEN k ELSE call[d]
    BY Moved DEF OwnInv
  <1>2. \A d \in Calls : CallStands(d)
    BY DEF BoxInv
  <1>3. ASSUME NEW d \in Calls, d # c, MakingOf(d, b) PROVE FALSE
    <2>1. Busy(d) /\ Busy(c) /\ call[d].box = b /\ b = call[c].box
      BY <1>3 DEF MakingOf, Making, Advances
    <2>2. ~Maker(d)
      BY <1>2, <1>3, <2>1, Bystander
    <2> QED BY <1>2, <1>3, <2>2, MakerMakes DEF OwnInv, MakingOf
  <1> QED BY <1>1, <1>3 DEF MakingOf, Making, Busy, Part, Advances

\* A part is over that neither creates nor destroys.
LEMMA PlainOver ==
  ASSUME OwnInv, BoxInv, NEW c \in Calls, NEW b, NEW k, Advances(c, b, k), NEW ok \in BOOLEAN,
         Over(call[c], k, status[b], status'[b], ok), Part(c) \notin Lethal,
         UNCHANGED <<containers, networks, sidecars, entry>>
  PROVE  CallStands(c)' /\ BoxStands(b)' /\ NetStands(b)' /\ status'[b] # "unborn"
  <1>1. CallStands(c) /\ Busy(c) /\ b = call[c].box /\ BoxStands(b)
    BY DEF BoxInv, Advances
  <1>2. status[b] \in {"pending", "live", "destroyed"} /\ (Maker(c) => status[b] = "pending")
    BY <1>1 DEF CallStands
  <1>3. status'[b] \in {status[b], "live"} /\ (call[c].op # "restore" => status'[b] = status[b])
    BY DEF Over, Part
  <1>4. k.pc # "idle" => /\ Head(k.todo) # "create" /\ Shape(k) /\ Routed(k) /\ status'[b] = status[b]
                         /\ k.op = call[c].op /\ k.pc = "dispatch"
    BY DEF Over, Part, Lethal, Routed
  <1>5. call[c].op = "restore" => entry[b] # "none"
    BY <1>1 DEF CallStands, Lethal
  <1>6. CallStands(c)'
    BY <1>4, <1>5, Onward
  <1>7. ~Making(c)
    BY DEF Making, Lethal
  <1>8. builtin' = builtin
    BY DEF Advances
  <1>9. Kept(b)' => Kept(b)
    BY <1>2, <1>7, <1>8, OnlyMaker DEF Kept, Direct
  <1>10. BoxStands(b)'
    BY <1>2, <1>3, <1>9, BoxMoves
  <1>11. NetStands(b)'
    BY NetMoves
  <1> QED BY <1>2, <1>3, <1>6, <1>10, <1>11

-----------------------------------------------------------------------------
LEMMA OverMoves ==
  ASSUME OwnInv, BoxInv, NEW c \in Calls, Busy(c), NEW b, b = call[c].box, NEW ok \in BOOLEAN,
         PartDone(c, ok), NEW e, entry' = [entry EXCEPT ![b] = e], BlameMoves(b), WorldMoves(b),
         UNCHANGED <<builtin, known, job>>, \A x \in Boxes : x # b /\ Clear(x) => Clear(x)',
         e \in {"none", entry[b]} \/ Making(c)
  PROVE  \E k : /\ Advances(c, b, k) /\ call'[c] = k
                /\ Over(call[c], k, status[b], status'[b], ok) /\ k.pc \in {"idle", "dispatch"}
  <1>1. Shape(call[c]) /\ AppleCallOK(call[c]) /\ MapsOK
    BY Stands
  <1>2. PICK k, v : /\ call' = [call EXCEPT ![c] = k] /\ status' = [status EXCEPT ![b] = v]
                    /\ Over(call[c], k, status[b], v, ok)
    BY <1>1, Outcome DEF OwnInv
  <1>3. k.pc # "idle" => k.box = b /\ k.op = call[c].op /\ Head(k.todo) # "create" /\ k.pc = "dispatch"
    BY <1>2 DEF Over, Lethal
  <1>4. Head(call[c].todo) = "create" => Maker(c)
    BY <1>1, ShapeFacts DEF Busy, Maker
  <1>5. ~Maker(c) => v \in {status[b], "destroyed"}
    BY <1>2, <1>4 DEF Over, Maker, Lethal
  <1>6. Follows(call[c], k)
    BY <1>2, <1>3 DEF Over, Follows
  <1>7. Advances(c, b, k)
    BY <1>2, <1>5, <1>6, MovesFrom
  <1>9. status'[b] = v
    BY <1>1, <1>2, <1>7 DEF MapsOK, Advances
  <1>8. call'[c] = k
    BY <1>7, Moved DEF OwnInv
  <1> QED BY <1>2, <1>3, <1>7, <1>8, <1>9

Placed(old, k, p) ==
    k.pc = p /\ k.op = old.op /\ k.box = old.box /\ k.todo = old.todo /\ Shape(k)

LEMMA PlaceMoves ==
  ASSUME OwnInv, BoxInv, NEW c \in Calls, Busy(c), NEW b, b = call[c].box, NEW p \in ApplePlaces,
         Place(c, p), NEW e, entry' = [entry EXCEPT ![b] = e], BlameMoves(b), WorldMoves(b),
         UNCHANGED <<builtin, known, job>>, \A x \in Boxes : x # b /\ Clear(x) => Clear(x)',
         e \in {"none", entry[b]} \/ Making(c)
  PROVE  \E k : /\ Advances(c, b, k) /\ call'[c] = k
                /\ Placed(call[c], k, p)
  <1> DEFINE k == [call[c] EXCEPT !.pc = p]
  <1>1. Shape(call[c]) /\ AppleCallOK(call[c]) /\ MapsOK /\ b \in Boxes
    BY Stands
  <1>2. call' = [call EXCEPT ![c] = k] /\ status' = status
    BY DEF Place, OwnInv, CallsOK
  <1>3. /\ AppleCallOK(k) /\ k.pc = p /\ k.op = call[c].op /\ k.box = b /\ k.todo = call[c].todo
        /\ k.undo = call[c].undo
    BY <1>1 DEF AppleCallOK, AppleCalls, Busy
  <1> HIDE DEF k
  <1>4. status' = [status EXCEPT ![b] = status[b]]
    BY <1>1, <1>2 DEF MapsOK
  <1>5. Follows(call[c], k) /\ (~Maker(c) => status[b] \in {status[b], "destroyed"})
    BY <1>3 DEF Follows
  <1>6. Advances(c, b, k)
    BY <1>2, <1>4, <1>5, MovesFrom
  <1>7. call'[c] = k
    BY <1>6, Moved DEF OwnInv
  <1>8. Shape(k)
    BY <1>1, <1>3 DEF Shape
  <1>9. Placed(call[c], k, p)
    BY <1>3, <1>8 DEF Placed
  <1> QED BY <1>6, <1>7, <1>9

LEMMA Around1 ==
  ASSUME UNCHANGED <<containers, networks, sidecars>>, NEW b
  PROVE  WorldMoves(b)
  BY DEF WorldMoves

LEMMA KeepsLines ==
  ASSUME UNCHANGED <<inbox, job>>
  PROVE  \A x \in Boxes : Clear(x) => Clear(x)'
  BY DEF Clear

LEMMA SameEntry ==
  ASSUME MapsOK, NEW b \in Boxes, entry' = entry
  PROVE  entry' = [entry EXCEPT ![b] = entry[b]]
  BY DEF MapsOK

\* A part is over that neither creates nor destroys, within the backend.
LEMMA PlainBox ==
  ASSUME OwnInv, BoxInv, NEW c \in Calls, Busy(c), ~Awaiting(c), NEW ok \in BOOLEAN, PartDone(c, ok),
         Part(c) \notin Lethal, HelperAlone, SessionAlone, BlameMoves(call[c].box),
         UNCHANGED <<containers, networks, sidecars, entry>>
  PROVE  BoxInv'
  <1>1. PICK b \in Boxes : b = call[c].box
    BY Stands
  <1>2. HelperStays /\ UNCHANGED <<builtin, known, job, inbox>>
    BY Stays
  <1>3. PICK k : /\ Advances(c, b, k) /\ Over(call[c], k, status[b], status'[b], ok)
                 /\ k.pc \in {"idle", "dispatch"}
    BY <1>1, <1>2, OverMoves, Around1, KeepsLines, SameEntry DEF BoxInv
  <1>4. CallStands(c)' /\ BoxStands(b)' /\ NetStands(b)' /\ status'[b] # "unborn"
    BY <1>3, PlainOver
  <1>5. entry'[b] = entry[b] /\ k.pc # "read"
    BY <1>3
  <1> QED BY <1>2, <1>3, <1>4, <1>5, CallMoves

\* A call goes on to another place of the backend.
Leads(c, p) == \A k : k.pc = p /\ k.todo = call[c].todo /\ k.box = call[c].box => Routed(k)

LEMMA PlaceBox ==
  ASSUME OwnInv, BoxInv, NEW c \in Calls, Busy(c), ~Awaiting(c), NEW p \in ApplePlaces \ {"read", "idle", "dispatch"},
         Place(c, p), HelperStays, UNCHANGED <<containers, networks, sidecars, builtin>>,
         blame' = blame,
         entry' = entry \/ (entry' = [entry EXCEPT ![call[c].box] = "none"] /\ Part(c) = "destroy"),
         Part(c) = "destroy" /\ call[c].pc = "dispatch" => entry'[call[c].box] = "none",
         Leads(c, p)
  PROVE  BoxInv'
  <1>1. PICK b \in Boxes : b = call[c].box
    BY Stands
  <1>2. UNCHANGED <<known, job, inbox>>
    BY DEF HelperStays
  <1>3. /\ CallStands(c) /\ status[b] \in {"pending", "live", "destroyed"}
        /\ Making(c) => entry[b] = "none" /\ Fresh(b)
    BY <1>1, Stands
  <1>4. PICK e \in {"none", entry[b]} :
            entry' = [entry EXCEPT ![b] = e] /\ (e # entry[b] => Part(c) = "destroy")
    BY <1>1, SameEntry DEF BoxInv
  <1>5. BlameMoves(b)
    BY <1>1, AppleFaultless DEF BoxInv
  <1>6. PICK k : /\ Advances(c, b, k) /\ call'[c] = k
                 /\ Placed(call[c], k, p)
    <2>1. WorldMoves(b) /\ (\A x \in Boxes : x # b /\ Clear(x) => Clear(x)')
      BY <1>2, Around1, KeepsLines
    <2>2. p \in ApplePlaces /\ entry' = [entry EXCEPT ![b] = e] /\ UNCHANGED <<builtin, known, job>>
      BY <1>2, <1>4
    <2> QED BY <1>1, <1>5, <2>1, <2>2, PlaceMoves
  <1>13. entry'[b] = e /\ status'[b] = status[b]
    BY <1>1, <1>4 DEF BoxInv, MapsOK, Place
  <1>14. k.pc = p /\ k.op = call[c].op /\ k.box = b /\ k.todo = call[c].todo /\ Shape(k)
    BY <1>1, <1>6 DEF Placed
  <1>7. Routed(k)
    BY <1>1, <1>14 DEF Leads
  <1>8. Making(c) <=> Head(k.todo) = "create"
    BY <1>6, <1>14 DEF Making, Part
  <1>9. CallStands(c)'
    <2>1. Head(k.todo) = "create" => entry'[b] = "none" /\ Fresh(b)'
      BY <1>2, <1>3, <1>4, <1>6, <1>14, <1>13, <1>8 DEF Fresh, Clear
    <2>2. k.op = "restore" /\ Head(k.todo) \notin Lethal => entry'[b] # "none"
      BY <1>1, <1>3, <1>4, <1>6, <1>14, <1>13 DEF CallStands, Part, Lethal
    <2>3. Head(k.todo) = "destroy" => entry'[b] = "none"
      BY <1>1, <1>3, <1>4, <1>13, <1>14 DEF CallStands, Part
    <2> QED BY <1>6, <1>7, <1>13, <1>14, <2>1, <2>2, <2>3, Onward DEF Lethal
  <1>10. Kept(b)' => Kept(b)
    BY <1>3, <1>4, <1>6, <1>14, <1>13, <1>8, OnlyMaker DEF Kept, Direct
  <1>11. BoxStands(b)'
    BY <1>3, <1>4, <1>6, <1>14, <1>13, <1>10, BoxMoves
  <1>12. NetStands(b)'
    BY <1>6, <1>14, NetMoves
  <1> QED BY <1>3, <1>4, <1>6, <1>14, <1>13, <1>9, <1>11, <1>12, CallMoves

-----------------------------------------------------------------------------
(* The calls within the backend.                                           *)

\* A write of more than the pipes hold.
LEMMA OverfillBox ==
  ASSUME OwnInv, BoxInv, NEW c \in Calls, Busy(c), ~Awaiting(c), Part(c) \notin Lethal, Overfills(c),
         HelperAlone, SessionAlone, NoFault, UNCHANGED <<containers, networks, sidecars, entry>>
  PROVE  BoxInv'
  <1>1. Leads(c, "blocked")
    BY DEF Leads, Routed, Part, Lethal
  <1>2. "blocked" \in ApplePlaces \ {"read", "idle", "dispatch"}
    BY DEF ApplePlaces
  <1>3. HelperStays /\ UNCHANGED <<builtin, blame>>
    BY Stays DEF NoFault
  <1> QED BY <1>1, <1>2, <1>3, PlaceBox DEF Overfills, Lethal

LEMMA AccessBox ==
  ASSUME OwnInv, BoxInv, NEW c \in Calls, AccessDirect(c)
  PROVE  BoxInv'
  <1>1. call[c].pc \in {"cli", "blocked"} /\ Busy(c) /\ ~Awaiting(c)
    BY DEF AccessDirect, CallAt, Busy, Awaiting
  <1>2. PICK b \in Boxes : b = call[c].box
    BY <1>1, Stands
  <1>3. Part(c) \notin Lethal
    BY <1>1, Stands DEF Routed, Part
  <1>4. HelperAlone /\ SessionAlone /\ UNCHANGED <<containers, networks, sidecars, entry>>
    BY DEF AccessDirect, world
  <1>5. CASE \E ok \in BOOLEAN : PartDone(c, ok)
    <2>1. BlameMoves(b)
      BY <1>2, AppleFaults, AppleFaultless DEF AccessDirect, NoFault, BoxInv
    <2> QED BY <1>1, <1>2, <1>3, <1>4, <1>5, <2>1, PlainBox
  <1>6. CASE Overfills(c) /\ NoFault
    BY <1>1, <1>3, <1>4, <1>6, OverfillBox
  <1>7. (call[c].box \in containers) \in BOOLEAN
    OBVIOUS
  <1> QED BY <1>5, <1>6, <1>7, ZenonT(30) DEF AccessDirect

LEMMA FallbackBox ==
  ASSUME OwnInv, BoxInv, NEW c \in Calls, Fallback(c)
  PROVE  BoxInv'
  <1>1. call[c].pc = "fallback" /\ Busy(c) /\ ~Awaiting(c)
    BY DEF Fallback, CallAt, Busy, Awaiting
  <1>2. PICK b \in Boxes : b = call[c].box
    BY <1>1, Stands
  <1>3. Part(c) \notin Lethal
    BY <1>1, Stands DEF Routed, Part
  <1>4. HelperAlone /\ SessionAlone /\ UNCHANGED <<containers, networks, sidecars, entry>>
    BY DEF Fallback, world
  <1>5. CASE \E ok \in BOOLEAN : PartDone(c, ok)
    <2>1. BlameMoves(b)
      BY <1>2, AppleFaults, AppleFaultless DEF Fallback, NoFault, BoxInv
    <2> QED BY <1>1, <1>2, <1>3, <1>4, <1>5, <2>1, PlainBox
  <1>6. CASE Place(c, "ensure") /\ NoFault
    <2>1. Leads(c, "ensure")
      BY <1>3 DEF Leads, Routed, Part, Lethal
    <2>2. "ensure" \in ApplePlaces \ {"read", "idle", "dispatch"}
      BY DEF ApplePlaces
    <2>3. HelperStays /\ UNCHANGED <<builtin, blame>>
      BY <1>4, <1>6, Stays DEF NoFault
    <2> QED BY <1>1, <1>3, <1>4, <1>6, <2>1, <2>2, <2>3, PlaceBox DEF Lethal
  <1>7. CASE Overfills(c) /\ NoFault
    BY <1>1, <1>3, <1>4, <1>7, OverfillBox
  <1>8. (call[c].box \in containers) \in BOOLEAN
    OBVIOUS
  <1> QED BY <1>5, <1>6, <1>7, <1>8, ZenonT(30) DEF Fallback

LEMMA CreateBox ==
  ASSUME OwnInv, BoxInv, NEW c \in Calls, CreateDirect(c)
  PROVE  BoxInv'
  <1>1. call[c].pc = "run" /\ Busy(c) /\ ~Awaiting(c)
    BY DEF CreateDirect, CallAt, Busy, Awaiting
  <1>2. PICK b \in Boxes : b = call[c].box
    BY <1>1, Stands
  <1>3. Part(c) = "create" /\ Direct(b) /\ Making(c) /\ Fresh(b) /\ status[b] = "pending"
    BY <1>1, <1>2, Stands DEF Routed, Part, Making
  <1>4. HelperStays /\ UNCHANGED <<networks, sidecars, known, job, inbox, builtin>>
    BY Stays DEF CreateDirect
  <1>5. WorldMoves(b) /\ \A x \in Boxes : x # b /\ Clear(x) => Clear(x)'
    BY <1>2, <1>4, KeepsLines DEF CreateDirect, WorldMoves
  <1>6. PICK ok \in BOOLEAN, e \in {"none", "direct"} :
            /\ PartDone(c, ok) /\ entry' = [entry EXCEPT ![b] = e] /\ BlameMoves(b)
            /\ IF ok THEN e = "direct" ELSE e = "none" /\ "run" \in blame'[b]
    <2>1. CASE /\ containers' = containers \cup {b}
               /\ entry' = [entry EXCEPT ![b] = "direct"]
               /\ PartDone(c, TRUE) /\ NoFault
      <3>1. BlameMoves(b)
        BY <1>2, <2>1, AppleFaultless DEF NoFault, BoxInv
      <3> QED BY <2>1, <3>1
    <2>2. CASE PartDone(c, FALSE) /\ Fault(b, "run") /\ UNCHANGED entry
      <3>1. BlameMoves(b) /\ "run" \in blame'[b]
        BY <1>2, <2>2, AppleFaults DEF BoxInv
      <3>2. entry' = [entry EXCEPT ![b] = "none"]
        BY <1>2, <1>3, <2>2, SameEntry DEF BoxInv, Fresh
      <3> QED BY <2>2, <3>1, <3>2
    <2> QED BY <1>2, <2>1, <2>2 DEF CreateDirect
  <1>7. PICK k : /\ Advances(c, b, k) /\ k.pc \in {"idle", "dispatch"}
                 /\ Over(call[c], k, status[b], status'[b], ok)
    BY <1>1, <1>2, <1>3, <1>4, <1>5, <1>6, OverMoves
  <1>14. entry'[b] = e
    BY <1>2, <1>6 DEF BoxInv, MapsOK
  <1>8. IF ok THEN status'[b] \in {"pending", "live"} ELSE status'[b] = "failed" /\ k.pc = "idle"
    BY <1>3, <1>7 DEF Over, Part
  <1>9. k.pc # "idle" => /\ ok /\ Head(k.todo) \notin Lethal /\ Shape(k) /\ Routed(k)
                         /\ status'[b] = status[b]
    BY <1>3, <1>7, <1>8 DEF Over, Part, Routed
  <1>10. CallStands(c)'
    BY <1>6, <1>7, <1>14, <1>9, Onward DEF Lethal
  <1>11. (Direct(b)' <=> Direct(b)) /\ b \notin known'
    BY <1>3, <1>4 DEF Direct, Fresh
  <1>12. BoxStands(b)'
    BY <1>3, <1>6, <1>7, <1>14, <1>8, <1>11 DEF BoxStands, Kept
  <1>13. NetStands(b)'
    BY <1>3, <1>4, <1>7, NetMoves DEF Fresh
  <1> QED BY <1>1, <1>3, <1>4, <1>7, <1>14, <1>8, <1>10, <1>12, <1>13, CallMoves

\* A removal is over: what is left of the container has a cause to blame.
LEMMA RemovedOver ==
  ASSUME OwnInv, BoxInv, NEW c \in Calls, NEW b, NEW k, Advances(c, b, k), NEW ok \in BOOLEAN,
         Over(call[c], k, status[b], status'[b], ok), Part(c) = "destroy", k.pc \in {"idle", "dispatch"},
         entry'[b] = entry[b],
         b \in containers' => b \in containers,
         b \in containers' /\ ok => ~Direct(b) /\ blame'[b] \cap {"delete", "lost", "crossed"} # {},
         b \in containers' /\ ~ok /\ Maker(c) => blame'[b] \cap {"delete", "lost", "crossed"} # {}
  PROVE  CallStands(c)' /\ BoxStands(b)' /\ status'[b] # "unborn"
  <1>1. Busy(c) /\ b = call[c].box /\ BoxStands(b)
    BY DEF BoxInv, Advances
  <1>2. status[b] \in {"pending", "live", "destroyed"}
    BY <1>1, Stands
  <1>3. /\ k.pc = "idle"
        /\ status'[b] = IF call[c].op = "restore" THEN "failed" ELSE IF ok THEN "destroyed" ELSE status[b]
    BY DEF Over, Part
  <1>4. call[c].op = "restore" => Maker(c)
    BY DEF Maker
  <1>5. CallStands(c)'
    BY <1>3, Onward
  <1>6. ~Making(c)
    BY DEF Making
  <1>7. builtin' = builtin
    BY DEF Advances
  <1>8. b \in containers' /\ status'[b] = "failed" =>
          blame'[b] \cap {"run", "copy", "delete", "lost", "dropped", "crossed"} # {}
    BY <1>2, <1>3, <1>4
  <1>9. Kept(b)' => Kept(b)
    BY <1>2, <1>6, <1>7, OnlyMaker DEF Kept, Direct
  <1>10. b \in containers' /\ status'[b] = "destroyed" =>
           status[b] = "destroyed"
           \/ (~Direct(b) /\ blame'[b] \cap {"delete", "lost", "crossed"} # {})
    BY <1>3
  <1>11. BoxStands(b)'
    BY <1>2, <1>3, <1>8, <1>9, <1>10, BoxMoves
  <1> QED BY <1>2, <1>3, <1>5, <1>11

LEMMA DestroyBox ==
  ASSUME OwnInv, BoxInv, NEW c \in Calls, DestroyDirect(c) \/ DestroyUnknown(c)
  PROVE  BoxInv'
  <1>1. call[c].pc \in {"delete", "recover"} /\ Busy(c) /\ ~Awaiting(c)
    BY DEF DestroyDirect, DestroyUnknown, CallAt, Busy, Awaiting
  <1>2. PICK b \in Boxes : b = call[c].box
    BY <1>1, Stands
  <1>3. Part(c) = "destroy" /\ (call[c].pc = "delete" => Direct(b)) /\ NetStands(b)
    BY <1>1, <1>2, Stands DEF Routed, Part
  <1>4. HelperStays /\ UNCHANGED <<entry, known, job, inbox, builtin>>
    BY Stays DEF DestroyDirect, DestroyUnknown
  <1>5. /\ containers' \in {containers, containers \ {b}}
        /\ networks' \in {networks, networks \ {b}} /\ sidecars' \in {sidecars, sidecars \ {b}}
    BY <1>2 DEF DestroyDirect, DestroyUnknown
  <1>6. WorldMoves(b) /\ \A x \in Boxes : x # b /\ Clear(x) => Clear(x)'
    BY <1>4, <1>5, KeepsLines DEF WorldMoves
  <1>7. PICK ok \in BOOLEAN :
            /\ PartDone(c, ok) /\ BlameMoves(b)
            /\ b \in containers' => ~ok /\ "delete" \in blame'[b]
    <2>1. CASE PartDone(c, TRUE) /\ NoFault /\ containers' = containers \ {b}
      BY <1>2, <2>1, AppleFaultless DEF NoFault, BoxInv
    <2>2. CASE \E cause : \E ok \in BOOLEAN : PartDone(c, ok) /\ Fault(b, cause) /\ containers' = containers \ {b}
      BY <1>2, <2>2, AppleFaults DEF BoxInv
    <2>3. CASE PartDone(c, FALSE) /\ Fault(b, "delete")
      BY <1>2, <2>3, AppleFaults DEF BoxInv
    <2> QED BY <1>2, <2>1, <2>2, <2>3 DEF DestroyDirect, DestroyUnknown
  <1>8. b \in containers' \/ b \notin networks' \cup sidecars' \/ blame'[b] \cap NetCauses # {}
    <2>1. CASE DestroyDirect(c)
      <3>1. Direct(b)
        BY <1>3, <2>1 DEF DestroyDirect, CallAt
      <3>2. b \notin networks \cup sidecars
        BY <1>3, <3>1 DEF NetStands, Direct
      <3> QED BY <2>1, <3>2 DEF DestroyDirect
    <2>2. CASE DestroyUnknown(c)
      <3>1. CASE Fault(b, "teardown") \/ Fault(b, "delete")
        BY <1>2, <3>1, AppleFaults DEF NetCauses, BoxInv
      <3>2. CASE sidecars' = sidecars \ {b} /\ networks' = networks \ {b}
        BY <3>2
      <3> QED BY <1>2, <2>2, <3>1, <3>2 DEF DestroyUnknown
    <2> QED BY <2>1, <2>2
  <1>9. PICK k : /\ Advances(c, b, k) /\ k.pc \in {"idle", "dispatch"}
                 /\ Over(call[c], k, status[b], status'[b], ok)
    BY <1>1, <1>2, <1>4, <1>6, <1>7, OverMoves, SameEntry DEF BoxInv
  <1>10. blame'[b] \cap {"delete", "lost", "crossed"} # {} \/ b \notin containers'
    BY <1>7
  <1>11. CallStands(c)' /\ BoxStands(b)' /\ status'[b] # "unborn"
    BY <1>3, <1>4, <1>5, <1>7, <1>9, <1>10, RemovedOver
  <1>12. NetStands(b)'
    BY <1>5, <1>8, <1>9, NetMoves
  <1> QED BY <1>1, <1>4, <1>5, <1>9, <1>11, <1>12, CallMoves

\* Where an operation is sent, its sandbox is one for the container CLI or not.
LEMMA Sends ==
  ASSUME OwnInv, BoxInv, NEW c \in Calls, Busy(c), ~Unroutable(c, call[c].box)
  PROVE  Leads(c, Route(c, call[c].box))
         /\ Route(c, call[c].box) \in ApplePlaces \ {"read", "idle", "dispatch"}
  <1>1. PICK b \in Boxes : b = call[c].box
    BY Stands
  <1>2. (entry[b] = "direct" => Direct(b)) /\ (entry[b] = "helper" => ~Direct(b))
    BY DEF BoxInv, BoxStands
  <1> DEFINE p == Route(c, b)
  <1>3. CASE Part(c) = "create"
    <2>1. p = IF Direct(b) THEN "run" ELSE "ensure"
      BY <1>3 DEF Route
    <2> HIDE DEF p
    <2>2. Leads(c, p)
      BY <1>1, <1>3, <2>1 DEF Leads, Routed, Part
    <2> QED BY <1>1, <2>1, <2>2 DEF p, ApplePlaces
  <1>4. CASE Part(c) = "destroy"
    <2>1. p = IF entry[b] = "direct" THEN "delete" ELSE IF entry[b] = "helper" THEN "ensure" ELSE "recover"
      BY <1>4 DEF Route
    <2> HIDE DEF p
    <2>2. Leads(c, p)
      BY <1>1, <1>2, <1>4, <2>1 DEF Leads, Routed, Part
    <2> QED BY <1>1, <2>1, <2>2 DEF p, ApplePlaces
  <1>5. CASE Part(c) \notin Lethal
    <2>1. p = IF entry[b] = "direct" THEN "cli"
              ELSE IF entry[b] = "none" /\ builtin THEN "fallback" ELSE "ensure"
      BY <1>5 DEF Route, Lethal
    <2> HIDE DEF p
    <2>2. Leads(c, p)
      BY <1>1, <1>5, <2>1 DEF Leads, Routed, Part, Lethal
    <2> QED BY <1>1, <2>1, <2>2 DEF p, ApplePlaces
  <1> QED BY <1>3, <1>4, <1>5 DEF Lethal

LEMMA DispatchBox ==
  ASSUME OwnInv, BoxInv, NEW c \in Calls, Dispatch(c)
  PROVE  BoxInv'
  <1>1. call[c].pc = "dispatch" /\ Busy(c) /\ ~Awaiting(c)
    BY DEF Dispatch, CallAt, Busy, Awaiting
  <1>2. PICK b \in Boxes : b = call[c].box
    BY <1>1, Stands
  <1>3. /\ HelperAlone /\ SessionAlone /\ HelperStays
        /\ UNCHANGED <<containers, networks, sidecars, known, job, inbox, builtin>>
    BY Stays DEF Dispatch, world
  <1>4. WorldMoves(b) /\ \A x \in Boxes : x # b /\ Clear(x) => Clear(x)'
    BY <1>3, KeepsLines, Around1
  <1>5. CASE Copies(c) /\ Fault(b, "copy") /\ ReturnCall(c, FALSE)
    <2>1. BlameMoves(b) /\ "copy" \in blame'[b]
      BY <1>5, AppleFaults DEF BoxInv
    <2>2. call[c].op = "restore" /\ Part(c) = "write" /\ Maker(c) /\ ~Making(c)
      BY <1>5 DEF Copies, Maker, Making
    <2>3. entry' = [entry EXCEPT ![b] = entry[b]]
      BY <1>2, <2>2, SameEntry DEF Dispatch, BoxInv
    <2>4. call' = [call EXCEPT ![c] = NoCall] /\ status' = [status EXCEPT ![b] = "failed"]
      BY <1>2, <1>5, <2>2 DEF ReturnCall, Told
    <2>5. Follows(call[c], NoCall) /\ NoCall.pc = "idle"
      BY DEF Follows, NoCall, AppleCalls, ApplePlaces, AppleCallOK
    <2>6. Advances(c, b, NoCall)
      BY <1>1, <1>2, <1>3, <1>4, <2>1, <2>2, <2>3, <2>4, <2>5, MovesFrom
    <2>7. entry'[b] = entry[b] /\ status'[b] = "failed"
      BY <1>2, <2>3, <2>4 DEF BoxInv, MapsOK
    <2>8. CallStands(c)'
      BY <2>5, <2>6, Onward
    <2>9. Kept(b)' => Kept(b)
      BY <1>3, <2>7 DEF Kept
    <2>10. BoxStands(b)'
      BY <1>3, <2>1, <2>6, <2>7, <2>9, BoxMoves
    <2>11. NetStands(b)'
      BY <1>3, <2>6, NetMoves
    <2> QED BY <1>1, <1>3, <2>5, <2>6, <2>7, <2>8, <2>10, <2>11, CallMoves
  <1>6. CASE Copies(c) /\ entry[b] = "direct" /\ PartDone(c, TRUE) /\ NoFault
    <2>1. Part(c) \notin Lethal /\ entry' = entry
      BY <1>6 DEF Copies, Lethal, Dispatch
    <2>2. BlameMoves(b)
      BY <1>6, AppleFaultless DEF NoFault, BoxInv
    <2> QED BY <1>1, <1>2, <1>3, <1>6, <2>1, <2>2, PlainBox
  <1>7. CASE Unroutable(c, b) /\ PartDone(c, FALSE) /\ NoFault
    <2>1. BlameMoves(b)
      BY <1>7, AppleFaultless DEF NoFault, BoxInv
    <2>2. entry[b] = "none" /\ Part(c) \in {"destroy", "inspect"}
      BY <1>7 DEF Unroutable
    <2>3. entry' = entry
      BY <1>2, <2>2 DEF Dispatch, BoxInv, MapsOK
    <2>4. CASE Part(c) = "inspect"
      BY <1>1, <1>2, <1>3, <1>7, <2>1, <2>3, <2>4, PlainBox DEF Lethal
    <2>5. CASE Part(c) = "destroy"
      <3>1. call[c].op # "restore" /\ call[c].op # "create"
        <4>1. call[c].op = "restore" => entry[b] # "none"
          BY <1>1, <1>2, <2>5, Stands DEF CallStands
        <4>2. call[c].op = "create" => Part(c) = "create"
          BY <1>1, One, Stands DEF Shape, Lethal, Part
        <4> QED BY <2>2, <2>5, <4>1, <4>2
      <3>2. ~Maker(c) /\ ~Making(c)
        BY <2>5, <3>1 DEF Maker, Making
      <3>3. PICK k : /\ Advances(c, b, k) /\ k.pc \in {"idle", "dispatch"}
                     /\ Over(call[c], k, status[b], status'[b], FALSE)
        BY <1>1, <1>2, <1>3, <1>4, <1>7, <2>1, <2>3, OverMoves, SameEntry DEF BoxInv
      <3>4. CallStands(c)' /\ BoxStands(b)' /\ status'[b] # "unborn"
        BY <1>3, <2>3, <2>5, <3>2, <3>3, RemovedOver
      <3>5. NetStands(b)'
        BY <1>3, <3>3, NetMoves
      <3> QED BY <1>1, <1>3, <2>3, <3>3, <3>4, <3>5, CallMoves
    <2> QED BY <2>2, <2>4, <2>5
  <1>8. CASE ~Unroutable(c, b) /\ Place(c, Route(c, b)) /\ NoFault
    <2>1. Leads(c, Route(c, b)) /\ Route(c, b) \in ApplePlaces \ {"read", "idle", "dispatch"}
      BY <1>1, <1>2, <1>8, Sends
    <2>2. entry' = entry \/ (entry' = [entry EXCEPT ![b] = "none"] /\ Part(c) = "destroy")
      BY <1>2 DEF Dispatch
    <2>3. blame' = blame
      BY <1>8 DEF NoFault
    <2>4. Part(c) = "destroy" => entry'[b] = "none"
      BY <1>2 DEF Dispatch, BoxInv, MapsOK
    <2> QED BY <1>1, <1>2, <1>3, <1>8, <2>1, <2>2, <2>3, <2>4, PlaceBox
  <1> QED BY <1>2, <1>5, <1>6, <1>7, <1>8 DEF Dispatch

-----------------------------------------------------------------------------
(* The session.                                                            *)

\* A call fails for want of a helper: its sandbox was never made, or the helper is to blame.
LEMMA FailedOver ==
  ASSUME OwnInv, BoxInv, NEW c \in Calls, NEW b, NEW k, Advances(c, b, k),
         Over(call[c], k, status[b], status'[b], FALSE), k.pc \in {"idle", "dispatch"},
         call[c].pc \in {"ensure", "lock", "write", "read"}, ~running, Awaiting(c) => outbox = <<>>,
         UNCHANGED <<containers, networks, sidecars, entry>>
  PROVE  CallStands(c)' /\ BoxStands(b)' /\ NetStands(b)' /\ status'[b] # "unborn"
  <1>1. b \in Boxes /\ b = call[c].box /\ Busy(c) /\ Routed(call[c]) /\ BoxStands(b)
    BY Stands DEF Advances
  <1>2. known = {} /\ job = NoJob
    BY DEF OwnInv, SessionOK, BoxInv, HelperStands
  <1>3. NetStands(b)'
    BY NetMoves
  <1>4. Part(c) \in Lethal => ~Direct(b)
    BY <1>1 DEF Routed, Part
  <1>5. builtin' = builtin /\ blame[b] \subseteq blame'[b]
    BY <1>1 DEF Advances, Worse
  <1>6. CASE Part(c) = "create"
    <2>1. Making(c) /\ entry[b] = "none" /\ (~Awaiting(c) => b \notin containers)
      BY <1>1, <1>6, Stands DEF Making, Fresh
    <2>2. k.pc = "idle" /\ status'[b] = "failed"
      BY <1>6 DEF Over, Part
    <2>3. CallStands(c)'
      BY <2>2, Onward
    <2>4. b \in containers => blame[b] \cap {"lost", "run", "crossed"} # {}
      BY <1>1, <2>1 DEF BoxInv, MakeStands
    <2>5. Kept(b)' => Kept(b)
      BY <2>1, <2>2 DEF Kept
    <2>6. BoxStands(b)'
      BY <1>5, <2>1, <2>2, <2>4, <2>5, BoxMoves
    <2> QED BY <1>3, <2>2, <2>3, <2>6
  <1>7. CASE Part(c) = "destroy"
    <2>1. ~Direct(b) /\ ~Making(c)
      BY <1>4, <1>7 DEF Making, Lethal
    <2>2. Maker(c) => Kept(b)
      BY <1>1, <2>1, Stands, OnlyMaker DEF Kept
    <2>3. ~Deleting(b)
      BY <1>2 DEF Deleting, NoJob
    <2>4. b \in containers /\ Maker(c) => blame[b] \cap {"delete", "lost", "crossed"} # {}
      BY <1>1, <1>2, <2>2, <2>3 DEF BoxStands
    <2> QED BY <1>3, <1>5, <1>7, <2>4, RemovedOver
  <1>8. CASE Part(c) \notin Lethal
    BY <1>8, PlainOver
  <1> QED BY <1>6, <1>7, <1>8 DEF Lethal

LEMMA EnsureBox ==
  ASSUME OwnInv, BoxInv, NEW c \in Calls, Ensure(c)
  PROVE  BoxInv'
  <1>1. call[c].pc = "ensure" /\ Busy(c) /\ ~Awaiting(c) /\ mutex = "none"
    BY DEF Ensure, CallAt, Busy, Awaiting
  <1>2. PICK b \in Boxes : b = call[c].box
    BY <1>1, Stands
  <1>3. \A d \in Calls : ~Awaiting(d)
    BY <1>1, BackendAssumption DEF OwnInv, MutexOK, Holding, Awaiting, BackendAssumption
  <1>4. ~session => ~running /\ inbox = <<>>
    BY DEF OwnInv, SessionOK
  <1>5. UNCHANGED <<containers, networks, sidecars, known, job, builtin, entry>>
    BY DEF Ensure, world
  <1>6. UNCHANGED inbox /\ (running => running')
    BY <1>4 DEF Ensure, pipes
  <1>7. HelperStays
    BY <1>3, <1>5, <1>6 DEF HelperStays
  <1>8. CASE Place(c, "lock") /\ NoFault
    <2>1. Leads(c, "lock")
      BY <1>1, Stands DEF Leads, Routed
    <2>2. "lock" \in ApplePlaces \ {"read", "idle", "dispatch"} /\ blame' = blame
      BY <1>8 DEF ApplePlaces, NoFault
    <2> QED BY <1>1, <1>5, <1>7, <1>8, <2>1, <2>2, PlaceBox
  <1>9. CASE ~session /\ PartDone(c, FALSE) /\ Fault(b, "spawn")
    <2>1. BlameMoves(b) /\ entry' = [entry EXCEPT ![b] = entry[b]]
      BY <1>2, <1>5, <1>9, AppleFaults, SameEntry DEF BoxInv
    <2>2. WorldMoves(b) /\ \A x \in Boxes : x # b /\ Clear(x) => Clear(x)'
      BY <1>5, <1>6, Around1, KeepsLines
    <2>3. PICK k : /\ Advances(c, b, k) /\ k.pc \in {"idle", "dispatch"}
                   /\ Over(call[c], k, status[b], status'[b], FALSE)
      BY <1>1, <1>2, <1>5, <1>9, <2>1, <2>2, OverMoves
    <2>4. CallStands(c)' /\ BoxStands(b)' /\ NetStands(b)' /\ status'[b] # "unborn"
      BY <1>1, <1>4, <1>5, <1>9, <2>3, FailedOver
    <2> QED BY <1>1, <1>5, <1>7, <2>3, <2>4, CallMoves
  <1> QED BY <1>2, <1>8, <1>9 DEF Ensure

LEMMA LockBox ==
  ASSUME OwnInv, BoxInv, NEW c \in Calls, Lock(c)
  PROVE  BoxInv'
  <1>1. call[c].pc = "lock" /\ Busy(c) /\ ~Awaiting(c)
    BY DEF Lock, CallAt, Busy, Awaiting
  <1>2. PICK b \in Boxes : b = call[c].box
    BY <1>1, Stands
  <1>3. HelperStays /\ UNCHANGED <<containers, networks, sidecars, known, job, inbox, builtin, entry, blame>>
    BY DEF Lock, HelperAlone, HelperStays, world, pipes, NoFault
  <1>4. CASE session
    <2>1. Leads(c, "write")
      BY <1>1, Stands DEF Leads, Routed
    <2>2. "write" \in ApplePlaces \ {"read", "idle", "dispatch"} /\ Place(c, "write")
      BY <1>4 DEF ApplePlaces, Lock
    <2> QED BY <1>1, <1>3, <2>1, <2>2, PlaceBox
  <1>5. CASE ~session
    <2>1. BlameMoves(b) /\ entry' = [entry EXCEPT ![b] = entry[b]]
      BY <1>2, <1>3, AppleFaultless, SameEntry DEF BoxInv
    <2>2. WorldMoves(b) /\ \A x \in Boxes : x # b /\ Clear(x) => Clear(x)'
      BY <1>3, Around1, KeepsLines
    <2>3. PartDone(c, FALSE)
      BY <1>5 DEF Lock
    <2>4. PICK k : /\ Advances(c, b, k) /\ k.pc \in {"idle", "dispatch"}
                   /\ Over(call[c], k, status[b], status'[b], FALSE)
      BY <1>1, <1>2, <1>3, <2>1, <2>2, <2>3, OverMoves
    <2>5. ~running
      BY <1>5 DEF OwnInv, SessionOK
    <2>6. CallStands(c)' /\ BoxStands(b)' /\ NetStands(b)' /\ status'[b] # "unborn"
      BY <1>1, <1>3, <2>4, <2>5, FailedOver
    <2> QED BY <1>1, <1>3, <2>4, <2>6, CallMoves
  <1> QED BY <1>4, <1>5

LEMMA ResetBox ==
  ASSUME OwnInv, BoxInv, NEW c \in Calls, ResetSession(c)
  PROVE  BoxInv'
  <1>1. call[c].pc \in Holding /\ Busy(c) /\ ~running /\ (Awaiting(c) => outbox = <<>>)
    BY DEF ResetSession, CallAt, Busy, Awaiting, Holding
  <1>2. PICK b \in Boxes : b = call[c].box
    BY <1>1, Stands
  <1>3. /\ UNCHANGED <<containers, networks, sidecars, known, running, job, inbox, builtin, entry, blame>>
        /\ PartDone(c, FALSE)
    BY DEF ResetSession, HelperAlone, world, pipes, NoFault
  <1>4. BlameMoves(b) /\ entry' = [entry EXCEPT ![b] = entry[b]]
    BY <1>2, <1>3, AppleFaultless, SameEntry DEF BoxInv
  <1>5. WorldMoves(b) /\ \A x \in Boxes : x # b /\ Clear(x) => Clear(x)'
    BY <1>3, Around1, KeepsLines
  <1>6. PICK k : /\ Advances(c, b, k) /\ k.pc \in {"idle", "dispatch"}
                 /\ Over(call[c], k, status[b], status'[b], FALSE)
    BY <1>1, <1>2, <1>3, <1>4, <1>5, OverMoves
  <1>7. CallStands(c)' /\ BoxStands(b)' /\ NetStands(b)' /\ status'[b] # "unborn"
    BY <1>1, <1>3, <1>6, FailedOver DEF Holding
  <1>8. inbox' = <<>> /\ job' = NoJob /\ known' = {}
    BY <1>1, <1>3 DEF OwnInv, SessionOK, BoxInv, HelperStands
  <1>9. HelperStands'
    BY <1>8 DEF HelperStands, JobStands, LinesStand, Sent
  <1>10. call' = [call EXCEPT ![c] = k] /\ call'[c] = k
    <2>1. call' = [call EXCEPT ![c] = k]
      BY <1>6 DEF Advances
    <2> QED BY <2>1 DEF OwnInv, CallsOK
  <1>11. MakeStands(c)' /\ KillStands(c)'
    BY <1>6, <1>10 DEF MakeStands, KillStands, Awaiting
  <1>12. \A d \in Calls : d # c => MakeStands(d)' /\ KillStands(d)'
    BY <1>1, <1>10, NoOtherReads
  <1> QED BY <1>6, <1>7, <1>9, <1>11, <1>12, Assembled

-----------------------------------------------------------------------------
(* What the pipes hold.                                                    *)

PipesOK ==
    /\ inbox \in Seq(LineSpace) /\ outbox \in Seq(ResponseSpace)
    /\ job = NoJob \/ (job \in JobSpace /\ job.step # "idle")

LEMMA Adds ==
  ASSUME NEW S, NEW t \in Seq(S), NEW e \in S
  PROVE  /\ Append(t, e) \in Seq(S) /\ Append(t, e) # <<>>
         /\ \A i \in 1 .. Len(Append(t, e)) :
              \/ Append(t, e)[i] = e
              \/ i \in 1 .. Len(t) /\ Append(t, e)[i] = t[i]
  <1>1. Append(t, e) \in Seq(S) /\ Len(Append(t, e)) = Len(t) + 1 /\ Len(t) \in Nat
    OBVIOUS
  <1>2. Append(t, e) # <<>>
    <2>1. \A q : q = <<>> => Len(q) = 0
      <3>1. Len(<<>>) = 0
        OBVIOUS
      <3> QED BY <3>1, Zenon
    <2> QED BY <1>1, <2>1
  <1>3. ASSUME NEW i \in 1 .. Len(t) + 1
        PROVE  Append(t, e)[i] = IF i = Len(t) + 1 THEN e ELSE t[i]
    OBVIOUS
  <1>4. \A i \in 1 .. Len(t) + 1 : i = Len(t) + 1 \/ i \in 1 .. Len(t)
    BY <1>1
  <1> QED BY <1>1, <1>2, <1>3, <1>4

LEMMA Takes ==
  ASSUME NEW S, NEW t \in Seq(S), t # <<>>
  PROVE  /\ Head(t) \in S /\ Tail(t) \in Seq(S)
         /\ 1 \in 1 .. Len(t) /\ Head(t) = t[1]
         /\ \A i \in 1 .. Len(Tail(t)) : i + 1 \in 1 .. Len(t) /\ Tail(t)[i] = t[i + 1]
  <1>1. /\ Len(t) \in Nat \ {0} /\ Len(Tail(t)) = Len(t) - 1
        /\ Head(t) = t[1]
        /\ \A i \in 1 .. Len(Tail(t)) : Tail(t)[i] = t[i + 1]
    BY Tails
  <1>2. Head(t) \in S /\ Tail(t) \in Seq(S)
    OBVIOUS
  <1>3. \A i \in 1 .. Len(Tail(t)) : i + 1 \in 1 .. Len(t)
    BY <1>1
  <1> QED BY <1>1, <1>2, <1>3

LEMMA InitPipes == AppleInit => PipesOK
  BY DEF AppleInit, HelperInit, PipesOK

LEMMA SamePipes ==
  ASSUME PipesOK, UNCHANGED <<inbox, outbox, job>>
  PROVE  PipesOK'
  BY DEF PipesOK

LEMMA CallPipes ==
  ASSUME OwnInv, PipesOK, NEW c \in Calls, CallGoesOn(c)
  PROVE  PipesOK'
  <1>1. CASE WriteRequest(c)
    <2> DEFINE l == [op |-> IF torn THEN "torn" ELSE Part(c), box |-> call[c].box, for |-> c]
    <2>1. call[c] \in AppleCalls /\ call[c].todo \in Seq(Operations) /\ call[c].todo # <<>>
      BY <1>1 DEF WriteRequest, CallAt, OwnInv, CallsOK, AppleCallOK, AppleCalls
    <2>2. l \in LineSpace
      BY <2>1, Rest DEF LineSpace, AppleCalls, Part
    <2>3. inbox' = Append(inbox, l) /\ UNCHANGED <<outbox, job>>
      BY <1>1 DEF WriteRequest
    <2> QED BY <2>2, <2>3, Adds DEF PipesOK
  <1>2. CASE ReadReply(c)
    <2>1. outbox # <<>> /\ outbox' = Tail(outbox) /\ UNCHANGED <<inbox, job>>
      BY <1>2 DEF ReadReply
    <2> QED BY <2>1, Takes DEF PipesOK
  <1>3. CASE Ensure(c)
    <2>1. CASE UNCHANGED <<inbox, outbox, job>>
      BY <2>1, SamePipes
    <2>2. CASE inbox' = <<>> /\ outbox' = <<>> /\ job' = job
      BY <2>2 DEF PipesOK
    <2> QED BY <1>3, <2>1, <2>2 DEF Ensure, pipes
  <1>4. CASE Dispatch(c) \/ CreateDirect(c) \/ AccessDirect(c) \/ Fallback(c) \/ DestroyDirect(c)
             \/ DestroyUnknown(c) \/ Lock(c) \/ ResetSession(c)
    <2>1. HelperAlone
      BY <1>4 DEF Dispatch, CreateDirect, AccessDirect, Fallback, DestroyDirect, DestroyUnknown, Lock,
             ResetSession
    <2> QED BY <2>1, SamePipes DEF HelperAlone, pipes
  <1> QED BY <1>1, <1>2, <1>3, <1>4 DEF CallGoesOn

LEMMA HelperPipes ==
  ASSUME OwnInv, PipesOK, HelperStep
  PROVE  PipesOK'
  <1>1. CASE NextLine
    <2>1. PICK l \in LineSpace : l = Head(inbox)
      BY <1>1, Takes DEF NextLine, PipesOK
    <2>2. inbox' \in Seq(LineSpace)
      BY <1>1, Takes DEF NextLine, PipesOK
    <2>3. CASE Answered(l)
      <3> DEFINE a == [kind |-> IF l.op = "destroy" THEN "ack" ELSE "error", for |-> l.for]
      <3>1. outbox' = Append(outbox, a) /\ job' = job
        BY <1>1, <2>1, <2>3 DEF NextLine
      <3>2. a \in ResponseSpace
        BY DEF ResponseSpace, LineSpace, Replies
      <3> QED BY <2>2, <3>1, <3>2, Adds DEF PipesOK
    <2>4. CASE ~Answered(l)
      <3>1. job' = [op |-> l.op, box |-> l.box, for |-> l.for, step |-> FirstStep(l.op)]
            /\ outbox' = outbox
        BY <1>1, <2>1, <2>4 DEF NextLine
      <3>2. FirstStep(l.op) \in Steps /\ FirstStep(l.op) # "idle"
        BY DEF FirstStep, Steps
      <3>3. job' \in JobSpace /\ job'.step # "idle"
        BY <3>1, <3>2 DEF JobSpace, LineSpace
      <3> QED BY <2>2, <3>1, <3>3 DEF PipesOK
    <2> QED BY <2>3, <2>4
  <1>2. CASE ~NextLine
    <2>1. job \in JobSpace /\ job.step # "idle" /\ inbox' = inbox
      BY <1>2, Working DEF PipesOK, NoJob
    <2>2. CASE \E s \in Steps \ {"idle"} : Step(s)
      <3>1. PICK s \in Steps \ {"idle"} : job' = [job EXCEPT !.step = s] /\ outbox' = outbox
        BY <2>2 DEF Step
      <3>2. job' \in JobSpace /\ job'.step # "idle"
        BY <2>1, <3>1 DEF JobSpace
      <3> QED BY <2>1, <3>1, <3>2 DEF PipesOK
    <2>3. CASE \E kind \in Replies : Reply(kind)
      <3>1. PICK kind \in Replies : outbox' = Append(outbox, [kind |-> kind, for |-> job.for])
                                   /\ job' = NoJob
        BY <2>3 DEF Reply
      <3>2. [kind |-> kind, for |-> job.for] \in ResponseSpace
        BY <2>1 DEF ResponseSpace, JobSpace
      <3> QED BY <2>1, <3>1, <3>2, Adds DEF PipesOK
    <2> QED BY <1>2, <2>2, <2>3, Working
  <1> QED BY <1>1, <1>2

LEMMA StepPipes == OwnInv /\ PipesOK /\ [AppleNext]_appleVars => PipesOK'
  <1> SUFFICES ASSUME OwnInv, PipesOK, [AppleNext]_appleVars PROVE PipesOK'
    OBVIOUS
  <1>1. ASSUME NEW c \in Calls, NEW op \in Operations, NEW b \in Boxes, Begin(c, op, b) PROVE PipesOK'
    BY <1>1, SamePipes DEF Begin, HelperAlone, pipes
  <1>2. ASSUME NEW c \in Calls, Drop(c) PROVE PipesOK'
    BY <1>2, SamePipes DEF Drop, HelperAlone, pipes
  <1>3. CASE HelperDies \/ AppleRestarts
    <2>1. inbox' = <<>> /\ (outbox' = <<>> \/ outbox' = outbox) /\ job' = NoJob
      BY <1>3 DEF HelperDies, AppleRestarts, Dies
    <2>2. <<>> \in Seq(LineSpace) /\ <<>> \in Seq(ResponseSpace)
      OBVIOUS
    <2>3. CASE outbox' = <<>>
      BY <2>1, <2>2, <2>3 DEF PipesOK
    <2>4. CASE outbox' = outbox
      BY <2>1, <2>2, <2>4 DEF PipesOK
    <2> QED BY <2>1, <2>3, <2>4
  <1>4. CASE UNCHANGED appleVars
    BY <1>4, SamePipes DEF appleVars, helperVars, pipes
  <1>5. ASSUME NEW b \in Boxes, ContainerVanishes(b) PROVE PipesOK'
    BY <1>5, SamePipes DEF ContainerVanishes, HelperAlone, pipes
  <1> QED BY <1>1, <1>2, <1>3, <1>4, <1>5, CallPipes, HelperPipes DEF AppleNext, HelperGoesOn

-----------------------------------------------------------------------------
(* The exchange.                                                           *)

\* Every request the helper has stands, when a call of their sandbox goes on.
LEMMA RequestsStand ==
  ASSUME OwnInv, BoxInv, NEW c \in Calls, NEW b, NEW k, Advances(c, b, k), status'[b] # "unborn",
         Making(c) /\ Awaiting(c) =>
            \/ "crossed" \in blame'[b]
            \/ status'[b] = "failed" /\ entry'[b] = "none" /\ "dropped" \in blame'[b],
         running' = running, inbox' = inbox
  PROVE  HelperStands'
  <1>1. UNCHANGED <<known, job>>
    BY DEF Advances
  <1>2. \A op : \A x \in Boxes : Due(op, x) => Due(op, x)'
    BY StillAsked
  <1>3. JobStands'
    <2>1. job = NoJob \/ job.box \in Boxes
      BY DEF BoxInv, HelperStands, JobStands
    <2> QED BY <1>1, <1>2, <2>1 DEF BoxInv, HelperStands, JobStands
  <1>4. LinesStand'
    BY <1>1, <1>2 DEF BoxInv, HelperStands, LinesStand, LineStands, Sent
  <1> QED BY <1>1, <1>3, <1>4 DEF BoxInv, HelperStands

LEMMA Crosses ==
  ASSUME MapsOK, NEW c \in Calls, NEW so, Crossed(c, so), NEW b \in Boxes, b = call[c].box
  PROVE  BlameMoves(b) /\ (so => "crossed" \in blame'[b])
  <1>1. CASE so
    <2>1. blame' = [blame EXCEPT ![b] = @ \cup {"crossed"}]
      BY <1>1 DEF Crossed
    <2> QED BY <2>1 DEF BlameMoves, Worse, MapsOK
  <1>2. CASE ~so
    <2>1. blame' = blame
      BY <1>2 DEF Crossed
    <2> QED BY <1>2, <2>1, AppleFaultless
  <1> QED BY <1>1, <1>2

LEMMA WriteBox ==
  ASSUME OwnInv, BoxInv, PipesOK, NEW c \in Calls, WriteRequest(c)
  PROVE  BoxInv'
  <1>1. call[c].pc = "write" /\ Busy(c) /\ ~Awaiting(c) /\ call[c].pc \in Holding
    BY DEF WriteRequest, CallAt, Busy, Awaiting, Holding
  <1>2. PICK b \in Boxes : b = call[c].box
    BY <1>1, Stands
  <1>3. /\ CallStands(c) /\ Routed(call[c]) /\ status[b] \in {"pending", "live", "destroyed"}
        /\ Making(c) => Fresh(b)
    BY <1>1, <1>2, Stands
  <1>4. UNCHANGED <<containers, networks, sidecars, known, running, outbox, job, builtin, entry, strays>>
        /\ Place(c, "read")
    BY DEF WriteRequest, world
  <1>5. Part(c) \in Operations
    BY <1>1, Stands, ShapeFacts DEF Part, Busy
  <1>6. PICK l \in LineSpace : /\ inbox' = Append(inbox, l) /\ l.box = b
                              /\ l.op = IF torn THEN "torn" ELSE Part(c)
    <2> DEFINE m == [op |-> IF torn THEN "torn" ELSE Part(c), box |-> b, for |-> c]
    <2>1. m \in LineSpace /\ m.box = b /\ m.op = (IF torn THEN "torn" ELSE Part(c))
      BY <1>5 DEF LineSpace
    <2>2. inbox' = Append(inbox, m)
      BY <1>2 DEF WriteRequest
    <2> QED BY <2>1, <2>2
  <1>7. BlameMoves(b) /\ (torn => "crossed" \in blame'[b])
    BY <1>2, Crosses DEF WriteRequest, BoxInv
  <1>8. \A i \in 1 .. Len(inbox') : inbox'[i] = l \/ (i \in 1 .. Len(inbox) /\ inbox'[i] = inbox[i])
    BY <1>6, Adds DEF PipesOK
  <1>9. WorldMoves(b) /\ \A x \in Boxes : x # b /\ Clear(x) => Clear(x)'
    BY <1>4, <1>6, <1>8, Around1 DEF Clear
  <1>10. PICK k : Advances(c, b, k) /\ call'[c] = k /\ Placed(call[c], k, "read")
    <2>1. entry' = [entry EXCEPT ![b] = entry[b]] /\ "read" \in ApplePlaces
      BY <1>4, SameEntry DEF BoxInv, ApplePlaces
    <2> QED BY <1>1, <1>2, <1>4, <1>7, <1>9, <2>1, PlaceMoves
  <1>11. /\ k.pc = "read" /\ k.op = call[c].op /\ k.box = b /\ k.todo = call[c].todo /\ Shape(k)
         /\ status' = status
    BY <1>2, <1>4, <1>10 DEF Placed, Place
  <1>12. Routed(k)
    BY <1>1, <1>2, <1>3, <1>11 DEF Routed
  <1>13. Making(c) <=> Head(k.todo) = "create"
    BY <1>1, <1>11 DEF Making, Part
  <1>14. /\ Making(c) => entry[b] = "none"
         /\ Part(c) = "destroy" => entry[b] = "none"
         /\ k.op = "restore" /\ Part(c) \notin Lethal => entry[b] # "none"
    BY <1>1, <1>2, <1>3, <1>11 DEF CallStands, Lethal
  <1>15. CallStands(c)'
    BY <1>4, <1>10, <1>11, <1>12, <1>13, <1>14, Onward DEF Part, Lethal
  <1>16. Kept(b)' => Kept(b)
    BY <1>4, <1>10, <1>11, <1>13, OnlyMaker DEF Kept, Direct
  <1>17. BoxStands(b)' /\ NetStands(b)'
    <2>1. BoxStands(b)'
      BY <1>3, <1>4, <1>10, <1>11, <1>16, BoxMoves
    <2> QED BY <1>4, <1>10, <2>1, NetMoves
  <1>18. LineStands(l)'
    <2>1. CASE torn
      BY <1>6, <2>1 DEF LineStands, Due
    <2>2. CASE ~torn /\ Part(c) = "create"
      <3>1. ~Direct(b)
        BY <1>1, <1>2, <1>3, <2>2 DEF Routed, Part, Lethal
      <3>2. MakingOf(c, b)' /\ Awaiting(c)'
        BY <1>10, <1>11, <2>2 DEF MakingOf, Making, Busy, Part, Awaiting
      <3>3. Creation(b)'
        BY <1>4, <3>1, <3>2 DEF Creation, Direct
      <3> QED BY <1>5, <1>6, <2>2, <3>3 DEF LineStands, Due
    <2>3. CASE ~torn /\ Part(c) = "destroy"
      <3>1. ~Direct(b)
        BY <1>1, <1>2, <1>3, <2>3 DEF Routed, Part, Lethal
      <3>2. ~Making(c) /\ Head(k.todo) # "create"
        BY <1>13, <2>3 DEF Making
      <3>3. \A d \in Calls : ~MakingOf(d, b)'
        BY <1>10, <3>2, OnlyMaker
      <3>4. Removal(b)'
        BY <1>3, <1>4, <1>11, <1>14, <2>3, <3>1, <3>3 DEF Removal, Direct
      <3> QED BY <1>5, <1>6, <2>3, <3>4 DEF LineStands, Due
    <2>4. CASE ~torn /\ Part(c) \notin Lethal
      BY <1>5, <1>6, <2>4 DEF LineStands, Due, Lethal
    <2> QED BY <2>1, <2>2, <2>3, <2>4 DEF Lethal
  <1>19. HelperStands'
    <2>1. \A op : \A x \in Boxes : Due(op, x) => Due(op, x)'
      BY <1>1, <1>3, <1>10, <1>11, StillAsked
    <2>2. JobStands'
      <3>1. job = NoJob \/ job.box \in Boxes
        BY DEF BoxInv, HelperStands, JobStands
      <3> QED BY <1>4, <2>1, <3>1 DEF BoxInv, HelperStands, JobStands
    <2>3. ASSUME NEW m, LineStands(m) PROVE LineStands(m)'
      <3>1. m.box \in Boxes
        BY <2>3 DEF LineStands
      <3> QED BY <2>1, <2>3, <3>1 DEF LineStands
    <2>4. LinesStand'
      <3> SUFFICES ASSUME NEW m \in LineSpace, Sent(m)' PROVE LineStands(m)'
        BY DEF LinesStand
      <3>1. m = l \/ Sent(m)
        BY <1>8 DEF Sent
      <3> QED BY <1>18, <2>3, <3>1 DEF BoxInv, HelperStands, LinesStand
    <2> QED BY <1>4, <2>2, <2>4 DEF BoxInv, HelperStands
  <1>20. \A d \in Calls : ~Awaiting(d)
    BY <1>1, HoldsAlone DEF Awaiting, Holding
  <1>21. ASSUME strays = 0
         PROVE  inbox' = <<l>> /\ Head(inbox') = l /\ inbox' # <<>> /\ outbox' = <<>> /\ job' = NoJob
    <2>1. Quiet
      BY <1>20, <1>21 DEF OwnInv, InStep, CallAt, Awaiting
    <2> QED BY <1>4, <1>6, <2>1, One DEF Quiet
  <1>22. call'[c].box = b /\ Part(c)' = Part(c) /\ (Making(c)' => Making(c))
    BY <1>10, <1>11, <1>13 DEF Part, Making, Busy
  <1>23. MakeStands(c)'
    BY <1>3, <1>4, <1>6, <1>7, <1>21, <1>22 DEF MakeStands, Making, Fresh
  <1>24. KillStands(c)'
    BY <1>4, <1>6, <1>7, <1>21, <1>22 DEF KillStands
  <1>25. \A d \in Calls : d # c => MakeStands(d)' /\ KillStands(d)'
    <2>1. call' = [call EXCEPT ![c] = k]
      BY <1>10 DEF Advances
    <2> QED BY <1>1, <2>1, NoOtherReads
  <1> QED BY <1>10, <1>15, <1>17, <1>19, <1>23, <1>24, <1>25, Assembled

\* A call that reads a reply of a session no call was dropped in reads the last of it.
LEMMA LastPart ==
  ASSUME OwnInv, NEW c \in Calls, Awaiting(c), strays = 0, outbox # <<>>
  PROVE  inbox = <<>> /\ job = NoJob /\ Tail(outbox) = <<>>
  <1>1. Exchange(c)
    BY DEF OwnInv, InStep, CallAt, Awaiting
  <1>2. PICK a : outbox = <<a>> /\ inbox = <<>> /\ job = NoJob
    BY <1>1 DEF Exchange, Quiet, NoJob
  <1> QED BY <1>2, One

LEMMA ReadBox ==
  ASSUME OwnInv, BoxInv, PipesOK, NEW c \in Calls, ReadReply(c)
  PROVE  BoxInv'
  <1>1. call[c].pc = "read" /\ Busy(c) /\ Awaiting(c) /\ call[c].pc \in Holding /\ outbox # <<>>
    BY DEF ReadReply, CallAt, Busy, Awaiting, Holding
  <1>2. PICK b \in Boxes : b = call[c].box
    BY <1>1, Stands
  <1>3. /\ Routed(call[c]) /\ BoxStands(b) /\ MapsOK
        /\ status[b] \in {"pending", "live", "destroyed"}
        /\ Making(c) => entry[b] = "none" /\ status[b] = "pending"
    BY <1>1, <1>2, Stands
  <1>4. UNCHANGED <<containers, networks, sidecars, known, running, inbox, job, builtin, strays>>
    BY DEF ReadReply, world
  <1>5. PICK ok \in BOOLEAN : /\ ok <=> Head(outbox).kind \in Expected(Part(c))
                             /\ PartDone(c, ok)
    <2> DEFINE good == Head(outbox).kind \in Expected(Part(c))
    <2>1. PartDone(c, good) /\ good \in BOOLEAN
      BY DEF ReadReply
    <2> HIDE DEF good
    <2>2. PICK ok \in BOOLEAN : (ok <=> good) /\ PartDone(c, ok)
      BY <2>1
    <2>3. ok <=> Head(outbox).kind \in Expected(Part(c))
      BY <2>2 DEF good
    <2> QED BY <2>2, <2>3
  <1>6. PICK e : /\ entry' = [entry EXCEPT ![b] = e]
                 /\ e = IF Part(c) = "create" /\ ok THEN "helper" ELSE entry[b]
    <2>1. CASE Part(c) = "create" /\ ok
      BY <1>2, <1>5, <2>1 DEF ReadReply
    <2>2. CASE ~(Part(c) = "create" /\ ok)
      BY <1>2, <1>3, <1>5, <2>2, SameEntry DEF ReadReply
    <2> QED BY <2>1, <2>2
  <1>7. BlameMoves(b) /\ (strays > 0 => "crossed" \in blame'[b])
    BY <1>2, <1>3, Crosses DEF ReadReply
  <1>8. WorldMoves(b) /\ \A x \in Boxes : x # b /\ Clear(x) => Clear(x)'
    BY <1>4, Around1, KeepsLines
  <1>9. PICK k : /\ Advances(c, b, k) /\ call'[c] = k /\ k.pc \in {"idle", "dispatch"}
                 /\ Over(call[c], k, status[b], status'[b], ok)
    <2>1. e \in {"none", entry[b]} \/ Making(c)
      BY <1>1, <1>6 DEF Making
    <2> QED BY <1>1, <1>2, <1>4, <1>5, <1>6, <1>7, <1>8, <2>1, OverMoves
  <1>10. entry'[b] = e /\ blame[b] \subseteq blame'[b]
    BY <1>3, <1>6, <1>7 DEF MapsOK, BlameMoves, Worse
  <1>11. strays = 0 => inbox = <<>> /\ job = NoJob
    BY <1>1, LastPart
  <1>12. strays > 0 \/ strays = 0
    BY DEF OwnInv, SessionOK
  <1>13. NetStands(b)'
    BY <1>4, <1>9, NetMoves
  <1>14. CallStands(c)' /\ BoxStands(b)' /\ status'[b] # "unborn"
    <2>1. CASE Part(c) = "create"
      <3>1. Making(c) /\ ~Direct(b) /\ entry[b] = "none" /\ status[b] = "pending"
        BY <1>1, <1>2, <1>3, <2>1 DEF Making, Routed, Part, Lethal
      <3>2. Expected(Part(c)) = {"ack"}
        BY <2>1 DEF Expected
      <3>3. Direct(b)' <=> Direct(b)
        BY <1>4 DEF Direct
      <3>4. b \in containers /\ "crossed" \notin blame'[b] =>
              IF ok THEN b \in known \/ "lost" \in blame[b] ELSE blame[b] \cap {"lost", "run"} # {}
        <4>1. "crossed" \notin blame'[b] => "crossed" \notin blame[b] /\ strays = 0
          BY <1>7, <1>10, <1>12
        <4>2. MakeStands(c)
          BY DEF BoxInv
        <4> QED BY <1>1, <1>2, <1>5, <3>1, <3>2, <4>1, <4>2 DEF MakeStands
      <3>5. CASE ok
        <4>1. /\ k.pc # "idle" => /\ Head(k.todo) \notin Lethal /\ Shape(k) /\ status'[b] = status[b]
                                   /\ k.pc = "dispatch"
              /\ status'[b] \in {"pending", "live"} /\ entry'[b] = "helper"
          BY <1>6, <1>9, <1>10, <2>1, <3>1, <3>5 DEF Over, Part
        <4>2. k.pc = "dispatch" => Routed(k)
          BY DEF Routed
        <4>3. CallStands(c)'
          BY <1>9, <4>1, <4>2, Onward DEF Lethal
        <4>4. BoxStands(b)'
          BY <1>3, <1>4, <1>10, <3>1, <3>3, <3>4, <3>5, <4>1 DEF BoxStands
        <4> QED BY <4>1, <4>3, <4>4
      <3>6. CASE ~ok
        <4>1. k.pc = "idle" /\ status'[b] = "failed" /\ entry'[b] = "none"
          BY <1>6, <1>9, <1>10, <2>1, <3>1, <3>6 DEF Over, Part
        <4>2. CallStands(c)'
          BY <1>9, <4>1, Onward
        <4>3. ~Kept(b)'
          BY <4>1 DEF Kept
        <4>4. BoxStands(b)'
          BY <1>3, <1>4, <1>10, <3>1, <3>3, <3>4, <3>6, <4>1, <4>3 DEF BoxStands
        <4> QED BY <4>1, <4>2, <4>4
      <3> QED BY <3>5, <3>6
    <2>2. CASE Part(c) = "destroy"
      <3>1. ok
        <4>1. Head(outbox) \in ResponseSpace
          BY <1>1, Takes DEF PipesOK
        <4> QED BY <1>5, <2>2, <4>1 DEF Expected, ResponseSpace
      <3>2. ~Direct(b)
        BY <1>1, <1>2, <1>3, <2>2 DEF Routed, Part, Lethal
      <3>3. b \in containers' => blame'[b] \cap {"delete", "lost", "crossed"} # {}
        <4>1. KillStands(c)
          BY DEF BoxInv
        <4>2. "crossed" \notin blame'[b] => "crossed" \notin blame[b] /\ strays = 0
          BY <1>7, <1>10, <1>12
        <4> QED BY <1>1, <1>2, <1>4, <1>10, <2>2, <4>1, <4>2 DEF KillStands
      <3>4. entry'[b] = entry[b]
        BY <1>6, <1>10, <2>2
      <3> QED BY <1>4, <1>9, <2>2, <3>1, <3>2, <3>3, <3>4, RemovedOver
    <2>3. CASE Part(c) \notin Lethal
      <3>1. entry' = entry
        BY <2>3 DEF ReadReply, Lethal
      <3> QED BY <1>4, <1>9, <2>3, <3>1, PlainOver
    <2> QED BY <2>1, <2>2, <2>3 DEF Lethal
  <1>15. HelperStands'
    <2>1. CASE strays = 0
      <3>1. inbox' = <<>> /\ job' = NoJob /\ known' = known /\ running' = running
        BY <1>4, <1>11, <2>1
      <3> QED BY <3>1 DEF BoxInv, HelperStands, JobStands, LinesStand, Sent
    <2>2. CASE strays > 0
      BY <1>4, <1>7, <1>9, <1>14, <2>2, RequestsStand
    <2> QED BY <1>12, <2>1, <2>2
  <1>16. MakeStands(c)' /\ KillStands(c)'
    BY <1>9 DEF MakeStands, KillStands, Awaiting
  <1>17. \A d \in Calls : d # c => MakeStands(d)' /\ KillStands(d)'
    <2>1. call' = [call EXCEPT ![c] = k]
      BY <1>9 DEF Advances
    <2> QED BY <1>1, <2>1, NoOtherReads
  <1> QED BY <1>9, <1>13, <1>14, <1>15, <1>16, <1>17, Assembled

-----------------------------------------------------------------------------
(* A call begins, and one is dropped.                                      *)

\* A new call, for a sandbox that is new or one that was made.
LEMMA BeginBox ==
  ASSUME OwnInv, BoxInv, NEW c \in Calls, NEW op \in Operations, NEW b \in Boxes, Begin(c, op, b)
  PROVE  BoxInv'
  <1> DEFINE m == [op |-> op, box |-> b, pc |-> "dispatch", todo |-> Parts(op), undo |-> FALSE]
  <1>1. /\ ~Busy(c) /\ call' = [call EXCEPT ![c] = m]
        /\ UNCHANGED <<containers, networks, sidecars, known, running, inbox, outbox, job, builtin,
                       entry, blame, strays>>
    BY DEF Begin, BeginCall, CallAt, Busy, HelperAlone, SessionAlone, sessionVars, NoFault, world, pipes
  <1>2. PICK k : /\ k.op = op /\ k.box = b /\ k.pc = "dispatch" /\ Shape(k)
                 /\ call' = [call EXCEPT ![c] = k]
                 /\ Head(k.todo) = "create" <=> op \in {"create", "restore"}
    <2>1. CASE op = "snapshot"
      <3>1. Parts(op) = <<"exec", "read", "exec">>
        BY <2>1 DEF Parts
      <3>2. Shape(m) /\ Head(m.todo) # "create"
        BY <2>1, <3>1 DEF Shape, Lethal
      <3> QED BY <1>1, <2>1, <3>2
    <2>2. CASE op = "restore"
      <3>1. Parts(op) = <<"create", "write", "exec", "exec">>
        BY <2>2 DEF Parts
      <3>2. Shape(m) /\ Head(m.todo) = "create"
        BY <2>2, <3>1 DEF Shape, Lethal
      <3> QED BY <1>1, <2>2, <3>2
    <2>3. CASE op # "snapshot" /\ op # "restore"
      <3>1. Parts(op) = <<op>>
        BY <2>3 DEF Parts
      <3>2. Shape(m) /\ Head(m.todo) = op
        BY <2>3, <3>1 DEF Shape, Lethal
      <3> QED BY <1>1, <2>3, <3>2
    <2> QED BY <2>1, <2>2, <2>3
  <1> HIDE DEF m
  <1>3. \A d \in Calls : call'[d] = IF d = c THEN k ELSE call[d]
    BY <1>2 DEF OwnInv, CallsOK
  <1>4. /\ \A x \in Boxes : x # b => status'[x] = status[x]
        /\ MapsOK'
        /\ IF op \in {"create", "restore"} THEN status[b] = "unborn" /\ status'[b] = "pending"
           ELSE status[b] = "live" /\ status'[b] = "live"
    BY <1>1 DEF Begin, BeginCall, BoxInv, MapsOK
  <1>5. /\ \A x \in Boxes : BoxStands(x) /\ NetStands(x)
        /\ \A d \in Calls : CallStands(d) /\ MakeStands(d) /\ KillStands(d)
        /\ HelperStands
    BY DEF BoxInv
  <1>6. op \in {"create", "restore"} => Fresh(b) /\ \A d \in Calls : Busy(d) => call[d].box # b
    BY <1>4, <1>5 DEF BoxStands, CallStands
  <1>7. \A x \in Boxes : Fresh(x)' <=> Fresh(x)
    BY <1>1 DEF Fresh, Clear
  <1>8. \A x \in Boxes : Direct(x)' <=> Direct(x)
    BY <1>1 DEF Direct
  <1>9. CallStands(c)'
    <2>1. OneMaker(c)' \/ op \notin {"create", "restore"}
      BY <1>2, <1>3, <1>6 DEF OneMaker, Busy, Maker
    <2>2. call'[c] = k /\ call'[c].box = b /\ call'[c].op = op /\ call'[c].pc = "dispatch"
      BY <1>2, <1>3
    <2>3. (Shape(call[c]) /\ Routed(call[c]))'
      BY <1>2, <2>2 DEF Shape, Routed
    <2>4. op \in {"create", "restore"} => entry'[b] = "none" /\ Fresh(b)'
      BY <1>1, <1>6, <1>7 DEF Fresh
    <2> QED BY <1>2, <1>4, <2>1, <2>2, <2>3, <2>4
            DEF CallStands, Maker, Making, Busy, Part, Awaiting
  <1>10. ASSUME NEW d \in Calls, d # c PROVE CallStands(d)'
    <2> SUFFICES ASSUME Busy(d) PROVE CallStands(d)'
      BY <1>3, <1>10 DEF CallStands, Busy
    <2>1. call'[d] = call[d] /\ call[d].box \in Boxes /\ Routed(call[d]) /\ CallStands(d) /\ Shape(call[d])
      BY <1>3, <1>5, <1>10 DEF CallStands, Shape
    <2>2. PICK x \in Boxes : x = call[d].box
      BY <2>1
    <2>3. status'[x] = status[x]
      BY <1>4, <1>6, <2>2
    <2>4. OneMaker(d) => OneMaker(d)'
      BY <1>2, <1>3, <1>6, <2>1, <2>2, <1>10 DEF OneMaker, Busy, Maker
    <2>5. (Routed(call[d]) /\ Shape(call[d]))'
      BY <1>1, <2>1 DEF Routed, Shape, Direct
    <2> QED BY <1>1, <1>7, <2>1, <2>2, <2>3, <2>4, <2>5 DEF CallStands, Maker, Making, Busy, Part, Awaiting
  <1>11. \A d \in Calls : MakeStands(d)' /\ KillStands(d)'
    <2>1. ~Awaiting(c)'
      BY <1>2, <1>3 DEF Awaiting
    <2> QED BY <1>1, <1>3, <1>5, <2>1 DEF MakeStands, KillStands, Making, Busy, Part, Awaiting
  <1>12. \A x \in Boxes : x # b \/ op \notin {"create", "restore"} =>
            /\ \A d \in Calls : MakingOf(d, x)' <=> MakingOf(d, x)
            /\ status'[x] = status[x]
    BY <1>1, <1>2, <1>3, <1>4 DEF MakingOf, Making, Busy, Part
  <1>13. ASSUME NEW x \in Boxes PROVE BoxStands(x)' /\ NetStands(x)'
    <2>1. NetStands(x)'
      BY <1>1, <1>5 DEF NetStands
    <2>2. CASE x # b \/ op \notin {"create", "restore"}
      <3>1. Kept(x)' <=> Kept(x)
        BY <1>1, <1>8, <1>12, <2>2 DEF Kept
      <3>2. Deleting(x)' <=> Deleting(x)
        BY <1>1 DEF Deleting
      <3> QED BY <1>1, <1>5, <1>7, <1>8, <1>12, <2>1, <2>2, <3>1, <3>2 DEF BoxStands
    <2>3. CASE x = b /\ op \in {"create", "restore"}
      <3>1. b \notin containers' /\ b \notin known' /\ entry'[b] = "none" /\ status'[b] = "pending"
        BY <1>1, <1>4, <1>6, <2>3 DEF Fresh
      <3> QED BY <2>1, <2>3, <3>1 DEF BoxStands
    <2> QED BY <2>2, <2>3
  <1>14. ASSUME NEW o, NEW x \in Boxes, Due(o, x) PROVE Due(o, x)'
    <2>1. CASE x # b \/ op \notin {"create", "restore"}
      <3>1. \A d \in Calls : MakingOf(d, x) /\ Awaiting(d) => Awaiting(d)'
        BY <1>1, <1>3 DEF MakingOf, Making, Awaiting
      <3> QED BY <1>1, <1>8, <1>12, <1>14, <2>1, <3>1 DEF Due, Creation, Removal
    <2>2. CASE x = b /\ op \in {"create", "restore"}
      <3>1. status[b] = "unborn" /\ \A d \in Calls : ~MakingOf(d, b)
        BY <1>4, <1>6, <2>2 DEF MakingOf, Making
      <3> QED BY <1>1, <1>8, <1>14, <2>2, <3>1 DEF Due, Creation, Removal
    <2> QED BY <2>1, <2>2
  <1>15. HelperStands'
    <2>1. JobStands'
      <3>1. job = NoJob \/ job.box \in Boxes
        BY <1>5 DEF HelperStands, JobStands
      <3> QED BY <1>1, <1>5, <1>14, <3>1 DEF HelperStands, JobStands
    <2>2. LinesStand'
      BY <1>1, <1>5, <1>14 DEF HelperStands, LinesStand, LineStands, Sent
    <2> QED BY <1>1, <1>5, <2>1, <2>2 DEF HelperStands
  <1> QED BY <1>4, <1>9, <1>10, <1>11, <1>13, <1>15 DEF BoxInv

LEMMA DropBox ==
  ASSUME OwnInv, BoxInv, NEW c \in Calls, Drop(c)
  PROVE  BoxInv'
  <1>1. Busy(c)
    BY DEF Drop, DropCall, CallAt, Busy
  <1>2. PICK b \in Boxes : b = call[c].box
    BY <1>1, Stands
  <1>3. /\ Routed(call[c]) /\ BoxStands(b) /\ MapsOK
        /\ status[b] \in {"pending", "live", "destroyed"}
        /\ Maker(c) => status[b] = "pending"
        /\ ~Maker(c) => status[b] \in {"live", "destroyed"}
        /\ Making(c) => Maker(c) /\ entry[b] = "none" /\ (~Awaiting(c) => Fresh(b))
    BY <1>1, <1>2, Stands
  <1>4. /\ UNCHANGED <<networks, sidecars, known, running, inbox, outbox, job, builtin, entry>>
        /\ call' = [call EXCEPT ![c] = NoCall]
        /\ strays' = 0 => strays = 0
    BY DEF Drop, DropCall, HelperAlone, pipes, OwnInv, SessionOK
  <1>5. BlameMoves(b) /\ "dropped" \in blame'[b]
    BY <1>2, <1>3, AppleFaults DEF Drop, DropCall
  <1>6. \/ containers' \in {containers, containers \ {b}}
        \/ call[c].pc = "run" /\ containers' = containers \cup {b}
    BY <1>2 DEF Drop, CallAt
  <1>7. WorldMoves(b) /\ \A x \in Boxes : x # b /\ Clear(x) => Clear(x)'
    BY <1>4, <1>6, KeepsLines DEF WorldMoves
  <1>8. PICK v : /\ status' = [status EXCEPT ![b] = v]
                 /\ v = IF status[b] = "pending" THEN "failed" ELSE status[b]
    BY <1>2, <1>3 DEF Drop, DropCall, MapsOK
  <1>9. status'[b] = v /\ entry'[b] = entry[b]
    BY <1>3, <1>4, <1>8 DEF MapsOK
  <1>10. Advances(c, b, NoCall) /\ NoCall.pc = "idle"
    <2>1. Follows(call[c], NoCall) /\ NoCall.pc = "idle"
      BY DEF Follows, NoCall, AppleCalls, ApplePlaces, AppleCallOK
    <2>2. entry' = [entry EXCEPT ![b] = entry[b]]
      BY <1>3, <1>4, SameEntry
    <2>3. ~Maker(c) => v \in {status[b], "destroyed"}
      BY <1>3, <1>8
    <2> QED BY <1>1, <1>2, <1>4, <1>5, <1>7, <1>8, <2>1, <2>2, <2>3, MovesFrom
  <1>11. CallStands(c)'
    BY <1>10, Onward
  <1>12. NetStands(b)'
    BY <1>4, <1>5, <1>10, NetMoves DEF NetCauses
  <1>13. BoxStands(b)'
    <2>1. CASE containers' \in {containers, containers \ {b}}
      <3>1. Kept(b)' => Kept(b)
        <4>1. Making(c) => status'[b] = "failed" /\ entry'[b] = "none"
          BY <1>3, <1>8, <1>9
        <4>2. ~Making(c) => \A d \in Calls : ~MakingOf(d, b)
          BY <1>10, OnlyMaker
        <4> QED BY <1>3, <1>4, <1>8, <1>9, <4>1, <4>2 DEF Kept, Direct
      <3>2. b \in containers' => b \in containers
        BY <2>1
      <3> QED BY <1>3, <1>5, <1>8, <1>9, <1>10, <3>1, <3>2, BoxMoves
    <2>2. CASE call[c].pc = "run" /\ containers' = containers \cup {b}
      <3>1. Making(c) /\ ~Awaiting(c) /\ Direct(b)
        BY <1>1, <1>2, <1>3, <2>2 DEF Making, Awaiting, Routed, Part
      <3>2. status'[b] = "failed" /\ entry'[b] = "none" /\ b \notin known'
        BY <1>3, <1>4, <1>8, <1>9, <3>1 DEF Fresh
      <3> QED BY <1>5, <3>2 DEF BoxStands, Kept
    <2> QED BY <1>6, <2>1, <2>2
  <1>14. status'[b] # "unborn"
    BY <1>3, <1>8, <1>9
  <1>15. HelperStands'
    <2>1. Making(c) => status'[b] = "failed" /\ entry'[b] = "none"
      BY <1>3, <1>8, <1>9
    <2> QED BY <1>4, <1>5, <1>10, <1>14, <2>1, RequestsStand
  <1>16. MakeStands(c)' /\ KillStands(c)'
    <2>1. ~Awaiting(c)'
      BY <1>4, <1>10 DEF Awaiting, OwnInv, CallsOK
    <2> QED BY <2>1 DEF MakeStands, KillStands
  <1>17. ASSUME NEW d \in Calls, d # c PROVE MakeStands(d)' /\ KillStands(d)'
    <2>1. b \in containers' => b \in containers \/ Making(c)
      BY <1>1, <1>3, <1>6 DEF Routed, Making, Part
    <2> QED BY <1>4, <1>10, <1>17, <2>1, OtherReads
  <1> QED BY <1>10, <1>11, <1>12, <1>13, <1>15, <1>16, <1>17, Assembled

-----------------------------------------------------------------------------
(* The helper.                                                             *)

\* A step of the helper, for the sandbox b of the request in hand or of the next one.
HelperMoves(b) ==
    /\ b \in Boxes /\ ~Clear(b)
    /\ UNCHANGED <<call, status, entry, builtin, strays>> /\ running /\ running'
    /\ MapsOK' /\ Worse /\ Around(b)
    /\ job.box \in {b, "none"} /\ job'.box \in {b, "none"}
    /\ \A x \in Boxes : x # b /\ Clear(x) => Clear(x)'
    /\ \A l \in LineSpace : Sent(l)' => Sent(l)

LEMMA HelperAround ==
  ASSUME OwnInv, BoxInv, NEW b, HelperMoves(b)
  PROVE  /\ status[b] # "unborn" /\ BoxStands(b) /\ NetStands(b) /\ blame[b] \subseteq blame'[b]
         /\ \A d \in Calls : CallStands(d)'
         /\ \A x \in Boxes : x # b => BoxStands(x)' /\ NetStands(x)'
         /\ \A op : \A x \in Boxes : Due(op, x) => Due(op, x)'
         /\ LinesStand' /\ (Kept(b)' <=> Kept(b)) /\ (Direct(b)' <=> Direct(b))
  <1> USE DEF HelperMoves
  <1>1. /\ \A x \in Boxes : BoxStands(x) /\ NetStands(x)
        /\ \A d \in Calls : CallStands(d)
        /\ LinesStand
    BY DEF BoxInv, HelperStands
  <1>2. status[b] # "unborn"
    BY <1>1 DEF BoxStands, Fresh
  <1>3. \A x \in Boxes : Direct(x)' <=> Direct(x)
    BY DEF Direct
  <1>4. \A x : \A d \in Calls : /\ MakingOf(d, x)' <=> MakingOf(d, x)
                                /\ Awaiting(d)' <=> Awaiting(d)
    BY DEF MakingOf, Making, Busy, Part, Awaiting
  <1>5. \A x \in Boxes : Kept(x)' <=> Kept(x)
    BY <1>3, <1>4 DEF Kept
  <1>6. \A x \in Boxes : blame[x] \subseteq blame'[x]
    BY DEF Worse
  <1>7. \A op : \A x \in Boxes : Due(op, x) => Due(op, x)'
    BY <1>3, <1>4, <1>6 DEF Due, Creation, Removal
  <1>8. LinesStand'
    BY <1>1, <1>7 DEF LinesStand, LineStands
  <1>9. \A x \in Boxes : Fresh(x) => Fresh(x)'
    <2> SUFFICES ASSUME NEW x \in Boxes, Fresh(x) PROVE Fresh(x)'
      OBVIOUS
    <2>1. x # b
      BY DEF Fresh
    <2>2. Same(x) /\ Clear(x)'
      BY <2>1 DEF Around, Fresh
    <2> QED BY <2>2 DEF Fresh, Same
  <1>10. ASSUME NEW d \in Calls PROVE CallStands(d)'
    <2> SUFFICES ASSUME Busy(d) PROVE CallStands(d)'
      BY DEF CallStands, Busy
    <2>1. CallStands(d) /\ Shape(call[d]) /\ Routed(call[d]) /\ call[d].box \in Boxes
      BY <1>1 DEF CallStands, Shape
    <2>2. PICK x \in Boxes : x = call[d].box
      BY <2>1
    <2>3. (Shape(call[d]) /\ Routed(call[d]))'
      BY <2>1 DEF Shape, Routed, Direct
    <2>4. OneMaker(d)' <=> OneMaker(d)
      BY DEF OneMaker, Busy, Maker
    <2> QED BY <1>9, <2>1, <2>2, <2>3, <2>4 DEF CallStands, Maker, Making, Busy, Part, Awaiting
  <1>11. ASSUME NEW x \in Boxes, x # b PROVE BoxStands(x)' /\ NetStands(x)'
    <2>1. Same(x)
      BY <1>11 DEF Around
    <2>2. x # job.box /\ x # job'.box
      BY <1>11, BackendAssumption DEF BackendAssumption
    <2>3. ~Deleting(x) /\ ~Deleting(x)'
      BY <2>2 DEF Deleting
    <2>4. BoxStands(x)'
      BY <1>1, <1>3, <1>5, <1>9, <2>1, <2>3 DEF BoxStands, Same
    <2>5. NetStands(x)'
      BY <1>1, <2>1, <2>2 DEF NetStands, Same
    <2> QED BY <2>4, <2>5
  <1> QED BY <1>1, <1>2, <1>3, <1>5, <1>6, <1>7, <1>8, <1>10, <1>11

LEMMA HelperAssembled ==
  ASSUME OwnInv, BoxInv, NEW b, HelperMoves(b), JobStands', BoxStands(b)', NetStands(b)',
         \A d \in Calls : MakeStands(d)' /\ KillStands(d)'
  PROVE  BoxInv'
  <1>1. HelperStands'
    BY HelperAround DEF HelperStands, HelperMoves
  <1>2. \A x \in Boxes : BoxStands(x)' /\ NetStands(x)'
    BY HelperAround
  <1>3. \A d \in Calls : CallStands(d)'
    BY HelperAround
  <1> QED BY <1>1, <1>2, <1>3 DEF BoxInv, HelperMoves

\* A creation in hand is one of a sandbox that is not held, or was crossed.
LEMMA Unheld ==
  ASSUME BoxInv, NEW b \in Boxes, Creation(b), Kept(b), "crossed" \notin blame[b]
  PROVE  FALSE
  <1>1. CASE status[b] = "failed" /\ entry[b] = "none"
    BY <1>1 DEF Kept
  <1>2. CASE \E c \in Calls : MakingOf(c, b) /\ Awaiting(c)
    <2>1. PICK c \in Calls : MakingOf(c, b)
      BY <1>2
    <2>2. entry[b] = "none"
      BY <2>1 DEF BoxInv, CallStands, MakingOf, Making
    <2> QED BY <2>1, <2>2 DEF Kept
  <1> QED BY <1>1, <1>2 DEF Creation

-----------------------------------------------------------------------------
(* The request in hand.                                                    *)

JobGoes == \E s \in Steps \ {"idle", "delete"} : Step(s)

\* What a step of a creation leads to, and of any other request.
MakeGoes(b) ==
    \/ Reply("ack") /\ b \in known'
    \/ /\ JobGoes \/ Reply("error")
       /\ known' = known
       /\ b \in containers' => b \in containers \/ "run" \in blame'[b]

ElseGoes(b) ==
    /\ JobGoes \/ \E kind \in Replies : Reply(kind)
    /\ b \in containers' => b \in containers
    /\ b \in containers' /\ job.step = "delete" => "delete" \in blame'[b]
    /\ known' = known \/ (known' = known \ {b} /\ b \notin containers')

Works1(b) ==
    /\ HelperMoves(b) /\ job.box = b /\ job \in JobSpace /\ job.step # "idle" /\ inbox' = inbox
    /\ IF job.op = "create" THEN MakeGoes(b) ELSE ElseGoes(b)

\* The step after this one, or the reply.
LEMMA After ==
  ASSUME PipesOK, NEW b, Works1(b)
  PROVE  \/ /\ outbox' = outbox /\ job'.op = job.op /\ job'.box = b /\ job'.for = job.for
            /\ job'.step \in Steps \ {"idle", "delete"}
         \/ \E kind \in Replies :
              /\ outbox' = Append(outbox, [kind |-> kind, for |-> job.for]) /\ outbox' # <<>> /\ job' = NoJob
              /\ outbox = <<>> => Head(outbox').kind = kind
              /\ job.op = "create" => IF kind = "ack" THEN b \in known'
                                      ELSE b \in containers' => b \in containers \/ "run" \in blame'[b]
  <1>1. job \in JobSpace /\ job.box = b
    BY DEF Works1
  <1>2. CASE JobGoes
    BY <1>1, <1>2 DEF JobGoes, Step, JobSpace
  <1>3. ASSUME NEW kind \in Replies, Reply(kind)
        PROVE  /\ outbox' = Append(outbox, [kind |-> kind, for |-> job.for]) /\ outbox' # <<>> /\ job' = NoJob
               /\ outbox = <<>> => Head(outbox').kind = kind
    <2> DEFINE a == [kind |-> kind, for |-> job.for]
    <2>1. outbox' = Append(outbox, a) /\ job' = NoJob /\ a.kind = kind
      BY <1>3 DEF Reply
    <2>2. a \in ResponseSpace
      BY <1>1 DEF ResponseSpace, JobSpace
    <2> HIDE DEF a
    <2>3. outbox' # <<>>
      BY <2>1, <2>2, Adds DEF PipesOK
    <2>4. outbox = <<>> => Head(outbox') = a
      BY <2>1, One
    <2> QED BY <2>1, <2>3, <2>4 DEF a
  <1>4. "ack" \in Replies /\ "error" \in Replies
    BY DEF Replies
  <1>5. CASE job.op = "create"
    <2>1. CASE Reply("ack") /\ b \in known'
      BY <1>3, <1>4, <2>1
    <2>2. CASE Reply("error") /\ (b \in containers' => b \in containers \/ "run" \in blame'[b])
      BY <1>3, <1>4, <2>2
    <2> QED BY <1>2, <1>5, <2>1, <2>2 DEF Works1, MakeGoes
  <1>6. CASE job.op # "create"
    BY <1>2, <1>3, <1>6 DEF Works1, ElseGoes
  <1> QED BY <1>5, <1>6

LEMMA WorkReads ==
  ASSUME OwnInv, BoxInv, PipesOK, NEW b, Works1(b), NEW d \in Calls
  PROVE  MakeStands(d)' /\ KillStands(d)'
  <1>1. /\ HelperMoves(b) /\ job.box = b /\ job \in JobSpace /\ inbox' = inbox /\ b \in Boxes
        /\ job # NoJob /\ b # "none"
    BY BackendAssumption DEF Works1, HelperMoves, NoJob, BackendAssumption
  <1>2. /\ call'[d] = call[d] /\ UNCHANGED <<call, status, entry, strays>>
        /\ \A x \in Boxes : blame[x] \subseteq blame'[x]
    BY <1>1 DEF HelperMoves, Worse
  <1>3. CallStands(d) /\ MakeStands(d) /\ KillStands(d)
    BY DEF BoxInv
  <1> SUFFICES ASSUME Awaiting(d) PROVE MakeStands(d)' /\ KillStands(d)'
    BY <1>2 DEF MakeStands, KillStands, Awaiting
  <1>4. PICK x \in Boxes : x = call[d].box
    BY Stands DEF Awaiting, Busy
  <1>5. x # b => Same(x)
    BY <1>1 DEF HelperMoves, Around
  <1>6. strays = 0 => inbox = <<>> /\ outbox = <<>>
    BY <1>1, <1>2 DEF OwnInv, InStep, CallAt, Awaiting, Exchange, Quiet
  <1>7. MakeStands(d)'
    <2> SUFFICES ASSUME Making(d), "crossed" \notin blame'[x] PROVE MakeStands(d)'
      BY <1>2, <1>4 DEF MakeStands, Making, Busy, Part
    <2>1. "crossed" \notin blame[x]
      BY <1>2
    <2>2. x \in containers' => outbox' # <<>> \/ blame'[x] \cap {"lost", "run"} # {}
      <3>1. x \in containers => outbox # <<>> \/ blame[x] \cap {"lost", "run"} # {}
        BY <1>3, <1>4, <2>1 DEF MakeStands
      <3>2. outbox # <<>> => outbox' # <<>>
        BY After
      <3>3. CASE x # b
        BY <1>2, <1>5, <3>1, <3>2, <3>3 DEF Same
      <3>4. CASE x = b
        <4>1. CASE Reply("ack")
          BY <4>1, After DEF Reply, Works1, JobGoes
        <4>2. CASE x \in containers' => x \in containers \/ "run" \in blame'[x]
          BY <1>2, <3>1, <3>2, <4>2
        <4> QED BY <3>4, <4>1, <4>2 DEF Works1, MakeGoes, ElseGoes
      <3> QED BY <3>3, <3>4
    <2>3. ASSUME strays = 0
          PROVE  /\ inbox' = <<>>
                 /\ job' # NoJob => /\ job'.op = "create" /\ job'.box = x /\ x \notin known'
                                    /\ x \in containers' => "run" \in blame'[x]
                 /\ outbox' # <<>> /\ x \in containers' =>
                      IF Head(outbox').kind = "ack" THEN x \in known' \/ "lost" \in blame'[x]
                      ELSE blame'[x] \cap {"lost", "run"} # {}
      <3>1. job.op = "create" /\ b = x /\ x \notin known /\ (x \in containers => "run" \in blame[x])
        BY <1>1, <1>3, <1>4, <2>1, <2>3 DEF MakeStands
      <3>2. CASE /\ outbox' = outbox /\ job'.op = job.op /\ job'.box = b
                 /\ job'.step \in Steps \ {"idle", "delete"}
        <4>1. ~Reply("ack")
          BY <3>2 DEF Reply, NoJob
        <4> QED BY <1>1, <1>2, <1>6, <2>3, <3>1, <3>2, <4>1 DEF Works1, MakeGoes
      <3>3. CASE \E kind \in Replies :
                   /\ outbox' # <<>> /\ job' = NoJob /\ Head(outbox').kind = kind
                   /\ IF kind = "ack" THEN b \in known'
                      ELSE b \in containers' => b \in containers \/ "run" \in blame'[b]
        BY <1>1, <1>2, <1>6, <2>3, <3>1, <3>3
      <3> QED BY <1>6, <2>3, <3>1, <3>2, <3>3, After
    <2> QED BY <1>2, <1>4, <2>2, <2>3 DEF MakeStands
  <1>8. KillStands(d)'
    <2> SUFFICES ASSUME Part(d) = "destroy", "crossed" \notin blame'[x], strays = 0 PROVE KillStands(d)'
      BY <1>2, <1>4 DEF KillStands, Part
    <2>1. "crossed" \notin blame[x]
      BY <1>2
    <2>2. x \in containers => /\ job.op = "destroy" /\ b = x
                              /\ job.step = "delete" \/ blame[x] \cap {"delete", "lost"} # {}
      BY <1>1, <1>3, <1>4, <2>1 DEF KillStands
    <2>3. x \in containers' => x \in containers
      <3>1. CASE x # b
        BY <1>5, <3>1 DEF Same
      <3>2. CASE x = b /\ job.op = "create"
        <4>1. Creation(b)
          BY <1>1, <3>2 DEF BoxInv, HelperStands, JobStands, Due
        <4>2. status[b] # "failed"
          BY <1>4, <3>2, Stands DEF Awaiting, Busy
        <4>3. PICK c \in Calls : MakingOf(c, b) /\ Awaiting(c)
          BY <2>1, <3>2, <4>1, <4>2 DEF Creation
        <4>4. c = d
          BY <4>3, HoldsAlone DEF Awaiting, Holding
        <4> QED BY <2>1, <4>3, <4>4 DEF MakingOf, Making
      <3>3. CASE x = b /\ job.op # "create"
        BY <3>3 DEF Works1, ElseGoes
      <3> QED BY <3>1, <3>2, <3>3
    <2>4. x \in containers' => blame'[x] \cap {"delete", "lost"} # {}
      <3> SUFFICES ASSUME x \in containers' PROVE blame'[x] \cap {"delete", "lost"} # {}
        OBVIOUS
      <3>1. CASE job.step = "delete"
        BY <2>2, <2>3, <3>1 DEF Works1, ElseGoes
      <3>2. CASE job.step # "delete"
        BY <1>2, <2>2, <2>3, <3>2
      <3> QED BY <3>1, <3>2
    <2>5. job' # NoJob /\ x \in containers' => job'.op = "destroy" /\ job'.box = x
      BY <2>2, <2>3, After
    <2>6. inbox' = <<>>
      BY <1>1, <1>6
    <2> QED BY <1>2, <1>4, <2>4, <2>5, <2>6 DEF KillStands
  <1> QED BY <1>7, <1>8

LEMMA WorkBox ==
  ASSUME OwnInv, BoxInv, PipesOK, NEW b, Works1(b)
  PROVE  BoxStands(b)'
  <1>1. /\ HelperMoves(b) /\ job.box = b /\ b \in Boxes /\ job.step # "idle" /\ job # NoJob
        /\ UNCHANGED <<entry, status>>
    BY DEF Works1, HelperMoves, NoJob
  <1>2. /\ status[b] # "unborn" /\ BoxStands(b) /\ blame[b] \subseteq blame'[b]
        /\ Kept(b)' <=> Kept(b)
        /\ Direct(b)' <=> Direct(b)
    BY <1>1, HelperAround
  <1>3. JobStands
    BY DEF BoxInv, HelperStands
  <1>4. ~Deleting(b)'
    <2>1. job' = NoJob \/ job'.step # "delete"
      BY After
    <2> QED BY <2>1 DEF Deleting, NoJob
  <1>5. CASE job.op = "create"
    <2>1. Creation(b) /\ ~Direct(b)
      BY <1>1, <1>3, <1>5 DEF JobStands, Due, Creation
    <2>2. ~Kept(b) \/ "crossed" \in blame[b]
      BY <1>1, <2>1, Unheld
    <2>3. status[b] = "destroyed" => "crossed" \in blame[b]
      <3>1. \A c \in Calls : MakingOf(c, b) => status[b] = "pending"
        BY MakerMakes DEF BoxInv, OwnInv, MakingOf, Making
      <3> QED BY <2>1, <3>1 DEF Creation
    <2>4. status[b] = "failed" => blame[b] \cap {"crossed", "dropped"} # {}
      <3>1. \A c \in Calls : MakingOf(c, b) => status[b] = "pending"
        BY MakerMakes DEF BoxInv, OwnInv, MakingOf, Making
      <3> QED BY <2>1, <3>1 DEF Creation
    <2> QED BY <1>1, <1>2, <2>1, <2>2, <2>3, <2>4 DEF BoxStands
  <1>6. CASE job.op # "create"
    <2>1. /\ b \in containers' => b \in containers
          /\ b \in containers' /\ job.step = "delete" => "delete" \in blame'[b]
          /\ b \in known' => b \in known
          /\ b \in containers' => known' = known
      BY <1>6 DEF Works1, ElseGoes
    <2>2. Deleting(b) => job.step = "delete"
      BY DEF Deleting
    <2> QED BY <1>1, <1>2, <1>4, <2>1, <2>2 DEF BoxStands
  <1> QED BY <1>5, <1>6

\* Every step of the job in hand is one of those.
LEMMA WorkMoves ==
  ASSUME OwnInv, BoxInv, PipesOK, HelperGoesOn, ~NextLine
  PROVE  /\ HelperMoves(job.box) /\ job \in JobSpace /\ job.step # "idle" /\ inbox' = inbox
         /\ job.op \in Operations /\ Due(job.op, job.box) /\ JobStands
  <1>1. HelperStep /\ UNCHANGED <<call, status, entry, builtin, strays>>
    BY DEF HelperGoesOn, sessionVars, HelperStep, BackendAlone, NextLine, MakeWorkspace,
           CreateNetwork, InspectRuntime, RunSidecar, RunContainer, RemoveSidecar, RemoveNetwork,
           DeleteContainer, RemoveWorkspace, RunCommand
  <1>2. /\ running /\ running' /\ inbox' = inbox /\ job.step # "idle"
        /\ \/ \E s \in Steps \ {"idle"} : Step(s)
           \/ \E kind \in Replies : Reply(kind)
    BY <1>1, Working
  <1>3. job \in JobSpace /\ job.op \in Operations /\ Due(job.op, job.box) /\ job.box \in Boxes /\ JobStands
    BY <1>2 DEF PipesOK, NoJob, BoxInv, HelperStands, JobStands
  <1>4. PICK b \in Boxes : b = job.box
    BY <1>3
  <1>5. job'.box \in {b, "none"}
    <2>1. ASSUME NEW s, Step(s) PROVE job'.box = b
      BY <1>3, <1>4, <2>1 DEF Step, JobSpace
    <2>2. ASSUME NEW kind, Reply(kind) PROVE job'.box = "none"
      BY <2>2 DEF Reply, NoJob
    <2> QED BY <1>2, <2>1, <2>2
  <1>6. BlameMoves(b)
    <2>1. NoFault \/ \E cause : Fault(b, cause)
      BY <1>1, <1>4 DEF HelperStep, MakeWorkspace, CreateNetwork, InspectRuntime, RunSidecar,
           RunContainer, RemoveSidecar, RemoveNetwork, DeleteContainer, RemoveWorkspace, RunCommand
    <2> QED BY <2>1, AppleFaults, AppleFaultless DEF NoFault, BoxInv
  <1>7. WorldMoves(b) /\ \A x \in Boxes : x # b => (x \in known' <=> x \in known)
    <2>1. CASE MakeWorkspace \/ InspectRuntime \/ RemoveWorkspace
      BY <2>1 DEF MakeWorkspace, InspectRuntime, RemoveWorkspace, world, WorldMoves
    <2>2. CASE CreateNetwork \/ RunSidecar \/ RemoveSidecar \/ RemoveNetwork \/ DeleteContainer
      BY <1>4, <2>2 DEF CreateNetwork, RunSidecar, RemoveSidecar, RemoveNetwork, DeleteContainer, WorldMoves
    <2>3. CASE RunContainer
      BY <1>4, <2>3 DEF RunContainer, WorldMoves
    <2>4. CASE RunCommand
      BY <1>4, <2>4 DEF RunCommand, world, WorldMoves
    <2> QED BY <1>1, <2>1, <2>2, <2>3, <2>4 DEF HelperStep
  <1>8. MapsOK' /\ Worse /\ Around(b)
    BY <1>1, <1>6, <1>7 DEF BoxInv, MapsOK, BlameMoves, WorldMoves, Around, Same
  <1>9. /\ \A x \in Boxes : x # b /\ Clear(x) => Clear(x)'
        /\ \A l \in LineSpace : Sent(l)' => Sent(l)
        /\ ~Clear(b)
    BY <1>2, <1>4, <1>5, BackendAssumption DEF Clear, Sent, BackendAssumption
  <1>10. HelperMoves(b)
    BY <1>1, <1>2, <1>4, <1>5, <1>8, <1>9 DEF HelperMoves
  <1> QED BY <1>2, <1>3, <1>4, <1>10

\* What the invariant says of the job, by the step it is at.
LEMMA JobFacts ==
  ASSUME BoxInv, NEW b, b = job.box, job.step # "idle"
  PROVE  /\ job.step \in {"workspace", "network", "gateway", "sidecar", "address", "container"} => job.op = "create"
         /\ job.step \in {"network", "gateway", "sidecar", "address"} => b \in Allowlisted
         /\ job.step \in {"delete", "workspace_off"} => job.op = "destroy"
         /\ job.step \in {"sidecar_off", "network_off"} => job.op \in Lethal
         /\ job.step \in {"command", "blocked"} => job.op \notin Lethal /\ b \in known
         /\ job.op \in Lethal => b \notin known
         /\ b \in Boxes /\ NetStands(b)
  BY DEF BoxInv, HelperStands, JobStands, NoJob

LEMMA WorkGoes ==
  ASSUME OwnInv, BoxInv, PipesOK, HelperGoesOn, ~NextLine
  PROVE  Works1(job.box)
  <1>1. /\ HelperMoves(job.box) /\ job \in JobSpace /\ job.step # "idle" /\ inbox' = inbox
        /\ job.op \in Operations
    BY WorkMoves
  <1>2. PICK b \in Boxes : b = job.box
    BY <1>1 DEF HelperMoves
  <1>3. /\ job.step \in {"workspace", "network", "gateway", "sidecar", "address", "container"} => job.op = "create"
        /\ job.step \in {"delete", "workspace_off"} => job.op = "destroy"
        /\ job.step \in {"sidecar_off", "network_off"} => job.op \in Lethal
        /\ job.step \in {"command", "blocked"} => job.op \notin Lethal
    BY <1>1, <1>2, JobFacts
  <1>4. {"network", "gateway", "sidecar", "address", "container", "sidecar_off", "network_off",
         "workspace_off", "blocked"} \subseteq Steps \ {"idle", "delete"}
    BY DEF Steps
  <1>5. {"ack", "error"} \subseteq Replies /\ \A op, up : ReplyTo(op, up) \in Replies
    BY DEF Replies, ReplyTo
  <1>6. ASSUME NEW cause, Fault(b, cause) PROVE cause \in blame'[b]
    BY <1>6, AppleFaults DEF BoxInv
  <1>7. CASE MakeWorkspace \/ CreateNetwork \/ InspectRuntime \/ RunSidecar
    <2>1. job.op = "create" /\ UNCHANGED <<containers, known>>
      BY <1>3, <1>7 DEF MakeWorkspace, CreateNetwork, InspectRuntime, RunSidecar, HelperAt, world
    <2>2. JobGoes \/ Reply("error")
      BY <1>4, <1>7 DEF MakeWorkspace, CreateNetwork, InspectRuntime, RunSidecar, JobGoes
    <2> QED BY <1>1, <1>2, <2>1, <2>2 DEF Works1, MakeGoes
  <1>8. CASE RunContainer
    <2>1. job.op = "create"
      BY <1>3, <1>8 DEF RunContainer, HelperAt
    <2>2. MakeGoes(b)
      <3>1. CASE known' = known \cup {job.box} /\ Reply("ack")
        BY <1>2, <3>1 DEF MakeGoes
      <3>2. CASE /\ Fault(job.box, "run") /\ UNCHANGED known
                 /\ IF job.box \in Allowlisted THEN Step("sidecar_off") ELSE Reply("error")
        <4>1. "run" \in blame'[b]
          BY <1>2, <1>6, <3>2
        <4>2. JobGoes \/ Reply("error")
          BY <1>4, <3>2 DEF JobGoes
        <4> QED BY <3>2, <4>1, <4>2 DEF MakeGoes
      <3> QED BY <1>8, <3>1, <3>2 DEF RunContainer
    <2> QED BY <1>1, <1>2, <2>1, <2>2 DEF Works1
  <1>9. CASE RemoveSidecar \/ RemoveNetwork
    <2>1. job.op \in Lethal /\ UNCHANGED <<containers, known>> /\ job.step # "delete"
      BY <1>3, <1>9 DEF RemoveSidecar, RemoveNetwork, HelperAt
    <2>2. JobGoes \/ Reply("error")
      BY <1>4, <1>9 DEF RemoveSidecar, RemoveNetwork, JobGoes
    <2>3. MakeGoes(b) /\ ElseGoes(b)
      BY <1>5, <2>1, <2>2 DEF MakeGoes, ElseGoes
    <2> QED BY <1>1, <1>2, <2>3 DEF Works1
  <1>10. CASE DeleteContainer
    <2>1. job.op = "destroy" /\ known' = known
      BY <1>3, <1>10 DEF DeleteContainer, HelperAt
    <2>2. JobGoes \/ \E kind \in Replies : Reply(kind)
      BY <1>4, <1>5, <1>10 DEF DeleteContainer, JobGoes
    <2>3. /\ b \in containers' => b \in containers
          /\ b \in containers' => "delete" \in blame'[b]
      BY <1>2, <1>6, <1>10 DEF DeleteContainer
    <2> QED BY <1>1, <1>2, <2>1, <2>2, <2>3 DEF Works1, ElseGoes
  <1>11. CASE RemoveWorkspace
    <2>1. job.op = "destroy" /\ UNCHANGED <<containers, known>> /\ job.step # "delete"
      BY <1>3, <1>11 DEF RemoveWorkspace, HelperAt, world
    <2>2. \E kind \in Replies : Reply(kind)
      BY <1>5, <1>11 DEF RemoveWorkspace
    <2> QED BY <1>1, <1>2, <2>1, <2>2 DEF Works1, ElseGoes
  <1>12. CASE RunCommand
    <2>1. job.op # "create" /\ containers' = containers /\ job.step # "delete"
      BY <1>3, <1>12 DEF RunCommand, HelperAt, world, Lethal
    <2>2. JobGoes \/ \E kind \in Replies : Reply(kind)
      BY <1>4, <1>5, <1>12 DEF RunCommand, JobGoes
    <2>3. known' = known \/ (known' = known \ {b} /\ b \notin containers')
      BY <1>2, <2>1, <1>12 DEF RunCommand
    <2> QED BY <1>1, <1>2, <2>1, <2>2, <2>3 DEF Works1, ElseGoes
  <1> QED BY <1>7, <1>8, <1>9, <1>10, <1>11, <1>12 DEF HelperGoesOn, HelperStep

LEMMA WorkNets ==
  ASSUME OwnInv, BoxInv, PipesOK, HelperGoesOn, ~NextLine, NEW b, b = job.box
  PROVE  NetStands(b)' /\ JobStands'
  <1>1. /\ HelperMoves(job.box) /\ job \in JobSpace /\ job.step # "idle" /\ job.op \in Operations
        /\ Due(job.op, job.box) /\ JobStands
    BY WorkMoves
  <1>2. b \in Boxes /\ b = job.box
    BY <1>1 DEF HelperMoves
  <1>3. /\ job.step \in {"workspace", "network", "gateway", "sidecar", "address", "container"} => job.op = "create"
        /\ job.step \in {"network", "gateway", "sidecar", "address"} => b \in Allowlisted
        /\ job.step \in {"delete", "workspace_off"} => job.op = "destroy"
        /\ job.step \in {"sidecar_off", "network_off"} => job.op \in Lethal
        /\ job.step \in {"command", "blocked"} => job.op \notin Lethal /\ b \in known
        /\ job.op \in Lethal => b \notin known
        /\ NetStands(b)
    BY <1>1, <1>2, JobFacts
  <1>4. blame[b] \subseteq blame'[b] /\ b # "none" /\ \A o : o = job.op => Due(o, b)'
    <2>1. HelperMoves(b)
      BY <1>1, <1>2
    <2>2. blame[b] \subseteq blame'[b] /\ \A o : Due(o, b) => Due(o, b)'
      BY <1>2, <2>1, HelperAround
    <2> QED BY <1>1, <1>2, <2>2, BackendAssumption DEF BackendAssumption
  <1>5. ASSUME NEW cause, Fault(b, cause) PROVE cause \in blame'[b]
    BY <1>2, <1>5, AppleFaults DEF BoxInv
  \* A step to one that its operation has, and a reply.
  <1>6. ASSUME NEW s \in Steps \ {"idle"}, Step(s)
        PROVE  job'.op = job.op /\ job'.box = b /\ job'.step = s
    BY <1>1, <1>2, <1>6 DEF Step, JobSpace
  <1>7. ASSUME NEW kind, Reply(kind) PROVE job' = NoJob /\ job'.box # b /\ JobStands'
    <2>1. job' = NoJob
      BY <1>7 DEF Reply
    <2> QED BY <1>4, <2>1 DEF JobStands, NoJob
  <1>8. ASSUME NEW s \in Steps \ {"idle", "workspace", "delete", "command", "blocked"}, Step(s), job.op \in Lethal,
               known' = known,
               s \in {"network", "gateway", "sidecar", "address", "container"} => job.op = "create",
               s \in {"network", "gateway", "sidecar", "address"} => b \in Allowlisted,
               s = "workspace_off" => job.op = "destroy"
        PROVE  JobStands'
    BY <1>1, <1>2, <1>3, <1>4, <1>6, <1>8 DEF JobStands
  <1>9. CASE MakeWorkspace
    <2>1. job.step = "workspace" /\ UNCHANGED <<networks, sidecars, containers, known>> /\ job.op = "create"
      BY <1>3, <1>9 DEF MakeWorkspace, HelperAt, world
    <2>2. CASE Step(IF b \in Allowlisted THEN "network" ELSE "container")
      <3> DEFINE s == IF b \in Allowlisted THEN "network" ELSE "container"
      <3>1. s \in Steps \ {"idle", "workspace", "delete", "command", "blocked"}
            /\ s \in {"network", "container"} /\ (s = "network" => b \in Allowlisted)
        BY DEF Steps
      <3> HIDE DEF s
      <3>2. Step(s)
        BY <2>2 DEF s
      <3>3. JobStands' /\ job'.step \in {"network", "container"} /\ job'.box = b
        BY <1>6, <1>8, <2>1, <3>1, <3>2 DEF Lethal
      <3> QED BY <1>2, <1>3, <1>4, <2>1, <3>3 DEF NetStands
    <2>3. CASE Reply("error")
      <3>1. JobStands' /\ job'.box # b
        BY <1>7, <2>3
      <3> QED BY <1>2, <1>3, <1>4, <2>1, <3>1 DEF NetStands
    <2> QED BY <1>2, <1>9, <2>2, <2>3 DEF MakeWorkspace
  <1>10. CASE CreateNetwork
    <2>1. job.step = "network" /\ UNCHANGED <<sidecars, containers, known>> /\ job.op = "create" /\ b \in Allowlisted
          /\ b \notin known
      BY <1>3, <1>10 DEF CreateNetwork, HelperAt, Lethal
    <2>2. CASE Step("gateway")
      <3>1. JobStands' /\ job'.box = b /\ job'.step = "gateway"
        BY <1>6, <1>8, <2>1, <2>2 DEF Lethal, Steps
      <3> QED BY <1>2, <1>3, <1>4, <2>1, <3>1 DEF NetStands
    <2>3. CASE Reply("error") /\ Fault(b, "network")
      <3>1. JobStands' /\ job'.box # b /\ "network" \in blame'[b]
        BY <1>5, <1>7, <2>3
      <3> QED BY <1>2, <2>1, <3>1 DEF NetStands, NetCauses
    <2> QED BY <1>2, <1>10, <2>2, <2>3 DEF CreateNetwork
  <1>11. CASE InspectRuntime
    <2>1. job.step \in {"gateway", "address"} /\ UNCHANGED <<networks, sidecars, containers, known>>
          /\ job.op = "create" /\ b \in Allowlisted
      BY <1>3, <1>11 DEF InspectRuntime, HelperAt, world
    <2>2. PICK s \in {"sidecar", "container", "sidecar_off"} : Step(s)
      BY <1>11 DEF InspectRuntime
    <2>3. JobStands' /\ job'.box = b /\ job'.step \in {"sidecar", "container", "sidecar_off"}
      BY <1>6, <1>8, <2>1, <2>2 DEF Lethal, Steps
    <2> QED BY <1>2, <1>3, <1>4, <2>1, <2>3 DEF NetStands
  <1>12. CASE RunSidecar
    <2>1. job.step = "sidecar" /\ UNCHANGED <<networks, containers, known>> /\ job.op = "create" /\ b \in Allowlisted
          /\ b \notin known
      BY <1>3, <1>12 DEF RunSidecar, HelperAt, Lethal
    <2>2. PICK s \in {"address", "sidecar_off"} : Step(s)
      BY <1>12 DEF RunSidecar
    <2>3. JobStands' /\ job'.box = b /\ job'.step \in {"address", "sidecar_off"}
      BY <1>6, <1>8, <2>1, <2>2 DEF Lethal, Steps
    <2> QED BY <1>2, <1>3, <1>4, <2>1, <2>3 DEF NetStands
  <1>13. CASE RunContainer
    <2>1. job.step = "container" /\ UNCHANGED <<networks, sidecars>> /\ job.op = "create" /\ b \notin known
      BY <1>3, <1>13 DEF RunContainer, HelperAt, Lethal
    <2>2. CASE containers' = containers \cup {b} /\ known' = known \cup {b} /\ Reply("ack")
      <3>1. JobStands'
        BY <1>7, <2>2
      <3> QED BY <1>2, <1>3, <1>4, <1>7, <2>1, <2>2, <3>1 DEF NetStands
    <2>3. CASE b \in Allowlisted /\ Step("sidecar_off") /\ known' = known
      <3>1. JobStands' /\ job'.box = b /\ job'.step = "sidecar_off"
        BY <1>6, <1>8, <2>1, <2>3 DEF Lethal, Steps
      <3> QED BY <1>2, <1>3, <1>4, <2>1, <2>3, <3>1 DEF NetStands
    <2>4. CASE b \notin Allowlisted /\ Reply("error")
      <3>1. JobStands' /\ b \notin networks' \cup sidecars'
        BY <1>3, <1>7, <2>1, <2>4 DEF NetStands
      <3> QED BY <1>2, <3>1 DEF NetStands
    <2> QED BY <1>2, <1>13, <2>2, <2>3, <2>4 DEF RunContainer
  <1>14. CASE RemoveSidecar
    <2>1. job.step = "sidecar_off" /\ UNCHANGED <<networks, containers, known>> /\ job.op \in Lethal
          /\ b \notin known
      BY <1>3, <1>14 DEF RemoveSidecar, HelperAt
    <2>2. Step("network_off")
      BY <1>14 DEF RemoveSidecar
    <2>3. JobStands' /\ job'.box = b /\ job'.step = "network_off"
      BY <1>6, <1>8, <2>1, <2>2 DEF Steps
    <2>4. /\ b \in sidecars' => b \in sidecars
          /\ b \in sidecars' => "teardown" \in blame'[b]
      BY <1>2, <1>5, <1>14 DEF RemoveSidecar
    <2> QED BY <1>2, <1>3, <1>4, <2>1, <2>3, <2>4 DEF NetStands, NetCauses
  <1>15. CASE RemoveNetwork
    <2>1. job.step = "network_off" /\ UNCHANGED <<sidecars, containers, known>> /\ job.op \in Lethal
          /\ b \notin known
      BY <1>3, <1>15 DEF RemoveNetwork, HelperAt
    <2>2. JobStands'
      <3>1. CASE job.op = "create"
        BY <1>7, <1>15, <3>1 DEF RemoveNetwork
      <3>2. CASE job.op = "destroy"
        <4>1. Step("workspace_off")
          BY <1>15, <3>2 DEF RemoveNetwork
        <4> QED BY <1>8, <2>1, <3>2, <4>1 DEF Steps
      <3> QED BY <2>1, <3>1, <3>2 DEF Lethal
    <2>3. /\ b \in networks' => b \in networks
          /\ b \in networks' => "teardown" \in blame'[b]
      BY <1>2, <1>5, <1>15 DEF RemoveNetwork
    <2>4. b \in sidecars => blame[b] \cap NetCauses # {}
      BY <1>2, <1>3, <2>1 DEF NetStands
    <2>5. b \in networks' \cup sidecars' => blame'[b] \cap NetCauses # {}
      BY <1>4, <2>1, <2>3, <2>4 DEF NetCauses
    <2> QED BY <1>2, <1>3, <2>1, <2>2, <2>3, <2>5 DEF NetStands
  <1>16. CASE DeleteContainer
    <2>1. job.step = "delete" /\ UNCHANGED <<networks, sidecars, known>> /\ job.op = "destroy" /\ b \notin known
      BY <1>3, <1>16 DEF DeleteContainer, HelperAt, Lethal
    <2>2. CASE b \in Allowlisted /\ Step("sidecar_off")
      <3>1. JobStands' /\ job'.box = b /\ job'.step = "sidecar_off"
        BY <1>6, <1>8, <2>1, <2>2 DEF Lethal, Steps
      <3> QED BY <1>2, <1>3, <1>4, <2>1, <3>1 DEF NetStands
    <2>3. CASE b \notin Allowlisted /\ Step("workspace_off")
      <3>1. JobStands'
        BY <1>6, <1>8, <2>1, <2>3 DEF Lethal, Steps
      <3> QED BY <1>2, <1>3, <2>1, <2>3, <3>1 DEF NetStands
    <2>4. CASE Reply("error") /\ Fault(b, "delete")
      <3>1. JobStands' /\ "delete" \in blame'[b]
        BY <1>5, <1>7, <2>4
      <3> QED BY <1>2, <1>3, <2>1, <3>1 DEF NetStands, NetCauses
    <2> QED BY <1>2, <1>16, <2>2, <2>3, <2>4 DEF DeleteContainer
  <1>17. CASE RemoveWorkspace
    <2>1. job.step = "workspace_off" /\ UNCHANGED <<networks, sidecars, containers, known>>
      BY <1>17 DEF RemoveWorkspace, HelperAt, world
    <2>2. JobStands'
      BY <1>7, <1>17 DEF RemoveWorkspace
    <2>3. b \in networks' \cup sidecars' => b \in Allowlisted /\ blame'[b] \cap NetCauses # {}
      BY <1>2, <1>3, <1>4, <2>1 DEF NetStands
    <2> QED BY <1>2, <2>2, <2>3 DEF NetStands
  <1>18. CASE RunCommand
    <2>1. UNCHANGED <<networks, sidecars, containers>> /\ b \in known
          /\ (known' = known \/ b \notin containers)
      BY <1>2, <1>3, <1>18 DEF RunCommand, HelperAt, world
    <2>2. CASE \E kind : Reply(kind)
      <3>1. JobStands' /\ job'.box # b
        BY <1>7, <2>2
      <3> QED BY <1>2, <1>3, <1>4, <2>1, <3>1 DEF NetStands
    <2>3. CASE job.op = "write" /\ Step("blocked") /\ known' = known
      <3>1. job'.op = "write" /\ job'.box = b /\ job'.step = "blocked"
        BY <1>6, <2>3 DEF Steps
      <3>2. JobStands'
        BY <1>1, <1>2, <1>4, <2>1, <2>3, <3>1 DEF JobStands, Lethal, Steps, Operations
      <3> QED BY <1>2, <1>3, <1>4, <2>1, <2>3, <3>1, <3>2 DEF NetStands
    <2> QED BY <1>18, <2>2, <2>3 DEF RunCommand
  <1>19. MakeWorkspace \/ CreateNetwork \/ InspectRuntime \/ RunSidecar \/ RunContainer \/ RemoveSidecar
         \/ RemoveNetwork \/ DeleteContainer \/ RemoveWorkspace \/ RunCommand
    BY DEF HelperGoesOn, HelperStep
  <1> QED BY <1>9, <1>10, <1>11, <1>12, <1>13, <1>14, <1>15, <1>16, <1>17, <1>18, <1>19

-----------------------------------------------------------------------------
(* The next request.                                                       *)

\* The request l, for b, is answered at once, or taken in hand.
Taken(l, b) ==
    \/ /\ Answered(l) /\ job' = NoJob /\ known' = known
       /\ outbox' = Append(outbox, [kind |-> IF l.op = "destroy" THEN "ack" ELSE "error", for |-> l.for])
    \/ /\ ~Answered(l) /\ outbox' = outbox
       /\ job' = [op |-> l.op, box |-> b, for |-> l.for, step |-> FirstStep(l.op)]
       /\ known' = IF l.op = "destroy" THEN known \ {b} ELSE known

LEMMA NextMoves ==
  ASSUME OwnInv, BoxInv, PipesOK, HelperGoesOn, NextLine
  PROVE  \E l \in LineSpace, b \in Boxes :
           /\ HelperMoves(b) /\ job = NoJob /\ inbox # <<>> /\ Head(inbox) = l /\ inbox' = Tail(inbox)
           /\ LineStands(l) /\ b = l.box /\ Taken(l, b) /\ l.op \in Operations \cup {"torn"}
           /\ UNCHANGED <<containers, networks, sidecars, blame>>
  <1>1. /\ UNCHANGED <<call, status, entry, builtin, strays, containers, networks, sidecars, blame>>
        /\ running /\ running' /\ job.step = "idle" /\ inbox # <<>> /\ inbox' = Tail(inbox)
    BY DEF HelperGoesOn, sessionVars, NextLine, BackendAlone, NoFault, world, HelperAt
  <1>2. job = NoJob
    BY <1>1 DEF PipesOK
  <1>3. PICK l \in LineSpace : l = Head(inbox)
    BY <1>1, Takes DEF PipesOK
  <1>4. /\ 1 \in 1 .. Len(inbox) /\ inbox[1] = l
        /\ \A i \in 1 .. Len(inbox') : i + 1 \in 1 .. Len(inbox) /\ inbox'[i] = inbox[i + 1]
    BY <1>1, <1>3, Takes DEF PipesOK
  <1>5. LineStands(l) /\ l.box \in Boxes /\ l.op \in Operations \cup {"torn"}
    BY <1>4 DEF BoxInv, HelperStands, LinesStand, LineStands, Sent
  <1>6. PICK b \in Boxes : b = l.box
    BY <1>5
  <1>7. Taken(l, b)
    BY <1>2, <1>3, <1>6 DEF NextLine, Taken
  <1>8. job'.box \in {b, "none"} /\ job.box = "none"
    BY <1>2, <1>7 DEF Taken, NoJob
  <1>9. ~Clear(b)
    BY <1>4, <1>6 DEF Clear
  <1>10. \A x \in Boxes : x # b /\ Clear(x) => Clear(x)'
    BY <1>4, <1>8, BackendAssumption DEF Clear, BackendAssumption
  <1>11. \A m \in LineSpace : Sent(m)' => Sent(m)
    BY <1>4 DEF Sent
  <1>12. MapsOK' /\ Worse /\ Around(b)
    BY <1>1, <1>7 DEF Taken, Worse, Around, Same, BoxInv, MapsOK
  <1>13. HelperMoves(b)
    BY <1>1, <1>8, <1>9, <1>10, <1>11, <1>12 DEF HelperMoves
  <1> QED BY <1>1, <1>2, <1>3, <1>5, <1>6, <1>7, <1>13

LEMMA NextJob ==
  ASSUME OwnInv, BoxInv, PipesOK, NEW l \in LineSpace, NEW b \in Boxes, HelperMoves(b), LineStands(l), b = l.box,
         Taken(l, b)
  PROVE  JobStands'
  <1>1. CASE Answered(l)
    BY <1>1 DEF Taken, JobStands
  <1>2. CASE ~Answered(l)
    <2>1. l.op \in Operations /\ (l.op = "create" => b \notin known) /\ (l.op # "create" => b \in known)
      BY <1>2 DEF Answered, LineStands
    <2>2. PICK o \in Operations : o = l.op
      BY <2>1
    <2>3. Due(o, b)'
      BY <2>2, HelperAround DEF LineStands
    <2>4. job'.op = o /\ job'.box = b /\ job'.step = FirstStep(o)
          /\ known' = IF o = "destroy" THEN known \ {b} ELSE known
      BY <1>2, <2>2 DEF Taken
    <2>5. \/ o = "create" /\ FirstStep(o) = "workspace"
          \/ o = "destroy" /\ FirstStep(o) = "delete"
          \/ o \notin Lethal /\ FirstStep(o) = "command"
      BY DEF FirstStep, Lethal
    <2> QED BY <2>1, <2>2, <2>3, <2>4, <2>5 DEF JobStands, Lethal, Steps
  <1> QED BY <1>1, <1>2

LEMMA NextReads ==
  ASSUME OwnInv, BoxInv, PipesOK, NEW l \in LineSpace, NEW b \in Boxes, HelperMoves(b), LineStands(l), b = l.box,
         Taken(l, b), inbox # <<>>, Head(inbox) = l, inbox' = Tail(inbox), job = NoJob,
         UNCHANGED <<containers, blame>>, NEW d \in Calls
  PROVE  MakeStands(d)' /\ KillStands(d)'
  <1>1. UNCHANGED <<call, status, entry, strays>>
    BY DEF HelperMoves
  <1>2. CallStands(d) /\ MakeStands(d) /\ KillStands(d) /\ \A x \in Boxes : BoxStands(x)
    BY DEF BoxInv
  <1> SUFFICES ASSUME Awaiting(d) PROVE MakeStands(d)' /\ KillStands(d)'
    BY <1>1 DEF MakeStands, KillStands, Awaiting
  <1>3. PICK x \in Boxes : x = call[d].box
    BY Stands DEF Awaiting, Busy
  <1>4. strays = 0 => inbox' = <<>> /\ outbox = <<>>
    <2> SUFFICES ASSUME strays = 0 PROVE inbox' = <<>> /\ outbox = <<>>
      OBVIOUS
    <2>1. PICK m \in LineSpace : inbox = <<m>> /\ outbox = <<>>
      BY DEF OwnInv, InStep, CallAt, Awaiting, Exchange, Quiet
    <2> QED BY <2>1, One
  <1>5. PICK a \in ResponseSpace : a.kind = (IF l.op = "destroy" THEN "ack" ELSE "error") /\ a.for = l.for
                               /\ a = [kind |-> IF l.op = "destroy" THEN "ack" ELSE "error", for |-> l.for]
    <2> DEFINE r == [kind |-> IF l.op = "destroy" THEN "ack" ELSE "error", for |-> l.for]
    <2>1. r \in ResponseSpace /\ r.kind = (IF l.op = "destroy" THEN "ack" ELSE "error") /\ r.for = l.for
      BY DEF ResponseSpace, LineSpace, Replies
    <2> QED BY <2>1
  <1>6. \/ Answered(l) /\ job' = NoJob /\ known' = known /\ outbox' = Append(outbox, a)
        \/ /\ ~Answered(l) /\ outbox' = outbox /\ job'.op = l.op /\ job'.box = b
           /\ job'.step = FirstStep(l.op)
           /\ known' = IF l.op = "destroy" THEN known \ {b} ELSE known
    BY <1>5 DEF Taken
  <1>7. outbox # <<>> => outbox' # <<>>
    BY <1>6, Adds DEF PipesOK
  <1>8. MakeStands(d)'
    <2> SUFFICES ASSUME Making(d), "crossed" \notin blame[x] PROVE MakeStands(d)'
      BY <1>1, <1>3 DEF MakeStands, Making, Busy, Part
    <2>1. x \in containers => outbox # <<>> \/ blame[x] \cap {"lost", "run"} # {}
      BY <1>2, <1>3 DEF MakeStands
    <2>2. strays = 0 => /\ x \notin containers /\ x \notin known /\ l.op = "create" /\ b = x
      BY <1>2, <1>3 DEF MakeStands
    <2>3. strays = 0 => /\ ~Answered(l) /\ outbox' = <<>> /\ known' = known
                        /\ job'.op = "create" /\ job'.box = x
      BY <1>4, <1>6, <2>2 DEF Answered
    <2> QED BY <1>1, <1>3, <1>4, <1>7, <2>1, <2>2, <2>3 DEF MakeStands
  <1>9. KillStands(d)'
    <2> SUFFICES ASSUME Part(d) = "destroy", "crossed" \notin blame[x], strays = 0 PROVE KillStands(d)'
      BY <1>1, <1>3 DEF KillStands, Part
    <2>1. l.op = "destroy" /\ b = x
      BY <1>2, <1>3 DEF KillStands
    <2>2. Removal(x)
      BY <2>1 DEF LineStands, Due
    <2>3. CASE Answered(l)
      <3>1. x \notin known
        BY <2>1, <2>3 DEF Answered
      <3>2. status[x] \in {"pending", "live", "destroyed"}
        BY <1>3, Stands DEF Awaiting, Busy
      <3>3. Kept(x)
        BY <2>2, <3>2 DEF Kept, Removal
      <3>4. ~Deleting(x)
        BY DEF Deleting, NoJob
      <3>5. x \in containers => blame[x] \cap {"delete", "lost"} # {}
        BY <1>2, <3>1, <3>3, <3>4 DEF BoxStands
      <3> QED BY <1>1, <1>3, <1>4, <1>6, <2>3, <3>5 DEF KillStands
    <2>4. CASE ~Answered(l)
      <3>1. job'.op = "destroy" /\ job'.box = x /\ job'.step = "delete" /\ outbox' = <<>>
        BY <1>4, <1>6, <2>1, <2>4 DEF FirstStep
      <3> QED BY <1>1, <1>3, <1>4, <3>1 DEF KillStands
    <2> QED BY <2>3, <2>4
  <1> QED BY <1>8, <1>9

LEMMA NextLineBox ==
  ASSUME OwnInv, BoxInv, PipesOK, HelperGoesOn, NextLine
  PROVE  BoxInv'
  <1>1. PICK l \in LineSpace, b \in Boxes :
           /\ HelperMoves(b) /\ job = NoJob /\ inbox # <<>> /\ Head(inbox) = l /\ inbox' = Tail(inbox)
           /\ LineStands(l) /\ b = l.box /\ Taken(l, b) /\ l.op \in Operations \cup {"torn"}
           /\ UNCHANGED <<containers, networks, sidecars, blame>>
    BY NextMoves
  <1>2. JobStands'
    BY <1>1, NextJob
  <1>3. /\ status[b] # "unborn" /\ BoxStands(b) /\ NetStands(b) /\ UNCHANGED <<entry, status>>
        /\ Kept(b)' <=> Kept(b)
        /\ Direct(b)' <=> Direct(b)
    BY <1>1, HelperAround DEF HelperMoves
  <1>4. ~Deleting(b) /\ job.box # b
    BY <1>1, BackendAssumption DEF Deleting, NoJob, BackendAssumption
  <1>5. \/ known' = known /\ (job' = NoJob \/ (job'.box = b /\ job'.step \in {"delete", "command"}) \/ b \notin known)
        \/ /\ known' = known \ {b} /\ Deleting(b)' /\ job'.box = b /\ job'.step = "delete"
           /\ entry[b] = "none"
    <2>1. CASE Answered(l)
      BY <1>1, <2>1 DEF Taken
    <2>2. CASE ~Answered(l) /\ l.op = "destroy"
      BY <1>1, <2>2 DEF Taken, Deleting, FirstStep, LineStands, Due, Removal
    <2>3. CASE ~Answered(l) /\ l.op = "create"
      BY <1>1, <2>3 DEF Taken, Answered
    <2>4. CASE ~Answered(l) /\ l.op \notin Lethal
      BY <1>1, <2>4 DEF Taken, FirstStep, Lethal
    <2> QED BY <2>1, <2>2, <2>3, <2>4 DEF Lethal
  <1>6. BoxStands(b)'
    BY <1>1, <1>3, <1>4, <1>5 DEF BoxStands
  <1>7. NetStands(b)'
    BY <1>1, <1>3, <1>4, <1>5 DEF NetStands, NoJob
  <1>8. \A d \in Calls : MakeStands(d)' /\ KillStands(d)'
    BY <1>1, NextReads
  <1> QED BY <1>1, <1>2, <1>6, <1>7, <1>8, HelperAssembled

LEMMA HelperBox ==
  ASSUME OwnInv, BoxInv, PipesOK, HelperGoesOn
  PROVE  BoxInv'
  <1>1. CASE NextLine
    BY <1>1, NextLineBox
  <1>2. CASE ~NextLine
    <2>1. Works1(job.box) /\ HelperMoves(job.box)
      BY <1>2, WorkGoes DEF Works1
    <2>2. PICK b \in Boxes : b = job.box
      BY <2>1 DEF HelperMoves
    <2>3. BoxStands(b)' /\ \A d \in Calls : MakeStands(d)' /\ KillStands(d)'
      BY <2>1, <2>2, WorkBox, WorkReads
    <2>4. NetStands(b)' /\ JobStands'
      BY <1>2, <2>2, WorkNets
    <2>5. HelperMoves(b)
      BY <2>1, <2>2
    <2> QED BY <2>3, <2>4, <2>5, HelperAssembled
  <1> QED BY <1>1, <1>2

-----------------------------------------------------------------------------
(* The helper dies, and the server starts again.                           *)

LEMMA NoLines ==
  ASSUME inbox = <<>>, job = NoJob
  PROVE  JobStands /\ LinesStand /\ \A x \in Boxes : Clear(x)
  <1>1. Len(<<>>) = 0
    OBVIOUS
  <1>2. 1 .. Len(inbox) = {}
    BY <1>1
  <1>3. \A x \in Boxes : job.box # x
    BY BackendAssumption DEF BackendAssumption, NoJob
  <1> QED BY <1>2, <1>3 DEF JobStands, LinesStand, Sent, Clear

LEMMA Emptied ==
  ASSUME inbox' = <<>>, job' = NoJob
  PROVE  JobStands' /\ LinesStand' /\ \A x \in Boxes : Clear(x)'
  <1>1. Len(<<>>) = 0
    OBVIOUS
  <1>2. 1 .. Len(inbox') = {}
    BY <1>1
  <1>3. \A x \in Boxes : job'.box # x
    BY BackendAssumption DEF BackendAssumption, NoJob
  <1> QED BY <1>2, <1>3 DEF JobStands, LinesStand, Sent, Clear

\* A sandbox that the helper knew, or had in hand, is marked.
LEMMA Collapse ==
  ASSUME MapsOK, NEW also, Dies(also)
  PROVE  /\ ~running' /\ known' = {} /\ inbox' = <<>> /\ job' = NoJob
         /\ UNCHANGED <<networks, sidecars>>
         /\ Worse /\ blame' = [x \in Boxes |-> blame'[x]]
         /\ \A x \in Boxes :
              /\ x \in known \/ x \in also \/ x = job.box => "lost" \in blame'[x]
              /\ x \in containers' /\ x # job.box => x \in containers
              /\ x \in containers' => x \in containers \/ (x = job.box /\ job.step = "container")
              /\ x \in containers /\ x # job.box => x \in containers'
  <1>1. blame' = [x \in Boxes |-> IF x \in known \cup also \cup {job.box}
                                  THEN blame[x] \cup {"lost"} ELSE blame[x]]
    BY DEF Dies
  <1>2. Worse /\ blame' = [x \in Boxes |-> blame'[x]]
    BY <1>1 DEF Worse
  <1>3. \A x \in Boxes : x \in known \/ x \in also \/ x = job.box => "lost" \in blame'[x]
    BY <1>1
  <1>4. \A x : /\ x \in containers' /\ x # job.box => x \in containers
               /\ x \in containers' => x \in containers \/ (x = job.box /\ job.step = "container")
               /\ x \in containers /\ x # job.box => x \in containers'
    <2>1. CASE containers' = containers
      BY <2>1
    <2>2. CASE containers' = Unfinished
      BY <2>2 DEF Unfinished
    <2> QED BY <2>1, <2>2 DEF Dies
  <1> QED BY <1>2, <1>3, <1>4 DEF Dies

\* What a sandbox of the helper's job may be: no other is run by it.
LEMMA InHand ==
  ASSUME BoxInv, NEW x \in Boxes, x = job.box, job.step = "container"
  PROVE  ~Direct(x)
  <1>1. JobStands /\ job # NoJob
    BY DEF BoxInv, HelperStands, NoJob
  <1>2. PICK o : o = job.op
    OBVIOUS
  <1>3. o = "create" /\ Due(o, x)
    BY <1>1, <1>2 DEF JobStands
  <1> QED BY <1>3 DEF Due, Creation

\* What holds of a sandbox when the helper has died.
LEMMA Survivor ==
  ASSUME BoxInv, NEW also, Dies(also), builtin' = builtin, NEW x \in Boxes,
         entry'[x] \in {"none", entry[x]},
         status'[x] = status[x] \/ (status'[x] = "failed" /\ x \in also /\ status[x] = "pending"),
         Kept(x)' /\ "lost" \notin blame'[x] => Kept(x)
  PROVE  BoxStands(x)' /\ NetStands(x)' /\ (Fresh(x) => Fresh(x)')
  <1>1. MapsOK /\ BoxStands(x) /\ NetStands(x)
    BY DEF BoxInv
  <1>2. /\ known' = {} /\ inbox' = <<>> /\ job' = NoJob
        /\ UNCHANGED <<networks, sidecars>>
        /\ blame[x] \subseteq blame'[x]
        /\ x \in known \/ x \in also \/ x = job.box => "lost" \in blame'[x]
        /\ x \in containers' /\ x # job.box => x \in containers
        /\ x \in containers' => x \in containers \/ (x = job.box /\ job.step = "container")
    BY <1>1, Collapse DEF Worse
  <1>3. Direct(x)' <=> Direct(x)
    BY DEF Direct
  <1>4. Fresh(x) => Fresh(x)'
    <2>1. Clear(x)'
      BY <1>2, Emptied
    <2> QED BY <1>2, <2>1 DEF Fresh, Clear
  <1>5. ASSUME x \in containers', Kept(x)', blame'[x] \cap {"lost", "crossed"} = {}
        PROVE  entry'[x] # "helper" /\ "delete" \in blame'[x]
    <2>1. x \notin known /\ x # job.box /\ x \in containers /\ Kept(x)
          /\ blame[x] \cap {"lost", "crossed"} = {}
      BY <1>2, <1>5
    <2>2. entry[x] # "helper" /\ "delete" \in blame[x]
      BY <1>1, <2>1 DEF BoxStands, Deleting
    <2> QED BY <1>2, <2>2
  <1>6. ASSUME x \in containers', status'[x] = "destroyed"
        PROVE  ~Direct(x) /\ blame'[x] \cap {"delete", "lost", "crossed"} # {}
    <2>1. CASE x \in containers
      BY <1>1, <1>2, <1>6, <2>1 DEF BoxStands
    <2>2. CASE x \notin containers
      BY <1>2, <1>6, <2>2, InHand
    <2> QED BY <2>1, <2>2
  <1>7. ASSUME x \in containers', status'[x] = "failed"
        PROVE  blame'[x] \cap {"run", "copy", "delete", "lost", "dropped", "crossed"} # {}
    <2>1. CASE x \in containers /\ status[x] = "failed"
      BY <1>1, <1>2, <2>1 DEF BoxStands
    <2>2. CASE x \notin containers \/ status[x] # "failed"
      BY <1>2, <1>7, <2>2
    <2> QED BY <2>1, <2>2
  <1>8. BoxStands(x)'
    BY <1>1, <1>2, <1>3, <1>4, <1>5, <1>6, <1>7 DEF BoxStands
  <1>9. NetStands(x)'
    BY <1>1, <1>2 DEF NetStands, NetCauses
  <1> QED BY <1>4, <1>8, <1>9

LEMMA DiesBox ==
  ASSUME OwnInv, BoxInv, HelperDies
  PROVE  BoxInv'
  <1>1. Dies({}) /\ UNCHANGED <<call, status, entry, outbox, builtin, strays>>
    BY DEF HelperDies, BackendAlone, sessionVars
  <1>2. /\ MapsOK
        /\ \A d \in Calls : CallStands(d) /\ MakeStands(d) /\ KillStands(d)
    BY DEF BoxInv
  <1>3. /\ ~running' /\ known' = {} /\ inbox' = <<>> /\ job' = NoJob
        /\ blame' = [x \in Boxes |-> blame'[x]]
        /\ \A x \in Boxes :
              /\ blame[x] \subseteq blame'[x]
              /\ x \in known \/ x = job.box => "lost" \in blame'[x]
              /\ x \in containers' /\ x # job.box => x \in containers
    BY <1>1, <1>2, Collapse DEF Worse
  <1>4. HelperStands'
    BY <1>3, Emptied DEF HelperStands
  <1>5. MapsOK'
    BY <1>1, <1>2, <1>3 DEF MapsOK
  <1>6. \A x \in Boxes : BoxStands(x)' /\ NetStands(x)' /\ (Fresh(x) => Fresh(x)')
    <2> TAKE x \in Boxes
    <2>1. Kept(x)' <=> Kept(x)
      BY <1>1 DEF Kept, Direct, MakingOf, Making, Busy, Part
    <2> QED BY <1>1, <2>1, Survivor
  <1>7. ASSUME NEW d \in Calls PROVE CallStands(d)'
    <2> SUFFICES ASSUME Busy(d) PROVE CallStands(d)'
      BY <1>1 DEF CallStands, Busy
    <2>1. Shape(call[d]) /\ Routed(call[d])
      BY <1>2 DEF CallStands
    <2>2. PICK x \in Boxes : x = call[d].box
      BY <2>1 DEF Shape
    <2>3. (Shape(call[d]) /\ Routed(call[d]))'
      BY <1>1, <2>1 DEF Shape, Routed, Direct
    <2>4. OneMaker(d) => OneMaker(d)'
      BY <1>1 DEF OneMaker, Busy, Maker
    <2>5. Fresh(x) => Fresh(x)'
      BY <1>6
    <2> QED BY <1>1, <1>2, <2>2, <2>3, <2>4, <2>5 DEF CallStands, Maker, Making, Busy, Part, Awaiting
  <1>8. ASSUME NEW d \in Calls PROVE MakeStands(d)' /\ KillStands(d)'
    <2> SUFFICES ASSUME Awaiting(d) PROVE MakeStands(d)' /\ KillStands(d)'
      BY <1>1 DEF MakeStands, KillStands, Awaiting
    <2>1. PICK x \in Boxes : x = call[d].box
      BY Stands DEF Awaiting, Busy
    <2>2. call'[d].box = x /\ blame[x] \subseteq blame'[x]
      BY <1>1, <1>3, <2>1
    <2>3. x \in containers' => x \in containers \/ "lost" \in blame'[x]
      BY <1>3
    <2>4. MakeStands(d)'
      <3> SUFFICES ASSUME Making(d), "crossed" \notin blame'[x] PROVE MakeStands(d)'
        BY <1>1, <2>2 DEF MakeStands, Making, Busy, Part
      <3>1. "crossed" \notin blame[x]
        BY <2>2
      <3>2. x \in containers => outbox # <<>> \/ blame[x] \cap {"lost", "run"} # {}
        BY <1>2, <2>1, <3>1 DEF MakeStands
      <3>3. strays = 0 /\ outbox # <<>> /\ x \in containers =>
                 IF Head(outbox).kind = "ack" THEN x \in known \/ "lost" \in blame[x]
                 ELSE blame[x] \cap {"lost", "run"} # {}
        BY <1>2, <2>1, <3>1 DEF MakeStands
      <3>4. strays = 0 /\ outbox # <<>> /\ x \in containers' =>
                 IF Head(outbox).kind = "ack" THEN "lost" \in blame'[x]
                 ELSE blame'[x] \cap {"lost", "run"} # {}
        BY <1>3, <2>2, <2>3, <3>3
      <3>5. x \in containers' => outbox # <<>> \/ blame'[x] \cap {"lost", "run"} # {}
        BY <2>2, <2>3, <3>2
      <3> QED BY <1>1, <1>3, <2>2, <3>4, <3>5 DEF MakeStands
    <2>5. KillStands(d)'
      <3> SUFFICES ASSUME Part(d) = "destroy", "crossed" \notin blame'[x], strays = 0 PROVE KillStands(d)'
        BY <1>1, <2>2 DEF KillStands, Part
      <3>1. outbox # <<>> /\ x \in containers => blame[x] \cap {"delete", "lost"} # {}
        BY <1>2, <2>1, <2>2 DEF KillStands
      <3> QED BY <1>1, <1>3, <2>2, <2>3, <3>1 DEF KillStands
    <2> QED BY <2>4, <2>5
  <1> QED BY <1>4, <1>5, <1>6, <1>7, <1>8 DEF BoxInv

LEMMA RestartBox ==
  ASSUME OwnInv, BoxInv, AppleRestarts
  PROVE  BoxInv'
  <1>1. /\ Dies(Pending) /\ builtin' = builtin
        /\ entry' = [x \in Boxes |-> "none"]
        /\ call' = [c \in Calls |-> NoCall]
        /\ status' = [x \in Boxes |-> IF x \in Pending THEN "failed" ELSE status[x]]
    BY DEF AppleRestarts, ForgetCalls
  <1>2. MapsOK /\ \A d \in Calls : CallStands(d)
    BY DEF BoxInv
  <1>3. ~running' /\ known' = {} /\ inbox' = <<>> /\ job' = NoJob /\ blame' = [x \in Boxes |-> blame'[x]]
    BY <1>1, <1>2, Collapse
  <1>4. HelperStands'
    BY <1>3, Emptied DEF HelperStands
  <1>5. MapsOK'
    BY <1>1, <1>3 DEF MapsOK
  <1>6. \A d \in Calls : ~Busy(d)' /\ ~Awaiting(d)'
    BY <1>1 DEF Busy, Awaiting, NoCall
  <1>7. \A d \in Calls : CallStands(d)' /\ MakeStands(d)' /\ KillStands(d)'
    BY <1>6 DEF CallStands, MakeStands, KillStands
  <1>8. ASSUME NEW x \in Boxes PROVE BoxStands(x)' /\ NetStands(x)'
    <2>1. entry'[x] = "none"
      BY <1>1
    <2>2. \/ status'[x] = status[x] /\ status[x] # "pending"
          \/ status'[x] = "failed" /\ x \in Pending /\ status[x] = "pending"
      BY <1>1 DEF Pending
    <2>3. ASSUME Kept(x)' PROVE Kept(x)
      <3>1. ~Direct(x) /\ status'[x] \in {"pending", "live", "destroyed"}
        BY <1>1, <2>1, <2>3 DEF Kept, Direct
      <3>2. status[x] \in {"live", "destroyed"}
        BY <2>2, <3>1
      <3>3. \A d \in Calls : ~MakingOf(d, x)
        BY <1>2, <3>2, MakerMakes DEF MakingOf, OwnInv
      <3> QED BY <3>1, <3>2, <3>3 DEF Kept
    <2> QED BY <1>1, <2>1, <2>2, <2>3, Survivor
  <1> QED BY <1>4, <1>5, <1>7, <1>8 DEF BoxInv

-----------------------------------------------------------------------------
LEMMA InitBox == AppleInit => BoxInv
  <1> SUFFICES ASSUME AppleInit PROVE BoxInv
    OBVIOUS
  <1>1. /\ entry = [x \in Boxes |-> "none"] /\ status = [x \in Boxes |-> "unborn"]
        /\ blame = [x \in Boxes |-> {}] /\ call = [c \in Calls |-> NoCall]
        /\ containers = {} /\ networks = {} /\ sidecars = {} /\ known = {}
        /\ inbox = <<>> /\ job = NoJob
    BY DEF AppleInit, CallsInit, HelperInit
  <1>2. MapsOK
    BY <1>1 DEF MapsOK
  <1>3. HelperStands /\ \A x \in Boxes : Clear(x)
    BY <1>1, NoLines DEF HelperStands
  <1>4. \A d \in Calls : ~Busy(d) /\ ~Awaiting(d)
    BY <1>1 DEF Busy, Awaiting, NoCall
  <1>5. \A d \in Calls : CallStands(d) /\ MakeStands(d) /\ KillStands(d)
    BY <1>4 DEF CallStands, MakeStands, KillStands
  <1>6. \A x \in Boxes : BoxStands(x) /\ NetStands(x)
    BY <1>1, <1>3 DEF BoxStands, NetStands, Fresh
  <1> QED BY <1>2, <1>3, <1>5, <1>6 DEF BoxInv

LEMMA StutterBox == ASSUME BoxInv, UNCHANGED appleVars PROVE BoxInv'
  <1>1. UNCHANGED <<entry, call, status, blame, containers, networks, sidecars, known, running, inbox,
                    outbox, job, builtin, strays>>
    BY DEF appleVars, callVars, helperVars, world, pipes, sessionVars
  <1>2. MapsOK'
    BY <1>1 DEF BoxInv, MapsOK
  <1>3. \A x : /\ Direct(x)' <=> Direct(x)
               /\ \A d \in Calls : MakingOf(d, x)' <=> MakingOf(d, x)
    BY <1>1 DEF Direct, MakingOf, Making, Busy, Part
  <1>4. \A op : \A x \in Boxes : Due(op, x) => Due(op, x)'
    BY <1>1, <1>3 DEF Due, Creation, Removal, Awaiting
  <1>5. HelperStands'
    <2>1. JobStands'
      <3>1. job = NoJob \/ job.box \in Boxes
        BY DEF BoxInv, HelperStands, JobStands
      <3> QED BY <1>1, <1>4, <3>1 DEF BoxInv, HelperStands, JobStands
    <2>2. LinesStand'
      BY <1>1, <1>4 DEF BoxInv, HelperStands, LinesStand, LineStands, Sent
    <2> QED BY <1>1, <2>1, <2>2 DEF BoxInv, HelperStands
  <1>6. ASSUME NEW x \in Boxes PROVE (Fresh(x) => Fresh(x)') /\ BoxStands(x)' /\ NetStands(x)'
    <2>1. Fresh(x)' <=> Fresh(x)
      BY <1>1 DEF Fresh, Clear
    <2>2. (Kept(x)' <=> Kept(x)) /\ (Deleting(x)' <=> Deleting(x))
      BY <1>1, <1>3 DEF Kept, Deleting
    <2>3. BoxStands(x)'
      BY <1>1, <1>3, <2>1, <2>2 DEF BoxInv, BoxStands
    <2>4. NetStands(x)'
      BY <1>1 DEF BoxInv, NetStands
    <2> QED BY <2>1, <2>3, <2>4
  <1>7. ASSUME NEW d \in Calls PROVE CallStands(d)' /\ MakeStands(d)' /\ KillStands(d)'
    <2>1. CallStands(d) /\ MakeStands(d) /\ KillStands(d)
      BY DEF BoxInv
    <2>2. MakeStands(d)' /\ KillStands(d)'
      BY <1>1, <2>1 DEF MakeStands, KillStands, Making, Busy, Part, Awaiting
    <2>3. CallStands(d)'
      <3> SUFFICES ASSUME Busy(d) PROVE CallStands(d)'
        BY <1>1 DEF CallStands, Busy
      <3>1. Shape(call[d]) /\ Routed(call[d])
        BY <2>1 DEF CallStands
      <3>2. PICK x \in Boxes : x = call[d].box
        BY <3>1 DEF Shape
      <3>3. (Shape(call[d]) /\ Routed(call[d]))'
        BY <1>1, <3>1 DEF Shape, Routed, Direct
      <3>4. OneMaker(d) => OneMaker(d)'
        BY <1>1 DEF OneMaker, Busy, Maker
      <3>5. Fresh(x) => Fresh(x)'
        BY <1>6
      <3> QED BY <1>1, <2>1, <3>2, <3>3, <3>4, <3>5 DEF CallStands, Maker, Making, Busy, Part, Awaiting
    <2> QED BY <2>2, <2>3
  <1> QED BY <1>2, <1>5, <1>6, <1>7 DEF BoxInv

\* A container that goes by itself takes nothing with it that the invariant needs.
LEMMA VanishBox ==
  ASSUME BoxInv, NEW b \in Boxes, ContainerVanishes(b)
  PROVE  BoxInv'
  <1>1. /\ UNCHANGED <<entry, call, status, networks, sidecars, known, running, inbox, outbox, job,
                       builtin, strays>>
        /\ containers' = containers \ {b}
    BY DEF ContainerVanishes, HelperAlone, SessionAlone, pipes, sessionVars
  <1>2. BlameMoves(b) /\ "vanished" \in blame'[b]
    BY AppleFaults DEF ContainerVanishes, BoxInv
  <1>3. /\ blame' = [x \in Boxes |-> blame'[x]]
        /\ \A x \in Boxes : blame[x] \subseteq blame'[x]
        /\ \A x \in Boxes : x # b => blame'[x] = blame[x]
    BY <1>2 DEF BlameMoves, Worse
  <1>4. MapsOK'
    BY <1>1, <1>3 DEF BoxInv, MapsOK
  <1>5. \A x : /\ Direct(x)' <=> Direct(x)
               /\ \A d \in Calls : MakingOf(d, x)' <=> MakingOf(d, x)
    BY <1>1 DEF Direct, MakingOf, Making, Busy, Part
  <1>6. \A op : \A x \in Boxes : Due(op, x) => Due(op, x)'
    BY <1>1, <1>3, <1>5 DEF Due, Creation, Removal, Awaiting
  <1>7. HelperStands'
    <2>1. JobStands'
      <3>1. job = NoJob \/ job.box \in Boxes
        BY DEF BoxInv, HelperStands, JobStands
      <3> QED BY <1>1, <1>6, <3>1 DEF BoxInv, HelperStands, JobStands
    <2>2. LinesStand'
      BY <1>1, <1>6 DEF BoxInv, HelperStands, LinesStand, LineStands, Sent
    <2> QED BY <1>1, <2>1, <2>2 DEF BoxInv, HelperStands
  <1>8. ASSUME NEW x \in Boxes PROVE (Fresh(x) => Fresh(x)') /\ BoxStands(x)' /\ NetStands(x)'
    <2>1. Fresh(x) => Fresh(x)'
      BY <1>1 DEF Fresh, Clear
    <2>2. (Kept(x)' <=> Kept(x)) /\ (Deleting(x)' <=> Deleting(x))
      BY <1>1, <1>5 DEF Kept, Deleting
    <2>3. x \in containers' => x \in containers /\ x # b /\ blame'[x] = blame[x]
      BY <1>1, <1>3
    <2>4. BoxStands(x)'
      BY <1>1, <1>5, <2>1, <2>2, <2>3 DEF BoxInv, BoxStands
    <2>5. NetStands(x)'
      <3>1. CASE x = b
        BY <1>1, <1>2, <3>1 DEF BoxInv, NetStands, NetCauses
      <3>2. CASE x # b
        BY <1>1, <1>3, <3>2 DEF BoxInv, NetStands
      <3> QED BY <3>1, <3>2
    <2> QED BY <2>1, <2>4, <2>5
  <1>9. ASSUME NEW d \in Calls PROVE CallStands(d)' /\ MakeStands(d)' /\ KillStands(d)'
    <2>1. CallStands(d) /\ MakeStands(d) /\ KillStands(d)
      BY DEF BoxInv
    <2> SUFFICES ASSUME Busy(d) PROVE CallStands(d)' /\ MakeStands(d)' /\ KillStands(d)'
      BY <1>1 DEF CallStands, MakeStands, KillStands, Busy, Awaiting
    <2>2. Shape(call[d]) /\ Routed(call[d])
      BY <2>1 DEF CallStands
    <2>3. PICK x \in Boxes : x = call[d].box
      BY <2>2 DEF Shape
    <2>4. x \in containers' => x \in containers
      BY <1>1
    <2>5. blame[x] \subseteq blame'[x]
      BY <1>3
    <2>6. MakeStands(d)' /\ KillStands(d)'
      BY <1>1, <2>1, <2>3, <2>4, <2>5 DEF MakeStands, KillStands, Making, Busy, Part, Awaiting
    <2>7. CallStands(d)'
      <3>1. (Shape(call[d]) /\ Routed(call[d]))'
        BY <1>1, <2>2 DEF Shape, Routed, Direct
      <3>2. OneMaker(d) => OneMaker(d)'
        BY <1>1 DEF OneMaker, Busy, Maker
      <3>3. Fresh(x) => Fresh(x)'
        BY <1>8
      <3> QED BY <1>1, <2>1, <2>3, <3>1, <3>2, <3>3 DEF CallStands, Maker, Making, Busy, Part, Awaiting
    <2> QED BY <2>6, <2>7
  <1> QED BY <1>4, <1>7, <1>8, <1>9 DEF BoxInv

LEMMA StepBox == OwnInv /\ PipesOK /\ BoxInv /\ [AppleNext]_appleVars => BoxInv'
  <1> SUFFICES ASSUME OwnInv, PipesOK, BoxInv, [AppleNext]_appleVars PROVE BoxInv'
    OBVIOUS
  <1>1. ASSUME NEW c \in Calls, NEW op \in Operations, NEW b \in Boxes, Begin(c, op, b) PROVE BoxInv'
    BY <1>1, BeginBox
  <1>2. ASSUME NEW c \in Calls, CallGoesOn(c) PROVE BoxInv'
    BY <1>2, DispatchBox, CreateBox, AccessBox, FallbackBox, DestroyBox, EnsureBox, LockBox, WriteBox,
       ReadBox, ResetBox DEF CallGoesOn
  <1>3. ASSUME NEW c \in Calls, Drop(c) PROVE BoxInv'
    BY <1>3, DropBox
  <1>4. CASE HelperGoesOn
    BY <1>4, HelperBox
  <1>5. CASE HelperDies
    BY <1>5, DiesBox
  <1>6. CASE AppleRestarts
    BY <1>6, RestartBox
  <1>7. CASE UNCHANGED appleVars
    BY <1>7, StutterBox
  <1> QED BY <1>1, <1>2, <1>3, <1>4, <1>5, <1>6, <1>7, VanishBox DEF AppleNext

-----------------------------------------------------------------------------
(* What the container CLI keeps is of sandboxes that were created.         *)

WorldOK == containers \subseteq Boxes /\ networks \subseteq Boxes /\ sidecars \subseteq Boxes

\* A step adds to what the CLI keeps for one sandbox at most.
LEMMA Grows ==
  ASSUME WorldOK, NEW b \in Boxes, containers' \subseteq containers \cup {b},
         networks' \subseteq networks \cup {b}, sidecars' \subseteq sidecars \cup {b}
  PROVE  WorldOK'
  BY DEF WorldOK

LEMMA CallWorld ==
  ASSUME OwnInv, BoxInv, WorldOK, NEW c \in Calls, CallGoesOn(c) \/ Drop(c)
  PROVE  WorldOK'
  <1>1. CASE UNCHANGED world
    BY <1>1 DEF WorldOK, world
  <1>2. CASE CreateDirect(c) \/ DestroyDirect(c) \/ DestroyUnknown(c) \/ Drop(c)
    <2>1. Busy(c)
      BY <1>2 DEF CreateDirect, DestroyDirect, DestroyUnknown, Drop, DropCall, CallAt, Busy
    <2>2. PICK b \in Boxes : b = call[c].box
      BY <2>1, Stands
    <2>3. containers' \subseteq containers \cup {b}
      BY <1>2, <2>2 DEF CreateDirect, DestroyDirect, DestroyUnknown, Drop
    <2>4. networks' \subseteq networks \cup {b} /\ sidecars' \subseteq sidecars \cup {b}
      BY <1>2, <2>2 DEF CreateDirect, DestroyDirect, DestroyUnknown, Drop
    <2> QED BY <2>3, <2>4, Grows
  <1>3. CASE Dispatch(c) \/ AccessDirect(c) \/ Fallback(c) \/ Ensure(c) \/ Lock(c) \/ WriteRequest(c)
             \/ ReadReply(c) \/ ResetSession(c)
    <2>1. UNCHANGED world
      BY <1>3 DEF Dispatch, AccessDirect, Fallback, Ensure, Lock, WriteRequest, ReadReply, ResetSession
    <2> QED BY <1>1, <2>1
  <1> QED BY <1>2, <1>3 DEF CallGoesOn

LEMMA HelperWorld ==
  ASSUME BoxInv, WorldOK, HelperStep
  PROVE  WorldOK'
  <1>1. CASE NextLine
    BY <1>1 DEF NextLine, world, WorldOK
  <1>2. CASE ~NextLine
    <2>1. job.step # "idle"
      BY <1>2 DEF HelperStep, HelperAt, MakeWorkspace, CreateNetwork, InspectRuntime, RunSidecar,
                  RunContainer, RemoveSidecar, RemoveNetwork, DeleteContainer, RemoveWorkspace, RunCommand
    <2>2. PICK b \in Boxes : b = job.box
      BY <2>1 DEF BoxInv, HelperStands, JobStands, NoJob
    <2>3. containers' \subseteq containers \cup {b}
      BY <1>2, <2>2 DEF HelperStep, world, MakeWorkspace, CreateNetwork, InspectRuntime, RunSidecar,
                  RunContainer, RemoveSidecar, RemoveNetwork, DeleteContainer, RemoveWorkspace, RunCommand
    <2>4. networks' \subseteq networks \cup {b}
      BY <1>2, <2>2 DEF HelperStep, world, MakeWorkspace, CreateNetwork, InspectRuntime, RunSidecar,
                  RunContainer, RemoveSidecar, RemoveNetwork, DeleteContainer, RemoveWorkspace, RunCommand
    <2>5. sidecars' \subseteq sidecars \cup {b}
      BY <1>2, <2>2 DEF HelperStep, world, MakeWorkspace, CreateNetwork, InspectRuntime, RunSidecar,
                  RunContainer, RemoveSidecar, RemoveNetwork, DeleteContainer, RemoveWorkspace, RunCommand
    <2> QED BY <2>3, <2>4, <2>5, Grows
  <1> QED BY <1>1, <1>2

LEMMA DiesWorld ==
  ASSUME BoxInv, WorldOK, NEW also, Dies(also)
  PROVE  WorldOK'
  <1>1. UNCHANGED <<networks, sidecars>> /\ containers' \in {containers, Unfinished}
    BY DEF Dies
  <1>2. CASE job.step = "container"
    <2>1. PICK b \in Boxes : b = job.box
      BY <1>2 DEF BoxInv, HelperStands, JobStands, NoJob
    <2> QED BY <1>1, <2>1, Grows DEF Unfinished
  <1>3. CASE job.step # "container"
    BY <1>1, <1>3 DEF Unfinished, WorldOK
  <1> QED BY <1>2, <1>3

LEMMA StepWorld == OwnInv /\ BoxInv /\ WorldOK /\ [AppleNext]_appleVars => WorldOK'
  <1> SUFFICES ASSUME OwnInv, BoxInv, WorldOK, [AppleNext]_appleVars PROVE WorldOK'
    OBVIOUS
  <1>1. ASSUME NEW c \in Calls, NEW op \in Operations, NEW b \in Boxes, Begin(c, op, b) PROVE WorldOK'
    BY <1>1 DEF Begin, world, WorldOK
  <1>2. CASE HelperGoesOn
    BY <1>2, HelperWorld DEF HelperGoesOn
  <1>3. CASE HelperDies \/ AppleRestarts
    BY <1>3, DiesWorld DEF HelperDies, AppleRestarts
  <1>4. CASE UNCHANGED appleVars
    BY <1>4 DEF appleVars, helperVars, world, WorldOK
  <1>5. ASSUME NEW b \in Boxes, ContainerVanishes(b) PROVE WorldOK'
    BY <1>5 DEF ContainerVanishes, WorldOK
  <1> QED BY <1>1, <1>2, <1>3, <1>4, <1>5, CallWorld DEF AppleNext

-----------------------------------------------------------------------------
(* What the variables hold.                                                *)

AppleEntries == {"none", "direct", "helper"}
AppleStatuses == {"unborn", "pending", "live", "failed", "destroyed"}

\* Every request that nobody waits for was a fault.
SortsOK ==
    /\ entry \in [Boxes -> AppleEntries]
    /\ status \in [Boxes -> AppleStatuses]
    /\ workspaces \subseteq Boxes /\ known \subseteq Boxes
    /\ faults \in 0 .. MaxFaults /\ strays \in 0 .. faults
    /\ mutex \in Calls \cup {"none"}
    /\ builtin \in BOOLEAN /\ torn \in BOOLEAN

LEMMA CountedFaults ==
  ASSUME SortsOK, UNCHANGED faults \/ (faults < MaxFaults /\ faults' = faults + 1)
  PROVE  /\ faults' \in 0 .. MaxFaults
         /\ \A n \in 0 .. faults : n \in 0 .. faults'
         /\ faults' # faults => strays + 1 \in 0 .. faults'
  BY BackendAssumption DEF SortsOK

LEMMA EndedStatus ==
  ASSUME SortsOK, NEW c \in Calls, call[c].box \in Boxes,
         \/ \E ok \in BOOLEAN : PartDone(c, ok) \/ ReturnCall(c, ok)
         \/ \E p : Place(c, p)
  PROVE  status' \in [Boxes -> AppleStatuses]
  <1>1. status \in [Boxes -> AppleStatuses]
    BY DEF SortsOK
  <1>2. \A ok \in BOOLEAN : Told(c, ok) \in [Boxes -> AppleStatuses]
    BY <1>1 DEF Told, AppleStatuses
  <1> QED BY <1>1, <1>2 DEF PartDone, EndPart, ReturnCall, Place

\* A step of a call: what it sets, besides what it leaves alone.
LEMMA CallSorts ==
  ASSUME OwnInv, BoxInv, SortsOK, NEW c \in Calls, CallGoesOn(c)
  PROVE  SortsOK'
  <1>1. PICK b \in Boxes : b = call[c].box
    <2>1. Busy(c)
      BY DEF CallGoesOn, Dispatch, CreateDirect, AccessDirect, Fallback, DestroyDirect, DestroyUnknown,
             Ensure, Lock, WriteRequest, ReadReply, ResetSession, CallAt, Busy
    <2> QED BY <2>1, Stands
  <1>2. builtin' = builtin /\ builtin' \in BOOLEAN /\ known' = known
    BY DEF SortsOK, CallGoesOn, Dispatch, CreateDirect, AccessDirect, Fallback, DestroyDirect,
           DestroyUnknown, Ensure, Lock, WriteRequest, ReadReply, ResetSession, HelperAlone,
           SessionAlone, sessionVars
  <1>3. status' \in [Boxes -> AppleStatuses]
    <2>1. \/ \E ok \in BOOLEAN : PartDone(c, ok) \/ ReturnCall(c, ok)
          \/ \E p : Place(c, p)
      <3>1. CASE Dispatch(c) \/ CreateDirect(c) \/ DestroyDirect(c) \/ DestroyUnknown(c) \/ Ensure(c)
        BY <3>1 DEF Dispatch, CreateDirect, DestroyDirect, DestroyUnknown, Ensure
      <3>2. CASE AccessDirect(c) \/ Fallback(c)
        <4>1. (call[c].box \in containers) \in BOOLEAN
          OBVIOUS
        <4> QED BY <3>2, <4>1, ZenonT(30) DEF AccessDirect, Fallback, Overfills
      <3>3. CASE Lock(c) \/ WriteRequest(c) \/ ResetSession(c)
        BY <3>3 DEF Lock, WriteRequest, ResetSession
      <3>4. CASE ReadReply(c)
        <4>1. (Head(outbox).kind \in Expected(Part(c))) \in BOOLEAN
          OBVIOUS
        <4> QED BY <3>4, <4>1, ZenonT(30) DEF ReadReply
      <3> QED BY <3>1, <3>2, <3>3, <3>4 DEF CallGoesOn
    <2> QED BY <1>1, <2>1, EndedStatus
  <1>4. entry' \in [Boxes -> AppleEntries]
    <2>1. entry' = entry \/ \E e \in AppleEntries : entry' = [entry EXCEPT ![b] = e]
      BY <1>1 DEF AppleEntries, CallGoesOn, Dispatch, CreateDirect, AccessDirect, Fallback,
             DestroyDirect, DestroyUnknown, Ensure, Lock, WriteRequest, ReadReply, ResetSession
    <2> QED BY <2>1 DEF SortsOK
  <1>5. workspaces' \subseteq Boxes
    BY <1>1 DEF SortsOK, Own, CallGoesOn, Dispatch, CreateDirect, AccessDirect, Fallback,
           DestroyDirect, DestroyUnknown, Ensure, Lock, WriteRequest, ReadReply, ResetSession
  <1>6. UNCHANGED faults \/ (faults < MaxFaults /\ faults' = faults + 1)
    BY DEF NoFault, Fault, CallGoesOn, Dispatch, CreateDirect, AccessDirect, Fallback,
           DestroyDirect, DestroyUnknown, Ensure, Lock, WriteRequest, ReadReply, ResetSession
  <1>7. strays' \in {0, strays} /\ torn' \in BOOLEAN /\ mutex' \in {mutex, c, "none"}
    BY DEF SortsOK, CallGoesOn, Dispatch, CreateDirect, AccessDirect, Fallback,
           DestroyDirect, DestroyUnknown, Ensure, Lock, WriteRequest, ReadReply, ResetSession,
           SessionAlone, sessionVars
  <1>8. strays' \in 0 .. faults
    BY <1>7, BackendAssumption DEF SortsOK
  <1> QED BY <1>2, <1>3, <1>4, <1>5, <1>6, <1>7, <1>8, CountedFaults DEF SortsOK

\* The helper's steps, and its death.
LEMMA HelperSorts ==
  ASSUME OwnInv, BoxInv, SortsOK, HelperGoesOn \/ HelperDies \/ AppleRestarts
  PROVE  SortsOK'
  <1>1. UNCHANGED faults \/ (faults < MaxFaults /\ faults' = faults + 1)
    BY DEF HelperGoesOn, HelperDies, AppleRestarts, Dies, HelperStep, NoFault, Fault, NextLine,
           MakeWorkspace, CreateNetwork, InspectRuntime, RunSidecar, RunContainer, RemoveSidecar,
           RemoveNetwork, DeleteContainer, RemoveWorkspace, RunCommand
  <1>2. CASE AppleRestarts
    <2>1. /\ entry' = [b \in Boxes |-> "none"]
          /\ status' = [b \in Boxes |-> IF b \in Pending THEN "failed" ELSE status[b]]
          /\ known' = {} /\ mutex' = "none" /\ torn' = FALSE /\ strays' = 0
          /\ UNCHANGED <<builtin, workspaces>>
      BY <1>2 DEF AppleRestarts, ForgetCalls, Dies
    <2>2. entry' \in [Boxes -> AppleEntries] /\ status' \in [Boxes -> AppleStatuses]
      BY <2>1 DEF SortsOK, AppleEntries, AppleStatuses
    <2>3. strays' \in 0 .. faults
      BY <2>1, BackendAssumption DEF SortsOK
    <2> QED BY <1>1, <2>1, <2>2, <2>3, CountedFaults DEF SortsOK
  <1>3. CASE HelperGoesOn \/ HelperDies
    <2>1. UNCHANGED <<entry, status, builtin, mutex, torn, strays>>
      BY <1>3 DEF HelperGoesOn, HelperDies, HelperStep, BackendAlone, sessionVars, NextLine,
           MakeWorkspace, CreateNetwork, InspectRuntime, RunSidecar, RunContainer, RemoveSidecar,
           RemoveNetwork, DeleteContainer, RemoveWorkspace, RunCommand
    <2>2. workspaces' \subseteq workspaces \cup Own(job.box) /\ known' \subseteq known \cup {job.box}
      BY <1>3 DEF HelperGoesOn, HelperDies, Dies, HelperStep, NextLine,
           MakeWorkspace, CreateNetwork, InspectRuntime, RunSidecar, RunContainer, RemoveSidecar,
           RemoveNetwork, DeleteContainer, RemoveWorkspace, RunCommand
    <2>3. known' \subseteq known \/ job.box \in Boxes
      BY <1>3 DEF HelperGoesOn, HelperDies, Dies, HelperStep, HelperAt, NextLine, NoJob,
           MakeWorkspace, CreateNetwork, InspectRuntime, RunSidecar, RunContainer, RemoveSidecar,
           RemoveNetwork, DeleteContainer, RemoveWorkspace, RunCommand, BoxInv, HelperStands, JobStands
    <2>4. workspaces' \subseteq Boxes /\ known' \subseteq Boxes
      BY <2>2, <2>3, BackendAssumption DEF SortsOK, Own
    <2> QED BY <1>1, <2>1, <2>4, CountedFaults DEF SortsOK
  <1> QED BY <1>2, <1>3

LEMMA StepSorts == OwnInv /\ BoxInv /\ SortsOK /\ [AppleNext]_appleVars => SortsOK'
  <1> SUFFICES ASSUME OwnInv, BoxInv, SortsOK, [AppleNext]_appleVars PROVE SortsOK'
    OBVIOUS
  <1>1. ASSUME NEW c \in Calls, NEW op \in Operations, NEW b \in Boxes, Begin(c, op, b) PROVE SortsOK'
    <2>1. status' \in [Boxes -> AppleStatuses]
      BY <1>1 DEF Begin, BeginCall, SortsOK, AppleStatuses
    <2> QED BY <1>1, <2>1 DEF Begin, HelperAlone, SessionAlone, sessionVars, NoFault, SortsOK
  <1>2. ASSUME NEW c \in Calls, Drop(c) PROVE SortsOK'
    <2>1. status' \in [Boxes -> AppleStatuses]
      BY <1>2 DEF Drop, DropCall, SortsOK, AppleStatuses
    <2>2. faults < MaxFaults /\ faults' = faults + 1
      BY <1>2 DEF Drop, DropCall, Fault
    <2>3. faults' # faults /\ strays' \in {strays, strays + 1}
      BY <1>2, <2>2, BackendAssumption DEF Drop, SortsOK
    <2>4. strays' \in 0 .. faults' /\ faults' \in 0 .. MaxFaults
      BY <2>2, <2>3, CountedFaults DEF SortsOK
    <2> QED BY <1>2, <2>1, <2>4 DEF Drop, HelperAlone, SortsOK
  <1>3. CASE UNCHANGED appleVars
    BY <1>3 DEF appleVars, callVars, helperVars, sessionVars, SortsOK
  <1>4. ASSUME NEW b \in Boxes, ContainerVanishes(b) PROVE SortsOK'
    <2>1. faults < MaxFaults /\ faults' = faults + 1
      BY <1>4 DEF ContainerVanishes, Fault
    <2>2. strays \in 0 .. faults' /\ faults' \in 0 .. MaxFaults
      BY <2>1, CountedFaults DEF SortsOK
    <2> QED BY <1>4, <2>2 DEF ContainerVanishes, HelperAlone, SessionAlone, sessionVars, SortsOK
  <1> QED BY <1>1, <1>2, <1>3, <1>4, CallSorts, HelperSorts DEF AppleNext

-----------------------------------------------------------------------------
(* The theorems.                                                           *)

AppleInv == OwnInv /\ PipesOK /\ BoxInv /\ WorldOK

LEMMA AppleInitInv == AppleInit => AppleInv
  BY InitOwn, InitPipes, InitBox DEF AppleInv, WorldOK, AppleInit, HelperInit

LEMMA AppleNextInv == AppleInv /\ [AppleNext]_appleVars => AppleInv'
  BY StepOwn, StepPipes, StepBox, StepWorld DEF AppleInv

LEMMA AppleHolds == AppleSpec => []AppleInv
  BY AppleInitInv, AppleNextInv, PTL DEF AppleSpec

LEMMA NetworksSay == AppleInv => NoStrayNetwork
  <1> SUFFICES ASSUME AppleInv, NEW b \in networks \cup sidecars
               PROVE  \/ b \in known \/ b = job.box
                      \/ blame[b] \cap {"network", "delete", "teardown", "lost", "dropped", "vanished"} # {}
    BY DEF NoStrayNetwork
  <1>1. b \in Boxes /\ NetStands(b)
    BY DEF AppleInv, WorldOK, BoxInv
  <1> QED BY <1>1 DEF NetStands, NetCauses

\* A network or a DNS sidecar that create_sandbox set up does not outlive its sandbox,
\* whichever of its commands failed and however calls were dropped and the helper died,
\* but for the causes NoStrayNetwork lists, a container that went by itself among them: the
\* helper knows the sandbox, or is at work on it.
THEOREM AppleNetworks == AppleSpec => []NoStrayNetwork
  BY NetworksSay, AppleHolds, PTL

LEMMA EntriesSay == AppleInv => EntryIsKnown
  <1> SUFFICES ASSUME AppleInv, NEW b \in containers, entry[b] = "helper"
               PROVE  b \in known \/ blame[b] \cap {"lost", "crossed"} # {}
    BY DEF EntryIsKnown
  <1>1. b \in Boxes /\ BoxStands(b)
    BY DEF AppleInv, WorldOK, BoxInv
  <1> QED BY <1>1 DEF BoxStands, Kept

\* A container whose sandbox the backend sends to the helper is one the helper knows, unless
\* the helper died, or the create that made the entry read the response to another request.
THEOREM AppleKnows == AppleSpec => []EntryIsKnown
  BY EntriesSay, AppleHolds, PTL

LEMMA DestroyedSay == AppleInv => DestroyedIsGone
  <1> SUFFICES ASSUME AppleInv, NEW b \in containers, status[b] = "destroyed"
               PROVE  ~Direct(b) /\ blame[b] \cap {"delete", "lost", "crossed"} # {}
    BY DEF DestroyedIsGone
  <1>1. b \in Boxes /\ BoxStands(b)
    BY DEF AppleInv, WorldOK, BoxInv
  <1> QED BY <1>1 DEF BoxStands

\* A sandbox whose destroy was answered with success has no container left, unless it was
\* the helper's and the deletion failed there, or the helper died or was asked out of turn:
\* a container the backend runs itself is gone, whatever failed before.
THEOREM AppleDestroys == AppleSpec => []DestroyedIsGone
  BY DestroyedSay, AppleHolds, PTL

LEMMA FailedSay == AppleInv => FailedIsGone
  <1> SUFFICES ASSUME AppleInv, NEW b \in containers, status[b] = "failed"
               PROVE  blame[b] \cap {"run", "copy", "delete", "lost", "dropped", "crossed"} # {}
    BY DEF FailedIsGone
  <1>1. b \in Boxes /\ BoxStands(b)
    BY DEF AppleInv, WorldOK, BoxInv
  <1> QED BY <1>1 DEF BoxStands

\* A create or restore that was answered with an error leaves no container behind, but for
\* the causes FailedIsGone lists: what restore_snapshot has created it destroys again.
THEOREM AppleFails == AppleSpec => []FailedIsGone
  BY FailedSay, AppleHolds, PTL

LEMMA TypesSay == AppleInv /\ SortsOK => AppleTypeOK
  <1> SUFFICES ASSUME AppleInv, SortsOK PROVE AppleTypeOK
    OBVIOUS
  <1>1. CallsTypeOK
    <2>1. \A c \in Calls : call[c].op \in Operations \cup {"none"} /\ call[c].box \in Boxes \cup {"none"}
      BY DEF AppleInv, OwnInv, CallsOK, AppleCallOK, AppleCalls
    <2>2. /\ entry \in [Boxes -> {"none", "direct", "helper", "vm", "local"}]
          /\ status \in [Boxes -> {"unborn", "pending", "live", "failed", "destroyed"}]
      BY DEF SortsOK, AppleEntries, AppleStatuses
    <2> QED BY <2>1, <2>2 DEF SortsOK, CallsTypeOK
  <1>2. HelperTypeOK
    <2>1. \A b \in networks \cup sidecars : b \in Allowlisted
      BY DEF AppleInv, WorldOK, BoxInv, NetStands
    <2>2. job.op \in Operations \cup {"none"} /\ job.box \in Boxes \cup {"none"} /\ job.step \in Steps
      BY DEF AppleInv, BoxInv, HelperStands, JobStands, NoJob, Steps
    <2> QED BY <2>1, <2>2 DEF AppleInv, OwnInv, SessionOK, WorldOK, SortsOK, HelperTypeOK
  <1>3. strays \in 0 .. MaxFaults
    BY BackendAssumption DEF SortsOK
  <1> QED BY <1>1, <1>2, <1>3 DEF AppleInv, OwnInv, SessionOK, SortsOK, AppleTypeOK

LEMMA SortsInit == AppleInit => SortsOK
  <1> SUFFICES ASSUME AppleInit PROVE SortsOK
    OBVIOUS
  <1>1. entry \in [Boxes -> AppleEntries] /\ status \in [Boxes -> AppleStatuses]
    BY DEF AppleInit, CallsInit, AppleEntries, AppleStatuses
  <1>2. workspaces \subseteq Boxes /\ known \subseteq Boxes
    BY DEF AppleInit, CallsInit, HelperInit
  <1>3. faults \in 0 .. MaxFaults /\ strays \in 0 .. faults
    BY BackendAssumption DEF AppleInit, CallsInit
  <1>4. mutex \in Calls \cup {"none"} /\ builtin \in BOOLEAN /\ torn \in BOOLEAN
    BY DEF AppleInit
  <1> QED BY <1>1, <1>2, <1>3, <1>4 DEF SortsOK

\* Every variable of the backend and its helper keeps to its values: there is a network or
\* a sidecar only for a sandbox that has an allowlist, the job in hand is a request that a
\* call made, and the helper waits with at most one unread response for every call that was
\* dropped.
THEOREM AppleTypes == AppleSpec => []AppleTypeOK
  <1>1. AppleInit => AppleInv /\ SortsOK
    BY AppleInitInv, SortsInit
  <1>2. (AppleInv /\ SortsOK) /\ [AppleNext]_appleVars => (AppleInv /\ SortsOK)'
    BY AppleNextInv, StepSorts DEF AppleInv
  <1> QED BY <1>1, <1>2, TypesSay, PTL DEF AppleSpec

-----------------------------------------------------------------------------
(* A reply is coming.                                                      *)

JobLine == IF job.step = "idle" THEN 0 ELSE 1
Reads == IF \E c \in Calls : CallAt(c, "read") THEN 1 ELSE 0

\* While the helper lives no line gets lost: each request that was written is in its input,
\* in its hand or answered, and is that of the call that reads or of one that was dropped.
Balance == running => Len(inbox) + JobLine + Len(outbox) = strays + Reads

ComingInv == OwnInv /\ PipesOK /\ Balance

LEMMA Counts ==
  ASSUME PipesOK, SessionOK
  PROVE  /\ Len(inbox) \in Nat /\ Len(outbox) \in Nat /\ strays \in Nat
         /\ JobLine \in {0, 1} /\ Reads \in {0, 1}
  BY DEF PipesOK, SessionOK, JobLine, Reads

LEMMA LenTail ==
  ASSUME NEW S, NEW t \in Seq(S), t # <<>>
  PROVE  Len(Tail(t)) = Len(t) - 1 /\ Len(t) \in Nat
  OBVIOUS

LEMMA LenAppend ==
  ASSUME NEW S, NEW t \in Seq(S), NEW e
  PROVE  Len(Append(t, e)) = Len(t) + 1 /\ Len(t) \in Nat
  OBVIOUS

\* Of a step that leaves the pipes alone.
LEMMA BalanceKept ==
  ASSUME Balance, running' => running,
         UNCHANGED <<inbox, outbox, job, strays>>, Reads' = Reads
  PROVE  Balance'
  BY DEF Balance, JobLine

\* Of a call that is not at its read and does not get there.
LEMMA SameReads ==
  ASSUME CallsOK, NEW c \in Calls, NEW k, call' = [call EXCEPT ![c] = k],
         call[c].pc # "read", k.pc # "read"
  PROVE  Reads' = Reads
  <1>1. \A d \in Calls : call'[d] = IF d = c THEN k ELSE call[d]
    BY DEF CallsOK
  <1>2. \A d \in Calls : CallAt(d, "read")' <=> CallAt(d, "read")
    BY <1>1 DEF CallAt
  <1> QED BY <1>2 DEF Reads

LEMMA BalanceInit == AppleInit => Balance
  BY DEF AppleInit, HelperInit, Balance

LEMMA BalanceAside ==
  ASSUME ComingInv, NEW c \in Calls,
         \/ \E op \in Operations, b \in Boxes : Begin(c, op, b)
         \/ Dispatch(c) \/ CreateDirect(c) \/ AccessDirect(c) \/ Fallback(c) \/ DestroyDirect(c)
         \/ DestroyUnknown(c) \/ Lock(c)
  PROVE  Balance'
  <1>1. UNCHANGED <<running, inbox, outbox, job, strays>>
    BY DEF Begin, Dispatch, CreateDirect, AccessDirect, Fallback, DestroyDirect, DestroyUnknown,
           Lock, HelperAlone, SessionAlone, pipes, sessionVars
  <1>2. call[c].pc # "read"
    BY DEF Begin, BeginCall, Dispatch, CreateDirect, AccessDirect, Fallback, DestroyDirect,
           DestroyUnknown, Lock, CallAt
  <1>3. \E k : call' = [call EXCEPT ![c] = k] /\ k.pc # "read"
    <2>1. CASE \E op \in Operations, b \in Boxes : Begin(c, op, b)
      <3>1. PICK op \in Operations, b \in Boxes : Begin(c, op, b)
        BY <2>1
      <3> DEFINE k == [op |-> op, box |-> b, pc |-> "dispatch", todo |-> Parts(op), undo |-> FALSE]
      <3>2. call' = [call EXCEPT ![c] = k] /\ k.pc = "dispatch"
        BY <3>1 DEF Begin, BeginCall
      <3> HIDE DEF k
      <3> QED BY <3>2
    <2>2. CASE ~(\E op \in Operations, b \in Boxes : Begin(c, op, b))
      <3>1. call[c].pc # "idle"
        BY <2>2 DEF Dispatch, CreateDirect, AccessDirect, Fallback, DestroyDirect, DestroyUnknown,
               Lock, CallAt
      <3>2. (call[c].box \in containers) \in BOOLEAN
        OBVIOUS
      <3>3. \/ \E ok \in BOOLEAN : PartDone(c, ok)
            \/ ReturnCall(c, FALSE)
            \/ \E p \in ApplePlaces \ {"read"} : Place(c, p)
        <4>1. \A b : Route(c, b) \in ApplePlaces \ {"read"}
          BY DEF Route, ApplePlaces
        <4>2. CASE Dispatch(c)
          BY <4>1, <4>2 DEF Dispatch
        <4>3. CASE CreateDirect(c) \/ DestroyDirect(c) \/ DestroyUnknown(c)
          BY <4>3 DEF CreateDirect, DestroyDirect, DestroyUnknown
        <4>4. CASE AccessDirect(c) \/ Fallback(c)
          <5>1. "ensure" \in ApplePlaces \ {"read"} /\ "blocked" \in ApplePlaces \ {"read"}
            BY DEF ApplePlaces
          <5> QED BY <3>2, <4>4, <5>1, ZenonT(30) DEF AccessDirect, Fallback, Overfills
        <4>5. CASE Lock(c)
          BY <4>5 DEF Lock, ApplePlaces
        <4> QED BY <2>2, <4>2, <4>3, <4>4, <4>5
      <3>4. CASE \E ok \in BOOLEAN : PartDone(c, ok)
        BY <3>1, <3>4, PartEnds DEF ComingInv, OwnInv
      <3>5. CASE ReturnCall(c, FALSE)
        <4>1. call' = [call EXCEPT ![c] = NoCall]
          BY <3>5 DEF ReturnCall
        <4>2. NoCall.pc # "read"
          BY DEF NoCall
        <4> QED BY <4>1, <4>2
      <3>6. CASE \E p \in ApplePlaces \ {"read"} : Place(c, p)
        BY <3>1, <3>6, Places1 DEF ComingInv, OwnInv
      <3> QED BY <3>3, <3>4, <3>5, <3>6
    <2> QED BY <2>1, <2>2
  <1>4. Reads' = Reads
    BY <1>2, <1>3, SameReads DEF ComingInv, OwnInv
  <1> QED BY <1>1, <1>4, BalanceKept DEF ComingInv

\* A new helper has new pipes and nobody who reads.
LEMMA BalanceEnsure ==
  ASSUME ComingInv, NEW c \in Calls, Ensure(c)
  PROVE  Balance'
  <1>1. call[c].pc = "ensure" /\ mutex = "none" /\ mutex' = "none" /\ job' = job
    BY DEF Ensure, CallAt
  <1>2. OwnInv'
    BY EnsureOwn DEF ComingInv
  <1>3. Reads = 0 /\ Reads' = 0
    <2>1. \A d \in Calls : call[d].pc # "read"
      BY <1>1, BackendAssumption DEF ComingInv, OwnInv, MutexOK, Holding, BackendAssumption
    <2>2. \A d \in Calls : call'[d].pc # "read"
      BY <1>1, <1>2, BackendAssumption DEF OwnInv, MutexOK, Holding, BackendAssumption
    <2> QED BY <2>1, <2>2 DEF Reads, CallAt
  <1>4. CASE UNCHANGED <<running, inbox, outbox, strays>>
    BY <1>1, <1>3, <1>4, BalanceKept DEF ComingInv
  <1>5. CASE ~session /\ inbox' = <<>> /\ outbox' = <<>> /\ strays' = 0
    <2>1. job.step = "idle" /\ job'.step = "idle"
      BY <1>1, <1>5 DEF ComingInv, OwnInv, SessionOK, NoJob
    <2>2. Len(inbox') = 0 /\ Len(outbox') = 0
      BY <1>5
    <2>3. JobLine' = 0
      BY <2>1 DEF JobLine
    <2> QED BY <1>3, <1>5, <2>2, <2>3 DEF Balance
  <1> QED BY <1>4, <1>5 DEF Ensure, pipes

LEMMA BalanceWrite ==
  ASSUME ComingInv, NEW c \in Calls, WriteRequest(c)
  PROVE  Balance'
  <1>1. call[c].pc = "write" /\ running /\ UNCHANGED <<running, outbox, job, strays>>
    BY DEF WriteRequest, CallAt
  <1>2. Len(inbox') = Len(inbox) + 1 /\ JobLine' = JobLine
    BY <1>1, LenAppend DEF WriteRequest, ComingInv, PipesOK, JobLine
  <1>3. Reads = 0
    BY <1>1, HoldsAlone DEF ComingInv, Reads, CallAt, Holding
  <1>4. Reads' = 1
    <2>1. call'[c].pc = "read"
      BY DEF WriteRequest, Place, ComingInv, OwnInv, CallsOK, AppleCallOK, AppleCalls
    <2> QED BY <2>1 DEF Reads, CallAt
  <1>5. Len(inbox) + JobLine + Len(outbox) = strays + 0
    BY <1>1, <1>3 DEF ComingInv, Balance
  <1> QED BY <1>1, <1>2, <1>4, <1>5, Counts DEF ComingInv, OwnInv, Balance

LEMMA BalanceRead ==
  ASSUME ComingInv, NEW c \in Calls, ReadReply(c)
  PROVE  Balance'
  <1>1. /\ call[c].pc = "read" /\ outbox # <<>> /\ outbox' = Tail(outbox) /\ mutex' = "none"
        /\ UNCHANGED <<running, inbox, job, strays>>
    BY DEF ReadReply, CallAt
  <1>2. Len(outbox') = Len(outbox) - 1 /\ JobLine' = JobLine
    BY <1>1, LenTail DEF ComingInv, PipesOK, JobLine
  <1>3. Reads = 1
    BY <1>1 DEF Reads, CallAt
  <1>4. Reads' = 0
    <2>1. OwnInv'
      BY ReadOwn DEF ComingInv
    <2>2. \A d \in Calls : call'[d].pc # "read"
      BY <1>1, <2>1, BackendAssumption DEF OwnInv, MutexOK, Holding, BackendAssumption
    <2> QED BY <2>2 DEF Reads, CallAt
  <1>5. running => Len(inbox) + JobLine + Len(outbox) = strays + 1
    BY <1>3 DEF ComingInv, Balance
  <1> QED BY <1>1, <1>2, <1>4, <1>5, Counts DEF ComingInv, OwnInv, Balance

\* What a call has written when it is dropped is a stray line.
LEMMA BalanceDrop ==
  ASSUME ComingInv, NEW c \in Calls, Drop(c)
  PROVE  Balance'
  <1>1. /\ call' = [call EXCEPT ![c] = NoCall]
        /\ UNCHANGED <<running, inbox, outbox, job>>
        /\ strays' = IF call[c].pc = "read" THEN strays + 1 ELSE strays
    BY DEF Drop, DropCall, CallAt, HelperAlone, pipes
  <1>2. CASE call[c].pc # "read"
    <2>1. NoCall.pc # "read"
      BY DEF NoCall
    <2>2. Reads' = Reads
      BY <1>1, <1>2, <2>1, SameReads DEF ComingInv, OwnInv
    <2> QED BY <1>1, <1>2, <2>2, BalanceKept DEF ComingInv
  <1>3. CASE call[c].pc = "read"
    <2>1. Reads = 1
      BY <1>3 DEF Reads, CallAt
    <2>2. Reads' = 0
      <3>1. \A d \in Calls : d # c => call[d].pc # "read"
        BY <1>3, HoldsAlone DEF ComingInv, Holding
      <3>2. \A d \in Calls : call'[d].pc # "read"
        BY <1>1, <3>1 DEF ComingInv, OwnInv, CallsOK, NoCall
      <3> QED BY <3>2 DEF Reads, CallAt
    <2>3. JobLine' = JobLine /\ Len(inbox') = Len(inbox) /\ Len(outbox') = Len(outbox)
      BY <1>1 DEF JobLine
    <2>4. strays' = strays + 1 /\ (running => Len(inbox) + JobLine + Len(outbox) = strays + 1)
      BY <1>1, <1>3, <2>1 DEF ComingInv, Balance
    <2> QED BY <1>1, <2>2, <2>3, <2>4, Counts DEF ComingInv, OwnInv, Balance
  <1> QED BY <1>2, <1>3

\* A line that is taken is answered or in hand; a job in hand ends in an answer.
LEMMA BalanceHelper ==
  ASSUME ComingInv, HelperGoesOn
  PROVE  Balance'
  <1>1. HelperStep /\ Others
    BY DEF HelperGoesOn, sessionVars, Others, HelperStep, BackendAlone, NextLine, MakeWorkspace,
           CreateNetwork, InspectRuntime, RunSidecar, RunContainer, RemoveSidecar, RemoveNetwork,
           DeleteContainer, RemoveWorkspace, RunCommand
  <1>2. Reads' = Reads /\ strays' = strays
    BY <1>1 DEF Others, Reads, CallAt
  <1>3. CASE NextLine
    <2>1. running /\ job.step = "idle" /\ inbox # <<>> /\ inbox' = Tail(inbox) /\ JobLine = 0
      BY <1>3 DEF NextLine, HelperAt, JobLine
    <2>2. Len(inbox') = Len(inbox) - 1
      BY <2>1, LenTail DEF ComingInv, PipesOK
    <2>3. JobLine' + Len(outbox') = Len(outbox) + 1
      <3>1. CASE Answered(Head(inbox))
        <4>1. job' = job /\ \E a : outbox' = Append(outbox, a)
          BY <1>3, <3>1 DEF NextLine
        <4>2. JobLine' = 0 /\ Len(outbox') = Len(outbox) + 1
          BY <2>1, <4>1, LenAppend DEF JobLine, ComingInv, PipesOK
        <4> QED BY <4>2, Counts DEF ComingInv, OwnInv
      <3>2. CASE ~Answered(Head(inbox))
        <4>1. outbox' = outbox /\ job'.step = FirstStep(Head(inbox).op)
          BY <1>3, <3>2 DEF NextLine
        <4>2. JobLine' = 1
          BY <4>1 DEF FirstStep, JobLine
        <4> QED BY <4>1, <4>2, Counts DEF ComingInv, OwnInv
      <3> QED BY <3>1, <3>2
    <2>4. Len(inbox) + 0 + Len(outbox) = strays + Reads
      BY <2>1 DEF ComingInv, Balance
    <2>5. JobLine' \in {0, 1} /\ Len(outbox') \in Nat
      BY <2>3, Counts, StepPipes DEF ComingInv, JobLine, PipesOK, OwnInv
    <2> QED BY <1>2, <2>2, <2>3, <2>4, <2>5, Counts DEF ComingInv, OwnInv, Balance
  <1>4. CASE ~NextLine
    <2>1. /\ running /\ inbox' = inbox /\ job.step # "idle" /\ JobLine = 1
          /\ \/ \E s \in Steps \ {"idle"} : Step(s)
             \/ \E kind \in Replies : Reply(kind)
      BY <1>1, <1>4, Working DEF ComingInv, JobLine
    <2>2. JobLine' + Len(outbox') = Len(outbox) + 1
      <3>1. CASE \E s \in Steps \ {"idle"} : Step(s)
        <4>1. outbox' = outbox /\ job'.step # "idle"
          BY <2>1, <3>1 DEF Step, ComingInv, PipesOK, JobSpace, NoJob
        <4> QED BY <4>1, Counts DEF JobLine, ComingInv, OwnInv
      <3>2. CASE \E kind \in Replies : Reply(kind)
        <4>1. job' = NoJob /\ \E a : outbox' = Append(outbox, a)
          BY <3>2 DEF Reply
        <4>2. JobLine' = 0 /\ Len(outbox') = Len(outbox) + 1
          BY <4>1, LenAppend DEF JobLine, NoJob, ComingInv, PipesOK
        <4> QED BY <4>2, Counts DEF ComingInv, OwnInv
      <3> QED BY <2>1, <3>1, <3>2
    <2>3. Len(inbox) + 1 + Len(outbox) = strays + Reads
      BY <2>1 DEF ComingInv, Balance
    <2>4. JobLine' \in {0, 1}
      BY DEF JobLine
    <2> QED BY <1>2, <2>1, <2>2, <2>3, <2>4, Counts DEF ComingInv, OwnInv, Balance
  <1> QED BY <1>3, <1>4

LEMMA ComingStep == ComingInv /\ [AppleNext]_appleVars => ComingInv'
  <1> SUFFICES ASSUME ComingInv, [AppleNext]_appleVars PROVE Balance'
    BY StepOwn, StepPipes DEF ComingInv
  <1>1. CASE HelperDies \/ AppleRestarts
    BY <1>1 DEF HelperDies, AppleRestarts, Dies, Balance
  <1>2. ASSUME NEW c \in Calls, ResetSession(c) PROVE Balance'
    BY <1>2 DEF ResetSession, HelperAlone, Balance
  <1>3. CASE UNCHANGED appleVars
    <2>1. Reads' = Reads /\ UNCHANGED <<running, inbox, outbox, job, strays>>
      BY <1>3 DEF appleVars, callVars, helperVars, pipes, sessionVars, Reads, CallAt
    <2> QED BY <2>1, BalanceKept DEF ComingInv
  <1>4. ASSUME NEW c \in Calls, NEW op \in Operations, NEW b \in Boxes, Begin(c, op, b)
        PROVE  Balance'
    BY <1>4, BalanceAside
  <1>5. ASSUME NEW c \in Calls, CallGoesOn(c) PROVE Balance'
    BY <1>2, <1>5, BalanceAside, BalanceEnsure, BalanceWrite, BalanceRead DEF CallGoesOn
  <1>6. ASSUME NEW c \in Calls, Drop(c) PROVE Balance'
    BY <1>6, BalanceDrop
  <1>7. ASSUME NEW b \in Boxes, ContainerVanishes(b) PROVE Balance'
    <2>1. Reads' = Reads /\ UNCHANGED <<running, inbox, outbox, job, strays>>
      BY <1>7 DEF ContainerVanishes, HelperAlone, SessionAlone, pipes, sessionVars, Reads, CallAt
    <2> QED BY <2>1, BalanceKept DEF ComingInv
  <1> QED BY <1>1, <1>3, <1>4, <1>5, <1>6, <1>7, BalanceHelper DEF AppleNext

LEMMA ComingSays == ComingInv /\ SortsOK => ReplyIsComing
  <1> SUFFICES ASSUME ComingInv, SortsOK PROVE ReplyIsComing
    OBVIOUS
  <1>1. ASSUME mutex # "none" PROVE CallAt(mutex, "write") \/ CallAt(mutex, "read")
    <2>1. mutex \in Calls
      BY <1>1 DEF SortsOK
    <2> QED BY <2>1 DEF ComingInv, OwnInv, MutexOK, Holding, CallAt
  <1>2. ASSUME NEW c \in Calls, CallAt(c, "read"), running,
               inbox = <<>>, job = NoJob, outbox = <<>>
        PROVE  FALSE
    <2>1. Len(inbox) = 0 /\ JobLine = 0 /\ Len(outbox) = 0 /\ Reads = 1
      BY <1>2 DEF JobLine, NoJob, Reads
    <2>2. strays \in Nat /\ 0 = strays + 1
      BY <1>2, <2>1 DEF ComingInv, OwnInv, SessionOK, Balance
    <2> QED BY <2>2
  <1> QED BY <1>1, <1>2 DEF ReplyIsComing

\* No call is left waiting at the session, whatever was torn, dropped or died before: the
\* mutex is never kept by a call that has gone, and as long as the helper lives one that
\* reads has a line in the input, in hand or in the output (helper_request, run_loop).
THEOREM AppleReplyComes == AppleSpec => []ReplyIsComing
  <1>1. AppleInit => ComingInv /\ AppleInv /\ SortsOK
    BY AppleInitInv, SortsInit, BalanceInit DEF ComingInv, AppleInv
  <1>2. (ComingInv /\ AppleInv /\ SortsOK) /\ [AppleNext]_appleVars
        => (ComingInv /\ AppleInv /\ SortsOK)'
    BY ComingStep, AppleNextInv, StepSorts DEF AppleInv
  <1> QED BY <1>1, <1>2, ComingSays, PTL DEF AppleSpec
=============================================================================
