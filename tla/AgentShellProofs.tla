--------------------------- MODULE AgentShellProofs --------------------------
(***************************************************************************)
(* Proofs about AgentShell for every size of the channel and the pipes and *)
(* any number of chunks: the exit code comes after all output.  What is    *)
(* written to an output is at any time with the client, in the channel,    *)
(* with the output's task or in its pipe, and that is counted.  The        *)
(* channel, the pipes and the stream to the service keep their bounds.     *)
(***************************************************************************)
EXTENDS AgentShell, FiniteSetTheorems, FunctionTheorems, TLAPS

Ends == {"exit", "status"}
Events == Streams \cup {"error"} \cup Ends

Occurs(q, e) == {i \in 1 .. Len(q) : q[i] = e}
Count(q, e) == Cardinality(Occurs(q, e))
Held(s) == IF reader[s] = "holds" THEN 1 ELSE 0

ShellShapes ==
    /\ user \in {"none", "on", "closed", "left", "ended"}
    /\ feeder \in {"none", "opening", "listens", "writes", "waits", "exit", "over"}
    /\ child \in {"none", "running", "exited"} \cup Streams
    /\ holder \in BOOLEAN
    /\ reader \in [Streams -> {"none", "reads", "holds", "done"}]
    /\ written \in [Streams -> Nat] /\ pipe \in [Streams -> Nat]
    /\ channel \in Seq(Events)
    /\ seen \in [chunks : [Streams -> Nat], end : {"none"} \cup Ends]

\* A service that has not begun has no shell and no tasks of its outputs.
Unborn ==
    /\ child = "none" /\ ~holder
    /\ \A s \in Streams : reader[s] = "none" /\ written[s] = 0

\* One that has ended, or is about to, has nobody who writes or sends output.
Silent ==
    /\ child \in {"none", "exited"}
    /\ \A s \in Streams : reader[s] \in {"none", "done"}

PhasesOK ==
    /\ user = "none" <=> feeder = "none"
    /\ feeder \in {"none", "opening"} => Unborn
    /\ feeder \in {"exit", "over"} => Silent
    /\ child = "none" => Unborn
    /\ child # "none" => \A s \in Streams : reader[s] # "none"
    /\ \A s \in Streams : reader[s] \in {"none", "done"} => pipe[s] = 0

\* What ends the call is the last event and sent once.
EndsOK ==
    /\ \A i \in 1 .. Len(channel) : channel[i] \in Ends => i = Len(channel) /\ feeder = "over"
    /\ user \in {"left", "ended"} => channel = <<>>
    /\ seen.end # "none" => feeder = "over"
    /\ user = "ended" <=> seen.end # "none"

Conserved ==
    user # "left" => \A s \in Streams :
                        written[s] = seen.chunks[s] + Count(channel, s) + Held(s) + pipe[s]

ShellInv == ShellShapes /\ PhasesOK /\ EndsOK /\ Conserved

-----------------------------------------------------------------------------
(* Counting events.                                                        *)

LEMMA Finite ==
  ASSUME NEW S, NEW q \in Seq(S), NEW e
  PROVE  IsFiniteSet(Occurs(q, e)) /\ Count(q, e) \in Nat
  <1>1. Len(q) \in Nat /\ 1 \in Int /\ Len(q) \in Int
    OBVIOUS
  <1>2. IsFiniteSet(1 .. Len(q))
    BY <1>1, FS_Interval
  <1>3. Occurs(q, e) \in SUBSET (1 .. Len(q))
    BY DEF Occurs
  <1>4. IsFiniteSet(Occurs(q, e))
    BY <1>2, <1>3, FS_Subset
  <1> QED BY <1>4, FS_CardinalityType DEF Count

LEMMA CountNone == \A e : Count(<<>>, e) = 0
  <1>1. \A e : Occurs(<<>>, e) = {}
    BY DEF Occurs
  <1> QED BY <1>1, FS_EmptySet DEF Count

LEMMA CountPut ==
  ASSUME NEW S, NEW q \in Seq(S), NEW x \in S, NEW e
  PROVE  Count(Append(q, x), e) = Count(q, e) + IF x = e THEN 1 ELSE 0
  <1> DEFINE n == Len(q)
             r == Append(q, x)
  <1>1. n \in Nat /\ Len(r) = n + 1 /\ r[n + 1] = x /\ \A i \in 1 .. n : r[i] = q[i]
    OBVIOUS
  <1>2. IsFiniteSet(Occurs(q, e)) /\ Count(q, e) \in Nat
    BY Finite
  <1>3. n + 1 \notin Occurs(q, e)
    BY <1>1 DEF Occurs
  <1>4. CASE x = e
    <2>1. Occurs(r, e) = Occurs(q, e) \cup {n + 1}
      BY <1>1, <1>4 DEF Occurs
    <2>2. Cardinality(Occurs(q, e) \cup {n + 1}) = Cardinality(Occurs(q, e)) + 1
      BY <1>2, <1>3, FS_AddElement
    <2> QED BY <1>4, <2>1, <2>2 DEF Count
  <1>5. CASE x # e
    <2>1. Occurs(r, e) = Occurs(q, e)
      BY <1>1, <1>5 DEF Occurs
    <2> QED BY <1>2, <1>5, <2>1 DEF Count
  <1> QED BY <1>4, <1>5

LEMMA CountTake ==
  ASSUME NEW S, NEW q \in Seq(S), q # <<>>, NEW e
  PROVE  Count(q, e) = Count(Tail(q), e) + IF Head(q) = e THEN 1 ELSE 0
  <1> DEFINE n == Len(q)
             r == Tail(q)
             A == Occurs(q, e) \ {1}
             B == Occurs(r, e)
             f == [i \in A |-> i - 1]
  <1>1. /\ n \in Nat \ {0} /\ Len(r) = n - 1 /\ Head(q) = q[1] /\ r \in Seq(S)
        /\ \A i \in 1 .. n - 1 : r[i] = q[i + 1]
    OBVIOUS
  <1>2. A = {i \in 2 .. n : q[i] = e}
    BY <1>1 DEF Occurs
  <1>3. B = {i \in 1 .. n - 1 : q[i + 1] = e}
    BY <1>1 DEF Occurs
  <1>4. IsFiniteSet(Occurs(q, e)) /\ Count(q, e) \in Nat /\ Count(r, e) \in Nat
    BY <1>1, Finite
  <1>5. IsFiniteSet(A)
        /\ Cardinality(A) = IF 1 \in Occurs(q, e) THEN Count(q, e) - 1 ELSE Count(q, e)
    BY <1>4, FS_RemoveElement DEF Count
  <1>6. ExistsBijection(A, B)
    <2>1. \A i \in A : i \in Int /\ i - 1 \in B
      BY <1>1, <1>2, <1>3
    <2>2. f \in [A -> B]
      BY <2>1
    <2>3. \A i, j \in A : f[i] = f[j] => i = j
      BY <2>1
    <2>4. \A j \in B : \E i \in A : f[i] = j
      <3> SUFFICES ASSUME NEW j \in B PROVE \E i \in A : f[i] = j
        OBVIOUS
      <3>1. j + 1 \in A /\ (j + 1) - 1 = j
        BY <1>1, <1>2, <1>3
      <3> QED BY <3>1
    <2> HIDE DEF f, A, B
    <2>5. f \in Bijection(A, B)
      BY <2>2, <2>3, <2>4, Fun_IsBij
    <2> QED BY <2>5, Fun_ExistsBij
  <1>7. Cardinality(B) = Cardinality(A)
    <2> HIDE DEF A, B
    <2> QED BY <1>5, <1>6, FS_Bijection
  <1>8. 1 \in Occurs(q, e) <=> Head(q) = e
    BY <1>1 DEF Occurs
  <1> QED BY <1>4, <1>5, <1>7, <1>8 DEF Count

-----------------------------------------------------------------------------
LEMMA InitShell == ShellInit => ShellInv
  <1> SUFFICES ASSUME ShellInit PROVE ShellInv
    OBVIOUS
  <1> USE DEF ShellInit, Nothing
  <1>1. ShellShapes
    <2>1. reader \in [Streams -> {"none", "reads", "holds", "done"}]
          /\ written \in [Streams -> Nat] /\ pipe \in [Streams -> Nat]
      OBVIOUS
    <2>2. seen \in [chunks : [Streams -> Nat], end : {"none"} \cup Ends]
      OBVIOUS
    <2>3. channel \in Seq(Events)
      OBVIOUS
    <2> QED BY <2>1, <2>2, <2>3 DEF ShellShapes
  <1>2. PhasesOK /\ EndsOK
    BY DEF PhasesOK, EndsOK, Unborn, Streams
  <1>3. Conserved
    BY CountNone DEF Conserved, Held, Streams
  <1> QED BY <1>1, <1>2, <1>3 DEF ShellInv

\* What no message on the channel changes.
Flow == <<written, seen, channel, reader, pipe>>

\* A step of the user, the child or the feeder that moves no output.
LEMMA Still ==
  ASSUME ShellInv, UNCHANGED Flow, ShellShapes', PhasesOK',
         user' # user => {user, user'} \cap {"left", "ended"} = {},
         feeder = "over" => feeder' = "over"
  PROVE  ShellInv'
  <1> USE DEF ShellInv, Flow
  <1>1. EndsOK'
    BY DEF EndsOK
  <1>2. Conserved'
    BY DEF Conserved, Held, Count, Occurs
  <1> QED BY <1>1, <1>2

\* An event that is sent before the end.
LEMMA Sending ==
  ASSUME ShellInv, NEW e \in Events, feeder # "over", Send(e)
  PROVE  /\ channel' \in Seq(Events)
         /\ Gone => channel' = channel
         /\ \A s \in Streams :
               Count(channel', s) = Count(channel, s) + IF ~Gone /\ e = s THEN 1 ELSE 0
         /\ \A i \in 1 .. Len(channel') : channel'[i] \in Ends => i = Len(channel') /\ e \in Ends
  <1> USE DEF ShellInv
  <1>1. channel \in Seq(Events) /\ \A i \in 1 .. Len(channel) : channel[i] \notin Ends
    BY DEF ShellShapes, EndsOK
  <1>2. \A s : Count(channel, s) \in Nat
    BY <1>1, Finite
  <1>3. CASE Gone
    BY <1>1, <1>2, <1>3 DEF Send
  <1>4. CASE ~Gone
    <2>1. channel' = Append(channel, e)
      BY <1>4 DEF Send
    <2>2. \A s : Count(channel', s) = Count(channel, s) + IF e = s THEN 1 ELSE 0
      BY <1>1, <2>1, CountPut
    <2>3. /\ channel' \in Seq(Events) /\ Len(channel') = Len(channel) + 1 /\ Len(channel) \in Nat
          /\ channel'[Len(channel) + 1] = e
          /\ \A i \in 1 .. Len(channel) : channel'[i] = channel[i]
      BY <1>1, <2>1
    <2> QED BY <1>1, <1>4, <2>2, <2>3
  <1> QED BY <1>3, <1>4

-----------------------------------------------------------------------------
(* The client.                                                             *)

LEMMA OpenStep ==
  ASSUME ShellInv, OpenShell
  PROVE  ShellInv'
  <1>1. ShellShapes'
    BY DEF ShellInv, OpenShell, ShellShapes
  <1>2. PhasesOK'
    BY DEF ShellInv, OpenShell, PhasesOK, Unborn, Silent
  <1> QED BY <1>1, <1>2, Still DEF OpenShell, Flow, ShellInv, PhasesOK

LEMMA UserStep ==
  ASSUME ShellInv, UserTypes \/ UserCloses
  PROVE  ShellInv'
  <1>1. UNCHANGED <<service, child, holder, Flow>> /\ user' \in {user, "closed"} /\ user \in {"on"}
    BY DEF UserTypes, UserCloses, Flow, service
  <1>2. ShellShapes'
    BY <1>1 DEF ShellInv, ShellShapes, service, Flow
  <1>3. PhasesOK'
    BY <1>1 DEF ShellInv, PhasesOK, Unborn, Silent, service, Flow
  <1> QED BY <1>1, <1>2, <1>3, Still DEF service

LEMMA LeaveStep ==
  ASSUME ShellInv, UserLeaves
  PROVE  ShellInv'
  <1>1. /\ UNCHANGED <<service, child, holder, written, pipe, seen>> /\ user' = "left"
        /\ channel' = <<>> /\ user \in {"on", "closed"}
    BY DEF UserLeaves
  <1> USE DEF ShellInv, service
  <1>2. ShellShapes'
    BY <1>1 DEF ShellShapes
  <1>3. PhasesOK'
    BY <1>1 DEF PhasesOK, Unborn, Silent
  <1>4. EndsOK'
    BY <1>1 DEF EndsOK
  <1>5. Conserved'
    BY <1>1 DEF Conserved
  <1> QED BY <1>2, <1>3, <1>4, <1>5

LEMMA ClientStep ==
  ASSUME ShellInv, ClientReads
  PROVE  ShellInv'
  <1> DEFINE e == Head(channel)
  <1> USE DEF ShellInv
  <1>1. /\ UNCHANGED <<feeder, reader, child, holder, written, pipe>>
        /\ channel # <<>> /\ channel' = Tail(channel) /\ user \in {"on", "closed"}
    BY DEF ClientReads, service
  <1>2. channel \in Seq(Events)
    BY DEF ShellShapes
  <1>3. /\ e \in Events /\ e = channel[1] /\ 1 \in 1 .. Len(channel) /\ channel' \in Seq(Events)
        /\ Len(channel') = Len(channel) - 1 /\ Len(channel) \in Nat
        /\ \A i \in 1 .. Len(channel) - 1 : channel'[i] = channel[i + 1]
    BY <1>1, <1>2
  <1>4. \A s \in Streams : /\ Count(channel, s) = Count(channel', s) + IF e = s THEN 1 ELSE 0
                           /\ Count(channel', s) \in Nat
    <2> TAKE s \in Streams
    <2>1. Count(channel, s) = Count(Tail(channel), s) + IF Head(channel) = s THEN 1 ELSE 0
      BY <1>1, <1>2, CountTake
    <2>2. Count(channel', s) \in Nat
      BY <1>3, Finite
    <2> QED BY <1>1, <2>1, <2>2
  <1> HIDE DEF e
  <1>5. \A i \in 1 .. Len(channel') : channel'[i] \in Ends => i = Len(channel') /\ feeder' = "over"
    <2> SUFFICES ASSUME NEW i \in 1 .. Len(channel'), channel'[i] \in Ends
                 PROVE  i = Len(channel') /\ feeder' = "over"
      OBVIOUS
    <2>1. i \in 1 .. Len(channel) - 1 /\ i + 1 \in 1 .. Len(channel) /\ channel[i + 1] \in Ends
      BY <1>3
    <2>2. i + 1 = Len(channel) /\ feeder = "over"
      BY <2>1 DEF EndsOK
    <2>3. Len(channel') = Len(channel) - 1 /\ Len(channel) \in Nat
      BY <1>3
    <2>4. i = Len(channel')
      BY <2>1, <2>2, <2>3
    <2> QED BY <1>1, <2>2, <2>4
  <1>6. CASE e \in Streams
    <2>1. seen' = [seen EXCEPT !.chunks[e] = @ + 1] /\ user' = user
      BY <1>6 DEF ClientReads, e
    <2> DEFINE new == [seen.chunks EXCEPT ![e] = @ + 1]
    <2>a. seen \in [chunks : [Streams -> Nat], end : {"none"} \cup Ends]
      BY DEF ShellShapes
    <2>b. seen' = [seen EXCEPT !.chunks = new]
      BY <2>1, <2>a
    <2>c. /\ new \in [Streams -> Nat]
          /\ \A s \in Streams : new[s] = seen.chunks[s] + IF e = s THEN 1 ELSE 0
      BY <1>6, <2>a
    <2>2. /\ seen'.end = seen.end /\ seen' \in [chunks : [Streams -> Nat], end : {"none"} \cup Ends]
          /\ \A s \in Streams : seen'.chunks[s] = seen.chunks[s] + IF e = s THEN 1 ELSE 0
      BY <2>a, <2>b, <2>c
    <2>3. ShellShapes'
      BY <1>1, <1>3, <2>1, <2>2 DEF ShellShapes
    <2>4. PhasesOK'
      BY <1>1, <2>1 DEF PhasesOK, Unborn, Silent
    <2>5. EndsOK'
      BY <1>1, <1>5, <2>1, <2>2 DEF EndsOK
    <2>6. Conserved'
      <3> SUFFICES ASSUME NEW s \in Streams
                   PROVE  written'[s] = seen'.chunks[s] + Count(channel', s) + Held(s)' + pipe'[s]
        BY DEF Conserved
      <3>1. written[s] = seen.chunks[s] + Count(channel, s) + Held(s) + pipe[s]
        BY <1>1 DEF Conserved
      <3>2. seen.chunks[s] \in Nat /\ pipe[s] \in Nat /\ Held(s) \in Nat /\ Held(s)' = Held(s)
        BY <1>1 DEF ShellShapes, Held
      <3>3. /\ Count(channel, s) = Count(channel', s) + IF e = s THEN 1 ELSE 0
            /\ Count(channel', s) \in Nat
        BY <1>4
      <3>4. /\ seen'.chunks[s] = seen.chunks[s] + IF e = s THEN 1 ELSE 0
            /\ written'[s] = written[s] /\ pipe'[s] = pipe[s]
        BY <1>1, <2>2
      <3> QED BY <3>1, <3>2, <3>3, <3>4
    <2> QED BY <2>3, <2>4, <2>5, <2>6
  <1>7. CASE e \notin Streams
    <2>1. \A s \in Streams : Count(channel', s) = Count(channel, s)
      BY <1>4, <1>7
    <2>2. \/ e \notin Ends /\ UNCHANGED <<seen, user>>
          \/ e \in Ends /\ seen' = [seen EXCEPT !.end = e] /\ user' = "ended"
      BY <1>3, <1>7 DEF ClientReads, Events, Ends, e
    <2>3. ShellShapes' /\ seen'.chunks = seen.chunks
      BY <1>1, <1>3, <2>2 DEF ShellShapes
    <2>4. PhasesOK'
      BY <1>1, <2>2 DEF PhasesOK, Unborn, Silent
    <2>5. e \in Ends => channel' = <<>> /\ feeder = "over"
      <3> SUFFICES ASSUME e \in Ends PROVE channel' = <<>> /\ feeder = "over"
        OBVIOUS
      <3>1. Len(channel) = 1 /\ feeder = "over"
        BY <1>3 DEF EndsOK
      <3> QED BY <1>3, <3>1
    <2>6. EndsOK'
      <3>1. e \notin Ends => EndsOK'
        BY <1>1, <1>5, <2>2 DEF EndsOK
      <3>2. e \in Ends => seen'.end = e /\ e # "none"
        BY <2>2 DEF ShellShapes, Ends
      <3>3. e \in Ends => EndsOK'
        BY <1>1, <1>5, <2>2, <2>5, <3>2 DEF EndsOK
      <3> QED BY <3>1, <3>3
    <2>7. Conserved'
      BY <1>1, <2>1, <2>2, <2>3 DEF Conserved, Held
    <2> QED BY <2>3, <2>4, <2>6, <2>7
  <1> QED BY <1>6, <1>7

-----------------------------------------------------------------------------
(* The feeder.                                                             *)

\* An event of the feeder, which is no output.
LEMMA FeederSends ==
  ASSUME ShellInv, NEW e \in Events \ Streams, feeder # "over", Send(e),
         e \in Ends => feeder' = "over",
         ShellShapes', PhasesOK', UNCHANGED <<user, reader, written, pipe, seen>>
  PROVE  ShellInv'
  <1>1. /\ Gone => channel' = channel
        /\ \A i \in 1 .. Len(channel') : channel'[i] \in Ends => i = Len(channel') /\ e \in Ends
        /\ \A s \in Streams : Count(channel', s) = Count(channel, s) + 0
    BY Sending
  <1>2. \A s \in Streams : Count(channel', s) = Count(channel, s)
    <2> TAKE s \in Streams
    <2>1. Count(channel, s) \in Nat
      BY Finite DEF ShellInv, ShellShapes
    <2> QED BY <1>1, <2>1
  <1>3. EndsOK'
    BY <1>1 DEF ShellInv, EndsOK, Gone
  <1>4. Conserved'
    BY <1>2 DEF ShellInv, Conserved, Held
  <1> QED BY <1>3, <1>4 DEF ShellInv

LEMMA FailStep ==
  ASSUME ShellInv, OpenFails
  PROVE  ShellInv'
  <1>1. /\ feeder = "opening" /\ UNCHANGED <<user, reader, child, holder, written, pipe, seen>>
        /\ \/ feeder' = "over" /\ Send("status")
           \/ feeder' = "exit" /\ Send("error")
    BY DEF OpenFails
  <1>2. {"status", "error"} \subseteq Events \ Streams /\ "error" \notin Ends
    BY DEF Events, Ends, Streams
  <1>3. channel' \in Seq(Events)
    BY <1>1, <1>2, Sending
  <1>4. ShellShapes'
    BY <1>1, <1>3 DEF ShellInv, ShellShapes
  <1>5. PhasesOK'
    BY <1>1 DEF ShellInv, PhasesOK, Unborn, Silent
  <1> QED BY <1>1, <1>2, <1>4, <1>5, FeederSends

LEMMA ServiceStep ==
  ASSUME ShellInv, OpenService
  PROVE  ShellInv'
  <1>1. /\ feeder = "opening" /\ feeder' = "listens" /\ child' = "running"
        /\ reader' = [s \in Streams |-> "reads"]
        /\ UNCHANGED <<user, holder, written, pipe, channel, seen>>
    BY DEF OpenService
  <1> USE DEF ShellInv
  <1>2. ShellShapes'
    BY <1>1 DEF ShellShapes
  <1>3. PhasesOK'
    BY <1>1 DEF PhasesOK, Unborn, Silent, ShellShapes
  <1>4. EndsOK'
    BY <1>1 DEF EndsOK
  <1>5. \A s \in Streams : Held(s)' = Held(s)
    BY <1>1 DEF PhasesOK, Unborn, Held
  <1>6. Conserved'
    BY <1>1, <1>5 DEF Conserved
  <1> QED BY <1>2, <1>3, <1>4, <1>6

LEMMA ListenStep ==
  ASSUME ShellInv, Listen
  PROVE  ShellInv'
  <1>1. /\ feeder = "listens" /\ feeder' \in {"writes", "waits"}
        /\ UNCHANGED <<user, reader, child, holder, written, pipe, channel, seen>>
    BY DEF Listen, DropStdin
  <1>2. ShellShapes'
    BY <1>1 DEF ShellInv, ShellShapes
  <1>3. PhasesOK'
    BY <1>1 DEF ShellInv, PhasesOK, Unborn, Silent
  <1> QED BY <1>1, <1>2, <1>3, Still DEF Flow

LEMMA WriteStep ==
  ASSUME ShellInv, WriteStdin
  PROVE  ShellInv'
  <1>1. /\ feeder = "writes" /\ UNCHANGED <<user, reader, child, holder, written, pipe, seen>>
        /\ \/ feeder' = "listens" /\ channel' = channel
           \/ feeder' = "waits" /\ Send("error")
    BY DEF WriteStdin, DropStdin
  <1>2. "error" \in Events \ Streams /\ "error" \notin Ends
    BY DEF Events, Ends, Streams
  <1>3. channel' \in Seq(Events)
    BY <1>1, <1>2, Sending DEF ShellInv, ShellShapes
  <1>4. ShellShapes'
    BY <1>1, <1>3 DEF ShellInv, ShellShapes
  <1>5. PhasesOK'
    BY <1>1 DEF ShellInv, PhasesOK, Unborn, Silent
  <1>6. CASE channel' = channel
    BY <1>1, <1>4, <1>5, <1>6, Still DEF Flow
  <1>7. CASE Send("error")
    BY <1>1, <1>2, <1>4, <1>5, <1>7, FeederSends
  <1> QED BY <1>1, <1>6, <1>7

\* The joins are what makes the exit code the last event.
LEMMA JoinStep ==
  ASSUME ShellInv, Join
  PROVE  ShellInv'
  <1>1. /\ feeder = "waits" /\ child = "exited" /\ feeder' = "exit"
        /\ \A s \in Streams : reader[s] = "done"
        /\ UNCHANGED <<user, reader, child, holder, written, pipe, channel, seen>>
    BY DEF Join
  <1>2. ShellShapes'
    BY <1>1 DEF ShellInv, ShellShapes
  <1>3. PhasesOK'
    BY <1>1 DEF ShellInv, PhasesOK, Unborn, Silent
  <1> QED BY <1>1, <1>2, <1>3, Still DEF Flow

LEMMA ExitStep ==
  ASSUME ShellInv, SendExit
  PROVE  ShellInv'
  <1>1. /\ feeder = "exit" /\ feeder' = "over" /\ Send("exit")
        /\ UNCHANGED <<user, reader, child, holder, written, pipe, seen>>
    BY DEF SendExit
  <1>2. "exit" \in Events \ Streams
    BY DEF Events, Ends, Streams
  <1>3. channel' \in Seq(Events)
    BY <1>1, <1>2, Sending
  <1>4. ShellShapes'
    BY <1>1, <1>3 DEF ShellInv, ShellShapes
  <1>5. PhasesOK'
    BY <1>1 DEF ShellInv, PhasesOK, Unborn, Silent
  <1> QED BY <1>1, <1>2, <1>4, <1>5, FeederSends

-----------------------------------------------------------------------------
(* The tasks of the outputs.                                               *)

LEMMA ReadStep ==
  ASSUME ShellInv, NEW s \in Streams, ReadOutput(s)
  PROVE  ShellInv'
  <1>1. /\ reader[s] = "reads" /\ UNCHANGED <<user, feeder, child, holder, written, channel, seen>>
        /\ \/ /\ pipe[s] > 0 /\ pipe' = [pipe EXCEPT ![s] = @ - 1]
              /\ reader' = [reader EXCEPT ![s] = "holds"]
           \/ pipe[s] = 0 /\ reader' = [reader EXCEPT ![s] = "done"] /\ pipe' = pipe
    BY DEF ReadOutput
  <1> USE DEF ShellInv
  <1>2. reader \in [Streams -> {"none", "reads", "holds", "done"}] /\ pipe \in [Streams -> Nat]
    BY DEF ShellShapes
  <1>3. pipe' \in [Streams -> Nat]
    BY <1>1, <1>2
  <1>4. ShellShapes'
    BY <1>1, <1>2, <1>3 DEF ShellShapes
  <1>5. feeder \notin {"none", "opening", "exit", "over"} /\ child # "none"
    BY <1>1 DEF PhasesOK, Unborn, Silent
  <1>6. PhasesOK'
    BY <1>1, <1>2, <1>5 DEF PhasesOK, Silent
  <1>7. EndsOK'
    BY <1>1 DEF EndsOK
  <1>8. \A d \in Streams : Held(d)' + pipe'[d] = Held(d) + pipe[d]
    BY <1>1, <1>2 DEF Held
  <1>9. Conserved'
    <2> SUFFICES ASSUME user # "left", NEW d \in Streams
                 PROVE  written[d] = seen.chunks[d] + Count(channel, d) + Held(d)' + pipe'[d]
      BY <1>1 DEF Conserved
    <2>1. written[d] = seen.chunks[d] + Count(channel, d) + Held(d) + pipe[d]
      BY DEF Conserved
    <2>2. Count(channel, d) \in Nat /\ seen.chunks[d] \in Nat
      BY Finite DEF ShellShapes
    <2>3. Held(d) \in Nat /\ Held(d)' \in Nat /\ pipe[d] \in Nat /\ pipe'[d] \in Nat
      BY <1>2, <1>3 DEF Held
    <2>4. Held(d)' + pipe'[d] = Held(d) + pipe[d]
      BY <1>8
    <2> QED BY <2>1, <2>2, <2>3, <2>4
  <1> QED BY <1>4, <1>6, <1>7, <1>9

LEMMA SendStep ==
  ASSUME ShellInv, NEW s \in Streams, SendOutput(s)
  PROVE  ShellInv'
  <1>1. /\ reader[s] = "holds" /\ Send(s)
        /\ UNCHANGED <<user, feeder, child, holder, written, seen>>
        /\ reader' = [reader EXCEPT ![s] = IF Gone THEN "done" ELSE "reads"]
        /\ pipe' = IF Gone THEN [pipe EXCEPT ![s] = 0] ELSE pipe
    BY DEF SendOutput
  <1> USE DEF ShellInv
  <1>2. reader \in [Streams -> {"none", "reads", "holds", "done"}] /\ pipe \in [Streams -> Nat]
    BY DEF ShellShapes
  <1>3. s \in Events /\ s \notin Ends
    BY DEF Events, Ends, Streams
  <1>4. feeder \notin {"none", "opening", "exit", "over"} /\ child # "none"
    BY <1>1 DEF PhasesOK, Unborn, Silent
  <1>5. /\ channel' \in Seq(Events) /\ (Gone => channel' = channel)
        /\ \A d \in Streams :
              Count(channel', d) = Count(channel, d) + IF ~Gone /\ s = d THEN 1 ELSE 0
        /\ \A i \in 1 .. Len(channel') : channel'[i] \notin Ends
    BY <1>1, <1>3, <1>4, Sending
  <1>6. pipe' \in [Streams -> Nat]
    BY <1>1, <1>2
  <1>7. ShellShapes'
    BY <1>1, <1>2, <1>5, <1>6 DEF ShellShapes
  <1>8. PhasesOK'
    BY <1>1, <1>2, <1>4 DEF PhasesOK, Silent
  <1>9. EndsOK'
    BY <1>1, <1>5 DEF EndsOK, Gone
  <1>10. Conserved'
    <2> SUFFICES ASSUME user # "left", NEW d \in Streams
                 PROVE  written[d] = seen.chunks[d] + Count(channel', d) + Held(d)' + pipe'[d]
      BY <1>1 DEF Conserved
    <2>1. user # "ended" /\ ~Gone
      <3>1. user = "ended" => seen.end # "none"
        BY DEF EndsOK
      <3> QED BY <1>4, <3>1 DEF EndsOK, Gone
    <2>2. written[d] = seen.chunks[d] + Count(channel, d) + Held(d) + pipe[d]
      BY DEF Conserved
    <2>3. Count(channel, d) \in Nat /\ seen.chunks[d] \in Nat /\ pipe[d] \in Nat
      BY Finite DEF ShellShapes
    <2>4. Held(d) = Held(d)' + IF s = d THEN 1 ELSE 0
      BY <1>1, <1>2, <2>1 DEF Held
    <2>5. Count(channel', d) = Count(channel, d) + IF s = d THEN 1 ELSE 0
      BY <1>5, <2>1
    <2>6. Held(d)' \in Nat /\ pipe' = pipe
      BY <1>1, <2>1 DEF Held
    <2> QED BY <2>2, <2>3, <2>4, <2>5, <2>6
  <1> QED BY <1>7, <1>8, <1>9, <1>10

-----------------------------------------------------------------------------
(* The shell and what it leaves behind.                                    *)

LEMMA PutStep ==
  ASSUME ShellInv, NEW s \in Streams, ShellPuts(s) \/ HolderPuts(s)
  PROVE  ShellInv'
  <1>1. /\ reader[s] # "done" /\ written' = [written EXCEPT ![s] = @ + 1]
        /\ pipe' = [pipe EXCEPT ![s] = @ + 1]
        /\ UNCHANGED <<user, feeder, reader, holder, channel, seen>>
        /\ \/ child \in {"running", s} /\ child' = "running"
           \/ holder /\ child' = child
    BY DEF ShellPuts, HolderPuts, PutOutput, service
  <1> USE DEF ShellInv
  <1>2. written \in [Streams -> Nat] /\ pipe \in [Streams -> Nat]
    BY DEF ShellShapes
  <1>3. written' \in [Streams -> Nat] /\ pipe' \in [Streams -> Nat]
    BY <1>1, <1>2
  <1>4. ShellShapes'
    BY <1>1, <1>3 DEF ShellShapes
  <1>5. child # "none" /\ child' # "none"
    <2>1. s # "none"
      BY DEF Streams
    <2> QED BY <1>1, <2>1 DEF PhasesOK, Unborn
  <1>6. reader[s] # "none" /\ feeder \notin {"none", "opening", "exit", "over"}
    BY <1>1, <1>5 DEF PhasesOK, Unborn, Silent
  <1>7. PhasesOK'
    BY <1>1, <1>2, <1>5, <1>6 DEF PhasesOK
  <1>8. EndsOK'
    BY <1>1 DEF EndsOK
  <1>9. Conserved'
    <2> SUFFICES ASSUME user # "left", NEW d \in Streams
                 PROVE  written'[d] = seen.chunks[d] + Count(channel, d) + Held(d) + pipe'[d]
      BY <1>1 DEF Conserved, Held
    <2>1. written[d] = seen.chunks[d] + Count(channel, d) + Held(d) + pipe[d]
      BY DEF Conserved
    <2>2. Count(channel, d) \in Nat /\ seen.chunks[d] \in Nat /\ Held(d) \in Nat
      BY Finite DEF ShellShapes, Held
    <2>3. /\ written'[d] = written[d] + IF d = s THEN 1 ELSE 0
          /\ pipe'[d] = pipe[d] + IF d = s THEN 1 ELSE 0
          /\ pipe[d] \in Nat
      BY <1>1, <1>2
    <2> QED BY <2>1, <2>2, <2>3
  <1> QED BY <1>4, <1>7, <1>8, <1>9

LEMMA ChildStep ==
  ASSUME ShellInv,
         \/ ShellReads \/ ShellPipeBroken \/ ShellExits \/ HolderEnds
         \/ \E s \in Streams : ShellBlocks(s)
  PROVE  ShellInv'
  <1>1. /\ UNCHANGED <<user, feeder, Flow>>
        /\ \/ child' = child /\ (holder' => holder) /\ holder' \in BOOLEAN
           \/ /\ child \notin {"none", "exited"} /\ child' \in {"running", "exited"} \cup Streams
              /\ holder' \in BOOLEAN
    BY DEF ShellReads, ShellPipeBroken, ShellExits, HolderEnds, ShellBlocks, Flow, service, Streams, ShellInv, ShellShapes
  <1> USE DEF ShellInv, Flow
  <1>2. ShellShapes'
    BY <1>1 DEF ShellShapes
  <1>3. "none" \notin Streams
    BY DEF Streams
  <1>4. PhasesOK'
    <2>1. CASE child' = child /\ (holder' => holder)
      BY <1>1, <2>1 DEF PhasesOK, Unborn, Silent
    <2>2. CASE child \notin {"none", "exited"} /\ child' # "none"
      <3>1. feeder \notin {"none", "opening", "exit", "over"}
        BY <2>2 DEF PhasesOK, Unborn, Silent
      <3> QED BY <1>1, <2>2, <3>1 DEF PhasesOK
    <2> QED BY <1>1, <1>3, <2>1, <2>2
  <1> QED BY <1>1, <1>2, <1>4, Still

LEMMA StepShell == ShellInv /\ [ShellNext]_shellVars => ShellInv'
  <1> SUFFICES ASSUME ShellInv, [ShellNext]_shellVars PROVE ShellInv'
    OBVIOUS
  <1>1. CASE OpenShell \/ UserTypes \/ UserCloses \/ UserLeaves \/ ClientReads
    BY <1>1, OpenStep, UserStep, LeaveStep, ClientStep
  <1>2. CASE ServiceGoesOn
    BY <1>2, FailStep, ServiceStep, ListenStep, WriteStep, JoinStep, ExitStep DEF ServiceGoesOn
  <1>3. ASSUME NEW s \in Streams,
               OutputGoesOn(s) \/ ShellBlocks(s) \/ ShellPuts(s) \/ HolderPuts(s)
        PROVE  ShellInv'
    BY <1>3, ReadStep, SendStep, PutStep, ChildStep DEF OutputGoesOn
  <1>4. CASE ShellReads \/ ShellPipeBroken \/ ShellExits \/ HolderEnds
    BY <1>4, ChildStep
  <1>5. CASE UNCHANGED shellVars
    <2>1. UNCHANGED <<user, feeder, child, holder, Flow>>
      BY <1>5 DEF shellVars, service, Flow
    <2>2. ShellShapes' /\ PhasesOK'
      BY <2>1 DEF ShellInv, ShellShapes, PhasesOK, Unborn, Silent, Flow
    <2> QED BY <2>1, <2>2, Still
  <1> QED BY <1>1, <1>2, <1>3, <1>4, <1>5 DEF ShellNext

LEMMA ShellSays == ShellInv => ExitCodeIsLast
  <1> SUFFICES ASSUME ShellInv PROVE ExitCodeIsLast
    OBVIOUS
  <1> USE DEF ShellInv
  <1>1. ASSUME seen.end = "exit" PROVE channel = <<>> /\ seen.chunks = written
    <2>1. user = "ended" /\ feeder = "over" /\ channel = <<>>
      BY <1>1 DEF EndsOK
    <2>2. ASSUME NEW s \in Streams PROVE seen.chunks[s] = written[s]
      <3>1. reader[s] \in {"none", "done"} /\ pipe[s] = 0
        BY <2>1 DEF PhasesOK, Silent
      <3>2. Held(s) = 0 /\ Count(channel, s) = 0
        BY <2>1, <3>1, CountNone DEF Held
      <3>3. written[s] = seen.chunks[s] + Count(channel, s) + Held(s) + pipe[s]
        BY <2>1 DEF Conserved
      <3>4. seen.chunks[s] \in Nat
        BY DEF ShellShapes
      <3> QED BY <3>1, <3>2, <3>3, <3>4
    <2>3. seen.chunks \in [Streams -> Nat] /\ written \in [Streams -> Nat]
      BY DEF ShellShapes
    <2> QED BY <2>1, <2>2, <2>3
  <1>2. ASSUME NEW i \in DOMAIN channel, channel[i] = "exit" PROVE i = Len(channel)
    BY <1>2 DEF EndsOK, ShellShapes, Ends
  <1> QED BY <1>1, <1>2 DEF ExitCodeIsLast

\* A client that gets the exit code has got every chunk that was written to the two outputs
\* before it, and nothing is sent after it: for channels and pipes of any size and output
\* of any length, also of what a background process writes (AgentService::shell).
THEOREM ShellExitCode == ShellSpec => []ExitCodeIsLast
  BY ShellSays, InitShell, StepShell, PTL DEF ShellSpec

-----------------------------------------------------------------------------
(* What the pipes, the channel and the stream to the service hold at most. *)

\* Opening and closing a shell are a message each, besides what is typed.
Bounded ==
    /\ typed \in 0 .. MaxTyped
    /\ inbound \in Seq({"open", "stdin", "close"})
    /\ Len(inbound) <= typed + IF user = "none" THEN 0 ELSE IF user = "on" THEN 1 ELSE 2
    /\ Len(channel) <= ChannelSize
    /\ \A s \in Streams : pipe[s] <= PipeSize /\ written[s] <= MaxOutput[s]
    /\ stdin \in [chunks : 0 .. PipeSize, eof : BOOLEAN]

LEMMA InitBounded == ShellInit => Bounded
  BY ShellAssumption DEF ShellInit, Bounded, Nothing, Streams

\* An event is sent when there is room for it.
LEMMA ChannelBounded ==
  ASSUME ShellInv, Bounded, [ShellNext]_shellVars
  PROVE  Len(channel') <= ChannelSize
  <1>1. channel \in Seq(Events) /\ Len(channel) <= ChannelSize /\ ChannelSize \in Nat
    BY ShellAssumption DEF ShellInv, ShellShapes, Bounded
  <1>2. CASE channel' \in {channel, <<>>}
    BY <1>1, <1>2
  <1>3. CASE channel # <<>> /\ channel' = Tail(channel)
    BY <1>1, <1>3
  <1>4. ASSUME NEW e, CanSend, Send(e) PROVE Len(channel') <= ChannelSize
    <2>1. CASE Gone
      BY <1>1, <1>4, <2>1 DEF Send
    <2>2. CASE ~Gone
      BY <1>1, <1>4, <2>2 DEF Send, CanSend
    <2> QED BY <2>1, <2>2
  <1>5. CASE ServiceGoesOn
    BY <1>2, <1>4, <1>5 DEF ServiceGoesOn, OpenFails, OpenService, Listen, WriteStdin, Join, SendExit
  <1>6. ASSUME NEW s \in Streams, OutputGoesOn(s) \/ ShellBlocks(s) \/ ShellPuts(s) \/ HolderPuts(s)
        PROVE  Len(channel') <= ChannelSize
    BY <1>2, <1>4, <1>6 DEF OutputGoesOn, ReadOutput, SendOutput, ShellBlocks, ShellPuts, HolderPuts,
       PutOutput
  <1>7. CASE ~ServiceGoesOn /\ ~(\E s \in Streams : OutputGoesOn(s) \/ ShellBlocks(s) \/ ShellPuts(s)
                                                      \/ HolderPuts(s))
    BY <1>2, <1>3, <1>7 DEF ShellNext, OpenShell, UserTypes, UserCloses, UserLeaves, ClientReads,
       ShellReads, ShellPipeBroken, ShellExits, HolderEnds, shellVars
  <1> QED BY <1>5, <1>6, <1>7

LEMMA InboundBounded ==
  ASSUME ShellInv, Bounded, [ShellNext]_shellVars
  PROVE  /\ typed' \in 0 .. MaxTyped
         /\ inbound' \in Seq({"open", "stdin", "close"})
         /\ Len(inbound') <= typed' + IF user' = "none" THEN 0 ELSE IF user' = "on" THEN 1 ELSE 2
  <1> DEFINE Extra(u) == IF u = "none" THEN 0 ELSE IF u = "on" THEN 1 ELSE 2
  <1>1. /\ typed \in 0 .. MaxTyped /\ MaxTyped \in Nat /\ inbound \in Seq({"open", "stdin", "close"})
        /\ Len(inbound) \in Nat /\ Len(inbound) <= typed + Extra(user)
    BY ShellAssumption DEF Bounded
  <1>2. CASE OpenShell
    BY <1>1, <1>2 DEF OpenShell
  <1>3. CASE UserTypes \/ UserCloses
    <2>1. PICK m \in {"stdin", "close"} : inbound' = Append(inbound, m)
      BY <1>3 DEF UserTypes, UserCloses
    <2>2. inbound' \in Seq({"open", "stdin", "close"}) /\ Len(inbound') = Len(inbound) + 1
      BY <1>1, <2>1
    <2> QED BY <1>1, <1>3, <2>2 DEF UserTypes, UserCloses
  <1>4. CASE ~OpenShell /\ ~UserTypes /\ ~UserCloses
    <2>1. typed' = typed /\ (user' = user \/ user' \in {"left", "ended"})
      BY <1>4 DEF ShellNext, UserLeaves, ClientReads, ServiceGoesOn, OpenFails, OpenService,
         Listen, WriteStdin, Join, SendExit, OutputGoesOn, ReadOutput, SendOutput, ShellBlocks,
         ShellPuts, HolderPuts, PutOutput, ShellReads, ShellPipeBroken, ShellExits, HolderEnds, shellVars
    <2>2. inbound' \in {inbound, <<>>} \/ (inbound # <<>> /\ inbound' = Tail(inbound))
      BY <1>4 DEF ShellNext, UserLeaves, ClientReads, ServiceGoesOn, OpenFails, OpenService,
         Listen, WriteStdin, Join, SendExit, OutputGoesOn, ReadOutput, SendOutput, ShellBlocks,
         ShellPuts, HolderPuts, PutOutput, ShellReads, ShellPipeBroken, ShellExits, HolderEnds, shellVars
    <2>3. inbound' \in Seq({"open", "stdin", "close"}) /\ Len(inbound') \in Nat
          /\ Len(inbound') <= Len(inbound)
      <3> HIDE DEF Extra
      <3>1. CASE inbound' = inbound
        BY <1>1, <3>1
      <3>2. CASE inbound' = <<>>
        <4>1. <<>> \in Seq({"open", "stdin", "close"}) /\ Len(<<>>) = 0
          OBVIOUS
        <4> QED BY <1>1, <3>2, <4>1
      <3>3. CASE inbound # <<>> /\ inbound' = Tail(inbound)
        <4>1. PICK S : S = {"open", "stdin", "close"}
          OBVIOUS
        <4>2. Tail(inbound) \in Seq(S) /\ Len(Tail(inbound)) = Len(inbound) - 1
          BY <1>1, <3>3, <4>1
        <4>3. Len(Tail(inbound)) \in Nat
          BY <4>2
        <4> QED BY <1>1, <3>3, <4>1, <4>2, <4>3
      <3> QED BY <2>2, <3>1, <3>2, <3>3
    <2>4. Extra(user') \in {0, 1, 2} /\ (user' = user \/ Extra(user') = 2) /\ Extra(user) \in {0, 1, 2}
      BY <2>1
    <2> HIDE DEF Extra
    <2>5. Len(inbound') <= typed' + Extra(user')
      BY <1>1, <2>1, <2>3, <2>4
    <2> QED BY <1>1, <2>1, <2>3, <2>5 DEF Extra
  <1> QED BY <1>2, <1>3, <1>4

\* A pipe is written when there is room.
LEMMA PipesBounded ==
  ASSUME ShellInv, Bounded, [ShellNext]_shellVars
  PROVE  \A d \in Streams : pipe'[d] <= PipeSize /\ written'[d] <= MaxOutput[d]
  <1> SUFFICES ASSUME NEW d \in Streams PROVE pipe'[d] <= PipeSize /\ written'[d] <= MaxOutput[d]
    OBVIOUS
  <1>1. /\ pipe \in [Streams -> Nat] /\ written \in [Streams -> Nat]
        /\ pipe[d] \in Nat /\ pipe[d] <= PipeSize /\ PipeSize \in Nat
        /\ written[d] \in Nat /\ written[d] <= MaxOutput[d] /\ MaxOutput[d] \in Nat
    BY ShellAssumption DEF ShellInv, ShellShapes, Bounded
  <1>2. ASSUME NEW s \in Streams, PutOutput(s) PROVE pipe'[d] <= PipeSize /\ written'[d] <= MaxOutput[d]
    <2>1. /\ pipe[s] < PipeSize /\ written[s] < MaxOutput[s]
          /\ pipe' = [pipe EXCEPT ![s] = pipe[s] + 1] /\ written' = [written EXCEPT ![s] = written[s] + 1]
      BY <1>2 DEF PutOutput
    <2>2. CASE s = d
      BY <1>1, <2>1, <2>2
    <2>3. CASE s # d
      BY <1>1, <2>1, <2>3
    <2> QED BY <2>2, <2>3
  <1>3. ASSUME NEW s \in Streams, OutputGoesOn(s)
        PROVE  pipe'[d] <= PipeSize /\ written'[d] <= MaxOutput[d]
    <2>1. written' = written
      BY <1>3 DEF OutputGoesOn, ReadOutput, SendOutput
    <2>2. \/ pipe' = pipe \/ pipe' = [pipe EXCEPT ![s] = 0]
          \/ pipe' = [pipe EXCEPT ![s] = pipe[s] - 1]
      BY <1>3 DEF OutputGoesOn, ReadOutput, SendOutput
    <2>3. pipe'[d] \in {pipe[d], 0, pipe[d] - 1}
      BY <1>1, <2>2
    <2> QED BY <1>1, <2>1, <2>3
  <1>4. CASE UNCHANGED <<pipe, written>>
    BY <1>1, <1>4
  <1>5. CASE ~(\E s \in Streams : OutputGoesOn(s) \/ PutOutput(s))
    <2>1. UNCHANGED <<pipe, written>>
      BY <1>5 DEF ShellNext, OpenShell, UserTypes, UserCloses, UserLeaves, ClientReads, ServiceGoesOn,
         OpenFails, OpenService, Listen, WriteStdin, Join, SendExit, ShellBlocks, ShellPuts,
         HolderPuts, ShellReads, ShellPipeBroken, ShellExits, HolderEnds, shellVars
    <2> QED BY <1>4, <2>1
  <1> QED BY <1>2, <1>3, <1>5

LEMMA StdinBounded ==
  ASSUME ShellInv, Bounded, [ShellNext]_shellVars
  PROVE  stdin' \in [chunks : 0 .. PipeSize, eof : BOOLEAN]
  <1>1. stdin \in [chunks : 0 .. PipeSize, eof : BOOLEAN] /\ PipeSize \in Nat
    BY ShellAssumption DEF Bounded
  <1>2. CASE Listen \/ WriteStdin \/ ShellReads
    <2>1. \/ stdin' \in {stdin, [stdin EXCEPT !.eof = TRUE]}
          \/ stdin.chunks < PipeSize /\ stdin' = [stdin EXCEPT !.chunks = stdin.chunks + 1]
          \/ stdin.chunks > 0 /\ stdin' = [stdin EXCEPT !.chunks = stdin.chunks - 1]
      BY <1>2 DEF Listen, WriteStdin, ShellReads, DropStdin
    <2>2. stdin.chunks \in 0 .. PipeSize
      BY <1>1
    <2>3. stdin.chunks < PipeSize => stdin.chunks + 1 \in 0 .. PipeSize
      BY <1>1, <2>2
    <2>4. stdin.chunks > 0 => stdin.chunks - 1 \in 0 .. PipeSize
      BY <1>1, <2>2
    <2> QED BY <1>1, <2>1, <2>3, <2>4
  <1>3. CASE ~Listen /\ ~WriteStdin /\ ~ShellReads
    <2>1. stdin' = stdin
      BY <1>3 DEF ShellNext, OpenShell, UserTypes, UserCloses, UserLeaves, ClientReads, ServiceGoesOn,
         OpenFails, OpenService, Join, SendExit, OutputGoesOn, ReadOutput, SendOutput, ShellBlocks,
         ShellPuts, HolderPuts, PutOutput, ShellPipeBroken, ShellExits, HolderEnds, shellVars, service
    <2> QED BY <1>1, <2>1
  <1> QED BY <1>2, <1>3

LEMMA StepBounded == ShellInv /\ Bounded /\ [ShellNext]_shellVars => Bounded'
  BY ChannelBounded, InboundBounded, PipesBounded, StdinBounded DEF Bounded

LEMMA ShellTyped == ShellInv /\ Bounded => ShellTypeOK
  <1> SUFFICES ASSUME ShellInv, Bounded PROVE ShellTypeOK
    OBVIOUS
  <1>1. \A s \in Streams : /\ pipe[s] \in 0 .. PipeSize /\ written[s] \in 0 .. MaxOutput[s]
                           /\ reader[s] \in {"none", "reads", "holds", "done"}
    BY ShellAssumption DEF ShellInv, ShellShapes, Bounded
  <1>2. Len(inbound) <= MaxTyped + 2
    <2>1. /\ Len(inbound) \in Nat /\ typed \in 0 .. MaxTyped /\ MaxTyped \in Nat
          /\ Len(inbound) <= typed \/ Len(inbound) <= typed + 1 \/ Len(inbound) <= typed + 2
      BY ShellAssumption DEF Bounded
    <2> QED BY <2>1
  <1>3. stdin.chunks \in 0 .. PipeSize
    BY DEF Bounded
  <1> QED BY <1>1, <1>2, <1>3 DEF ShellInv, ShellShapes, Bounded, ShellTypeOK

\* However three tasks send on it, the channel never holds more events than it is made for,
\* no pipe more than its size, and the stream to the service no more messages than the user
\* has typed, with the one that opens the shell and the one that closes it (shell).
THEOREM ShellBounds == ShellSpec => []ShellTypeOK
  <1>1. ShellInit => ShellInv /\ Bounded
    BY InitShell, InitBounded
  <1>2. (ShellInv /\ Bounded) /\ [ShellNext]_shellVars => (ShellInv /\ Bounded)'
    BY StepShell, StepBounded
  <1> QED BY <1>1, <1>2, ShellTyped, PTL DEF ShellSpec
=============================================================================
