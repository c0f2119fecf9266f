---------------------------- MODULE DnsRelayProofs ---------------------------
(***************************************************************************)
(* Proofs about DnsRelay for every set of names and number of queries: an  *)
(* answer is used once, is to a name that is allowed, and is another       *)
(* query's only in the script, behind a query it has stopped waiting for.  *)
(***************************************************************************)
EXTENDS DnsRelay, TLAPS

Numbers == Nat \ {0}
ReplySpace == {NoReply, Denied} \cup [kind : {"answer"}, to : Numbers]
Serving == {"sidecar", "proxy"}

Asked == 1 .. Len(queries)
Allowed(i) == queries[i] \in AllowedNames
Buffered(a) == \E x \in 1 .. Len(buffer) : buffer[x] = a
Used(a) == \E i \in Asked : replies[i].to = a
Spent(a) == a \in upstream \/ Buffered(a) \/ Used(a)

\* Query e or one before it got no answer in time.
Behind(e) == \E j \in 1 .. e : Allowed(j) /\ replies[j] = Denied

Shapes ==
    /\ relay \in {"none", "sidecar", "proxy", "dead"}
    /\ queries \in Seq(Names \cup {Garbled})
    /\ waiting \in Seq(Numbers) /\ buffer \in Seq(Numbers) /\ replies \in Seq(ReplySpace)
    /\ Len(replies) = Len(queries)
    /\ current \in 0 .. Len(queries)
    /\ upstream \subseteq Asked
    /\ relay = "none" => queries = <<>>

\* Queries wait in the order in which they arrived.
WaitOK ==
    /\ \A x \in 1 .. Len(waiting) :
          waiting[x] \in Asked /\ waiting[x] > current /\ replies[waiting[x]] = NoReply
    /\ \A x, y \in 1 .. Len(waiting) : x < y => waiting[x] < waiting[y]

CurrentOK == current # 0 => replies[current] = NoReply /\ Allowed(current) /\ relay \in Serving

\* What has been sent upstream was allowed and has had its turn.
SpentOK ==
    \A a \in Numbers :
        Spent(a) => /\ a \in Asked /\ Allowed(a)
                    /\ \A x \in 1 .. Len(waiting) : a < waiting[x]
                    /\ current # 0 => a <= current

Once ==
    /\ \A x, y \in 1 .. Len(buffer) : buffer[x] = buffer[y] => x = y
    /\ \A a \in Numbers : Buffered(a) => a \notin upstream
    /\ \A a \in Numbers : Used(a) => a \notin upstream /\ ~Buffered(a)
    /\ \A i, j \in Asked : replies[i].to # 0 /\ replies[i].to = replies[j].to => i = j

\* The socket of the proxy is for the query in hand; that of the script is behind.
InTurn ==
    /\ relay # "sidecar" => \A x \in 1 .. Len(buffer) : buffer[x] = current
    /\ relay = "sidecar" =>
          \A a \in Numbers : (a \in upstream \/ Buffered(a)) /\ a # current => Behind(a)

AnswersOK ==
    \A i \in Asked :
        replies[i].to # 0 /\ replies[i].to # i =>
            relay = "sidecar" /\ replies[i].to < i /\ Behind(i - 1)

RelayInv == Shapes /\ WaitOK /\ CurrentOK /\ SpentOK /\ Once /\ InTurn /\ AnswersOK

LEMMA Queue ==
  ASSUME NEW S, NEW q \in Seq(S), q # <<>>
  PROVE  /\ Head(q) = q[1] /\ Head(q) \in S /\ 1 \in 1 .. Len(q)
         /\ Tail(q) \in Seq(S) /\ Len(Tail(q)) = Len(q) - 1
         /\ \A x \in 1 .. Len(q) - 1 : Tail(q)[x] = q[x + 1]
  OBVIOUS

LEMMA Put ==
  ASSUME NEW S, NEW q \in Seq(S), NEW e \in S
  PROVE  /\ Append(q, e) \in Seq(S) /\ Len(Append(q, e)) = Len(q) + 1
         /\ \A x \in 1 .. Len(q) : Append(q, e)[x] = q[x]
         /\ Append(q, e)[Len(q) + 1] = e
  OBVIOUS

LEMMA RelayInitInv == RelayInit => RelayInv
  <1> SUFFICES ASSUME RelayInit PROVE RelayInv
    OBVIOUS
  <1> USE DEF RelayInit
  <1>1. Asked = {} /\ Len(waiting) = 0 /\ Len(buffer) = 0
    BY DEF Asked
  <1>2. Shapes
    BY DEF Shapes
  <1>3. ~ \E a : Spent(a)
    BY <1>1 DEF Spent, Buffered, Used
  <1> QED BY <1>1, <1>2, <1>3 DEF RelayInv, WaitOK, CurrentOK, SpentOK, Once, InTurn, AnswersOK, Spent

-----------------------------------------------------------------------------
\* A query gets its reply, an answer a that is used now or, with 0, none.
LEMMA Replying ==
  ASSUME Shapes, NEW i \in Asked, NEW r \in ReplySpace, ReplyWith(i, r), UNCHANGED queries,
         replies[i] = NoReply
  PROVE  /\ replies' \in Seq(ReplySpace) /\ Len(replies') = Len(queries') /\ Asked' = Asked
         /\ replies'[i] = r /\ \A j \in Asked : j # i => replies'[j] = replies[j]
         /\ \A e \in Asked : Behind(e) => Behind(e)'
  <1>1. replies' = [replies EXCEPT ![i] = r] /\ queries' = queries /\ Asked' = Asked
    BY DEF ReplyWith, Asked
  <1>2. DOMAIN replies = Asked
    BY DEF Shapes, Asked
  <1>3. replies' \in Seq(ReplySpace) /\ Len(replies') = Len(queries')
    BY <1>1 DEF Shapes, Asked
  <1>4. replies'[i] = r /\ \A j \in Asked : j # i => replies'[j] = replies[j]
    BY <1>1, <1>2
  <1>5. NoReply # Denied
    BY DEF NoReply, Denied
  <1>6. ASSUME NEW e \in Asked, Behind(e) PROVE Behind(e)'
    <2> PICK j \in 1 .. e : Allowed(j) /\ replies[j] = Denied
      BY <1>6 DEF Behind
    <2>1. j \in Asked /\ j # i
      BY <1>5, <1>6 DEF Asked
    <2> QED BY <1>1, <1>4, <2>1 DEF Behind, Allowed
  <1> QED BY <1>1, <1>3, <1>4, <1>6

\* The query that has its turn.
LEMMA Received ==
  ASSUME RelayInv, NEW i, Receive(i)
  PROVE  /\ i \in Asked /\ replies[i] = NoReply /\ current = 0
         /\ \A a \in Numbers : Spent(a) => a < i
         /\ waiting' \in Seq(Numbers)
         /\ \A x \in 1 .. Len(waiting') : /\ waiting'[x] \in Asked /\ waiting'[x] > i
                                          /\ replies[waiting'[x]] = NoReply
                                          /\ \A a \in Numbers : Spent(a) => a < waiting'[x]
         /\ \A x, y \in 1 .. Len(waiting') : x < y => waiting'[x] < waiting'[y]
  <1>1. waiting \in Seq(Numbers) /\ waiting # <<>> /\ current = 0 /\ i = Head(waiting)
        /\ waiting' = Tail(waiting)
    BY DEF RelayInv, Shapes, Receive
  <1>2. /\ i = waiting[1] /\ 1 \in 1 .. Len(waiting) /\ waiting' \in Seq(Numbers)
        /\ Len(waiting') = Len(waiting) - 1
        /\ \A x \in 1 .. Len(waiting) - 1 : waiting'[x] = waiting[x + 1]
    BY <1>1, Queue
  <1>3. WaitOK /\ SpentOK
    BY DEF RelayInv
  <1>4. \A x \in 1 .. Len(waiting') : x + 1 \in 1 .. Len(waiting) /\ 1 < x + 1
    BY <1>1, <1>2
  <1>5. i \in Asked /\ replies[i] = NoReply
    BY <1>2, <1>3 DEF WaitOK
  <1>6. \A a \in Numbers : Spent(a) => a < i
    BY <1>2, <1>3 DEF SpentOK
  <1>7. \A x \in 1 .. Len(waiting') : /\ waiting'[x] \in Asked /\ waiting'[x] > i
                                      /\ replies[waiting'[x]] = NoReply
                                      /\ \A a \in Numbers : Spent(a) => a < waiting'[x]
    <2> TAKE x \in 1 .. Len(waiting')
    <2>1. waiting'[x] = waiting[x + 1] /\ x + 1 \in 1 .. Len(waiting) /\ 1 < x + 1
      BY <1>2, <1>4
    <2>2. waiting[1] < waiting[x + 1]
      BY <1>2, <1>3, <2>1 DEF WaitOK
    <2> QED BY <1>2, <1>3, <2>1, <2>2 DEF WaitOK, SpentOK
  <1>8. ASSUME NEW x \in 1 .. Len(waiting'), NEW y \in 1 .. Len(waiting'), x < y
        PROVE  waiting'[x] < waiting'[y]
    <2>1. waiting'[x] = waiting[x + 1] /\ waiting'[y] = waiting[y + 1] /\ x + 1 < y + 1
      BY <1>2, <1>8
    <2> QED BY <1>3, <1>4, <2>1 DEF WaitOK
  <1> QED BY <1>1, <1>2, <1>5, <1>6, <1>7, <1>8

LEMMA Further ==
  ASSUME NEW d \in Nat, NEW e \in Nat, d <= e, Behind(d)
  PROVE  Behind(e)
  BY DEF Behind

\* A buffer after one answer, or none, has been taken from its front.
LEMMA Shortened ==
  ASSUME Shapes, Once, buffer' = buffer \/ (buffer # <<>> /\ buffer' = Tail(buffer)) \/ buffer' = <<>>
  PROVE  /\ buffer' \in Seq(Numbers)
         /\ \A a \in Numbers : Buffered(a)' => Buffered(a)
         /\ \A x, y \in 1 .. Len(buffer') : buffer'[x] = buffer'[y] => x = y
  <1>1. CASE buffer' = buffer
    BY <1>1 DEF Shapes, Once, Buffered
  <1>2. CASE buffer # <<>> /\ buffer' = Tail(buffer)
    <2>1. buffer \in Seq(Numbers)
      BY DEF Shapes
    <2>2. /\ buffer' \in Seq(Numbers) /\ Len(buffer') = Len(buffer) - 1
          /\ \A x \in 1 .. Len(buffer) - 1 : buffer'[x] = buffer[x + 1]
      BY <1>2, <2>1, Queue
    <2>3. \A x \in 1 .. Len(buffer') : buffer'[x] = buffer[x + 1] /\ x + 1 \in 1 .. Len(buffer)
      BY <2>1, <2>2
    <2>4. ASSUME NEW x \in 1 .. Len(buffer'), NEW y \in 1 .. Len(buffer'), buffer'[x] = buffer'[y]
          PROVE  x = y
      <3>1. x + 1 = y + 1
        BY <2>3, <2>4 DEF Once
      <3> QED BY <3>1
    <2> QED BY <2>2, <2>3, <2>4 DEF Buffered
  <1>3. CASE buffer' = <<>>
    BY <1>3 DEF Buffered
  <1> QED BY <1>1, <1>2, <1>3

\* A reply that is no answer uses none.
LEMMA Refusing ==
  ASSUME RelayInv, NEW i \in Asked, ReplyWith(i, Denied), replies[i] = NoReply,
         UNCHANGED <<queries, upstream>>,
         buffer' = buffer \/ (buffer # <<>> /\ buffer' = Tail(buffer))
  PROVE  /\ \A a \in Numbers : Used(a)' <=> Used(a)
         /\ \A a \in Numbers : Buffered(a)' => Buffered(a)
         /\ \A a \in Numbers : Spent(a)' => Spent(a)
         /\ Once'
  <1>1. Shapes /\ Once
    BY DEF RelayInv
  <1>2. Denied \in ReplySpace /\ Denied.to = 0 /\ NoReply.to = 0
    BY DEF ReplySpace, Denied, NoReply
  <1>3. Asked' = Asked /\ replies'[i] = Denied /\ \A j \in Asked : j # i => replies'[j] = replies[j]
    BY <1>1, <1>2, Replying
  <1>4. \A j \in Asked : replies'[j].to = replies[j].to
    BY <1>2, <1>3
  <1>5. \A a \in Numbers : Used(a)' <=> Used(a)
    BY <1>3, <1>4 DEF Used
  <1>6. /\ \A a \in Numbers : Buffered(a)' => Buffered(a)
        /\ \A x, y \in 1 .. Len(buffer') : buffer'[x] = buffer'[y] => x = y
    BY <1>1, Shortened
  <1>7. Once'
    BY <1>1, <1>3, <1>4, <1>5, <1>6 DEF Once
  <1> QED BY <1>5, <1>6, <1>7 DEF Spent

\* Answers that were in order stay so.
LEMMA AnswersStay ==
  ASSUME RelayInv, NEW i \in Asked, NEW r \in ReplySpace, ReplyWith(i, r), replies[i] = NoReply,
         UNCHANGED <<queries, relay>>,
         r.to # 0 /\ r.to # i => relay = "sidecar" /\ r.to < i /\ Behind(i - 1)
  PROVE  AnswersOK'
  <1>1. Shapes /\ AnswersOK
    BY DEF RelayInv
  <1>2. /\ Asked' = Asked /\ replies'[i] = r /\ (\A j \in Asked : j # i => replies'[j] = replies[j])
        /\ replies' \in Seq(ReplySpace) /\ Len(replies') = Len(queries)
        /\ (\A e \in Asked : Behind(e) => Behind(e)')
    BY <1>1, Replying
  <1> SUFFICES ASSUME NEW j \in Asked, replies'[j].to # 0, replies'[j].to # j
               PROVE  relay = "sidecar" /\ replies'[j].to < j /\ Behind(j - 1)'
    BY <1>2 DEF AnswersOK
  <1>3. relay = "sidecar" /\ replies'[j].to < j /\ Behind(j - 1)
    BY <1>1, <1>2 DEF AnswersOK
  <1>4. replies'[j] \in ReplySpace
    BY <1>2 DEF Asked
  <1>5. j - 1 \in Asked
    BY <1>3, <1>4 DEF Asked, ReplySpace, NoReply, Denied, Numbers
  <1> QED BY <1>2, <1>3, <1>5

LEMMA DenyStep ==
  ASSUME RelayInv, NEW i, Receive(i), ReplyWith(i, Denied), UNCHANGED <<relay, queries, current, upstream, buffer>>
  PROVE  RelayInv'
  <1>1. Shapes /\ WaitOK /\ SpentOK /\ InTurn
    BY DEF RelayInv
  <1>2. /\ i \in Asked /\ replies[i] = NoReply /\ current = 0
        /\ waiting' \in Seq(Numbers)
        /\ \A x \in 1 .. Len(waiting') : /\ waiting'[x] \in Asked /\ waiting'[x] > i
                                         /\ replies[waiting'[x]] = NoReply
                                         /\ \A a \in Numbers : Spent(a) => a < waiting'[x]
        /\ \A x, y \in 1 .. Len(waiting') : x < y => waiting'[x] < waiting'[y]
    BY Received
  <1>3. Denied \in ReplySpace /\ Denied.to = 0
    BY DEF ReplySpace, Denied
  <1>4. /\ replies' \in Seq(ReplySpace) /\ Len(replies') = Len(queries') /\ Asked' = Asked
        /\ \A j \in Asked : j # i => replies'[j] = replies[j]
        /\ \A e \in Asked : Behind(e) => Behind(e)'
    BY <1>1, <1>2, <1>3, Replying
  <1>5. /\ \A a \in Numbers : Buffered(a)' => Buffered(a)
        /\ \A a \in Numbers : Spent(a)' => Spent(a)
        /\ Once'
    BY <1>2, Refusing
  <1>6. Shapes'
    BY <1>1, <1>2, <1>4 DEF Shapes
  <1>7. WaitOK'
    BY <1>2, <1>4 DEF WaitOK, Asked
  <1>8. CurrentOK'
    BY <1>2 DEF CurrentOK
  <1>9. SpentOK'
    BY <1>1, <1>2, <1>4, <1>5 DEF SpentOK, Allowed
  <1>10. InTurn'
    <2>1. ASSUME relay = "sidecar", NEW a \in Numbers, a \in upstream \/ Buffered(a), a # current
          PROVE  Behind(a)'
      <3>1. Behind(a)
        BY <1>1, <2>1 DEF InTurn
      <3>2. a \in Asked
        BY <1>1, <2>1 DEF SpentOK, Spent
      <3> QED BY <1>4, <3>1, <3>2
    <2> QED BY <1>1, <1>5, <2>1 DEF InTurn
  <1>11. AnswersOK'
    BY <1>2, <1>3, AnswersStay
  <1> QED BY <1>5, <1>6, <1>7, <1>8, <1>9, <1>10, <1>11 DEF RelayInv

\* The proxy ends.
LEMMA EndStep ==
  ASSUME RelayInv, NEW i, Receive(i), relay = "proxy", relay' = "dead",
         UNCHANGED <<queries, current, upstream, buffer, replies>>
  PROVE  RelayInv'
  <1>1. Shapes /\ WaitOK /\ SpentOK /\ InTurn /\ Once /\ AnswersOK
    BY DEF RelayInv
  <1>2. /\ current = 0
        /\ waiting' \in Seq(Numbers)
        /\ \A x \in 1 .. Len(waiting') : /\ waiting'[x] \in Asked /\ waiting'[x] > i
                                         /\ replies[waiting'[x]] = NoReply
                                         /\ \A a \in Numbers : Spent(a) => a < waiting'[x]
        /\ \A x, y \in 1 .. Len(waiting') : x < y => waiting'[x] < waiting'[y]
    BY Received
  <1>3. Asked' = Asked /\ \A a : (Spent(a)' <=> Spent(a)) /\ (Used(a)' <=> Used(a))
                                 /\ (Buffered(a)' <=> Buffered(a))
    BY DEF Asked, Spent, Used, Buffered
  <1>4. Shapes'
    BY <1>1, <1>2, <1>3 DEF Shapes
  <1>5. WaitOK'
    BY <1>2, <1>3 DEF WaitOK, Asked, Numbers
  <1>6. CurrentOK'
    BY <1>2 DEF CurrentOK
  <1>7. SpentOK'
    BY <1>1, <1>2, <1>3 DEF SpentOK, Allowed
  <1>8. Once'
    BY <1>1, <1>3 DEF Once
  <1>9. InTurn'
    BY <1>1 DEF InTurn
  <1>10. AnswersOK'
    BY <1>1, <1>3 DEF AnswersOK
  <1> QED BY <1>4, <1>5, <1>6, <1>7, <1>8, <1>9, <1>10 DEF RelayInv

LEMMA ForwardStep ==
  ASSUME RelayInv, NEW i, Forward(i)
  PROVE  RelayInv'
  <1>1. Shapes /\ WaitOK /\ SpentOK /\ InTurn /\ Once /\ AnswersOK
    BY DEF RelayInv
  <1>2. /\ i \in Asked /\ replies[i] = NoReply /\ current = 0
        /\ \A a \in Numbers : Spent(a) => a < i
        /\ waiting' \in Seq(Numbers)
        /\ \A x \in 1 .. Len(waiting') : /\ waiting'[x] \in Asked /\ waiting'[x] > i
                                         /\ replies[waiting'[x]] = NoReply
                                         /\ \A a \in Numbers : Spent(a) => a < waiting'[x]
        /\ \A x, y \in 1 .. Len(waiting') : x < y => waiting'[x] < waiting'[y]
    BY Received DEF Forward
  <1>3. /\ Allowed(i) /\ relay \in Serving /\ current' = i /\ upstream' = upstream \cup {i}
        /\ buffer' = (IF relay = "proxy" THEN <<>> ELSE buffer)
        /\ UNCHANGED <<relay, queries, replies>>
    BY DEF Forward, Allowed, Serving
  <1>4. Asked' = Asked /\ (\A a : Used(a)' <=> Used(a)) /\ (\A a : Behind(a)' <=> Behind(a))
    BY <1>3 DEF Asked, Used, Behind, Allowed
  <1>5. \A a : Buffered(a)' => Buffered(a)
    BY <1>3 DEF Buffered
  <1>6. i \in Numbers /\ ~Spent(i)
    BY <1>2 DEF Asked, Numbers
  <1>7. \A a \in Numbers : Spent(a)' => Spent(a) \/ a = i
    BY <1>3, <1>4, <1>5 DEF Spent
  <1>8. Shapes'
    BY <1>1, <1>2, <1>3, <1>4 DEF Shapes, Asked, Serving
  <1>9. WaitOK'
    BY <1>2, <1>3, <1>4 DEF WaitOK
  <1>10. CurrentOK'
    BY <1>2, <1>3 DEF CurrentOK, Allowed
  <1>11. SpentOK'
    <2> SUFFICES ASSUME NEW a \in Numbers, Spent(a) \/ a = i
                 PROVE  /\ a \in Asked /\ Allowed(a) /\ a <= i
                        /\ \A x \in 1 .. Len(waiting') : a < waiting'[x]
      BY <1>3, <1>4, <1>7 DEF SpentOK, Allowed
    <2>1. CASE Spent(a)
      BY <1>1, <1>2, <2>1 DEF SpentOK, Asked, Numbers
    <2>2. CASE a = i
      BY <1>2, <1>3, <2>2 DEF Asked
    <2> QED BY <2>1, <2>2
  <1>12. Once'
    <2>1. \A x, y \in 1 .. Len(buffer') : buffer'[x] = buffer'[y] => x = y
      BY <1>1, <1>3 DEF Once
    <2>2. ~Buffered(i) /\ ~Used(i)
      BY <1>6 DEF Spent
    <2> QED BY <1>1, <1>3, <1>4, <1>5, <2>1, <2>2 DEF Once
  <1>13. InTurn'
    <2>1. ASSUME NEW a \in Numbers, relay = "sidecar", a \in upstream' \/ Buffered(a)', a # i
          PROVE  Behind(a)
      <3>1. a \in upstream \/ Buffered(a)
        BY <1>3, <1>5, <2>1
      <3>2. a # current
        BY <1>2 DEF Numbers
      <3> QED BY <1>1, <2>1, <3>1, <3>2 DEF InTurn
    <2>2. relay # "sidecar" => Len(buffer') = 0
      BY <1>3 DEF Serving
    <2> QED BY <1>3, <1>4, <2>1, <2>2 DEF InTurn
  <1>14. AnswersOK'
    BY <1>1, <1>3, <1>4 DEF AnswersOK
  <1> QED BY <1>8, <1>9, <1>10, <1>11, <1>12, <1>13, <1>14 DEF RelayInv

-----------------------------------------------------------------------------
\* Queries, replies and the turn stay as they are.
LEMMA SteadyParts ==
  ASSUME RelayInv, UNCHANGED <<relay, queries, waiting, current, replies>>
  PROVE  /\ Asked' = Asked /\ (\A a : Used(a)' <=> Used(a)) /\ (\A a : Behind(a)' <=> Behind(a))
         /\ WaitOK' /\ CurrentOK' /\ AnswersOK'
  <1>1. WaitOK /\ CurrentOK /\ AnswersOK
    BY DEF RelayInv
  <1>2. Asked' = Asked /\ (\A a : Used(a)' <=> Used(a)) /\ (\A a : Behind(a)' <=> Behind(a))
    BY DEF Asked, Used, Behind, Allowed
  <1>3. WaitOK' /\ CurrentOK'
    BY <1>1, <1>2 DEF WaitOK, CurrentOK, Allowed
  <1>4. AnswersOK'
    BY <1>1, <1>2 DEF AnswersOK
  <1> QED BY <1>2, <1>3, <1>4

LEMMA AnswerStep ==
  ASSUME RelayInv, NEW i, UpstreamAnswers(i)
  PROVE  RelayInv'
  <1>1. Shapes /\ SpentOK /\ InTurn /\ Once
    BY DEF RelayInv
  <1>2. /\ i \in upstream /\ upstream' = upstream \ {i}
        /\ buffer' = (IF relay = "sidecar" \/ i = current THEN Append(buffer, i) ELSE buffer)
        /\ UNCHANGED <<relay, queries, waiting, current, replies>>
    BY DEF UpstreamAnswers
  <1>3. /\ Asked' = Asked /\ (\A a : Used(a)' <=> Used(a)) /\ (\A a : Behind(a)' <=> Behind(a))
        /\ WaitOK' /\ CurrentOK' /\ AnswersOK'
    BY <1>2, SteadyParts
  <1>4. i \in Numbers
    BY <1>1, <1>2 DEF Shapes, Asked, Numbers
  <1>5. buffer' \in Seq(Numbers)
    BY <1>1, <1>2, <1>4, Put DEF Shapes
  <1>6. Shapes'
    BY <1>1, <1>2, <1>3, <1>5 DEF Shapes
  <1>7. \A a \in Numbers : Buffered(a)' => Buffered(a) \/ a = i
    BY <1>1, <1>2, <1>4, Put DEF Buffered, Shapes
  <1>8. \A a \in Numbers : Spent(a)' => Spent(a)
    BY <1>2, <1>3, <1>7 DEF Spent
  <1>9. SpentOK'
    BY <1>1, <1>2, <1>3, <1>8 DEF SpentOK, Allowed
  <1>10. ~Buffered(i)
    BY <1>1, <1>2, <1>4 DEF Once
  <1>11. Once'
    <2>1. \A x, y \in 1 .. Len(buffer') : buffer'[x] = buffer'[y] => x = y
      <3>1. CASE buffer' = buffer
        BY <1>1, <3>1 DEF Once
      <3>2. CASE buffer' = Append(buffer, i)
        <4>1. /\ Len(buffer') = Len(buffer) + 1 /\ buffer'[Len(buffer) + 1] = i
              /\ \A x \in 1 .. Len(buffer) : buffer'[x] = buffer[x]
          BY <1>1, <1>4, <3>2, Put DEF Shapes
        <4>2. \A x \in 1 .. Len(buffer) : buffer[x] # i
          BY <1>10 DEF Buffered
        <4>3. Len(buffer) \in Nat
          BY <1>1 DEF Shapes
        <4> QED BY <1>1, <4>1, <4>2, <4>3 DEF Once
      <3> QED BY <1>2, <3>1, <3>2
    <2>2. \A a \in Numbers : Used(a) => a # i
      BY <1>1, <1>2 DEF Once
    <2> QED BY <1>1, <1>2, <1>3, <1>7, <2>1, <2>2 DEF Once
  <1>12. InTurn'
    <2>1. ASSUME NEW a \in Numbers, relay = "sidecar", a \in upstream' \/ Buffered(a)', a # current
          PROVE  Behind(a)
      BY <1>1, <1>2, <1>7, <2>1 DEF InTurn
    <2>2. ASSUME relay # "sidecar", NEW x \in 1 .. Len(buffer') PROVE buffer'[x] = current
      <3>1. buffer' = buffer \/ (i = current /\ buffer' = Append(buffer, i))
        BY <1>2, <2>2
      <3>2. CASE buffer' = buffer
        BY <1>1, <2>2, <3>2 DEF InTurn
      <3>3. CASE i = current /\ buffer' = Append(buffer, i)
        <4>1. /\ Len(buffer') = Len(buffer) + 1 /\ buffer'[Len(buffer) + 1] = i
              /\ \A y \in 1 .. Len(buffer) : buffer'[y] = buffer[y]
          BY <1>1, <1>4, <3>3, Put DEF Shapes
        <4>2. Len(buffer) \in Nat
          BY <1>1 DEF Shapes
        <4>3. x \in 1 .. Len(buffer) \/ x = Len(buffer) + 1
          BY <2>2, <4>1, <4>2
        <4> QED BY <1>1, <2>2, <3>3, <4>1, <4>3 DEF InTurn
      <3> QED BY <3>1, <3>2, <3>3
    <2> QED BY <1>2, <1>3, <2>1, <2>2 DEF InTurn
  <1> QED BY <1>3, <1>6, <1>9, <1>11, <1>12 DEF RelayInv

LEMMA LoseStep ==
  ASSUME RelayInv, NEW i, UpstreamLoses(i)
  PROVE  RelayInv'
  <1>1. Shapes /\ SpentOK /\ InTurn /\ Once
    BY DEF RelayInv
  <1>2. upstream' \subseteq upstream /\ UNCHANGED <<relay, queries, waiting, current, buffer, replies>>
    BY DEF UpstreamLoses
  <1>3. /\ Asked' = Asked /\ (\A a : Used(a)' <=> Used(a)) /\ (\A a : Behind(a)' <=> Behind(a))
        /\ WaitOK' /\ CurrentOK' /\ AnswersOK'
    BY <1>2, SteadyParts
  <1>4. \A a : Buffered(a)' <=> Buffered(a)
    BY <1>2 DEF Buffered
  <1>5. \A a : Spent(a)' => Spent(a)
    BY <1>2, <1>3, <1>4 DEF Spent
  <1>6. Shapes'
    BY <1>1, <1>2, <1>3 DEF Shapes
  <1>7. SpentOK'
    BY <1>1, <1>2, <1>3, <1>5 DEF SpentOK, Allowed
  <1>8. Once'
    BY <1>1, <1>2, <1>3, <1>4 DEF Once
  <1>9. InTurn'
    BY <1>1, <1>2, <1>3, <1>4 DEF InTurn
  <1> QED BY <1>3, <1>6, <1>7, <1>8, <1>9 DEF RelayInv

-----------------------------------------------------------------------------
(* The end of a turn.                                                      *)

\* The script denies, with the answer it has received or without one.
LEMMA GiveUpStep ==
  ASSUME RelayInv, relay = "sidecar", current # 0, ReplyWith(current, Denied), current' = 0,
         UNCHANGED <<relay, queries, waiting, upstream>>,
         buffer' = buffer \/ (buffer # <<>> /\ buffer' = Tail(buffer))
  PROVE  RelayInv'
  <1>1. Shapes /\ WaitOK /\ CurrentOK /\ SpentOK /\ InTurn /\ Once
    BY DEF RelayInv
  <1>2. buffer' \in Seq(Numbers)
    BY <1>1, Shortened
  <1>3. current \in Asked /\ replies[current] = NoReply /\ Allowed(current)
    BY <1>1 DEF Shapes, CurrentOK, Asked
  <1>4. Denied \in ReplySpace /\ Denied.to = 0
    BY DEF ReplySpace, Denied
  <1>5. /\ replies' \in Seq(ReplySpace) /\ Len(replies') = Len(queries') /\ Asked' = Asked
        /\ replies'[current] = Denied
        /\ \A j \in Asked : j # current => replies'[j] = replies[j]
        /\ \A e \in Asked : Behind(e) => Behind(e)'
    BY <1>1, <1>3, <1>4, Replying
  <1>6. /\ \A a \in Numbers : Buffered(a)' => Buffered(a)
        /\ \A a \in Numbers : Spent(a)' => Spent(a)
        /\ Once'
    BY <1>3, Refusing
  <1>7. Shapes'
    BY <1>1, <1>2, <1>5 DEF Shapes
  <1>8. WaitOK'
    <2>1. \A x \in 1 .. Len(waiting) : waiting[x] # current /\ waiting[x] > 0
      BY <1>1, <1>3 DEF WaitOK, Asked
    <2> QED BY <1>1, <1>2, <1>5, <2>1 DEF WaitOK
  <1>9. CurrentOK'
    BY <1>2 DEF CurrentOK
  <1>10. SpentOK'
    BY <1>1, <1>2, <1>5, <1>6 DEF SpentOK, Allowed
  <1>11. InTurn'
    <2> PICK i \in Asked : i = current
      BY <1>3
    <2>1. Behind(i)'
      <3>1. i \in 1 .. i /\ Allowed(i)' /\ replies'[i] = Denied
        BY <1>2, <1>3, <1>5 DEF Allowed, Asked
      <3> QED BY <3>1 DEF Behind
    <2>2. ASSUME NEW a \in Numbers, a \in upstream \/ Buffered(a) PROVE Behind(a)'
      <3>1. a \in Asked
        BY <1>1, <2>2 DEF SpentOK, Spent
      <3>2. CASE a # current
        BY <1>1, <1>2, <1>5, <2>2, <3>1, <3>2 DEF InTurn
      <3> QED BY <2>1, <3>2
    <2> QED BY <1>2, <1>6, <2>2 DEF InTurn
  <1>12. AnswersOK'
    BY <1>3, <1>4, AnswersStay
  <1> QED BY <1>6, <1>7, <1>8, <1>9, <1>10, <1>11, <1>12 DEF RelayInv

LEMMA StopStep ==
  ASSUME RelayInv, StopWaiting
  PROVE  RelayInv'
  BY GiveUpStep DEF StopWaiting

LEMMA SpoilStep ==
  ASSUME RelayInv, SpoilAnswer
  PROVE  RelayInv'
  <1>1. CASE relay = "sidecar"
    BY <1>1, GiveUpStep DEF SpoilAnswer
  <1>2. CASE relay = "proxy"
    <2>1. /\ relay' = "dead" /\ buffer' = <<>> /\ current' = 0
          /\ UNCHANGED <<queries, waiting, upstream, replies>>
      BY <1>2 DEF SpoilAnswer
    <2>2. Shapes /\ WaitOK /\ SpentOK /\ Once /\ AnswersOK
      BY DEF RelayInv
    <2>3. /\ Asked' = Asked /\ \A a : Used(a)' <=> Used(a)
          /\ \A a : ~Buffered(a)' /\ (Spent(a)' => Spent(a))
      BY <2>1 DEF Asked, Used, Buffered, Spent
    <2>4. Shapes'
      BY <1>2, <2>1, <2>2, <2>3 DEF Shapes
    <2>5. WaitOK'
      BY <2>1, <2>2, <2>3 DEF WaitOK, Asked
    <2>6. SpentOK'
      BY <2>1, <2>2, <2>3 DEF SpentOK, Allowed
    <2>7. Once' /\ InTurn' /\ CurrentOK'
      BY <2>1, <2>2, <2>3 DEF Once, InTurn, CurrentOK
    <2>8. AnswersOK'
      BY <1>2, <2>1, <2>2, <2>3 DEF AnswersOK
    <2> QED BY <2>4, <2>5, <2>6, <2>7, <2>8 DEF RelayInv
  <1> QED BY <1>1, <1>2 DEF SpoilAnswer

LEMMA TakeStep ==
  ASSUME RelayInv, TakeAnswer
  PROVE  RelayInv'
  <1>1. Shapes /\ WaitOK /\ CurrentOK /\ SpentOK /\ InTurn /\ Once
    BY DEF RelayInv
  <1> DEFINE a == Head(buffer)
             r == [kind |-> "answer", to |-> a]
  <1>2. /\ current # 0 /\ buffer # <<>> /\ ReplyWith(current, r)
        /\ buffer' = Tail(buffer) /\ current' = 0
        /\ UNCHANGED <<relay, queries, waiting, upstream>>
    BY DEF TakeAnswer
  <1>3. buffer \in Seq(Numbers)
    BY <1>1 DEF Shapes
  <1>4. /\ a = buffer[1] /\ a \in Numbers /\ 1 \in 1 .. Len(buffer)
        /\ buffer' \in Seq(Numbers) /\ Len(buffer') = Len(buffer) - 1
        /\ \A x \in 1 .. Len(buffer) - 1 : buffer'[x] = buffer[x + 1]
    BY <1>2, <1>3, Queue
  <1>5. current \in Asked /\ replies[current] = NoReply
    BY <1>1, <1>2 DEF Shapes, CurrentOK, Asked
  <1>6. Buffered(a)
    BY <1>4 DEF Buffered
  <1>7. Spent(a) /\ a \in Asked /\ Allowed(a) /\ a <= current /\ a \notin upstream /\ ~Used(a)
    BY <1>1, <1>2, <1>4, <1>6 DEF SpentOK, Spent, Once
  <1>8. r \in ReplySpace /\ r.to = a
    BY <1>4 DEF ReplySpace
  <1> HIDE DEF r, a
  <1>9. /\ replies' \in Seq(ReplySpace) /\ Len(replies') = Len(queries') /\ Asked' = Asked
        /\ replies'[current] = r
        /\ \A j \in Asked : j # current => replies'[j] = replies[j]
        /\ \A e \in Asked : Behind(e) => Behind(e)'
    BY <1>1, <1>2, <1>5, <1>8, Replying
  <1>10. \A x \in 1 .. Len(buffer') : buffer'[x] = buffer[x + 1] /\ x + 1 \in 1 .. Len(buffer) /\ 1 # x + 1
    BY <1>3, <1>4
  <1>11. \A e : Buffered(e)' => Buffered(e) /\ e # a
    <2> SUFFICES ASSUME NEW x \in 1 .. Len(buffer') PROVE Buffered(buffer'[x]) /\ buffer'[x] # a
      BY DEF Buffered
    <2>1. buffer'[x] = buffer[x + 1] /\ x + 1 \in 1 .. Len(buffer) /\ 1 # x + 1
      BY <1>10
    <2>2. buffer[x + 1] # buffer[1]
      BY <1>1, <1>4, <2>1 DEF Once
    <2> QED BY <1>4, <2>1, <2>2 DEF Buffered
  <1>12. \A e \in Numbers : Used(e)' => Used(e) \/ e = a
    BY <1>8, <1>9 DEF Used
  <1>13. \A e \in Numbers : Spent(e)' => Spent(e)
    BY <1>2, <1>7, <1>11, <1>12 DEF Spent
  <1>14. Shapes'
    BY <1>1, <1>2, <1>4, <1>9 DEF Shapes
  <1>15. WaitOK'
    <2>1. \A x \in 1 .. Len(waiting) : waiting[x] # current /\ waiting[x] > 0
      BY <1>1, <1>5 DEF WaitOK, Asked
    <2> QED BY <1>1, <1>2, <1>9, <2>1 DEF WaitOK
  <1>16. CurrentOK'
    BY <1>2 DEF CurrentOK
  <1>17. SpentOK'
    BY <1>1, <1>2, <1>9, <1>13 DEF SpentOK, Allowed
  <1>18. Once'
    <2>1. ASSUME NEW x \in 1 .. Len(buffer'), NEW y \in 1 .. Len(buffer'), buffer'[x] = buffer'[y]
          PROVE  x = y
      <3>1. x + 1 = y + 1
        BY <1>1, <1>10, <2>1 DEF Once
      <3> QED BY <3>1
    <2>2. \A e \in Numbers : Buffered(e)' => e \notin upstream'
      BY <1>1, <1>2, <1>11 DEF Once
    <2>3. \A e \in Numbers : Used(e)' => e \notin upstream' /\ ~Buffered(e)'
      BY <1>1, <1>2, <1>7, <1>11, <1>12 DEF Once
    <2>4. ASSUME NEW i \in Asked, NEW j \in Asked, replies'[i].to # 0, replies'[i].to = replies'[j].to
          PROVE  i = j
      <3>1. \A k \in Asked : k # current => replies'[k].to # a
        BY <1>7, <1>9 DEF Used
      <3>2. CASE i = current \/ j = current
        BY <1>8, <1>9, <2>4, <3>1, <3>2
      <3>3. CASE i # current /\ j # current
        BY <1>1, <1>9, <2>4, <3>3 DEF Once
      <3> QED BY <3>2, <3>3
    <2> QED BY <1>9, <2>1, <2>2, <2>3, <2>4 DEF Once
  <1>19. relay = "sidecar" /\ a # current => Behind(current) /\ Behind(current - 1)
    <2> SUFFICES ASSUME relay = "sidecar", a # current PROVE Behind(current) /\ Behind(current - 1)
      OBVIOUS
    <2>1. Behind(a)
      BY <1>1, <1>4, <1>6 DEF InTurn
    <2>2. a <= current - 1 /\ a \in Nat /\ current \in Nat /\ current - 1 \in Nat
      BY <1>4, <1>5, <1>7 DEF Asked, Numbers
    <2> QED BY <2>1, <2>2, Further
  <1>20. relay # "sidecar" => a = current
    BY <1>1, <1>4 DEF InTurn
  <1>21. InTurn'
    <2>1. relay # "sidecar" => Len(buffer') = 0
      <3> SUFFICES ASSUME relay # "sidecar", Len(buffer') # 0 PROVE FALSE
        OBVIOUS
      <3>1. 1 \in 1 .. Len(buffer')
        BY <1>4
      <3>2. buffer[1 + 1] = current /\ buffer[1] = current /\ 1 + 1 \in 1 .. Len(buffer)
        BY <1>1, <1>4, <1>10, <3>1 DEF InTurn
      <3> QED BY <1>1, <1>4, <3>2 DEF Once
    <2>2. ASSUME relay = "sidecar", NEW e \in Numbers, e \in upstream \/ Buffered(e)'
          PROVE  Behind(e)'
      <3>1. (e \in upstream \/ Buffered(e)) /\ e # a
        BY <1>7, <1>11, <2>2
      <3>2. e \in Asked
        BY <1>1, <3>1 DEF SpentOK, Spent
      <3>3. Behind(e)
        <4>1. CASE e # current
          BY <1>1, <2>2, <3>1, <4>1 DEF InTurn
        <4>2. CASE e = current
          BY <1>19, <2>2, <3>1, <4>2
        <4> QED BY <4>1, <4>2
      <3> QED BY <1>9, <3>2, <3>3
    <2> QED BY <1>2, <2>1, <2>2 DEF InTurn
  <1>22. r.to # 0 /\ r.to # current => relay = "sidecar" /\ r.to < current /\ Behind(current - 1)
    BY <1>7, <1>8, <1>19, <1>20, <1>5, <1>4 DEF Asked, Numbers
  <1>23. AnswersOK'
    BY <1>2, <1>5, <1>8, <1>22, AnswersStay
  <1> QED BY <1>14, <1>15, <1>16, <1>17, <1>18, <1>21, <1>23 DEF RelayInv

-----------------------------------------------------------------------------
LEMMA AskStep ==
  ASSUME RelayInv, NEW name \in Names \cup {Garbled}, AskName(name)
  PROVE  RelayInv'
  <1>1. Shapes /\ WaitOK /\ CurrentOK /\ SpentOK /\ InTurn /\ Once /\ AnswersOK
    BY DEF RelayInv
  <1> DEFINE n == Len(queries)
  <1>2. /\ queries' = Append(queries, name) /\ waiting' = Append(waiting, Len(queries'))
        /\ replies' = Append(replies, NoReply) /\ relay \in Serving
        /\ UNCHANGED <<relay, current, upstream, buffer>>
    BY DEF AskName, Serving
  <1>3. n \in Nat /\ Len(replies) = n /\ n + 1 \in Numbers /\ NoReply \in ReplySpace
    BY <1>1 DEF Shapes, Numbers, ReplySpace
  <1>4. /\ queries' \in Seq(Names \cup {Garbled}) /\ Len(queries') = n + 1
        /\ \A x \in Asked : queries'[x] = queries[x]
    BY <1>1, <1>2, Put DEF Shapes, Asked
  <1>5. /\ replies' \in Seq(ReplySpace) /\ Len(replies') = n + 1 /\ replies'[n + 1] = NoReply
        /\ \A x \in Asked : replies'[x] = replies[x]
    BY <1>1, <1>2, <1>3, Put DEF Shapes, Asked
  <1>6. /\ waiting' \in Seq(Numbers) /\ Len(waiting') = Len(waiting) + 1
        /\ waiting'[Len(waiting) + 1] = n + 1 /\ Len(waiting) \in Nat
        /\ \A x \in 1 .. Len(waiting) : waiting'[x] = waiting[x]
    BY <1>1, <1>2, <1>3, <1>4, Put DEF Shapes
  <1>7. \A x \in 1 .. Len(waiting') : x \in 1 .. Len(waiting) \/ x = Len(waiting) + 1
    BY <1>6
  <1>8. Asked' = Asked \cup {n + 1} /\ n + 1 \notin Asked /\ (\A e \in Asked : e < n + 1)
    BY <1>3, <1>4 DEF Asked
  <1> HIDE DEF n
  <1>9. NoReply.to = 0
    BY DEF NoReply
  <1>10. \A e \in Numbers : (Used(e)' => Used(e)) /\ (Buffered(e)' => Buffered(e)) /\ (Spent(e)' => Spent(e))
    BY <1>2, <1>5, <1>8, <1>9 DEF Used, Buffered, Spent, Numbers
  <1>11. \A e \in Asked : Behind(e) => Behind(e)'
    <2> SUFFICES ASSUME NEW e \in Asked, NEW j \in 1 .. e, Allowed(j), replies[j] = Denied
                 PROVE  Behind(e)'
      BY DEF Behind
    <2>1. j \in Asked
      BY DEF Asked
    <2> QED BY <1>4, <1>5, <2>1 DEF Behind, Allowed
  <1>12. Shapes'
    <2>1. current' \in 0 .. Len(queries')
      BY <1>1, <1>2, <1>3, <1>4 DEF Shapes, n
    <2>2. upstream' \subseteq Asked'
      BY <1>1, <1>2, <1>8 DEF Shapes
    <2> QED BY <1>1, <1>2, <1>4, <1>5, <1>6, <2>1, <2>2 DEF Shapes, Serving
  <1>13. WaitOK'
    <2>1. \A x \in 1 .. Len(waiting) : waiting'[x] = waiting[x] /\ waiting[x] \in Asked
             /\ waiting[x] > current /\ replies'[waiting[x]] = NoReply /\ waiting[x] < n + 1
      BY <1>1, <1>5, <1>6, <1>8 DEF WaitOK
    <2>2. current < n + 1
      BY <1>1, <1>3 DEF Shapes, n
    <2>3. ASSUME NEW x \in 1 .. Len(waiting')
          PROVE  waiting'[x] \in Asked' /\ waiting'[x] > current' /\ replies'[waiting'[x]] = NoReply
      BY <1>2, <1>5, <1>6, <1>7, <1>8, <2>1, <2>2
    <2>4. ASSUME NEW x \in 1 .. Len(waiting'), NEW y \in 1 .. Len(waiting'), x < y
          PROVE  waiting'[x] < waiting'[y]
      <3>1. x \in 1 .. Len(waiting)
        BY <1>6, <1>7, <2>4
      <3> QED BY <1>1, <1>6, <1>7, <2>1, <2>4, <3>1 DEF WaitOK
    <2> QED BY <2>3, <2>4 DEF WaitOK
  <1>14. CurrentOK'
    <2>1. current # 0 => current \in Asked
      BY <1>1 DEF Shapes, Asked
    <2> QED BY <1>1, <1>2, <1>4, <1>5, <2>1 DEF CurrentOK, Allowed
  <1>15. SpentOK'
    <2> SUFFICES ASSUME NEW e \in Numbers, Spent(e)
                 PROVE  /\ e \in Asked' /\ Allowed(e)' /\ (current # 0 => e <= current)
                        /\ \A x \in 1 .. Len(waiting') : e < waiting'[x]
      BY <1>2, <1>10 DEF SpentOK
    <2>1. e \in Asked /\ Allowed(e) /\ (current # 0 => e <= current) /\ e < n + 1
          /\ \A x \in 1 .. Len(waiting) : e < waiting[x]
      BY <1>1, <1>8 DEF SpentOK
    <2> QED BY <1>4, <1>6, <1>7, <1>8, <2>1 DEF Allowed
  <1>16. Once'
    <2>1. ASSUME NEW i \in Asked', NEW j \in Asked', replies'[i].to # 0,
                 replies'[i].to = replies'[j].to
          PROVE  i = j
      <3>1. i \in Asked /\ j \in Asked
        BY <1>5, <1>8, <1>9, <2>1
      <3> QED BY <1>1, <1>5, <2>1, <3>1 DEF Once
    <2> QED BY <1>1, <1>2, <1>10, <2>1 DEF Once
  <1>17. InTurn'
    <2>1. ASSUME relay = "sidecar", NEW e \in Numbers, e \in upstream \/ Buffered(e), e # current
          PROVE  Behind(e)'
      <3>1. Behind(e) /\ e \in Asked
        BY <1>1, <2>1 DEF InTurn, SpentOK, Spent
      <3> QED BY <1>11, <3>1
    <2> QED BY <1>1, <1>2, <1>10, <2>1 DEF InTurn
  <1>18. AnswersOK'
    <2> SUFFICES ASSUME NEW i \in Asked', replies'[i].to # 0, replies'[i].to # i
                 PROVE  relay = "sidecar" /\ replies'[i].to < i /\ Behind(i - 1)'
      BY <1>2 DEF AnswersOK
    <2>1. i \in Asked /\ replies'[i] = replies[i]
      BY <1>5, <1>8, <1>9
    <2>2. relay = "sidecar" /\ replies[i].to < i /\ Behind(i - 1)
      BY <1>1, <2>1 DEF AnswersOK
    <2>3. replies[i] \in ReplySpace
      BY <1>1, <2>1 DEF Shapes, Asked
    <2>4. i - 1 \in Asked
      BY <2>1, <2>2, <2>3 DEF Asked, ReplySpace, NoReply, Denied, Numbers
    <2> QED BY <1>11, <2>1, <2>2, <2>4
  <1> QED BY <1>12, <1>13, <1>14, <1>15, <1>16, <1>17, <1>18 DEF RelayInv

LEMMA StartStep ==
  ASSUME RelayInv, StartRelay
  PROVE  RelayInv'
  <1>1. Shapes /\ SpentOK /\ InTurn /\ Once /\ AnswersOK
    BY DEF RelayInv
  <1>2. relay = "none" /\ relay' \in Serving /\ UNCHANGED <<queries, waiting, current, upstream, buffer, replies>>
    BY DEF StartRelay, Serving
  <1>3. Asked = {} /\ current = 0
    BY <1>1, <1>2 DEF Shapes, Asked
  <1>4. \A e \in Numbers : ~Spent(e)
    BY <1>1, <1>3 DEF SpentOK
  <1>5. Asked' = Asked /\ \A a : (Spent(a)' <=> Spent(a)) /\ (Used(a)' <=> Used(a))
                                 /\ (Buffered(a)' <=> Buffered(a))
    BY <1>2 DEF Asked, Spent, Used, Buffered
  <1>6. Shapes'
    BY <1>1, <1>2, <1>5 DEF Shapes, Serving
  <1>7. WaitOK' /\ CurrentOK'
    BY <1>2, <1>3, <1>5 DEF RelayInv, WaitOK, CurrentOK
  <1>8. SpentOK' /\ Once' /\ AnswersOK'
    BY <1>1, <1>2, <1>3, <1>4, <1>5 DEF SpentOK, Once, AnswersOK
  <1>9. InTurn'
    BY <1>1, <1>2, <1>4, <1>5 DEF InTurn, Spent
  <1> QED BY <1>6, <1>7, <1>8, <1>9 DEF RelayInv

LEMMA RelayStep == RelayInv /\ [RelayNext]_relayVars => RelayInv'
  <1> SUFFICES ASSUME RelayInv, [RelayNext]_relayVars PROVE RelayInv'
    OBVIOUS
  <1>1. CASE StartRelay
    BY <1>1, StartStep
  <1>2. ASSUME NEW name \in Names \cup {Garbled}, AskName(name) PROVE RelayInv'
    BY <1>2, AskStep
  <1>3. ASSUME NEW i, Deny(i) PROVE RelayInv'
    BY <1>3, DenyStep DEF Deny
  <1>4. ASSUME NEW i, Forward(i) PROVE RelayInv'
    BY <1>4, ForwardStep
  <1>5. ASSUME NEW i, CannotForward(i) PROVE RelayInv'
    BY <1>5, DenyStep, EndStep DEF CannotForward
  <1>6. ASSUME NEW i, UpstreamAnswers(i) \/ UpstreamLoses(i) PROVE RelayInv'
    BY <1>6, AnswerStep, LoseStep
  <1>7. CASE TakeAnswer \/ SpoilAnswer \/ StopWaiting
    BY <1>7, TakeStep, SpoilStep, StopStep
  <1>8. CASE UNCHANGED relayVars
    BY <1>8 DEF relayVars, RelayInv, Shapes, WaitOK, CurrentOK, SpentOK, Once, InTurn, AnswersOK,
       Asked, Allowed, Buffered, Used, Spent, Behind
  <1> QED BY <1>1, <1>2, <1>3, <1>4, <1>5, <1>6, <1>7, <1>8 DEF RelayNext

LEMMA RelaySays == RelayInv => OwnAnswer
  <1> SUFFICES ASSUME RelayInv, NEW i \in DOMAIN replies, replies[i].kind = "answer"
               PROVE  LET a == replies[i].to IN
                      /\ queries[a] \in AllowedNames
                      /\ \A j \in DOMAIN replies : replies[j].to = a => j = i
                      /\ a # i => /\ relay = "sidecar" /\ a < i
                                  /\ \E j \in 1 .. i - 1 : queries[j] \in AllowedNames /\ replies[j] = Denied
    BY DEF OwnAnswer
  <1> DEFINE a == replies[i].to
  <1>1. Shapes /\ SpentOK /\ Once /\ AnswersOK
    BY DEF RelayInv
  <1>2. DOMAIN replies = Asked /\ replies[i] \in ReplySpace
    BY <1>1 DEF Shapes, Asked
  <1>3. a \in Numbers /\ a # 0
    BY <1>2 DEF ReplySpace, NoReply, Denied, Numbers
  <1>4. Used(a)
    BY <1>2 DEF Used
  <1>5. queries[a] \in AllowedNames
    BY <1>1, <1>3, <1>4 DEF SpentOK, Spent, Allowed
  <1>6. \A j \in DOMAIN replies : replies[j].to = a => j = i
    BY <1>1, <1>2, <1>3 DEF Once
  <1>7. a # i => relay = "sidecar" /\ a < i /\ Behind(i - 1)
    BY <1>1, <1>2, <1>3 DEF AnswersOK
  <1> QED BY <1>5, <1>6, <1>7 DEF Behind, Allowed

\* Every answer is used once, is to a name on the allowlist, and is to another query than
\* the one that gets it only where the script has stopped waiting before, for any number of
\* queries and whatever the upstream loses or delays (ALLOWLIST_DNS_SCRIPT, handle_query).
THEOREM RelayAnswers == RelaySpec => []OwnAnswer
  BY RelaySays, RelayInitInv, RelayStep, PTL DEF RelaySpec

LEMMA RelayTyped == RelayInv => RelayTypeOK
  <1> SUFFICES ASSUME RelayInv PROVE RelayTypeOK
    OBVIOUS
  <1>1. Shapes /\ SpentOK
    BY DEF RelayInv
  <1>2. ASSUME NEW i \in DOMAIN replies
        PROVE  replies[i] \in {NoReply, Denied} \cup [kind : {"answer"}, to : Asked]
    <2>1. i \in Asked /\ replies[i] \in ReplySpace
      BY <1>1, <1>2 DEF Shapes, Asked
    <2>2. CASE replies[i] \in [kind : {"answer"}, to : Numbers]
      <3>1. replies[i].to \in Numbers /\ Used(replies[i].to)
        BY <2>1, <2>2 DEF Used
      <3>2. replies[i].to \in Asked
        BY <1>1, <3>1 DEF SpentOK, Spent
      <3> QED BY <2>2, <3>2
    <2> QED BY <2>1, <2>2 DEF ReplySpace
  <1> QED BY <1>1, <1>2 DEF Shapes, Asked, RelayTypeOK

\* A query that is sent upstream, or whose answer is given to some client, is one that was
\* asked, and the server is with none or with one of those (ALLOWLIST_DNS_SCRIPT,
\* handle_query).
THEOREM RelayTypes == RelaySpec => []RelayTypeOK
  BY RelayTyped, RelayInitInv, RelayStep, PTL DEF RelaySpec
=============================================================================
