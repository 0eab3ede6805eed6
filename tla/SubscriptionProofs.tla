------------------------- MODULE SubscriptionProofs -------------------------
(***************************************************************************)
(* A subscription implements its topic, and loses nothing while a          *)
(* connection lives, for every set of messages, filter, channel size and   *)
(* number of connections.                                                  *)
(*                                                                         *)
(* The argument follows a message down the line: on the wire, in the       *)
(* task's hands, in the channel, received.  Places in the order of         *)
(* publication rise along each part, and every place received is below     *)
(* every place in the channel, that below the task's, that below every     *)
(* one on the wire.  What is forwarded is what was published, because      *)
(* decode inverts encode (EnvelopeProofs).                                 *)
(***************************************************************************)
EXTENDS Subscription, EnvelopeProofs

-----------------------------------------------------------------------------
(* Sequences *)

\* What stream.next and rx.recv take off a queue.
LEMMA TakesFirst ==
  ASSUME NEW S, NEW s \in Seq(S), s # <<>>
  PROVE  /\ Len(s) \in Nat \ {0} /\ Head(s) = s[1] /\ Head(s) \in S
         /\ Tail(s) \in Seq(S) /\ Len(Tail(s)) = Len(s) - 1
         /\ \A i \in 1..Len(Tail(s)) : Tail(s)[i] = s[i + 1]
<1>1. Len(s) \in Nat \ {0}
  BY EmptySeq
<1>2. Head(s) = s[1]
  BY <1>1
<1>. QED  BY <1>1, <1>2, HeadTailProperties

\* What tx.send and Redis put on a queue.
LEMMA PutsLast ==
  ASSUME NEW S, NEW s \in Seq(S), NEW e \in S
  PROVE  /\ Append(s, e) \in Seq(S) /\ Len(Append(s, e)) = Len(s) + 1 /\ Len(s) \in Nat
         /\ \A i \in 1..Len(s) : Append(s, e)[i] = s[i]
         /\ Append(s, e)[Len(s) + 1] = e
BY AppendProperties, LenProperties

-----------------------------------------------------------------------------
(* Types *)

\* The task's one message becomes the channel's last.
LEMMA Forwards ==
  ASSUME TypeOK, pc = "send"
  PROVE  /\ out[1] \in Forwarded /\ Len(out) = 1
         /\ chan \o out \in Seq(Forwarded) /\ Len(chan \o out) = Len(chan) + 1
         /\ \A i \in 1..Len(chan) : (chan \o out)[i] = chan[i]
         /\ (chan \o out)[Len(chan) + 1] = out[1]
<1>1. out \in Seq(Forwarded) /\ Len(out) = 1 /\ chan \in Seq(Forwarded)
  BY DEF TypeOK
<1>2. Len(chan) \in Nat /\ 1 \in 1..Len(out)
  BY <1>1, LenProperties
<1>3. out[1] \in Forwarded
  BY <1>1, <1>2, ElementOfSeq
<1>4. /\ chan \o out \in Seq(Forwarded) /\ Len(chan \o out) = Len(chan) + Len(out)
      /\ \A i \in 1..(Len(chan) + Len(out)) :
           (chan \o out)[i] = IF i <= Len(chan) THEN chan[i] ELSE out[i - Len(chan)]
  BY <1>1, ConcatProperties, Zenon
<1>. QED  BY <1>1, <1>2, <1>3, <1>4

\* Bytes that pass decode are a routing key and a payload.
LEMMA DecodeType ==
  ASSUME NEW b \in Bytes, Decodable(b)
  PROVE  decode(b) \in [key : RoutingKey, payload : Bytes]
<1>1. decode(b).key \in RoutingKey
  BY OnlyEnvelopesDecode
<1>2. Len(b) \in Nat /\ \A i \in 1..Len(b) : b[i] \in 0..(Base - 1)
  BY LenProperties, ElementOfSeq, Zenon DEF Bytes
<1>3. ASSUME NEW m \in Nat \ {0}  PROVE SubSeq(b, m, Len(b)) \in Bytes
  <2>1. \A i \in m..Len(b) : b[i] \in 0..(Base - 1)
    BY <1>2
  <2>. QED  BY <1>2, <2>1, SubSeqProperties DEF Bytes
<1>4. decode(b).payload \in Bytes
  <2>1. CASE b[2] = FLAG_NONE
    BY <1>3, <2>1 DEF decode
  <2>2. CASE b[2] # FLAG_NONE
    <3>1. b[3] \in 0..(Base - 1) /\ b[4] \in 0..(Base - 1)
      BY <1>2, <2>2 DEF Decodable
    <3>2. BodyEnd(b) + 1 \in Nat \ {0}
      BY <3>1, NumberBack DEF BodyEnd
    <3>. QED  BY <1>3, <2>2, <3>2 DEF decode
  <2>. QED  BY <2>1, <2>2
<1>5. decode(b) = [key |-> decode(b).key, payload |-> decode(b).payload]
  BY Zenon DEF decode
<1>. QED  BY <1>1, <1>4, <1>5

\* Publishing, to a connection or to nobody.
LEMMA ArrivesType ==
  ASSUME TypeOK, NEW msg \in Message \cup {Garbage}, NEW raw \in Bytes, Arrives(msg, raw)
  PROVE  TypeOK'
<1> DEFINE new == [msg |-> msg, raw |-> raw]
<1>a. /\ new \in [msg : Message \cup {Garbage}, raw : Bytes] /\ sent' = Append(sent, new)
      /\ sent \in Seq([msg : Message \cup {Garbage}, raw : Bytes])
  BY DEF Arrives, TypeOK
<1>1. /\ sent' \in Seq([msg : Message \cup {Garbage}, raw : Bytes])
      /\ Len(sent') = Len(sent) + 1 /\ Len(sent) \in Nat
  BY <1>a, PutsLast
<1>2. Len(sent') <= MaxSent
  BY <1>1, SubscriptionAssumption DEF Arrives
<1>3. wire \in Seq(1..Len(sent'))
  BY <1>1, SeqMonotonic DEF TypeOK
<1>4. wire' \in Seq(1..Len(sent'))
  <2>1. Len(sent') \in 1..Len(sent')
    BY <1>1
  <2>2. Append(wire, Len(sent')) \in Seq(1..Len(sent'))
    BY <1>3, <2>1, PutsLast
  <2>. QED  BY <1>3, <2>2, Zenon DEF Arrives
<1>5. since \in 0..Len(sent')
  BY <1>1 DEF TypeOK
<1>. QED  BY <1>1, <1>2, <1>4, <1>5 DEF TypeOK, Arrives

\* Every state of a subscription is well formed, and its channel holds at most Buffer
\* messages (the bounded mpsc channel of subscribe_async).
THEOREM SubscriptionTypes == Spec => []TypeOK
<1>1. Init => TypeOK
  BY EmptySeq, SubscriptionAssumption DEF Init, TypeOK
<1>2. TypeOK /\ [Next]_vars => TypeOK'
  <2> SUFFICES ASSUME TypeOK, [Next]_vars PROVE TypeOK'
    OBVIOUS
  <2>a. <<>> \in Seq(1..Len(sent)) /\ <<>> \in Seq(Forwarded) /\ Len(sent) \in Nat
    BY EmptySeq, LenProperties DEF TypeOK
  <2>1. ASSUME NEW m \in Message, Publish(m) PROVE TypeOK'
    <3>1. m.key \in RoutingKey /\ m.payload \in Bytes /\ Encodable(m.key)
      BY <2>1, SubscriptionAssumption DEF Publish
    <3>2. encode(m.key, m.payload) \in Bytes
      BY <3>1, RoundTrip
    <3>. QED  BY <2>1, <3>2, ArrivesType DEF Publish
  <2>2. ASSUME NEW b \in Foreign, ForeignPublish(b) PROVE TypeOK'
    <3>1. b \in Bytes
      BY SubscriptionAssumption
    <3>. QED  BY <2>2, <3>1, ArrivesType DEF ForeignPublish
  <2>3. CASE ConnLost
    <3>1. PICK n \in 0..Len(wire) : wire' = SubSeq(wire, 1, n)
      BY <2>3 DEF ConnLost
    <3>2. \A i \in 1..n : wire[i] \in 1..Len(sent)
      <4>1. wire \in Seq(1..Len(sent))
        BY Zenon DEF TypeOK
      <4>. QED  BY <3>1, <4>1, LenProperties, ElementOfSeq
    <3>3. wire' \in Seq(1..Len(sent))
      BY <3>1, <3>2, SubSeqProperties
    <3>. QED  BY <2>3, <3>3 DEF ConnLost, TypeOK
  <2>4. CASE StaleEnds
    BY <2>4 DEF StaleEnds, TypeOK
  <2>5. CASE Subscribe \/ Reconnect
    BY <2>a, <2>5 DEF Subscribe, Reconnect, Subscribed, TypeOK
  <2>6. CASE Ends
    <3>1. Len(<<>>) = 0
      BY EmptySeq
    <3>. QED  BY <2>a, <2>6, <3>1 DEF Ends, Disconnected, TypeOK
  <2>7. CASE TaskTop
    BY <2>6, <2>7, Zenon DEF TaskTop, TypeOK
  <2>8. CASE TaskInner
    BY <2>6, <2>8, Zenon DEF TaskInner, TypeOK
  <2>9. CASE TaskNext
    <3>1. /\ Head(wire) \in 1..Len(sent) /\ wire' \in Seq(1..Len(sent))
      <4>1. wire \in Seq(1..Len(sent)) /\ wire # <<>> /\ wire' = Tail(wire)
        BY <2>9 DEF TaskNext, TypeOK
      <4>. QED  BY <4>1, TakesFirst
    <3>2. sent[Head(wire)].raw \in Bytes
      <4>1. sent \in Seq([msg : Message \cup {Garbage}, raw : Bytes])
        BY DEF TypeOK
      <4>2. sent[Head(wire)] \in [msg : Message \cup {Garbage}, raw : Bytes]
        BY <3>1, <4>1, ElementOfSeq, Zenon
      <4>. QED  BY <4>2
    <3>3. ASSUME Passes(sent[Head(wire)].raw)
          PROVE  /\ out' \in Seq(Forwarded) /\ Len(out') = 1 /\ pc' = "send"
      <4>1. decode(sent[Head(wire)].raw) \in [key : RoutingKey, payload : Bytes]
        BY <3>2, <3>3, DecodeType DEF Passes
      <4>2. Head(wire) \in 1..MaxSent
        BY <3>1, <2>a, SubscriptionAssumption DEF TypeOK
      <4>3. [n |-> Head(wire), msg |-> decode(sent[Head(wire)].raw)] \in Forwarded
        BY <4>1, <4>2 DEF Forwarded
      <4> DEFINE d == [n |-> Head(wire), msg |-> decode(sent[Head(wire)].raw)]
      <4>4. out' = <<d>> /\ pc' = "send"
        BY <2>9, <3>3 DEF TaskNext
      <4> HIDE DEF d
      <4>5. <<d>> \in Seq(Forwarded) /\ Len(<<d>>) = 1
        BY <4>3 DEF d
      <4>. QED  BY <4>4, <4>5
    <3>4. CASE Passes(sent[Head(wire)].raw)
      BY <2>9, <3>1, <3>3, <3>4 DEF TaskNext, TypeOK
    <3>5. CASE ~Passes(sent[Head(wire)].raw)
      BY <2>9, <3>1, <3>5 DEF TaskNext, TypeOK
    <3>. QED  BY <3>4, <3>5
  <2>10. CASE TaskLoses
    BY <2>a, <2>10 DEF TaskLoses, Disconnected, TypeOK
  <2>11. CASE TaskSend
    <3>1. CASE Ends
      BY <2>6, <3>1
    <3>2. CASE ~Ends
      <4>1. Len(<<>>) = 0 /\ Len(chan) \in Nat /\ Buffer \in Nat
        BY EmptySeq, LenProperties, SubscriptionAssumption DEF TypeOK
      <4>a. pc = "send" /\ Len(chan) < Buffer /\ chan' = chan \o out
        BY <2>11, <3>2, Zenon DEF TaskSend
      <4>b. chan \o out \in Seq(Forwarded) /\ Len(chan \o out) = Len(chan) + 1
        BY <4>a, Forwards, Zenon
      <4>2. chan' \in Seq(Forwarded) /\ Len(chan') <= Buffer
        BY <4>1, <4>a, <4>b
      <4>3. /\ pc' = "inner" /\ out' = <<>>
            /\ UNCHANGED <<sent, conn, wire, since, rx, got>>
        BY <2>11, <3>2 DEF TaskSend
      <4>. QED  BY <2>a, <4>1, <4>2, <4>3 DEF TypeOK
    <3>. QED  BY <3>1, <3>2
  <2>12. CASE TaskWakes \/ ReconnectFails
    BY <2>12 DEF TaskWakes, ReconnectFails, TypeOK
  <2>13. CASE Receive
    <3>1. /\ Head(chan) \in Forwarded /\ chan' \in Seq(Forwarded) /\ Len(chan') = Len(chan) - 1
          /\ Len(chan) \in Nat
      BY <2>13, TakesFirst DEF Receive, TypeOK
    <3>2. Len(chan') <= Buffer
      BY <3>1, SubscriptionAssumption DEF TypeOK
    <3>3. got' \in Seq(Forwarded)
      BY <2>13, <3>1, PutsLast DEF Receive, TypeOK
    <3>. QED  BY <2>13, <3>1, <3>2, <3>3 DEF Receive, TypeOK
  <2>14. CASE DropStream
    <3>1. Len(<<>>) <= Buffer
      BY EmptySeq, SubscriptionAssumption
    <3>. QED  BY <2>a, <2>14, <3>1 DEF DropStream, TypeOK
  <2>15. CASE UNCHANGED vars
    BY <2>15 DEF vars, TypeOK
  <2>. QED
    BY <2>1, <2>2, <2>3, <2>4, <2>5, <2>7, <2>8, <2>9, <2>10, <2>11, <2>12, <2>13, <2>14, <2>15
    DEF Next, TaskStep
<1>. QED  BY <1>1, <1>2, PTL DEF Spec

-----------------------------------------------------------------------------
(* What is on the line is what was published, in order *)

\* An entry of sent holds what its bytes decode to, or bytes that do not decode.
Faithful(m) ==
  IF m.msg \in Message THEN Decodable(m.raw) /\ decode(m.raw) = m.msg
  ELSE m.msg = Garbage /\ ~Decodable(m.raw)

\* Every message of s is the wanted one that was published at its place.
Honest(s) ==
  \A i \in 1..Len(s) :
    s[i].n <= Len(sent) /\ s[i].msg = sent[s[i].n].msg /\ s[i].msg \in Wanted

\* Places rise along a queue, and from one queue to the next towards Redis.
Rising(s) == \A i, j \in 1..Len(s) : i < j => s[i].n < s[j].n
Before(s, t) == \A i \in 1..Len(s), j \in 1..Len(t) : s[i].n < t[j].n
BeforeWire(s) == \A i \in 1..Len(s), j \in 1..Len(wire) : s[i].n < wire[j]

InOrder ==
  /\ Rising(got) /\ Rising(chan)
  /\ \A i, j \in 1..Len(wire) : i < j => wire[i] < wire[j]
  /\ Before(got, chan) /\ Before(got, out) /\ Before(chan, out)
  /\ BeforeWire(got) /\ BeforeWire(chan) /\ BeforeWire(out)

\* A message with place n is in s.
At(s, n) == \E i \in 1..Len(s) : s[i].n = n

\* NothingLostInside, one queue at a time.
Kept ==
  conn = "open" /\ rx = "open" =>
    \A n \in (since + 1)..Len(sent) : sent[n].msg \in Wanted =>
      (\E i \in 1..Len(wire) : wire[i] = n) \/ At(out, n) \/ At(chan, n) \/ At(got, n)

LineInv ==
  /\ TypeOK
  /\ \A n \in 1..Len(sent) : Faithful(sent[n])
  /\ Honest(got) /\ Honest(chan) /\ Honest(out)
  /\ InOrder
  /\ Kept

\* The elements of the queues, by their types.
LEMMA QueueFields ==
  ASSUME TypeOK
  PROVE  /\ Len(sent) \in Nat /\ Len(wire) \in Nat /\ Len(out) \in Nat
         /\ Len(chan) \in Nat /\ Len(got) \in Nat
         /\ \A i \in 1..Len(wire) : wire[i] \in 1..Len(sent)
         /\ \A i \in 1..Len(out) : out[i] \in Forwarded /\ out[i].n \in Nat \ {0}
         /\ \A i \in 1..Len(chan) : chan[i] \in Forwarded /\ chan[i].n \in Nat \ {0}
         /\ \A i \in 1..Len(got) : got[i] \in Forwarded /\ got[i].n \in Nat \ {0}
<1>1. /\ wire \in Seq(1..Len(sent)) /\ out \in Seq(Forwarded) /\ chan \in Seq(Forwarded)
      /\ got \in Seq(Forwarded) /\ sent \in Seq([msg : Message \cup {Garbage}, raw : Bytes])
  BY DEF TypeOK
<1>2. \A d \in Forwarded : d.n \in Nat \ {0}
  BY SubscriptionAssumption DEF Forwarded
<1>3. /\ Len(sent) \in Nat /\ Len(wire) \in Nat /\ Len(out) \in Nat
      /\ Len(chan) \in Nat /\ Len(got) \in Nat
  BY <1>1, LenProperties
<1>4. \A i \in 1..Len(wire) : wire[i] \in 1..Len(sent)
  BY <1>1, ElementOfSeq
<1>5. \A i \in 1..Len(out) : out[i] \in Forwarded
  BY <1>1, ElementOfSeq
<1>6. \A i \in 1..Len(chan) : chan[i] \in Forwarded
  BY <1>1, ElementOfSeq
<1>7. \A i \in 1..Len(got) : got[i] \in Forwarded
  BY <1>1, ElementOfSeq
<1>. QED  BY <1>2, <1>3, <1>4, <1>5, <1>6, <1>7, Zenon

\* The published messages, by their types.
LEMMA SentFields ==
  ASSUME TypeOK, NEW n \in 1..Len(sent)
  PROVE  sent[n].msg \in Message \cup {Garbage} /\ sent[n].raw \in Bytes
<1>1. sent \in Seq([msg : Message \cup {Garbage}, raw : Bytes])
  BY DEF TypeOK
<1>2. sent[n] \in [msg : Message \cup {Garbage}, raw : Bytes]
  BY <1>1, ElementOfSeq, Zenon
<1>. QED  BY <1>2

\* decode and the filter let through the wanted messages and no others.
LEMMA PassesWanted ==
  ASSUME TypeOK, NEW n \in 1..Len(sent), Faithful(sent[n])
  PROVE  /\ Passes(sent[n].raw) <=> sent[n].msg \in Wanted
         /\ Passes(sent[n].raw) => decode(sent[n].raw) = sent[n].msg
<1>1. CASE sent[n].msg \in Message
  BY <1>1 DEF Faithful, Passes, Wanted
<1>2. CASE sent[n].msg \notin Message
  BY <1>2 DEF Faithful, Passes, Wanted
<1>. QED  BY <1>1, <1>2

\* Publishing to a live connection puts the message last on it.
LEMMA ArrivesKeeps ==
  ASSUME LineInv, NEW msg \in Message \cup {Garbage}, NEW raw \in Bytes,
         Faithful([msg |-> msg, raw |-> raw]), Arrives(msg, raw)
  PROVE  LineInv'
<1> DEFINE new == [msg |-> msg, raw |-> raw]
<1> USE DEF LineInv
<1>a. /\ Len(sent) \in Nat /\ Len(wire) \in Nat /\ since \in Nat
      /\ \A i \in 1..Len(wire) : wire[i] \in 1..Len(sent)
      /\ \A i \in 1..Len(out) : out[i].n \in Nat \ {0}
      /\ \A i \in 1..Len(chan) : chan[i].n \in Nat \ {0}
      /\ \A i \in 1..Len(got) : got[i].n \in Nat \ {0}
  <2>1. since \in Nat
    BY DEF TypeOK
  <2>. QED  BY <2>1, QueueFields, Zenon
<1>1. TypeOK'
  BY ArrivesType
<1>2. /\ sent \in Seq([msg : Message \cup {Garbage}, raw : Bytes])
      /\ new \in [msg : Message \cup {Garbage}, raw : Bytes] /\ sent' = Append(sent, new)
  BY DEF Arrives, TypeOK
<1> HIDE DEF new
<1>3. /\ Len(sent') = Len(sent) + 1 /\ sent'[Len(sent) + 1] = new
      /\ \A n \in 1..Len(sent) : sent'[n] = sent[n]
  BY <1>a, <1>2, PutsLast
<1>4. UNCHANGED <<conn, since, pc, out, chan, rx, got>>
  BY DEF Arrives
<1>5. \/ conn # "open" /\ wire' = wire
      \/ /\ conn = "open" /\ Len(wire') = Len(wire) + 1
         /\ wire'[Len(wire) + 1] = Len(sent) + 1
         /\ \A i \in 1..Len(wire) : wire'[i] = wire[i]
  <2>1. CASE conn # "open"
    BY <2>1 DEF Arrives
  <2>2. CASE conn = "open"
    <3>1. wire' = Append(wire, Len(sent'))
      BY <2>2 DEF Arrives
    <3>2. wire \in Seq(Nat) /\ Len(sent') \in Nat
      <4>1. wire \in Seq(1..Len(sent)) /\ 1..Len(sent) \subseteq Nat
        BY DEF TypeOK
      <4>. QED  BY <1>a, <1>3, <4>1, SeqMonotonic
    <3>. QED  BY <1>3, <2>2, <3>1, <3>2, PutsLast
  <2>. QED  BY <2>1, <2>2
<1>6. \A n \in 1..Len(sent') : Faithful(sent'[n])
  BY <1>3 DEF new
<1>7. (Honest(got) /\ Honest(chan) /\ Honest(out))'
  <2>1. ASSUME NEW s, Honest(s), \A i \in 1..Len(s) : s[i].n \in Nat \ {0}
        PROVE  \A i \in 1..Len(s) : /\ s[i].n <= Len(sent') /\ s[i].msg = sent'[s[i].n].msg
                                     /\ s[i].msg \in Wanted
    <3> SUFFICES ASSUME NEW i \in 1..Len(s)
                 PROVE  /\ s[i].n <= Len(sent') /\ s[i].msg = sent'[s[i].n].msg
                        /\ s[i].msg \in Wanted
      OBVIOUS
    <3>1. s[i].n \in 1..Len(sent) /\ s[i].msg = sent[s[i].n].msg /\ s[i].msg \in Wanted
      BY <1>a, <2>1 DEF Honest
    <3>. QED  BY <1>a, <1>3, <3>1
  <2>2. Honest(got)'
    BY <1>a, <1>4, <2>1, ZenonT(30) DEF Honest
  <2>3. Honest(chan)'
    BY <1>a, <1>4, <2>1, ZenonT(30) DEF Honest
  <2>4. Honest(out)'
    BY <1>a, <1>4, <2>1, ZenonT(30) DEF Honest
  <2>. QED  BY <2>2, <2>3, <2>4
<1>8. InOrder'
  <2>1. (Rising(got) /\ Rising(chan) /\ Before(got, chan) /\ Before(got, out) /\ Before(chan, out))'
    BY <1>4 DEF InOrder, Rising, Before
  <2>2. \A i, j \in 1..Len(wire') : i < j => wire'[i] < wire'[j]
    BY <1>a, <1>5 DEF InOrder
  <2>3. (BeforeWire(got) /\ BeforeWire(chan) /\ BeforeWire(out))'
    <3>1. ASSUME NEW s, Honest(s), \A i \in 1..Len(s) : s[i].n \in Nat \ {0}, BeforeWire(s)
          PROVE  \A i \in 1..Len(s), j \in 1..Len(wire') : s[i].n < wire'[j]
      BY <1>a, <1>5, <3>1 DEF Honest, BeforeWire
    <3>. QED  BY <1>a, <1>4, <3>1, Zenon DEF InOrder, BeforeWire
  <2>. QED  BY <2>1, <2>2, <2>3 DEF InOrder
<1>9. Kept'
  <2> SUFFICES ASSUME conn = "open", rx = "open", NEW n \in (since + 1)..Len(sent'),
                      sent'[n].msg \in Wanted
               PROVE  \/ \E i \in 1..Len(wire') : wire'[i] = n
                      \/ At(out, n) \/ At(chan, n) \/ At(got, n)
    BY <1>4, Zenon DEF Kept, At
  <2>1. CASE n = Len(sent) + 1
    BY <1>a, <1>5, <2>1
  <2>2. CASE n # Len(sent) + 1
    <3>1. n \in (since + 1)..Len(sent) /\ sent[n].msg \in Wanted
      BY <1>a, <1>3, <2>2
    <3>2. \/ \E i \in 1..Len(wire) : wire[i] = n
          \/ At(out, n) \/ At(chan, n) \/ At(got, n)
      BY <3>1 DEF Kept
    <3>. QED  BY <1>a, <1>5, <3>2
  <2>. QED  BY <2>1, <2>2
<1>. QED  BY <1>1, <1>6, <1>7, <1>8, <1>9

\* A tail of the connection, the task's message or the channel may be lost: what stays is
\* in order.
LEMMA LosesKeeps ==
  ASSUME LineInv, TypeOK', UNCHANGED <<sent, got>>,
         chan' = chan \/ Len(chan') = 0, out' = out \/ Len(out') = 0,
         Len(wire') <= Len(wire), \A i \in 1..Len(wire') : wire'[i] = wire[i],
         Kept'
  PROVE  LineInv'
<1> USE DEF LineInv
<1>1. Len(wire) \in Nat /\ Len(wire') \in Nat
  <2>1. Len(wire) \in Nat
    BY QueueFields
  <2>2. wire' \in Seq(1..Len(sent'))
    BY DEF TypeOK
  <2>. QED  BY <2>1, <2>2, LenProperties, Zenon
<1>2. \A i \in 1..Len(wire') : i \in 1..Len(wire) /\ wire'[i] = wire[i]
  BY <1>1
<1>3. 1..0 = {}
  OBVIOUS
<1>4. (Honest(got) /\ Honest(chan) /\ Honest(out))'
  BY <1>3, Zenon DEF Honest
<1>5. (Rising(got) /\ Rising(chan))'
  BY <1>3 DEF InOrder, Rising
<1>6. (Before(got, chan) /\ Before(got, out) /\ Before(chan, out))'
  BY <1>3 DEF InOrder, Before
<1>7. \A i, j \in 1..Len(wire') : i < j => wire'[i] < wire'[j]
  BY <1>2 DEF InOrder
<1>8. (BeforeWire(got) /\ BeforeWire(chan) /\ BeforeWire(out))'
  BY <1>2, <1>3 DEF InOrder, BeforeWire
<1>9. \A n \in 1..Len(sent') : Faithful(sent'[n])
  OBVIOUS
<1>. QED  BY <1>4, <1>5, <1>6, <1>7, <1>8, <1>9 DEF InOrder

\* The task takes the connection's first message; a wanted one is then in its hands.
LEMMA TaskNextKeeps ==
  ASSUME LineInv, TypeOK', TaskNext
  PROVE  LineInv'
<1> USE DEF LineInv
<1> DEFINE h == Head(wire)
<1>1. /\ Len(wire) \in Nat \ {0} /\ h = wire[1] /\ h \in 1..Len(sent)
      /\ Len(wire') = Len(wire) - 1
      /\ \A i \in 1..Len(wire') : wire'[i] = wire[i + 1]
  <2>1. wire \in Seq(1..Len(sent)) /\ wire # <<>> /\ wire' = Tail(wire)
    BY DEF TaskNext, TypeOK
  <2>. QED  BY <2>1, TakesFirst
<1>2. UNCHANGED <<sent, conn, since, chan, rx, got>>
  BY DEF TaskNext
<1>3. /\ Len(sent) \in Nat /\ since \in Nat
      /\ \A i \in 1..Len(wire) : wire[i] \in 1..Len(sent)
      /\ \A i \in 1..Len(out) : out[i].n \in Nat \ {0}
      /\ \A i \in 1..Len(chan) : chan[i].n \in Nat \ {0}
      /\ \A i \in 1..Len(got) : got[i].n \in Nat \ {0}
  <2>1. since \in Nat
    BY DEF TypeOK
  <2>. QED  BY <2>1, QueueFields, Zenon
<1>4. Len(out) = 0
  BY DEF TaskNext, TypeOK
<1>5. Passes(sent[h].raw) <=> sent[h].msg \in Wanted
  BY <1>1, PassesWanted
<1>6. \/ sent[h].msg \notin Wanted /\ Len(out') = 0
      \/ /\ sent[h].msg \in Wanted /\ Len(out') = 1
         /\ out'[1].n = h /\ out'[1].msg = sent[h].msg
  <2>1. CASE Passes(sent[h].raw)
    <3>1. out' = <<[n |-> h, msg |-> decode(sent[h].raw)]>>
      BY <2>1 DEF TaskNext
    <3>2. decode(sent[h].raw) = sent[h].msg
      BY <1>1, <2>1, PassesWanted
    <3>. QED  BY <1>5, <2>1, <3>1, <3>2, Zenon
  <2>2. CASE ~Passes(sent[h].raw)
    BY <1>4, <1>5, <2>2 DEF TaskNext
  <2>. QED  BY <2>1, <2>2
<1> HIDE DEF h
<1>7. (Honest(got) /\ Honest(chan))'
  BY <1>2, Zenon DEF Honest
<1>8. Honest(out)'
  BY <1>1, <1>2, <1>3, <1>6 DEF Honest
<1>9. InOrder'
  <2>1. (Rising(got) /\ Rising(chan) /\ Before(got, chan))'
    BY <1>2 DEF InOrder, Rising, Before
  <2>2. \A i, j \in 1..Len(wire') : i < j => wire'[i] < wire'[j]
    BY <1>1 DEF InOrder
  <2>b. \A j \in 1..Len(wire') : j + 1 \in 1..Len(wire) /\ wire'[j] = wire[j + 1]
    BY <1>1
  <2>3. (BeforeWire(got) /\ BeforeWire(chan))'
    BY <1>2, <2>b DEF InOrder, BeforeWire
  <2>a. \A i \in 1..Len(out') : i = 1 /\ out'[i].n = h
    <3>1. Len(out') = 0 => 1..Len(out') = {}
      OBVIOUS
    <3>2. Len(out') = 1 => 1..Len(out') = {1}
      OBVIOUS
    <3>. QED  BY <1>6, <3>1, <3>2, Zenon
  <2>4. BeforeWire(out)'
    <3>1. \A j \in 1..Len(wire') : h < wire'[j]
      <4>1. \A j \in 1..Len(wire') : 1 < j + 1 /\ j + 1 \in 1..Len(wire) /\ 1 \in 1..Len(wire)
        BY <1>1
      <4>. QED  BY <1>1, <4>1 DEF InOrder
    <3>. QED  BY <2>a, <3>1 DEF BeforeWire
  <2>5. (Before(got, out) /\ Before(chan, out))'
    <3>1. /\ \A i \in 1..Len(got) : got[i].n < h
          /\ \A i \in 1..Len(chan) : chan[i].n < h
      BY <1>1 DEF InOrder, BeforeWire
    <3>. QED  BY <1>2, <2>a, <3>1, Zenon DEF Before
  <2>. QED  BY <2>1, <2>2, <2>3, <2>4, <2>5 DEF InOrder
<1>10. Kept'
  <2> SUFFICES ASSUME conn = "open", rx = "open", NEW n \in (since + 1)..Len(sent),
                      sent[n].msg \in Wanted
               PROVE  \/ \E i \in 1..Len(wire') : wire'[i] = n
                      \/ At(out', n) \/ At(chan, n) \/ At(got, n)
    BY <1>2 DEF Kept, At
  <2>1. (\E i \in 1..Len(wire) : wire[i] = n) \/ At(chan, n) \/ At(got, n)
    BY <1>4 DEF Kept, At
  <2>2. CASE n = h
    BY <1>6, <2>2 DEF At
  <2>3. ASSUME NEW i \in 1..Len(wire), wire[i] = n, n # h
        PROVE  \E j \in 1..Len(wire') : wire'[j] = n
    <3>1. i # 1 /\ i - 1 \in 1..Len(wire') /\ wire'[i - 1] = wire[(i - 1) + 1] /\ (i - 1) + 1 = i
      BY <1>1, <2>3
    <3>. QED  BY <2>3, <3>1
  <2>. QED  BY <2>1, <2>2, <2>3
<1>11. \A n \in 1..Len(sent') : Faithful(sent'[n])
  BY <1>2, Zenon
<1>. QED  BY <1>7, <1>8, <1>9, <1>10, <1>11

\* tx.send: the task's message becomes the channel's last.
LEMMA TaskSendKeeps ==
  ASSUME LineInv, TypeOK', TaskSend, ~Ends
  PROVE  LineInv'
<1> USE DEF LineInv
<1>1. /\ Len(out) = 1 /\ Len(chan') = Len(chan) + 1 /\ chan'[Len(chan) + 1] = out[1]
      /\ \A i \in 1..Len(chan) : chan'[i] = chan[i]
  <2>1. pc = "send" /\ chan' = chan \o out
    BY DEF TaskSend
  <2>. QED  BY <2>1, Forwards
<1>2. Len(out') = 0 /\ UNCHANGED <<sent, conn, wire, since, rx, got>>
  BY EmptySeq DEF TaskSend
<1>3. Len(chan) \in Nat /\ 1 \in 1..Len(out)
  BY <1>1, QueueFields
<1>a. \A i \in 1..Len(chan') :
        (i \in 1..Len(chan) /\ chan'[i] = chan[i]) \/ (i = Len(chan) + 1 /\ chan'[i] = out[1])
  BY <1>1, <1>3
<1>4. (Honest(got) /\ Honest(chan) /\ Honest(out))'
  <2>1. Honest(got)'
    BY <1>2, Zenon DEF Honest
  <2>2. Honest(chan)'
    BY <1>2, <1>3, <1>a, Zenon DEF Honest
  <2>3. Honest(out)'
    BY <1>2 DEF Honest
  <2>. QED  BY <2>1, <2>2, <2>3
<1>5. (Rising(got) /\ Rising(chan))'
  <2>1. ASSUME NEW i \in 1..Len(chan'), NEW j \in 1..Len(chan'), i < j
        PROVE  chan'[i].n < chan'[j].n
    <3>1. i \in 1..Len(chan) /\ chan'[i] = chan[i]
      BY <1>1, <1>3, <1>a, <2>1
    <3>. QED  BY <1>3, <1>a, <2>1, <3>1 DEF InOrder, Rising, Before
  <2>. QED  BY <1>2, <2>1 DEF InOrder, Rising
<1>6. Before(got, chan)'
  BY <1>2, <1>3, <1>a DEF InOrder, Before
<1>7. (Before(got, out) /\ Before(chan, out))'
  BY <1>2 DEF Before
<1>8. (BeforeWire(got) /\ BeforeWire(chan) /\ BeforeWire(out))'
  BY <1>1, <1>2, <1>3 DEF InOrder, BeforeWire
<1>9. \A i, j \in 1..Len(wire') : i < j => wire'[i] < wire'[j]
  BY <1>2 DEF InOrder
<1>10. \A n : At(out, n) \/ At(chan, n) => At(chan', n)
  BY <1>1, <1>3 DEF At
<1>11. Kept'
  <2>1. \A n : At(got, n) => At(got', n)
    BY <1>2 DEF At
  <2>. QED  BY <1>2, <1>10, <2>1 DEF Kept
<1>12. \A n \in 1..Len(sent') : Faithful(sent'[n])
  BY <1>2, Zenon
<1>. QED  BY <1>4, <1>5, <1>6, <1>7, <1>8, <1>9, <1>11, <1>12, Zenon DEF InOrder

\* rx.recv: the channel's first message becomes the last one received.
LEMMA ReceiveKeeps ==
  ASSUME LineInv, TypeOK', Receive
  PROVE  /\ LineInv'
         /\ Head(chan).n \in 1..Len(sent) /\ Head(chan).msg = sent[Head(chan).n].msg
         /\ Head(chan).msg \in Wanted
         /\ \A i \in 1..Len(got) : got[i].n < Head(chan).n
         /\ got' = Append(got, Head(chan)) /\ Head(chan) \in Forwarded
<1> USE DEF LineInv
<1> DEFINE h == Head(chan)
<1>1. /\ Len(chan) \in Nat \ {0} /\ h = chan[1] /\ h \in Forwarded
      /\ Len(chan') = Len(chan) - 1
      /\ \A i \in 1..Len(chan') : chan'[i] = chan[i + 1]
  BY TakesFirst DEF Receive, TypeOK
<1>a. got' = Append(got, h) /\ UNCHANGED <<sent, conn, wire, since, pc, out, rx>>
  BY DEF Receive
<1> HIDE DEF h
<1>2. /\ Len(got) \in Nat /\ Len(got') = Len(got) + 1 /\ got'[Len(got) + 1] = h
      /\ \A i \in 1..Len(got) : got'[i] = got[i]
  <2>1. got \in Seq(Forwarded)
    BY DEF TypeOK
  <2>. QED  BY <1>1, <1>a, <2>1, PutsLast
<1>b. \A i \in 1..Len(chan') : i + 1 \in 2..Len(chan) /\ chan'[i] = chan[i + 1]
  BY <1>1
<1>c. \A i \in 1..Len(got') :
        (i \in 1..Len(got) /\ got'[i] = got[i]) \/ (i = Len(got) + 1 /\ got'[i] = h)
  BY <1>2
<1>d. 1 \in 1..Len(chan) /\ 2..Len(chan) \subseteq 1..Len(chan)
  BY <1>1
<1>3. Len(sent) \in Nat /\ h.n \in Nat \ {0}
  BY <1>1, QueueFields
<1>4. /\ h.n \in 1..Len(sent) /\ h.msg = sent[h.n].msg /\ h.msg \in Wanted
  BY <1>1, <1>3 DEF Honest
<1>5. \A i \in 1..Len(got) : got[i].n < h.n
  BY <1>1 DEF InOrder, Before
<1>6. (Honest(chan) /\ Honest(out))'
  <2>1. ASSUME NEW i \in 1..Len(chan')
        PROVE  i + 1 \in 1..Len(chan) /\ chan'[i] = chan[i + 1]
    BY <1>b, <1>d, Zenon
  <2>2. Honest(chan)'
    BY <2>1, <1>a, ZenonT(30) DEF Honest
  <2>3. Honest(out)'
    BY <1>a, Zenon DEF Honest
  <2>. QED  BY <2>2, <2>3
<1>7. Honest(got)'
  <2>1. h.n <= Len(sent)
    BY <1>3, <1>4
  <2>. QED  BY <1>c, <1>4, <1>a, <2>1, Zenon DEF Honest
<1>8. Rising(chan)'
  <2>1. ASSUME NEW i \in 1..Len(chan'), NEW j \in 1..Len(chan'), i < j
        PROVE  chan'[i].n < chan'[j].n
    <3>1. /\ i + 1 \in 1..Len(chan) /\ chan'[i] = chan[i + 1]
          /\ j + 1 \in 1..Len(chan) /\ chan'[j] = chan[j + 1]
      BY <1>b, <1>d, Zenon
    <3>2. i + 1 < j + 1
      BY <2>1
    <3>3. Rising(chan)
      BY Zenon DEF InOrder
    <3>. QED  BY <3>1, <3>2, <3>3, Zenon DEF Rising
  <2>. QED  BY <2>1, Zenon DEF Rising
<1>9. Rising(got)'
  <2>1. ASSUME NEW i \in 1..Len(got'), NEW j \in 1..Len(got'), i < j
        PROVE  got'[i].n < got'[j].n
    <3>1. i \in 1..Len(got) /\ got'[i] = got[i]
      BY <1>2, <1>c, <2>1
    <3>. QED  BY <1>5, <1>c, <2>1, <3>1 DEF InOrder, Rising
  <2>. QED  BY <2>1 DEF Rising
<1>10. Before(got, chan)'
  <2>1. ASSUME NEW i \in 1..Len(got'), NEW j \in 1..Len(chan')
        PROVE  got'[i].n < chan'[j].n
    <3>1. j + 1 \in 1..Len(chan) /\ 1 < j + 1 /\ chan'[j] = chan[j + 1]
      BY <1>b, <1>d
    <3>2. h.n < chan[j + 1].n
      BY <1>1, <1>d, <3>1 DEF InOrder, Rising
    <3>3. \A k \in 1..Len(got) : got[k].n < chan[j + 1].n
      BY <3>1 DEF InOrder, Before
    <3>. QED  BY <1>c, <3>1, <3>2, <3>3, Zenon
  <2>. QED  BY <2>1 DEF Before
<1>11. (Before(got, out) /\ Before(chan, out))'
  <2>1. \A j \in 1..Len(out) : h.n < out[j].n
    BY <1>1, <1>d DEF InOrder, Before
  <2>2. Before(got, out)'
    BY <1>c, <1>a, <2>1, Zenon DEF InOrder, Before
  <2>3. Before(chan, out)'
    BY <1>b, <1>d, <1>a, Zenon DEF InOrder, Before
  <2>. QED  BY <2>2, <2>3
<1>12. (BeforeWire(got) /\ BeforeWire(chan) /\ BeforeWire(out))'
  <2>1. \A j \in 1..Len(wire) : h.n < wire[j]
    BY <1>1, <1>d DEF InOrder, BeforeWire
  <2>2. BeforeWire(got)'
    BY <1>c, <1>a, <2>1 DEF InOrder, BeforeWire
  <2>3. (BeforeWire(chan) /\ BeforeWire(out))'
    BY <1>b, <1>d, <1>a, Zenon DEF InOrder, BeforeWire
  <2>. QED  BY <2>2, <2>3
<1>13. \A i, j \in 1..Len(wire') : i < j => wire'[i] < wire'[j]
  BY <1>a DEF InOrder
<1>14. ASSUME NEW n, At(chan, n) \/ At(got, n) PROVE At(chan', n) \/ At(got', n)
  <2>1. CASE At(got, n)
    BY <1>2, <2>1 DEF At
  <2>2. ASSUME NEW i \in 1..Len(chan), chan[i].n = n PROVE At(chan', n) \/ At(got', n)
    <3>1. CASE i = 1
      BY <1>1, <1>2, <2>2, <3>1 DEF At
    <3>2. CASE i # 1
      <4>1. i - 1 \in 1..Len(chan') /\ chan'[i - 1] = chan[(i - 1) + 1] /\ (i - 1) + 1 = i
        BY <1>1, <3>2
      <4>. QED  BY <2>2, <4>1 DEF At
    <3>. QED  BY <3>1, <3>2
  <2>. QED  BY <1>14, <2>1, <2>2, Zenon DEF At
<1>15. Kept'
  <2>1. \A n : At(out, n) => At(out', n)
    BY <1>a DEF At
  <2>. QED  BY <1>a, <1>14, <2>1 DEF Kept
<1>16. \A n \in 1..Len(sent') : Faithful(sent'[n])
  BY <1>a
<1>. QED
  BY <1>1, <1>4, <1>5, <1>6, <1>7, <1>8, <1>9, <1>10, <1>11, <1>12, <1>13, <1>15, <1>16, <1>a, Zenon
  DEF InOrder, h

\* Every state of a subscription is an orderly line of published messages.
THEOREM LineHolds == Spec => []LineInv
<1>1. Init => LineInv
  <2> SUFFICES ASSUME Init PROVE LineInv
    OBVIOUS
  <2>1. TypeOK
    BY EmptySeq, SubscriptionAssumption DEF Init, TypeOK
  <2>2. 1..Len(sent) = {} /\ 1..Len(got) = {} /\ 1..Len(chan) = {} /\ 1..Len(out) = {}
    <3>1. Len(<<>>) = 0
      BY EmptySeq
    <3>2. 1..0 = {}
      OBVIOUS
    <3>. QED  BY <3>1, <3>2 DEF Init
  <2>3. Honest(got) /\ Honest(chan) /\ Honest(out)
    BY <2>2, Zenon DEF Honest
  <2>4. InOrder
    <3>1. 1..Len(wire) = {}
      BY <2>2 DEF Init
    <3>. QED  BY <2>2, <3>1, Zenon DEF InOrder, Rising, Before, BeforeWire
  <2>5. Kept
    BY DEF Kept, Init
  <2>. QED  BY <2>1, <2>2, <2>3, <2>4, <2>5 DEF LineInv
<1>2. LineInv /\ TypeOK' /\ [Next]_vars => LineInv'
  <2> SUFFICES ASSUME LineInv, TypeOK', [Next]_vars PROVE LineInv'
    OBVIOUS
  <2>a. TypeOK /\ Kept /\ Len(wire) \in Nat /\ Len(sent) \in Nat /\ Len(<<>>) = 0
    BY QueueFields, EmptySeq DEF LineInv
  <2>b. (sent' = sent /\ conn' = conn /\ wire' = wire /\ since' = since /\ out' = out
         /\ chan' = chan /\ rx' = rx /\ got' = got) => LineInv'
    <3> SUFFICES ASSUME sent' = sent, conn' = conn, wire' = wire, since' = since, out' = out,
                        chan' = chan, rx' = rx, got' = got
                 PROVE  LineInv'
      OBVIOUS
    <3>1. Kept'
      BY <2>a, Zenon DEF Kept, At
    <3>. QED  BY <2>a, <3>1, LosesKeeps
  <2>1. ASSUME NEW m \in Message, Publish(m) PROVE LineInv'
    <3>1. m \in [key : RoutingKey, payload : Bytes] /\ Encodable(m.key)
      BY <2>1, SubscriptionAssumption DEF Publish
    <3>2. m.key \in RoutingKey /\ m.payload \in Bytes /\ m = [key |-> m.key, payload |-> m.payload]
      BY <3>1
    <3> DEFINE raw == encode(m.key, m.payload)
    <3>3. raw \in Bytes /\ Decodable(raw) /\ decode(raw) = m
      BY <3>1, <3>2, RoundTrip
    <3>4. Arrives(m, raw)
      BY <2>1 DEF Publish
    <3> HIDE DEF raw
    <3>5. Faithful([msg |-> m, raw |-> raw])
      BY <3>3 DEF Faithful
    <3>. QED  BY <3>3, <3>4, <3>5, ArrivesKeeps
  <2>2. ASSUME NEW b \in Foreign, ForeignPublish(b) PROVE LineInv'
    <3>1. b \in Bytes /\ ~Decodable(b) /\ Garbage \notin Message
      BY SubscriptionAssumption
    <3>2. Faithful([msg |-> Garbage, raw |-> b])
      BY <3>1 DEF Faithful
    <3>. QED  BY <2>2, <3>1, <3>2, ArrivesKeeps DEF ForeignPublish
  <2>3. CASE ConnLost
    <3>1. PICK n \in 0..Len(wire) : wire' = SubSeq(wire, 1, n)
      BY <2>3 DEF ConnLost
    <3>2. \A i \in 1..n : wire[i] \in 1..Len(sent)
      BY <2>a, <3>1, QueueFields
    <3>3. Len(wire') <= Len(wire) /\ \A i \in 1..Len(wire') : wire'[i] = wire[i]
      <4>1. /\ Len(wire') = IF 1 <= n THEN n - 1 + 1 ELSE 0
            /\ \A i \in 1..(n - 1 + 1) : wire'[i] = wire[1 + i - 1]
        BY <3>1, <3>2, SubSeqProperties
      <4>. QED  BY <2>a, <4>1
    <3>4. Kept'
      BY <2>3 DEF ConnLost, Kept
    <3>5. UNCHANGED <<sent, out, chan, got>>
      BY <2>3 DEF ConnLost
    <3>. QED  BY <3>3, <3>4, <3>5, LosesKeeps
  <2>4. CASE StaleEnds
    <3>1. Kept'
      BY <2>4 DEF StaleEnds, Kept
    <3>. QED  BY <2>4, <2>a, <3>1, LosesKeeps DEF StaleEnds
  <2>5. CASE Subscribe \/ Reconnect
    <3>1. /\ Subscribed /\ UNCHANGED <<sent, out, chan, rx, got>>
      BY <2>5 DEF Subscribe, Reconnect
    <3>2. Kept'
      <4>1. since' = Len(sent') /\ (since' + 1)..Len(sent') = {}
        BY <2>a, <3>1 DEF Subscribed
      <4>. QED  BY <4>1 DEF Kept
    <3>3. Len(wire') <= Len(wire) /\ \A i \in 1..Len(wire') : wire'[i] = wire[i]
      BY <2>a, <3>1 DEF Subscribed
    <3>. QED  BY <3>1, <3>2, <3>3, LosesKeeps
  <2>6. ASSUME Disconnected, UNCHANGED <<sent, chan, rx, got>>, out' = out \/ out' = <<>>
        PROVE  LineInv'
    <3>1. Kept'
      BY <2>6 DEF Disconnected, Kept
    <3>2. Len(wire') <= Len(wire) /\ \A i \in 1..Len(wire') : wire'[i] = wire[i]
      BY <2>a, <2>6 DEF Disconnected
    <3>. QED  BY <2>a, <2>6, <3>1, <3>2, LosesKeeps
  <2>7. CASE Ends
    BY <2>6, <2>7 DEF Ends
  <2>8. CASE TaskTop
    BY <2>b, <2>7, <2>8 DEF TaskTop
  <2>9. CASE TaskInner
    BY <2>b, <2>7, <2>9 DEF TaskInner
  <2>10. CASE TaskNext
    BY <2>10, TaskNextKeeps
  <2>11. CASE TaskLoses
    BY <2>6, <2>11 DEF TaskLoses
  <2>12. CASE TaskSend
    BY <2>7, <2>12, TaskSendKeeps
  <2>13. CASE TaskWakes \/ ReconnectFails
    BY <2>b, <2>13, Zenon DEF TaskWakes, ReconnectFails
  <2>14. CASE Receive
    BY <2>14, ReceiveKeeps, Zenon
  <2>15. CASE DropStream
    <3>1. Kept'
      BY <2>15 DEF DropStream, Kept
    <3>. QED  BY <2>a, <2>15, <3>1, LosesKeeps DEF DropStream
  <2>16. CASE UNCHANGED vars
    BY <2>b, <2>16 DEF vars
  <2>. QED
    BY <2>1, <2>2, <2>3, <2>4, <2>5, <2>8, <2>9, <2>10, <2>11, <2>12, <2>13, <2>14, <2>15, <2>16, Zenon
    DEF Next, TaskStep
<1>. QED  BY <1>1, <1>2, SubscriptionTypes, PTL DEF Spec

\* While a connection lives no wanted message is lost between Redis and the reader, for
\* every filter and channel size (tx.send waits for room; bytes that do not decode cost
\* no other message).
THEOREM NothingLost == Spec => []NothingLostInside
<1>1. LineInv => NothingLostInside
  <2> SUFFICES ASSUME LineInv, conn = "open", rx = "open", NEW n \in (since + 1)..Len(sent),
                      sent[n].msg \in Wanted
               PROVE  n \in Range(wire) \cup {d.n : d \in Range(out \o chan \o got)}
    BY DEF NothingLostInside
  <2> DEFINE line == (out \o chan) \o got
  <2>1. out \in Seq(Forwarded) /\ chan \in Seq(Forwarded) /\ got \in Seq(Forwarded)
    BY Zenon DEF LineInv, TypeOK
  <2>2. Len(out) \in Nat /\ Len(chan) \in Nat /\ Len(got) \in Nat
    BY QueueFields DEF LineInv
  <2>3. /\ out \o chan \in Seq(Forwarded) /\ Len(out \o chan) = Len(out) + Len(chan)
        /\ \A i \in 1..(Len(out) + Len(chan)) :
             (out \o chan)[i] = IF i <= Len(out) THEN out[i] ELSE chan[i - Len(out)]
    BY <2>1, ConcatProperties
  <2>4. /\ line \in Seq(Forwarded) /\ Len(line) = Len(out) + Len(chan) + Len(got)
        /\ \A i \in 1..(Len(out \o chan) + Len(got)) :
             line[i] = IF i <= Len(out \o chan) THEN (out \o chan)[i] ELSE got[i - Len(out \o chan)]
    BY <2>1, <2>3, ConcatProperties
  <2>5. DOMAIN line = 1..Len(line)
    BY <2>4, LenProperties
  <2> HIDE DEF line
  <2>6. ASSUME NEW i \in 1..Len(line), line[i].n = n PROVE n \in {d.n : d \in Range(line)}
    BY <2>5, <2>6 DEF Range
  <2>7. ASSUME NEW i \in 1..Len(wire), wire[i] = n PROVE n \in Range(wire)
    <3>1. wire \in Seq(1..Len(sent))
      BY DEF LineInv, TypeOK
    <3>2. DOMAIN wire = 1..Len(wire)
      BY <3>1, LenProperties
    <3>. QED  BY <2>7, <3>2 DEF Range
  <2>8. ASSUME NEW i \in 1..Len(out), out[i].n = n PROVE n \in {d.n : d \in Range(line)}
    <3>1. i \in 1..Len(line) /\ line[i] = out[i]
      BY <2>2, <2>3, <2>4
    <3>. QED  BY <2>6, <2>8, <3>1
  <2>9. ASSUME NEW i \in 1..Len(chan), chan[i].n = n PROVE n \in {d.n : d \in Range(line)}
    <3>1. i + Len(out) \in 1..Len(line) /\ line[i + Len(out)] = chan[i]
      BY <2>2, <2>3, <2>4
    <3>. QED  BY <2>6, <2>9, <3>1
  <2>10. ASSUME NEW i \in 1..Len(got), got[i].n = n PROVE n \in {d.n : d \in Range(line)}
    <3>1. /\ i + (Len(out) + Len(chan)) \in 1..Len(line)
          /\ line[i + (Len(out) + Len(chan))] = got[i]
      <4> DEFINE k == i + (Len(out) + Len(chan))
      <4>1. /\ k \in 1..(Len(out \o chan) + Len(got)) /\ ~(k <= Len(out \o chan))
            /\ k - Len(out \o chan) = i /\ k \in 1..Len(line)
        BY <2>2, <2>3, <2>4
      <4>. QED  BY <2>4, <4>1
    <3>. QED  BY <2>6, <2>10, <3>1
  <2>11. (\E i \in 1..Len(wire) : wire[i] = n) \/ At(out, n) \/ At(chan, n) \/ At(got, n)
    BY DEF LineInv, Kept
  <2>12. n \in Range(wire) \/ n \in {d.n : d \in Range(line)}
    BY <2>7, <2>8, <2>9, <2>10, <2>11, Zenon DEF At
  <2>. QED  BY <2>12, Zenon DEF line
<1>. QED  BY <1>1, LineHolds, PTL

-----------------------------------------------------------------------------
(* The topic *)

\* The messages of a queue with one more at its end.
LEMMA MessagesOf ==
  ASSUME NEW S, NEW s \in Seq(S), NEW e \in S
  PROVE  [i \in DOMAIN Append(s, e) |-> Append(s, e)[i].msg]
           = Append([i \in DOMAIN s |-> s[i].msg], e.msg)
<1> DEFINE M == {x.msg : x \in S}
           t == [i \in DOMAIN s |-> s[i].msg]
           u == [i \in DOMAIN Append(s, e) |-> Append(s, e)[i].msg]
<1>a. ASSUME NEW r \in Seq(S)
      PROVE  /\ [i \in DOMAIN r |-> r[i].msg] \in Seq(M)
             /\ Len([i \in DOMAIN r |-> r[i].msg]) = Len(r)
  <2> DEFINE v == [i \in DOMAIN r |-> r[i].msg]
  <2>1. Len(r) \in Nat /\ DOMAIN r = 1..Len(r)
    BY LenProperties
  <2>2. \A i \in 1..Len(r) : r[i] \in S
    BY ElementOfSeq
  <2>3. v \in [1..Len(r) -> M]
    BY <2>1, <2>2
  <2>4. v \in Seq(M)
    BY <2>1, <2>3, SeqDef
  <2>5. Len(v) \in Nat /\ 1..Len(v) = 1..Len(r)
    <3>1. DOMAIN v = 1..Len(r)
      BY <2>1
    <3> HIDE DEF v
    <3>. QED  BY <2>4, <3>1, LenProperties
  <2>6. \A m, n \in Nat : 1..m = 1..n => m = n
    <3> SUFFICES ASSUME NEW m \in Nat, NEW n \in Nat, 1..m = 1..n PROVE m = n
      OBVIOUS
    <3>1. m # 0 => m \in 1..n
      OBVIOUS
    <3>2. n # 0 => n \in 1..m
      OBVIOUS
    <3>. QED  BY <3>1, <3>2
  <2> HIDE DEF v
  <2>7. Len(v) = Len(r)
    BY <2>1, <2>5, <2>6
  <2>. QED  BY <2>4, <2>7 DEF v
<1>1. /\ Append(s, e) \in Seq(S) /\ Len(Append(s, e)) = Len(s) + 1 /\ Len(s) \in Nat
      /\ \A i \in 1..Len(s) : Append(s, e)[i] = s[i]
      /\ Append(s, e)[Len(s) + 1] = e
  BY PutsLast
<1>2. t \in Seq(M) /\ Len(t) = Len(s)
  BY <1>a
<1>3. u \in Seq(M) /\ Len(u) = Len(s) + 1
  BY <1>1, <1>a
<1>4. e.msg \in M
  OBVIOUS
<1>5. \A i \in 1..Len(s) : t[i] = s[i].msg
  BY LenProperties
<1>6. \A i \in 1..(Len(s) + 1) : u[i] = Append(s, e)[i].msg
  BY <1>1, LenProperties
<1> HIDE DEF t, u, M
<1>7. /\ Append(t, e.msg) \in Seq(M) /\ Len(Append(t, e.msg)) = Len(s) + 1
      /\ \A i \in 1..Len(s) : Append(t, e.msg)[i] = t[i]
      /\ Append(t, e.msg)[Len(s) + 1] = e.msg
  BY <1>2, <1>4, PutsLast
<1>8. ASSUME NEW i \in 1..(Len(s) + 1) PROVE u[i] = Append(t, e.msg)[i]
  <2>1. CASE i \in 1..Len(s)
    BY <1>1, <1>5, <1>6, <1>7, <2>1
  <2>2. CASE i = Len(s) + 1
    BY <1>1, <1>6, <1>7, <2>2
  <2>3. Len(s) \in Nat
    BY <1>1
  <2>4. i \in 1..Len(s) \/ i = Len(s) + 1
    BY <2>3
  <2>. QED  BY <2>1, <2>2, <2>4, Zenon
<1>9. u = Append(t, e.msg)
  BY <1>3, <1>7, <1>8, SeqEqual
<1>. QED  BY <1>9 DEF t, u

\* A subscription gives its reader published messages that pass the filter, unaltered, in
\* order and never twice, whatever connections come and go: subscribe_async implements
\* Topic step by step.
THEOREM SubscriptionImplementsTopic == Spec => ImplementsTopic
<1>1. Init => Service!Init
  <2> SUFFICES ASSUME Init PROVE Service!Init
    OBVIOUS
  <2>1. [n \in DOMAIN <<>> |-> <<>>[n].msg] = <<>>
    OBVIOUS
  <2>. QED  BY <2>1 DEF Init, Service!Init
<1>2. LineInv /\ TypeOK' /\ [Next]_vars => [Service!Next]_(Service!vars)
  <2> SUFFICES ASSUME LineInv, TypeOK', [Next]_vars PROVE [Service!Next]_(Service!vars)
    OBVIOUS
  <2>1. ASSUME NEW msg \in Message \cup {Garbage}, NEW raw \in Bytes, Arrives(msg, raw)
        PROVE  Service!Next
    <3> DEFINE new == [msg |-> msg, raw |-> raw]
    <3>1. /\ sent \in Seq([msg : Message \cup {Garbage}, raw : Bytes])
          /\ new \in [msg : Message \cup {Garbage}, raw : Bytes] /\ new.msg = msg
          /\ sent' = Append(sent, new) /\ got' = got
      BY <2>1, Zenon DEF Arrives, LineInv, TypeOK
    <3> HIDE DEF new
    <3>2. [n \in DOMAIN sent' |-> sent'[n].msg] = Append([n \in DOMAIN sent |-> sent[n].msg], msg)
      BY <3>1, MessagesOf
    <3>3. Service!Send
      BY <3>1, <3>2, Zenon DEF Service!Send
    <3>. QED  BY <3>3, Zenon DEF Service!Next
  <2>2. ASSUME NEW m \in Message, Publish(m) PROVE Service!Next
    <3>1. m.key \in RoutingKey /\ m.payload \in Bytes /\ Encodable(m.key)
      BY <2>2, SubscriptionAssumption DEF Publish
    <3>2. encode(m.key, m.payload) \in Bytes
      BY <3>1, RoundTrip
    <3>. QED  BY <2>1, <2>2, <3>2 DEF Publish
  <2>3. ASSUME NEW b \in Foreign, ForeignPublish(b) PROVE Service!Next
    <3>1. b \in Bytes
      BY SubscriptionAssumption
    <3>. QED  BY <2>1, <2>3, <3>1 DEF ForeignPublish
  <2>4. CASE Receive
    <3> DEFINE h == Head(chan)
               published == [n \in DOMAIN sent |-> sent[n].msg]
               upto == IF got = <<>> THEN 0 ELSE got[Len(got)].n
    <3>1. /\ h.n \in 1..Len(sent) /\ h.msg = sent[h.n].msg /\ h.msg \in Wanted
          /\ \A i \in 1..Len(got) : got[i].n < h.n
          /\ got' = Append(got, h) /\ h \in Forwarded
      BY <2>4, ReceiveKeeps
    <3>2. sent' = sent
      BY <2>4 DEF Receive
    <3> HIDE DEF h
    <3>3. got \in Seq(Forwarded) /\ sent \in Seq([msg : Message \cup {Garbage}, raw : Bytes])
      BY DEF LineInv, TypeOK
    <3>4. [i \in DOMAIN got' |-> got'[i].msg] = Append([i \in DOMAIN got |-> got[i].msg], h.msg)
      BY <3>1, <3>3, MessagesOf
    <3>5. DOMAIN sent = 1..Len(sent) /\ Len(sent) \in Nat
      BY <3>3, LenProperties, Zenon
    <3>6. published[h.n] = h.msg
      BY <3>1, <3>5
    <3>7. Len(published) = Len(sent)
      <4>1. published \in [1..Len(sent) -> {sent[n].msg : n \in 1..Len(sent)}]
        BY <3>5
      <4>. QED  BY <3>5, <4>1
    <3>8. upto \in Nat /\ upto < h.n
      <4>1. CASE got = <<>>
        BY <3>1, <4>1
      <4>2. CASE got # <<>>
        <5>1. Len(got) \in 1..Len(got) /\ \A i \in 1..Len(got) : got[i].n \in Nat
          BY <3>3, <4>2, EmptySeq, QueueFields DEF LineInv
        <5>. QED  BY <3>1, <4>2, <5>1, Zenon
      <4>. QED  BY <4>1, <4>2
    <3>9. (IF got' = <<>> THEN 0 ELSE got'[Len(got')].n) = h.n
      <4>1. got' # <<>> /\ Len(got') = Len(got) + 1 /\ got'[Len(got) + 1] = h
        BY <3>1, <3>3, AppendProperties
      <4>. QED  BY <4>1, Zenon
    <3>10. h.n \in (upto + 1)..Len(published)
      BY <3>1, <3>5, <3>7, <3>8
    <3>11. Service!Deliver
      BY <3>1, <3>2, <3>4, <3>6, <3>9, <3>10, Zenon DEF Service!Deliver
    <3>. QED  BY <3>11 DEF Service!Next
  <2>5. ASSUME UNCHANGED <<sent, got>> PROVE UNCHANGED (Service!vars)
    BY <2>5 DEF Service!vars
  <2>6. CASE ConnLost \/ StaleEnds \/ Subscribe \/ TaskStep \/ DropStream
    <3>1. UNCHANGED <<sent, got>>
      BY <2>6 DEF ConnLost, StaleEnds, Subscribe, TaskStep, DropStream, TaskTop, TaskInner,
                  TaskNext, TaskLoses, TaskSend, TaskWakes, Reconnect, ReconnectFails, Ends
    <3>. QED  BY <2>5, <3>1, Zenon
  <2>7. CASE UNCHANGED vars
    BY <2>5, <2>7 DEF vars
  <2>. QED  BY <2>2, <2>3, <2>4, <2>6, <2>7 DEF Next
<1>. QED
  BY <1>1, <1>2, LineHolds, SubscriptionTypes, PTL DEF Spec, ImplementsTopic, Service!Spec

=============================================================================
