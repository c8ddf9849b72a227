-------------------------- MODULE MqttClientProofs --------------------------
(***************************************************************************)
(* Proofs about MqttClient, for every number of messages, faults and       *)
(* packets on their way: a connection is watched by the timer, the broker  *)
(* gets the messages in the order of the calls, and, as long as the client *)
(* gives no id that is still in use, forwards one with quality of service  *)
(* 2 once, and has every message the program is told about.                *)
(* The invariant says which messages can be in the queue, with TCP and on  *)
(* the way from the broker together; every handler of mqtt.c keeps it.     *)
(***************************************************************************)
EXTENDS MqttClient, TLAPS

----------------------------------------------------------------------------
(* The invariant.                                                          *)

MsgTypes ==
  {"CONNECT", "CONNACK", "PUBLISH", "PUBACK", "PUBREC", "PUBREL", "PUBCOMP",
   "SUBSCRIBE", "SUBACK", "UNSUBSCRIBE", "UNSUBACK", "PINGREQ", "PINGRESP",
   "DISCONNECT"}

Message == [type : MsgTypes, qos : 0 .. 2, id : Nat, no : Nat]

Client ==
  [conn : BOOLEAN, disconcb : BOOLEAN, connected : BOOLEAN,
   auto_reconnect : BOOLEAN,
   connState : {"INIT", "CONNECT_SENDING", "CONNECT_SENT", "DATA"},
   timer : BOOLEAN, event_timeout : 0 .. MQTT_SEND_TIMEOUT,
   keep_alive_tick : Nat, dns_reconn_count : Nat, address : BOOLEAN,
   message_id : 0 .. IdMod - 1, queue : Seq(Message),
   tcp : {"none", "resolving", "connecting", "up", "closing", "failing"},
   flight : Seq(Message), inbox : Seq(Message),
   told : {"no", "pending", "told", "dropped"}, closed : BOOLEAN,
   late : BOOLEAN, reported : SUBSET (Nat \X (0 .. 2)),
   ids : {"unique", "reused"}]

Broker == [held : SUBSET Nat, latest : Nat, forwarded : SUBSET Nat,
           twice : SUBSET (Nat \X (0 .. 2))]

\* A connection belongs to the client, and the timer watches it.
Guarded(s) ==
  /\ s.tcp # "none" => s.conn
  /\ s.tcp \in {"connecting", "up"} => s.timer \/ s.late

Publish(m) == m.type = "PUBLISH"

\* Neither publishes nor releases a message.
Plain(m) == m.type \notin {"PUBLISH", "PUBREL"}

\* m is the message of an earlier call than k.
Earlier(m, k, ids) ==
  m.no < k.no /\ (ids = "unique" /\ m.qos > 0 /\ k.qos > 0 => m.id # k.id)

\* If m releases a message, it is not k.
Released(m, k, ids) ==
  ids = "unique" /\ m.type = "PUBREL" /\ Publish(k) /\ k.qos > 0 => m.id # k.id

\* A message of the client: the broker br holds the id of one with quality of
\* service 2 exactly if it has forwarded it.
MsgOK(m, ids, n, br) ==
  /\ Publish(m) => /\ m.no \in 1 .. n /\ br.latest <= m.no
                   /\ m.qos = 0 <=> m.id = 0
                   /\ ids = "unique" /\ m.qos = 2 =>
                        (m.no \in br.forwarded <=> m.id \in br.held)
  /\ ids = "unique" /\ m.type = "PUBREL" => m.no \in br.forwarded

\* The queue is in the order of the calls, and what is released is not in it.
QueueOK(q, ids, n, br) ==
  /\ \A i \in 1 .. Len(q) : MsgOK(q[i], ids, n, br)
  /\ \A i, j \in 1 .. Len(q) :
       i < j /\ Publish(q[i]) /\ Publish(q[j]) => Earlier(q[i], q[j], ids)
  /\ \A i, j \in 1 .. Len(q) : Released(q[i], q[j], ids)

\* m, which is with TCP, is in the queue or has been in front of it.
FlightOK(m, q, ids, n, br) ==
  /\ MsgOK(m, ids, n, br)
  /\ \A j \in 1 .. Len(q) :
       /\ Released(m, q[j], ids)
       /\ Publish(m) /\ Publish(q[j]) => m = q[j] \/ Earlier(m, q[j], ids)

\* p, which the broker has sent, answers nothing it has not forwarded.
AnswerOK(p, q, ids, br) ==
  p.type \in {"PUBACK", "PUBREC"} =>
    /\ p.id # 0
    /\ ids = "unique" => \A j \in 1 .. Len(q) :
                           Publish(q[j]) /\ q[j].id = p.id => q[j].no \in br.forwarded

\* The queue q, what is with TCP (f) and what the broker has sent (x) agree.
Agree(q, f, x, ids, n, br) ==
  /\ QueueOK(q, ids, n, br)
  /\ \A i \in 1 .. Len(f) : FlightOK(f[i], q, ids, n, br)
  /\ \A i \in 1 .. Len(x) : AnswerOK(x[i], q, ids, br)

BrokerOK(br, ids, n) ==
  /\ br \in Broker
  /\ \A no \in br.forwarded : no \in 1 .. n
  /\ br.latest <= n
  /\ ids = "unique" => \A t \in br.twice : t[2] # 2

Good(s, br, n) ==
  /\ s \in Client
  /\ Guarded(s)
  /\ Len(s.flight) <= 1
  /\ Agree(s.queue, s.flight, s.inbox, s.ids, n, br)
  /\ s.ids = "unique" => \A r \in s.reported : r[2] > 0 => r[1] \in br.forwarded
  /\ BrokerOK(br, s.ids, n)

IInv ==
  /\ messages \in 0 .. MaxMessages /\ wifi \in BOOLEAN
  /\ Good(c, b, messages)

----------------------------------------------------------------------------
(* The messages on their way.                                              *)

\* The head of the queue is dropped.
LEMMA AgreeTail ==
  ASSUME NEW q \in Seq(Message), q # << >>, NEW f, NEW x, NEW ids, NEW n, NEW br,
         Agree(q, f, x, ids, n, br)
  PROVE  Tail(q) \in Seq(Message) /\ Agree(Tail(q), f, x, ids, n, br)
<1>1. /\ Tail(q) \in Seq(Message) /\ Len(Tail(q)) = Len(q) - 1 /\ Len(q) \in Nat
      /\ \A i \in 1 .. Len(Tail(q)) : Tail(q)[i] = q[i + 1] /\ i + 1 \in 1 .. Len(q)
  OBVIOUS
<1>2. QueueOK(Tail(q), ids, n, br)
  <2>1. \A i, j \in 1 .. Len(Tail(q)) : i < j => i + 1 < j + 1
    BY <1>1
  <2> QED
    BY <1>1, <2>1 DEF Agree, QueueOK
<1>3. ASSUME NEW i \in 1 .. Len(f) PROVE FlightOK(f[i], Tail(q), ids, n, br)
  BY <1>1 DEF Agree, FlightOK
<1>4. ASSUME NEW i \in 1 .. Len(x) PROVE AnswerOK(x[i], Tail(q), ids, br)
  BY <1>1 DEF Agree, AnswerOK
<1> QED
  BY <1>1, <1>2, <1>3, <1>4 DEF Agree

\* A message is put at the end of the queue.
Fits(m, q, f, x, ids, n, br) ==
  /\ MsgOK(m, ids, n, br)
  /\ \A i \in 1 .. Len(q) : /\ Released(q[i], m, ids) /\ Released(m, q[i], ids)
                            /\ Publish(q[i]) /\ Publish(m) => Earlier(q[i], m, ids)
  /\ \A i \in 1 .. Len(f) : /\ Released(f[i], m, ids)
                            /\ Publish(f[i]) /\ Publish(m) => Earlier(f[i], m, ids)
  /\ \A i \in 1 .. Len(x) :
       ids = "unique" /\ x[i].type \in {"PUBACK", "PUBREC"} /\ Publish(m) => x[i].id # m.id

LEMMA AgreeAppend ==
  ASSUME NEW q \in Seq(Message), NEW m \in Message, NEW f, NEW x, NEW ids, NEW n, NEW br,
         Agree(q, f, x, ids, n, br), Fits(m, q, f, x, ids, n, br)
  PROVE  Append(q, m) \in Seq(Message) /\ Agree(Append(q, m), f, x, ids, n, br)
<1> DEFINE a == Append(q, m)
<1>1. /\ a \in Seq(Message) /\ Len(a) = Len(q) + 1 /\ Len(q) \in Nat
      /\ \A i \in 1 .. Len(q) : a[i] = q[i]
      /\ a[Len(q) + 1] = m
  OBVIOUS
<1>2. \A i \in 1 .. Len(a) : i \in 1 .. Len(q) \/ i = Len(q) + 1
  BY <1>1
<1> HIDE DEF a
<1>3. QueueOK(a, ids, n, br)
  <2>1. \A i \in 1 .. Len(a) : MsgOK(a[i], ids, n, br)
    BY <1>1, <1>2 DEF Agree, QueueOK, Fits
  <2>2. ASSUME NEW i \in 1 .. Len(a), NEW j \in 1 .. Len(a), i < j,
               Publish(a[i]), Publish(a[j])
        PROVE  Earlier(a[i], a[j], ids)
    <3>1. i \in 1 .. Len(q)
      BY <1>1, <2>2
    <3>2. CASE j \in 1 .. Len(q)
      BY <1>1, <2>2, <3>1, <3>2 DEF Agree, QueueOK
    <3>3. CASE j = Len(q) + 1
      BY <1>1, <2>2, <3>1, <3>3 DEF Fits
    <3> QED
      BY <1>2, <3>2, <3>3
  <2>3. ASSUME NEW i \in 1 .. Len(a), NEW j \in 1 .. Len(a)
        PROVE  Released(a[i], a[j], ids)
    <3>1. CASE i \in 1 .. Len(q) /\ j \in 1 .. Len(q)
      BY <1>1, <3>1 DEF Agree, QueueOK
    <3>2. CASE i = Len(q) + 1 /\ j \in 1 .. Len(q)
      BY <1>1, <3>2 DEF Fits
    <3>3. CASE i \in 1 .. Len(q) /\ j = Len(q) + 1
      BY <1>1, <3>3 DEF Fits
    <3>4. CASE i = Len(q) + 1 /\ j = Len(q) + 1
      BY <1>1, <3>4 DEF Released, Publish
    <3> QED
      BY <1>2, <3>1, <3>2, <3>3, <3>4
  <2> QED
    BY <2>1, <2>2, <2>3 DEF QueueOK
<1>4. ASSUME NEW i \in 1 .. Len(f) PROVE FlightOK(f[i], a, ids, n, br)
  BY <1>1, <1>2 DEF Agree, FlightOK, Fits
<1>5. ASSUME NEW i \in 1 .. Len(x) PROVE AnswerOK(x[i], a, ids, br)
  BY <1>1, <1>2 DEF Agree, AnswerOK, Fits
<1> QED
  BY <1>1, <1>3, <1>4, <1>5 DEF Agree, a

\* Plain messages are put at the end of the queue.
LEMMA AgreePlain ==
  ASSUME NEW q \in Seq(Message), NEW p \in Seq(Message), NEW f, NEW x,
         NEW ids, NEW n, NEW br,
         Agree(q, f, x, ids, n, br), \A i \in 1 .. Len(p) : Plain(p[i])
  PROVE  q \o p \in Seq(Message) /\ Agree(q \o p, f, x, ids, n, br)
<1> DEFINE a == q \o p
<1>1. /\ a \in Seq(Message) /\ Len(a) = Len(q) + Len(p) /\ Len(q) \in Nat /\ Len(p) \in Nat
      /\ \A i \in 1 .. Len(q) : a[i] = q[i]
      /\ \A i \in 1 .. Len(a) : i \in 1 .. Len(q) \/ (i > Len(q) /\ a[i] = p[i - Len(q)])
  OBVIOUS
<1> HIDE DEF a
<1>2. \A i \in 1 .. Len(a) : i \in 1 .. Len(q) \/ (i > Len(q) /\ Plain(a[i]))
  BY <1>1
<1>3. QueueOK(a, ids, n, br)
  <2>1. ASSUME NEW i \in 1 .. Len(a) PROVE MsgOK(a[i], ids, n, br)
    <3>1. CASE i \in 1 .. Len(q)
      BY <1>1, <3>1 DEF Agree, QueueOK
    <3>2. CASE Plain(a[i])
      BY <3>2 DEF Plain, MsgOK, Publish
    <3> QED
      BY <1>2, <3>1, <3>2
  <2>2. ASSUME NEW i \in 1 .. Len(a), NEW j \in 1 .. Len(a)
        PROVE  /\ i < j /\ Publish(a[i]) /\ Publish(a[j]) => Earlier(a[i], a[j], ids)
               /\ Released(a[i], a[j], ids)
    <3>1. CASE i \in 1 .. Len(q) /\ j \in 1 .. Len(q)
      BY <1>1, <3>1 DEF Agree, QueueOK
    <3>2. CASE Plain(a[i]) \/ Plain(a[j])
      BY <3>2 DEF Plain, Released, Publish
    <3> QED
      BY <1>2, <3>1, <3>2
  <2> QED
    BY <2>1, <2>2 DEF QueueOK
<1>4. ASSUME NEW i \in 1 .. Len(f) PROVE FlightOK(f[i], a, ids, n, br)
  BY <1>1, <1>2 DEF Agree, FlightOK, Plain, Publish, Released
<1>5. ASSUME NEW i \in 1 .. Len(x) PROVE AnswerOK(x[i], a, ids, br)
  BY <1>1, <1>2 DEF Agree, AnswerOK, Plain, Publish
<1> QED
  BY <1>1, <1>3, <1>4, <1>5 DEF Agree, a

\* The head of the queue, or a plain message, is given to TCP.
LEMMA AgreeSend ==
  ASSUME NEW q \in Seq(Message), NEW m \in Message, NEW x, NEW ids, NEW n, NEW br,
         Agree(q, << >>, x, ids, n, br),
         Plain(m) \/ (q # << >> /\ m = Head(q)),
         NEW f, f = <<m>>
  PROVE  f \in Seq(Message) /\ Len(f) = 1 /\ Agree(q, f, x, ids, n, br)
<1>1. f \in Seq(Message) /\ Len(f) = 1 /\ f[1] = m /\ \A i \in 1 .. 1 : i = 1
  OBVIOUS
<1>2. FlightOK(m, q, ids, n, br)
  <2>1. CASE Plain(m)
    BY <2>1 DEF Plain, FlightOK, MsgOK, Publish, Released
  <2>2. CASE q # << >> /\ m = Head(q)
    <3>1. 1 \in 1 .. Len(q) /\ m = q[1] /\ \A j \in 1 .. Len(q) : j = 1 \/ 1 < j
      BY <2>2
    <3> QED
      BY <3>1 DEF Agree, QueueOK, FlightOK
  <2> QED
    BY <2>1, <2>2
<1> QED
  BY <1>1, <1>2 DEF Agree

\* Messages of the broker are lost.
LEMMA AgreeLess ==
  ASSUME NEW q, NEW f, NEW x \in Seq(Message), NEW ids, NEW n, NEW br,
         Agree(q, f, x, ids, n, br), NEW k \in 1 .. Len(x), NEW y,
         y = SubSeq(x, k + 1, Len(x))
  PROVE  y \in Seq(Message) /\ Agree(q, f, y, ids, n, br)
<1>1. /\ y \in Seq(Message)
      /\ \A i \in 1 .. Len(y) : i + k \in 1 .. Len(x) /\ y[i] = x[i + k]
  OBVIOUS
<1> QED
  BY <1>1 DEF Agree

LEMMA AgreeNone ==
  ASSUME NEW q, NEW f, NEW x, NEW ids, NEW n, NEW br, Agree(q, f, x, ids, n, br)
  PROVE  Agree(q, << >>, x, ids, n, br) /\ Agree(q, f, << >>, ids, n, br)
BY DEF Agree

\* The broker sends something else than an answer to PUBLISH.
LEMMA AgreeMore ==
  ASSUME NEW q, NEW f, NEW x \in Seq(Message), NEW ids, NEW n, NEW br,
         Agree(q, f, x, ids, n, br), NEW p \in Message,
         AnswerOK(p, q, ids, br), NEW y, y = Append(x, p)
  PROVE  y \in Seq(Message) /\ Agree(q, f, y, ids, n, br)
<1>1. /\ y \in Seq(Message)
      /\ \A i \in 1 .. Len(y) : (i \in 1 .. Len(x) /\ y[i] = x[i]) \/ y[i] = p
  OBVIOUS
<1> QED
  BY <1>1 DEF Agree

LEMMA MessageFields ==
  ASSUME NEW m \in Message
  PROVE  m.type \in MsgTypes /\ m.qos \in 0 .. 2 /\ m.id \in Nat /\ m.no \in Nat
BY DEF Message

\* The broker forwards a message.
LEMMA Forwarding ==
  ASSUME NEW br \in Broker, NEW m \in Message, NEW new, new = Forward(br, m)
  PROVE  /\ new \in Broker /\ new.latest = m.no /\ new.held = br.held
         /\ new.forwarded = br.forwarded \cup {m.no}
         /\ \A t \in new.twice : t \in br.twice
                                 \/ (m.no \in br.forwarded /\ t = <<m.no, m.qos>>)
<1>1. m.no \in Nat /\ <<m.no, m.qos>> \in Nat \X (0 .. 2)
  BY MessageFields
<1>2. CASE m.no \in br.forwarded
  BY <1>1, <1>2 DEF Forward, Broker
<1>3. CASE m.no \notin br.forwarded
  BY <1>1, <1>3 DEF Forward, Broker
<1> QED
  BY <1>2, <1>3

\* A message gets to the broker.  What it has forwarded stays forwarded, and
\* the message with TCP is not one that was forwarded before and let go.
LEMMA Deliver ==
  ASSUME NEW q \in Seq(Message), NEW m \in Message, NEW x, NEW ids, NEW n \in Nat, NEW br,
         NEW f, f = <<m>>, Agree(q, f, x, ids, n, br), BrokerOK(br, ids, n),
         NEW new, new = Get(br, m)
  PROVE  /\ BrokerOK(new, ids, n)
         /\ Agree(q, << >>, x, ids, n, new)
         /\ br.forwarded \subseteq new.forwarded
         /\ new.latest >= br.latest
         /\ ids = "unique" /\ Publish(m) => m.no \in new.forwarded
<1>1. br \in Broker /\ FlightOK(m, q, ids, n, br) /\ QueueOK(q, ids, n, br)
  BY DEF BrokerOK, Agree
<1>2. /\ m.type \in MsgTypes /\ m.qos \in 0 .. 2 /\ m.id \in Nat /\ m.no \in Nat
      /\ \A j \in 1 .. Len(q) : q[j] \in Message
  BY MessageFields
<1>3. CASE Publish(m) /\ (m.qos < 2 \/ m.id \notin br.held)
  <2>1. /\ new \in Broker /\ new.latest = m.no
        /\ new.forwarded = br.forwarded \cup {m.no}
        /\ new.held = br.held \/ (m.qos = 2 /\ new.held = br.held \cup {m.id})
        /\ m.qos = 2 => m.id \in new.held
        /\ \A t \in new.twice : t \in br.twice
                                \/ (m.no \in br.forwarded /\ t = <<m.no, m.qos>>)
    <3>1. CASE m.qos < 2
      <4>1. new = Forward(br, m)
        BY <1>3, <3>1 DEF Get, Publish
      <4> QED
        BY <1>1, <1>2, <3>1, <4>1, Forwarding
    <3>2. CASE m.qos = 2
      <4> DEFINE fw == Forward(br, m)
      <4>1. new = [fw EXCEPT !.held = @ \cup {m.id}]
        BY <1>3, <3>2 DEF Get, Publish
      <4>2. /\ fw \in Broker /\ fw.latest = m.no /\ fw.held = br.held
            /\ fw.forwarded = br.forwarded \cup {m.no}
            /\ \A t \in fw.twice : t \in br.twice
                                   \/ (m.no \in br.forwarded /\ t = <<m.no, m.qos>>)
        BY <1>1, Forwarding
      <4> HIDE DEF fw
      <4>3. /\ new \in Broker /\ new.latest = fw.latest /\ new.twice = fw.twice
            /\ new.forwarded = fw.forwarded /\ new.held = fw.held \cup {m.id}
        BY <1>2, <4>1, <4>2 DEF Broker
      <4> QED
        BY <3>2, <4>2, <4>3
    <3> QED
      BY <1>2, <3>1, <3>2
  <2>2. /\ m.no \in 1 .. n /\ br.latest <= m.no
        /\ ids = "unique" /\ m.qos = 2 => m.no \notin br.forwarded
    BY <1>1, <1>2, <1>3 DEF FlightOK, MsgOK
  <2>3. BrokerOK(new, ids, n)
    BY <1>2, <2>1, <2>2 DEF BrokerOK
  <2>4. ASSUME NEW j \in 1 .. Len(q) PROVE MsgOK(q[j], ids, n, new)
    <3>1. q[j] \in Message /\ MsgOK(q[j], ids, n, br)
      BY <1>1, <1>2 DEF QueueOK
    <3>2. CASE Publish(q[j])
      <4>1. m = q[j] \/ Earlier(m, q[j], ids)
        BY <1>1, <1>3, <3>2 DEF FlightOK
      <4>2. CASE m = q[j]
        BY <1>2, <2>1, <2>2, <3>1, <3>2, <4>2 DEF MsgOK, Publish
      <4>3. CASE Earlier(m, q[j], ids)
        <5>1. m.no <= q[j].no /\ q[j].no # m.no
          BY <1>2, <3>1, <4>3, MessageFields DEF Earlier
        <5>2. ids = "unique" /\ q[j].qos = 2 => (q[j].id \in new.held <=> q[j].id \in br.held)
          BY <1>2, <2>1, <3>1, <4>3, MessageFields DEF Earlier
        <5>3. q[j].no \in new.forwarded <=> q[j].no \in br.forwarded
          BY <2>1, <5>1
        <5>4. br.forwarded \subseteq new.forwarded
          BY <2>1
        <5> QED
          BY <2>1, <5>3, <5>4, <3>1, <3>2, <5>1, <5>2 DEF MsgOK
      <4> QED
        BY <4>1, <4>2, <4>3
    <3>3. CASE ~Publish(q[j])
      BY <2>1, <3>1, <3>3 DEF MsgOK
    <3> QED
      BY <3>2, <3>3
  <2>5. QueueOK(q, ids, n, new)
    BY <1>1, <2>4 DEF QueueOK
  <2>6. \A i \in 1 .. Len(x) : AnswerOK(x[i], q, ids, new)
    BY <2>1 DEF Agree, AnswerOK
  <2> QED
    BY <1>1, <1>2, <2>1, <2>2, <2>3, <2>5, <2>6 DEF Agree, Broker
<1>4. CASE Publish(m) /\ m.qos = 2 /\ m.id \in br.held
  <2>1. /\ new \in Broker /\ new.latest = m.no /\ new.forwarded = br.forwarded
        /\ new.held = br.held /\ new.twice = br.twice
    BY <1>1, <1>2, <1>4 DEF Get, Broker, Publish
  <2>2. /\ m.no \in 1 .. n /\ br.latest <= m.no
        /\ ids = "unique" => m.no \in br.forwarded
    BY <1>1, <1>4 DEF FlightOK, MsgOK
  <2>3. BrokerOK(new, ids, n)
    BY <1>2, <2>1, <2>2 DEF BrokerOK
  <2>4. ASSUME NEW j \in 1 .. Len(q) PROVE MsgOK(q[j], ids, n, new)
    <3>1. q[j] \in Message /\ MsgOK(q[j], ids, n, br)
      BY <1>1, <1>2 DEF QueueOK
    <3>2. Publish(q[j]) => m.no <= q[j].no
      <4>1. Publish(q[j]) => m = q[j] \/ m.no < q[j].no
        BY <1>1, <1>4 DEF FlightOK, Earlier
      <4> QED
        BY <1>2, <3>1, <4>1, MessageFields
    <3> QED
      BY <2>1, <3>1, <3>2 DEF MsgOK
  <2>5. QueueOK(q, ids, n, new)
    BY <1>1, <2>4 DEF QueueOK
  <2>6. \A i \in 1 .. Len(x) : AnswerOK(x[i], q, ids, new)
    BY <2>1 DEF Agree, AnswerOK
  <2> QED
    BY <1>1, <1>2, <2>1, <2>2, <2>3, <2>5, <2>6 DEF Agree, Broker
<1>5. CASE m.type = "PUBREL"
  <2>1. /\ new \in Broker /\ new.latest = br.latest /\ new.forwarded = br.forwarded
        /\ new.held = br.held \ {m.id} /\ new.twice = br.twice
    BY <1>1, <1>2, <1>5 DEF Get, Broker
  <2>2. BrokerOK(new, ids, n)
    BY <2>1 DEF BrokerOK
  <2>3. ASSUME NEW j \in 1 .. Len(q) PROVE MsgOK(q[j], ids, n, new)
    <3>1. q[j] \in Message /\ MsgOK(q[j], ids, n, br)
      BY <1>1, <1>2 DEF QueueOK
    <3>2. ids = "unique" /\ Publish(q[j]) /\ q[j].qos = 2 => q[j].id # m.id
      BY <1>1, <1>5, <3>1 DEF FlightOK, Released
    <3> QED
      BY <2>1, <3>1, <3>2 DEF MsgOK
  <2>4. QueueOK(q, ids, n, new)
    BY <1>1, <2>3 DEF QueueOK
  <2>5. \A i \in 1 .. Len(x) : AnswerOK(x[i], q, ids, new)
    BY <2>1 DEF Agree, AnswerOK
  <2> QED
    BY <1>1, <1>5, <2>1, <2>2, <2>4, <2>5 DEF Agree, Broker, Publish
<1>6. CASE Plain(m)
  <2>1. new = br
    BY <1>6 DEF Get, Plain
  <2> QED
    BY <1>1, <1>6, <2>1, AgreeNone DEF Broker, Plain, Publish
<1> QED
  BY <1>2, <1>3, <1>4, <1>5, <1>6 DEF Plain, Publish

\* What it answers is in order, too.
LEMMA Answered ==
  ASSUME NEW q \in Seq(Message), NEW m \in Message, NEW x \in Seq(Message), NEW ids,
         NEW n \in Nat, NEW br,
         NEW f, f = <<m>>, Agree(q, f, x, ids, n, br), BrokerOK(br, ids, n),
         NEW new, new = Get(br, m), NEW answer \in Answers(m)
  PROVE  x \o answer \in Seq(Message) /\ Agree(q, << >>, x \o answer, ids, n, new)
<1>1. /\ BrokerOK(new, ids, n) /\ Agree(q, << >>, x, ids, n, new)
      /\ ids = "unique" /\ Publish(m) => m.no \in new.forwarded
  BY Deliver
<1>2. FlightOK(m, q, ids, n, br)
  BY DEF Agree
<1>3. /\ m.type \in MsgTypes /\ m.qos \in 0 .. 2 /\ m.id \in Nat /\ m.no \in Nat
      /\ \A j \in 1 .. Len(q) : q[j] \in Message
  BY MessageFields
<1>4. CASE answer = << >>
  BY <1>1, <1>4
<1>5. CASE answer # << >>
  <2>1. PICK p : /\ answer = <<p>> /\ p \in Message
                 /\ p.type \in {"PUBACK", "PUBREC"} =>
                      Publish(m) /\ m.qos > 0 /\ p.id = m.id
    <3>1. CASE Publish(m) /\ m.qos = 1
      BY <1>3, <3>1 DEF Answers, Packet, Msg, Message, MsgTypes, Publish
    <3>2. CASE Publish(m) /\ m.qos = 2
      BY <1>3, <3>2 DEF Answers, Packet, Msg, Message, MsgTypes, Publish
    <3>3. CASE m.type = "CONNECT"
      BY <1>3, <1>5, <3>3 DEF Answers, Packet, Msg, Message, MsgTypes
    <3>4. CASE m.type \in {"SUBSCRIBE", "UNSUBSCRIBE", "PUBREC", "PUBREL", "PINGREQ"}
      BY <1>3, <3>4 DEF Answers, Packet, Msg, Message, MsgTypes
    <3>5. CASE /\ m.type \notin {"SUBSCRIBE", "UNSUBSCRIBE", "PUBREC", "PUBREL", "PINGREQ",
                                 "CONNECT"}
               /\ ~(Publish(m) /\ m.qos \in {1, 2})
      BY <1>3, <1>5, <3>5 DEF Answers, Publish
    <3> QED
      BY <1>3, <3>1, <3>2, <3>3, <3>4, <3>5
  <2>2. AnswerOK(p, q, ids, new)
    <3>1. SUFFICES ASSUME p.type \in {"PUBACK", "PUBREC"}
                   PROVE  /\ p.id # 0
                          /\ ids = "unique" => \A j \in 1 .. Len(q) :
                               Publish(q[j]) /\ q[j].id = p.id => q[j].no \in new.forwarded
      BY DEF AnswerOK
    <3>2. Publish(m) /\ m.qos > 0 /\ p.id = m.id /\ m.id # 0
      BY <1>2, <1>3, <2>1, <3>1 DEF FlightOK, MsgOK
    <3>3. ASSUME ids = "unique", NEW j \in 1 .. Len(q), Publish(q[j]), q[j].id = p.id
          PROVE  q[j].no \in new.forwarded
      <4>1. q[j].id # 0 /\ q[j].qos \in 0 .. 2 /\ MsgOK(q[j], ids, n, br)
        BY <1>3, <3>2, <3>3 DEF Message, Agree, QueueOK
      <4>2. q[j].qos > 0
        BY <3>3, <4>1 DEF MsgOK
      <4>3. m = q[j]
        BY <1>2, <3>2, <3>3, <4>2 DEF FlightOK, Earlier
      <4> QED
        BY <1>1, <3>2, <3>3, <4>3
    <3> QED
      BY <3>2, <3>3
  <2>3. x \o answer = Append(x, p)
    BY <2>1
  <2> QED
    BY <1>1, <2>1, <2>2, <2>3, AgreeMore
<1> QED
  BY <1>4, <1>5

----------------------------------------------------------------------------
(* Ids.                                                                    *)

\* An id is given that is not in use, or it is recorded that it is.
Fresh(id, q, f, x, ids, br) ==
  ids = "unique" =>
    /\ \A i \in 1 .. Len(q) : q[i].type \in {"PUBLISH", "PUBREL"} => q[i].id # id
    /\ \A i \in 1 .. Len(f) : f[i].type \in {"PUBLISH", "PUBREL"} => f[i].id # id
    /\ \A i \in 1 .. Len(x) : x[i].type \in {"PUBACK", "PUBREC"} => x[i].id # id
    /\ id \notin br.held

\* append_message_id.
LEMMA NewId ==
  ASSUME NEW s \in Client
  PROVE  NextId(s) \in 1 .. IdMod - 1
<1>1. s.message_id \in 0 .. IdMod - 1 /\ IdMod \in Nat /\ IdMod > 1
  BY MqttAssumption DEF Client
<1>2. CASE s.message_id + 1 = IdMod
  <2>1. (s.message_id + 1) % IdMod = 0
    BY <1>1, <1>2
  <2> QED
    BY <1>1, <2>1 DEF NextId
<1>3. CASE s.message_id + 1 < IdMod
  <2>1. (s.message_id + 1) % IdMod = s.message_id + 1
    BY <1>1, <1>3
  <2> QED
    BY <1>1, <1>3, <2>1 DEF NextId
<1> QED
  BY <1>1, <1>2, <1>3

LEMMA CarriedByNone ==
  ASSUME NEW q \in Seq(Message), NEW f \in Seq(Message), NEW types, NEW id,
         ~Carries(q \o f, types, id)
  PROVE  /\ \A i \in 1 .. Len(q) : q[i].type \in types => q[i].id # id
         /\ \A i \in 1 .. Len(f) : f[i].type \in types => f[i].id # id
<1>1. /\ \A i \in 1 .. Len(q) : i \in 1 .. Len(q \o f) /\ (q \o f)[i] = q[i]
      /\ \A i \in 1 .. Len(f) : /\ i + Len(q) \in 1 .. Len(q \o f)
                                 /\ (q \o f)[i + Len(q)] = f[i]
  OBVIOUS
<1> QED
  BY <1>1 DEF Carries

LEMMA FreshId ==
  ASSUME NEW id, ~InUse(id), c \in Client
  PROVE  Fresh(id, c.queue, c.flight, c.inbox, c.ids, b)
<1>1. c.queue \in Seq(Message) /\ c.flight \in Seq(Message)
  BY DEF Client
<1>2. /\ ~Carries(c.queue \o c.flight, {"PUBLISH", "PUBREL"}, id)
      /\ \A i \in 1 .. Len(c.inbox) :
           c.inbox[i].type \in {"PUBACK", "PUBREC"} => c.inbox[i].id # id
      /\ id \notin b.held
  BY DEF InUse, Carries
<1> QED
  BY <1>1, <1>2, CarriedByNone DEF Fresh

\* What was in order stays so when there is one message more, and when an id is
\* reused.
LEMMA AgreeOlder ==
  ASSUME NEW q, NEW f, NEW x, NEW ids, NEW n \in Nat, NEW br, NEW later,
         Agree(q, f, x, ids, n, br), later \in {ids, "reused"}
  PROVE  Agree(q, f, x, later, n + 1, br)
<1>1. ASSUME NEW m, MsgOK(m, ids, n, br) PROVE MsgOK(m, later, n + 1, br)
  <2>1. Publish(m) => m.no \in 1 .. n + 1
    BY <1>1 DEF MsgOK
  <2> QED
    BY <1>1, <2>1 DEF MsgOK
<1>2. ASSUME NEW m, NEW k
      PROVE  /\ Earlier(m, k, ids) => Earlier(m, k, later)
             /\ Released(m, k, ids) => Released(m, k, later)
  BY DEF Earlier, Released
<1>3. QueueOK(q, later, n + 1, br)
  BY <1>1, <1>2 DEF Agree, QueueOK
<1>4. ASSUME NEW i \in 1 .. Len(f) PROVE FlightOK(f[i], q, later, n + 1, br)
  BY <1>1, <1>2 DEF Agree, FlightOK
<1>5. ASSUME NEW i \in 1 .. Len(x) PROVE AnswerOK(x[i], q, later, br)
  BY DEF Agree, AnswerOK
<1> QED
  BY <1>3, <1>4, <1>5 DEF Agree

LEMMA BrokerOlder ==
  ASSUME NEW ids, NEW n \in Nat, NEW br, NEW later, BrokerOK(br, ids, n),
         later \in {ids, "reused"}
  PROVE  BrokerOK(br, later, n + 1)
<1>1. br.latest <= n + 1
  BY DEF BrokerOK, Broker
<1>2. \A no \in br.forwarded : no \in 1 .. n + 1
  BY DEF BrokerOK
<1> QED
  BY <1>1, <1>2 DEF BrokerOK

\* A message of the program, the newest, is put at the end of the queue.
LEMMA NewFits ==
  ASSUME NEW q \in Seq(Message), NEW f \in Seq(Message), NEW x \in Seq(Message),
         NEW ids, NEW n \in Nat, NEW br, NEW later,
         Agree(q, f, x, ids, n, br), BrokerOK(br, ids, n),
         later \in {ids, "reused"},
         NEW m \in Message, m.type # "PUBREL", m.no = n + 1,
         m.qos = 0 <=> m.id = 0,
         m.qos > 0 => Fresh(m.id, q, f, x, later, br)
  PROVE  Fits(m, q, f, x, later, n + 1, br)
<1>1. m.qos \in 0 .. 2 /\ m.id \in Nat /\ m.no \in Nat
  BY MessageFields
<1>2. MsgOK(m, later, n + 1, br)
  <2>1. n + 1 \in 1 .. n + 1 /\ br.latest <= n + 1 /\ n + 1 \notin br.forwarded
    BY DEF BrokerOK, Broker
  <2>2. later = "unique" /\ m.qos = 2 => m.id \notin br.held
    BY DEF Fresh
  <2> QED
    BY <2>1, <2>2 DEF MsgOK
<1>3. ASSUME NEW k \in Message, MsgOK(k, ids, n, br),
             later = "unique" /\ m.qos > 0 /\ k.type \in {"PUBLISH", "PUBREL"} => k.id # m.id
      PROVE  /\ Released(k, m, later) /\ Released(m, k, later)
             /\ Publish(k) /\ Publish(m) => Earlier(k, m, later)
  <2>1. k.qos \in 0 .. 2 /\ k.id \in Nat /\ k.no \in Nat
    BY MessageFields
  <2>2. Publish(k) => k.no < m.no
    BY <1>3, <2>1 DEF MsgOK
  <2> QED
    BY <1>3, <2>2 DEF Released, Earlier, Publish
<1>4. ASSUME NEW i \in 1 .. Len(x), later = "unique", x[i].type \in {"PUBACK", "PUBREC"}
      PROVE  x[i].id # m.id
  <2>1. CASE m.qos > 0
    BY <1>4, <2>1 DEF Fresh
  <2>2. CASE m.qos = 0
    BY <1>4, <2>2 DEF Agree, AnswerOK
  <2> QED
    BY <1>1, <2>1, <2>2
<1>5. ASSUME NEW i \in 1 .. Len(q)
      PROVE  /\ q[i] \in Message /\ MsgOK(q[i], ids, n, br)
             /\ later = "unique" /\ m.qos > 0 /\ q[i].type \in {"PUBLISH", "PUBREL"}
                  => q[i].id # m.id
  BY DEF Agree, QueueOK, Fresh
<1>6. ASSUME NEW i \in 1 .. Len(f)
      PROVE  /\ f[i] \in Message /\ MsgOK(f[i], ids, n, br)
             /\ later = "unique" /\ m.qos > 0 /\ f[i].type \in {"PUBLISH", "PUBREL"}
                  => f[i].id # m.id
  BY DEF Agree, FlightOK, Fresh
<1> QED
  BY <1>2, <1>3, <1>4, <1>5, <1>6 DEF Fits

----------------------------------------------------------------------------
(* The handlers of mqtt.c keep the invariant.                              *)

\* t differs from s in nothing that has to do with messages.
SameMessages(s, t) ==
  /\ t.queue = s.queue /\ t.flight = s.flight /\ t.inbox = s.inbox
  /\ t.ids = s.ids /\ t.reported = s.reported

LEMMA GoodSame ==
  ASSUME NEW s, NEW br, NEW n, Good(s, br, n),
         NEW t \in Client, SameMessages(s, t), Guarded(t)
  PROVE  Good(t, br, n)
BY DEF Good, SameMessages

\* Nor in anything that has to do with the connection.
SameLink(s, t) ==
  /\ t.tcp = s.tcp /\ t.conn = s.conn /\ t.timer = s.timer /\ t.late = s.late

LEMMA GoodUnmoved ==
  ASSUME NEW s, NEW br, NEW n, Good(s, br, n),
         NEW t \in Client, SameMessages(s, t), SameLink(s, t)
  PROVE  Good(t, br, n)
<1>1. Guarded(t)
  BY DEF Good, Guarded, SameLink
<1> QED
  BY <1>1, GoodSame

LEMMA ClientFields ==
  ASSUME NEW s \in Client
  PROVE  /\ s.queue \in Seq(Message) /\ s.flight \in Seq(Message)
         /\ s.inbox \in Seq(Message) /\ s.message_id \in 0 .. IdMod - 1
         /\ s.event_timeout \in 0 .. MQTT_SEND_TIMEOUT
         /\ s.keep_alive_tick \in Nat /\ s.dns_reconn_count \in Nat
         /\ s.reported \subseteq Nat \X (0 .. 2)
         /\ s.connState \in {"INIT", "CONNECT_SENDING", "CONNECT_SENT", "DATA"}
         /\ s.tcp \in {"none", "resolving", "connecting", "up", "closing", "failing"}
BY DEF Client

\* Messages as the handlers make them.
LEMMA PacketMessage ==
  ASSUME NEW type \in MsgTypes, NEW id \in Nat
  PROVE  Packet(type, id) \in Message /\ Packet(type, id).type = type
BY DEF Packet, Msg, Message

LEMMA GoodDequeue ==
  ASSUME NEW s, NEW br, NEW n, Good(s, br, n)
  PROVE  Good(msg_dequeue(s), br, n)
<1>1. s \in Client /\ s.queue \in Seq(Message)
  BY ClientFields DEF Good
<1>2. CASE s.queue = << >>
  <2>1. msg_dequeue(s) \in Client /\ SameMessages(s, msg_dequeue(s)) /\ SameLink(s, msg_dequeue(s))
    BY <1>1, <1>2 DEF msg_dequeue, Client, SameMessages, SameLink
  <2> QED
    BY <2>1, GoodUnmoved
<1>3. CASE s.queue # << >>
  <2> DEFINE t == msg_dequeue(s)
  <2>1. /\ Tail(s.queue) \in Seq(Message)
        /\ Agree(Tail(s.queue), s.flight, s.inbox, s.ids, n, br)
    BY <1>1, <1>3, AgreeTail DEF Good
  <2>2. /\ t \in Client /\ t.queue = Tail(s.queue) /\ t.flight = s.flight
        /\ t.inbox = s.inbox /\ t.ids = s.ids /\ t.reported = s.reported
        /\ t.tcp = s.tcp /\ t.conn = s.conn /\ t.timer = s.timer /\ t.late = s.late
    BY <1>1, <1>3, <2>1 DEF msg_dequeue, Client
  <2> HIDE DEF t
  <2> QED
    BY <2>1, <2>2 DEF Good, Guarded, t
<1> QED
  BY <1>2, <1>3

LEMMA GoodQueue ==
  ASSUME NEW s, NEW br, NEW n, Good(s, br, n), NEW q \in Seq(Message),
         Agree(q, s.flight, s.inbox, s.ids, n, br),
         NEW t, t = [s EXCEPT !.queue = q]
  PROVE  Good(t, br, n) /\ t.queue = q
<1>1. s \in Client
  BY DEF Good
<1>2. /\ t \in Client /\ t.queue = q /\ t.flight = s.flight
      /\ t.inbox = s.inbox /\ t.ids = s.ids /\ t.reported = s.reported
      /\ t.tcp = s.tcp /\ t.conn = s.conn /\ t.timer = s.timer /\ t.late = s.late
  BY <1>1 DEF Client
<1> QED
  BY <1>2 DEF Good, Guarded

LEMMA GoodEnqueue ==
  ASSUME NEW s, NEW br, NEW n, Good(s, br, n), NEW m \in Message,
         Plain(m) \/ Fits(m, s.queue, s.flight, s.inbox, s.ids, n, br)
  PROVE  Good(msg_enqueue(s, m), br, n)
<1>1. s.queue \in Seq(Message) /\ Agree(s.queue, s.flight, s.inbox, s.ids, n, br)
  BY ClientFields DEF Good
<1>2. /\ Append(s.queue, m) \in Seq(Message)
      /\ Agree(Append(s.queue, m), s.flight, s.inbox, s.ids, n, br)
  <2>1. CASE Plain(m)
    <3>1. Fits(m, s.queue, s.flight, s.inbox, s.ids, n, br)
      BY <2>1 DEF Fits, Plain, MsgOK, Released, Publish
    <3> QED
      BY <1>1, <3>1, AgreeAppend
  <2>2. CASE Fits(m, s.queue, s.flight, s.inbox, s.ids, n, br)
    BY <1>1, <2>2, AgreeAppend
  <2> QED
    BY <2>1, <2>2
<1> QED
  BY <1>2, GoodQueue DEF msg_enqueue

\* The program is told only of messages the broker has.
LEMMA GoodReport ==
  ASSUME NEW s, NEW br, NEW n, Good(s, br, n), NEW m \in Message,
         s.ids = "unique" /\ m.qos > 0 => m.no \in br.forwarded
  PROVE  /\ Good(Report(s, m), br, n) /\ Report(s, m).queue = s.queue
<1>1. s \in Client /\ s.reported \subseteq Nat \X (0 .. 2)
  BY ClientFields DEF Good
<1>2. <<m.no, m.qos>> \in Nat \X (0 .. 2)
  BY MessageFields
<1> DEFINE more == s.reported \cup {<<m.no, m.qos>>}
<1>3. /\ more \in SUBSET (Nat \X (0 .. 2))
      /\ s.ids = "unique" => \A r \in more : r[2] > 0 => r[1] \in br.forwarded
  BY <1>1, <1>2 DEF Good
<1> DEFINE t == Report(s, m)
<1>4. t = [s EXCEPT !.reported = more]
  BY DEF Report
<1> HIDE DEF more, t
<1>5. /\ t \in Client /\ t.queue = s.queue /\ t.flight = s.flight
      /\ t.inbox = s.inbox /\ t.ids = s.ids /\ t.reported = more
      /\ t.tcp = s.tcp /\ t.conn = s.conn /\ t.timer = s.timer /\ t.late = s.late
  BY <1>1, <1>3, <1>4 DEF Client
<1> QED
  BY <1>3, <1>5 DEF Good, Guarded, t

LEMMA GoodTell ==
  ASSUME NEW s, NEW br, NEW n, Good(s, br, n)
  PROVE  Good(Tell(s), br, n) /\ Tell(s).tcp = s.tcp
<1>1. s \in Client
  BY DEF Good
<1>2. Tell(s) \in Client /\ SameMessages(s, Tell(s)) /\ SameLink(s, Tell(s)) /\ Tell(s).tcp = s.tcp
  BY <1>1 DEF Tell, Client, SameMessages, SameLink
<1> QED
  BY <1>2, GoodUnmoved

\* espconn_send of the head of the queue, or of CONNECT or DISCONNECT.
LEMMA GoodSend ==
  ASSUME NEW s, NEW br, NEW n, Good(s, br, n), NEW m \in Message,
         Plain(m) \/ (s.queue # << >> /\ m = Head(s.queue))
  PROVE  Good(espconn_send(s, m), br, n)
<1>1. s \in Client /\ s.queue \in Seq(Message)
  BY ClientFields DEF Good
<1>2. CASE s.tcp = "up" /\ s.flight = << >>
  <2> DEFINE f == <<m>>
             t == [s EXCEPT !.flight = f]
  <2>1. Agree(s.queue, << >>, s.inbox, s.ids, n, br)
    BY <1>2 DEF Good
  <2>2. f \in Seq(Message) /\ Len(f) = 1 /\ Agree(s.queue, f, s.inbox, s.ids, n, br)
    BY <1>1, <2>1, AgreeSend
  <2>3. espconn_send(s, m) = t
    BY <1>2 DEF espconn_send
  <2> HIDE DEF f
  <2>4. /\ t \in Client /\ t.queue = s.queue /\ t.flight = f
        /\ t.inbox = s.inbox /\ t.ids = s.ids /\ t.reported = s.reported
        /\ t.tcp = s.tcp /\ t.conn = s.conn /\ t.timer = s.timer /\ t.late = s.late
    BY <1>1, <2>2 DEF Client
  <2> HIDE DEF t
  <2>5. Guarded(t)
    BY <2>4 DEF Good, Guarded
  <2>6. Len(t.flight) <= 1
    <3>1. Len(t.flight) = 1
      BY <2>2, <2>4, Zenon
    <3> QED
      BY <3>1
  <2> QED
    BY <2>2, <2>3, <2>4, <2>5, <2>6 DEF Good
<1>3. CASE ~(s.tcp = "up" /\ s.flight = << >>)
  BY <1>3 DEF espconn_send
<1> QED
  BY <1>2, <1>3

LEMMA GoodDisconnect ==
  ASSUME NEW s, NEW br, NEW n, Good(s, br, n)
  PROVE  Good(espconn_disconnect(s), br, n)
<1>1. s \in Client
  BY DEF Good
<1>2. CASE s.tcp \in {"connecting", "up"}
  <2> DEFINE none == << >>
             t == [s EXCEPT !.tcp = "closing", !.inbox = none]
  <2>1. espconn_disconnect(s) = t
    BY <1>2 DEF espconn_disconnect
  <2>2. none \in Seq(Message) /\ Agree(s.queue, s.flight, none, s.ids, n, br)
    BY AgreeNone DEF Good
  <2> HIDE DEF none
  <2>3. /\ t \in Client /\ t.queue = s.queue /\ t.flight = s.flight
        /\ t.inbox = none /\ t.ids = s.ids /\ t.reported = s.reported
        /\ t.tcp = "closing" /\ t.conn = s.conn
    BY <1>1, <2>2 DEF Client
  <2> HIDE DEF t
  <2> QED
    BY <1>2, <2>1, <2>2, <2>3 DEF Good, Guarded
<1>3. CASE s.tcp \notin {"connecting", "up"}
  BY <1>3 DEF espconn_disconnect
<1> QED
  BY <1>2, <1>3

\* The connection is begun, and the timer with it.
LEMMA GoodConnect ==
  ASSUME NEW s, NEW br, NEW n, Good(s, br, n), s.conn, NEW online \in BOOLEAN
  PROVE  Good(socket_connect(s, online), br, n)
<1> DEFINE t == socket_connect(s, online)
<1>1. s \in Client /\ MQTT_SEND_TIMEOUT \in 0 .. MQTT_SEND_TIMEOUT
  BY MqttAssumption DEF Good
<1>2. /\ t \in Client /\ SameMessages(s, t) /\ t.conn = s.conn /\ t.timer
  BY <1>1 DEF socket_connect, Client, SameMessages
<1>3. Guarded(t)
  BY <1>2 DEF Guarded
<1> QED
  BY <1>2, <1>3, GoodSame

\* Once there is no connection, or only a name is looked up.
LEMMA GoodDisconnected ==
  ASSUME NEW s, NEW br, NEW n, Good(s, br, n), s.tcp = "none",
         s.auto_reconnect => s.conn, NEW online \in BOOLEAN
  PROVE  Good(mqtt_socket_disconnected(s, online), br, n)
<1> DEFINE d == [s EXCEPT !.timer = FALSE, !.connected = FALSE]
           t == IF s.connected THEN Tell(d) ELSE d
           told == IF t.told = "pending" THEN "dropped" ELSE t.told
           e == [t EXCEPT !.conn = FALSE, !.disconcb = FALSE, !.told = told]
<1>1. s \in Client
  BY DEF Good
<1>2. /\ d \in Client /\ SameMessages(s, d) /\ d.tcp = "none" /\ d.conn = s.conn
      /\ Guarded(d)
  BY <1>1 DEF Client, SameMessages, Guarded
<1>3. Good(d, br, n)
  BY <1>2, GoodSame
<1>4. Good(t, br, n) /\ t.tcp = "none" /\ t.conn = s.conn
  <2>1. Tell(d).conn = d.conn
    BY <1>2 DEF Tell, Client
  <2> QED
    BY <1>2, <1>3, <2>1, GoodTell
<1>5. mqtt_socket_disconnected(s, online)
        = IF s.auto_reconnect THEN socket_connect(t, online) ELSE e
  BY DEF mqtt_socket_disconnected
<1> HIDE DEF d, t, told
<1>6. CASE s.auto_reconnect
  BY <1>4, <1>5, <1>6, GoodConnect
<1>7. CASE ~s.auto_reconnect
  <2>1. t \in Client
    BY <1>4 DEF Good
  <2>2. told \in {"no", "pending", "told", "dropped"}
    BY <2>1 DEF told, Client
  <2>3. e \in Client /\ SameMessages(t, e) /\ e.tcp = t.tcp
    BY <2>1, <2>2 DEF Client, SameMessages
  <2>4. Guarded(e)
    BY <1>4, <2>3 DEF Guarded
  <2>5. Good(e, br, n)
    BY <1>4, <2>3, <2>4, GoodSame
  <2> QED
    BY <1>5, <1>7, <2>5
<1> QED
  BY <1>6, <1>7

LEMMA GoodReconnected ==
  ASSUME NEW s, NEW br, NEW n, Good(s, br, n), s.tcp = "none", s.conn,
         NEW online \in BOOLEAN
  PROVE  Good(mqtt_socket_reconnected(s, online), br, n)
<1> DEFINE d == [s EXCEPT !.timer = FALSE, !.event_timeout = 0]
<1>1. s \in Client /\ 0 \in 0 .. MQTT_SEND_TIMEOUT
  BY MqttAssumption DEF Good
<1>2. /\ d \in Client /\ SameMessages(s, d) /\ d.tcp = "none" /\ d.conn = s.conn
      /\ Guarded(d) /\ d.auto_reconnect = s.auto_reconnect
  BY <1>1 DEF Client, SameMessages, Guarded
<1>3. Good(d, br, n)
  BY <1>2, GoodSame
<1>4. mqtt_socket_reconnected(s, online)
        = IF s.auto_reconnect THEN socket_connect(d, online)
                              ELSE mqtt_socket_disconnected(d, online)
  BY DEF mqtt_socket_reconnected
<1> HIDE DEF d
<1> QED
  BY <1>2, <1>3, <1>4, GoodConnect, GoodDisconnected

LEMMA GoodSendIfPossible ==
  ASSUME NEW s, NEW br, NEW n, Good(s, br, n)
  PROVE  Good(mqtt_send_if_possible(s), br, n)
<1>1. CASE s.event_timeout = 0 /\ s.queue # << >>
  <2> DEFINE u == espconn_send(s, Head(s.queue))
             t == [u EXCEPT !.event_timeout = MQTT_SEND_TIMEOUT, !.keep_alive_tick = 0]
  <2>1. s.queue \in Seq(Message)
    BY ClientFields DEF Good
  <2>2. Head(s.queue) \in Message
    BY <1>1, <2>1
  <2>3. Good(u, br, n)
    BY <1>1, <2>2, GoodSend
  <2>4. mqtt_send_if_possible(s) = t
    BY <1>1 DEF mqtt_send_if_possible
  <2> HIDE DEF u
  <2>5. u \in Client /\ MQTT_SEND_TIMEOUT \in 0 .. MQTT_SEND_TIMEOUT /\ 0 \in Nat
    BY <2>3, MqttAssumption DEF Good
  <2>6. t \in Client /\ SameMessages(u, t) /\ SameLink(u, t)
    BY <2>3, <2>5 DEF Client, SameMessages, SameLink
  <2> QED
    BY <2>3, <2>4, <2>6, GoodUnmoved
<1>2. CASE ~(s.event_timeout = 0 /\ s.queue # << >>)
  BY <1>2 DEF mqtt_send_if_possible
<1> QED
  BY <1>1, <1>2

LEMMA GoodConnected ==
  ASSUME NEW s, NEW br, NEW n, Good(s, br, n)
  PROVE  Good(mqtt_socket_connected(s), br, n)
<1> DEFINE u == espconn_send(s, Packet("CONNECT", 0))
           t == [u EXCEPT !.connected = TRUE, !.disconcb = TRUE,
                          !.event_timeout = MQTT_SEND_TIMEOUT,
                          !.keep_alive_tick = 0, !.connState = "CONNECT_SENDING"]
<1>1. Good(u, br, n)
  BY PacketMessage, GoodSend DEF MsgTypes, Plain
<1>2. mqtt_socket_connected(s) = t
  BY DEF mqtt_socket_connected
<1> HIDE DEF u
<1>3. u \in Client /\ MQTT_SEND_TIMEOUT \in 0 .. MQTT_SEND_TIMEOUT /\ 0 \in Nat
  BY <1>1, MqttAssumption DEF Good
<1>4. t \in Client /\ SameMessages(u, t) /\ SameLink(u, t)
  BY <1>1, <1>3 DEF Client, SameMessages, SameLink
<1> QED
  BY <1>1, <1>2, <1>4, GoodUnmoved

\* The acknowledgement of TCP.
LEMMA GoodSent ==
  ASSUME NEW s, NEW br, NEW n, Good(s, br, n)
  PROVE  Good(mqtt_socket_sent(s), br, n)
<1> DEFINE d == [s EXCEPT !.event_timeout = 0, !.keep_alive_tick = 0]
           e == [d EXCEPT !.connState = "CONNECT_SENT", !.event_timeout = MQTT_SEND_TIMEOUT]
           r == IF Pending(s, "PUBLISH") THEN Report(d, Head(s.queue)) ELSE d
<1>1. /\ s \in Client /\ s.queue \in Seq(Message) /\ 0 \in Nat
      /\ {0, MQTT_SEND_TIMEOUT} \subseteq 0 .. MQTT_SEND_TIMEOUT
  BY MqttAssumption, ClientFields DEF Good
<1>2. \/ mqtt_socket_sent(s) \in {s, d, e}
      \/ /\ mqtt_socket_sent(s) = mqtt_send_if_possible(msg_dequeue(r))
         /\ Unanswered(s)
  BY DEF mqtt_socket_sent
<1>3. d \in Client /\ SameMessages(s, d) /\ SameLink(s, d)
  BY <1>1 DEF Client, SameMessages, SameLink
<1>4. Good(d, br, n)
  BY <1>3, GoodUnmoved
<1> HIDE DEF d
<1>5. e \in Client /\ SameMessages(d, e) /\ SameLink(d, e)
  BY <1>1, <1>3 DEF Client, SameMessages, SameLink
<1>6. Good(e, br, n)
  BY <1>4, <1>5, GoodUnmoved
<1>7. ASSUME Unanswered(s) PROVE Good(r, br, n)
  <2>1. CASE Pending(s, "PUBLISH")
    <3>1. Head(s.queue).qos = 0 /\ Head(s.queue) \in Message
      BY <1>1, <1>7, <2>1 DEF Unanswered, Pending
    <3>2. ~(Head(s.queue).qos > 0)
      BY <3>1
    <3> QED
      BY <1>4, <2>1, <3>1, <3>2, GoodReport
  <2>2. CASE ~Pending(s, "PUBLISH")
    BY <1>4, <2>2
  <2> QED
    BY <2>1, <2>2
<1> HIDE DEF r, e
<1>8. Unanswered(s) => Good(mqtt_send_if_possible(msg_dequeue(r)), br, n)
  BY <1>7, GoodDequeue, GoodSendIfPossible
<1> QED
  BY <1>2, <1>4, <1>6, <1>8

LEMMA GoodConnack ==
  ASSUME NEW s, NEW br, NEW n, Good(s, br, n), NEW p
  PROVE  Good(ReadConnack(s, p), br, n)
<1> DEFINE z == [s EXCEPT !.event_timeout = 0]
           d == Tell(z)
           e == [d EXCEPT !.connState = "DATA"]
           f == [d EXCEPT !.connState = "INIT"]
<1>1. s \in Client /\ 0 \in 0 .. MQTT_SEND_TIMEOUT
  BY MqttAssumption DEF Good
<1>2. z \in Client /\ SameMessages(s, z) /\ SameLink(s, z)
  BY <1>1 DEF Client, SameMessages, SameLink
<1>3. Good(d, br, n)
  BY <1>2, GoodUnmoved, GoodTell
<1>4. ReadConnack(s, p) = e \/ ReadConnack(s, p) = espconn_disconnect(f)
  BY DEF ReadConnack
<1> HIDE DEF d
<1>5. d \in Client
  BY <1>3 DEF Good
<1>6. /\ e \in Client /\ SameMessages(d, e) /\ SameLink(d, e)
      /\ f \in Client /\ SameMessages(d, f) /\ SameLink(d, f)
  BY <1>3, <1>5 DEF Client, SameMessages, SameLink
<1>7. Good(e, br, n) /\ Good(f, br, n)
  BY <1>3, <1>6, GoodUnmoved
<1> HIDE DEF e, f
<1> QED
  BY <1>4, <1>7, GoodDisconnect

\* The head of the queue is answered: the broker has forwarded it.
LEMMA AnsweredHead ==
  ASSUME NEW s, NEW br, NEW n \in Nat, Good(s, br, n), NEW p,
         AnswerOK(p, s.queue, s.ids, br), p.type \in {"PUBACK", "PUBREC"},
         Matches(s, "PUBLISH", p.id)
  PROVE  /\ Head(s.queue) \in Message /\ s.queue # << >> /\ Head(s.queue) = s.queue[1]
         /\ 1 \in 1 .. Len(s.queue) /\ Publish(Head(s.queue)) /\ Head(s.queue).id = p.id
         /\ s.ids = "unique" => Head(s.queue).no \in br.forwarded
         /\ p.id # 0
<1>1. s.queue \in Seq(Message)
  BY ClientFields DEF Good
<1>2. /\ Head(s.queue) \in Message /\ s.queue # << >> /\ Head(s.queue) = s.queue[1]
      /\ 1 \in 1 .. Len(s.queue) /\ Publish(Head(s.queue)) /\ Head(s.queue).id = p.id
  BY <1>1 DEF Matches, Pending, Publish
<1> QED
  BY <1>2 DEF AnswerOK

LEMMA GoodHandshake ==
  ASSUME NEW s, NEW br, NEW n \in Nat, Good(s, br, n), NEW p \in Message,
         AnswerOK(p, s.queue, s.ids, br)
  PROVE  Good(Handshake(s, p), br, n)
<1>1. s.queue \in Seq(Message) /\ Agree(s.queue, s.flight, s.inbox, s.ids, n, br)
  BY ClientFields DEF Good
<1>2. CASE p.type = "PUBREC" /\ Matches(s, "PUBLISH", p.id)
  <2> DEFINE h == Head(s.queue)
             m == Msg("PUBREL", 2, p.id, h.no)
             t == msg_dequeue(s)
  <2>1. /\ h \in Message /\ s.queue # << >> /\ h = s.queue[1]
        /\ 1 \in 1 .. Len(s.queue) /\ Publish(h) /\ h.id = p.id
        /\ (s.ids = "unique" => h.no \in br.forwarded) /\ p.id # 0
    BY <1>2, AnsweredHead
  <2>2. Handshake(s, p) = msg_enqueue(t, m)
    BY <1>2 DEF Handshake
  <2>3. Good(t, br, n)
    BY GoodDequeue
  <2>4. /\ t.queue = Tail(s.queue) /\ t.flight = s.flight /\ t.inbox = s.inbox
        /\ t.ids = s.ids
    BY <2>1 DEF msg_dequeue, Good, Client
  <2>5. /\ m \in Message /\ m.type = "PUBREL" /\ m.id = p.id /\ m.no = h.no /\ ~Publish(m)
    BY <2>1, MessageFields DEF Msg, Message, MsgTypes, Publish
  <2> HIDE DEF h, m, t
  <2>6. MsgOK(m, s.ids, n, br)
    BY <2>1, <2>5 DEF MsgOK
  <2>7. ASSUME s.ids = "unique",
               NEW i \in 1 .. Len(t.queue), Publish(t.queue[i]), t.queue[i].qos > 0
        PROVE  t.queue[i].id # p.id
    <3>1. i + 1 \in 1 .. Len(s.queue) /\ t.queue[i] = s.queue[i + 1] /\ 1 < i + 1
      BY <1>1, <2>1, <2>4
    <3>2. Earlier(h, t.queue[i], s.ids)
      BY <2>1, <2>7, <3>1 DEF Good, Agree, QueueOK
    <3>3. h.qos > 0
      <4>1. h.qos \in 0 .. 2 /\ h.id # 0 /\ MsgOK(h, s.ids, n, br)
        BY <2>1, MessageFields DEF Good, Agree, QueueOK
      <4> QED
        BY <2>1, <4>1 DEF MsgOK
    <3> QED
      BY <2>1, <2>7, <3>2, <3>3 DEF Earlier
  <2>8. Fits(m, t.queue, t.flight, t.inbox, t.ids, n, br)
    BY <2>4, <2>5, <2>6, <2>7 DEF Fits, Released
  <2> QED
    BY <2>2, <2>3, <2>5, <2>8, GoodEnqueue
<1>3. CASE p.type = "PUBCOMP" /\ Matches(s, "PUBREL", p.id)
  <2>1. Handshake(s, p) = msg_dequeue(Report(s, Head(s.queue)))
    BY <1>3 DEF Handshake
  <2>2. /\ Head(s.queue) \in Message /\ Head(s.queue) = s.queue[1]
        /\ 1 \in 1 .. Len(s.queue) /\ Head(s.queue).type = "PUBREL"
    BY <1>1, <1>3 DEF Matches, Pending
  <2>3. s.ids = "unique" => Head(s.queue).no \in br.forwarded
    BY <1>1, <2>2 DEF Agree, QueueOK, MsgOK
  <2> QED
    BY <2>1, <2>2, <2>3, GoodReport, GoodDequeue
<1>4. CASE /\ ~(p.type = "PUBREC" /\ Matches(s, "PUBLISH", p.id))
           /\ ~(p.type = "PUBCOMP" /\ Matches(s, "PUBREL", p.id))
  BY <1>4 DEF Handshake
<1> QED
  BY <1>2, <1>3, <1>4

LEMMA GoodData ==
  ASSUME NEW s, NEW br, NEW n \in Nat, Good(s, br, n), NEW p \in Message,
         AnswerOK(p, s.queue, s.ids, br)
  PROVE  Good(ReadData(s, p), br, n)
<1>1. p.id \in Nat
  BY MessageFields
<1>2. CASE p.type \in {"SUBACK", "UNSUBACK"}
  <2>1. ReadData(s, p) \in {s, msg_dequeue(s)}
    BY <1>2 DEF ReadData
  <2> QED
    BY <2>1, GoodDequeue
<1>3. CASE p.type = "PUBLISH"
  <2>1. ReadData(s, p) \in {s, msg_enqueue(s, Packet("PUBACK", p.id)),
                            msg_enqueue(s, Packet("PUBREC", p.id))}
    BY <1>3 DEF ReadData
  <2>2. \A type \in {"PUBACK", "PUBREC"} :
          Packet(type, p.id) \in Message /\ Plain(Packet(type, p.id))
    BY <1>1, PacketMessage DEF MsgTypes, Plain
  <2> QED
    BY <2>1, <2>2, GoodEnqueue
<1>4. CASE p.type = "PUBACK"
  <2>1. CASE Matches(s, "PUBLISH", p.id)
    <3>1. ReadData(s, p) = msg_dequeue(Report(s, Head(s.queue)))
      BY <1>4, <2>1 DEF ReadData
    <3>2. /\ Head(s.queue) \in Message
          /\ s.ids = "unique" => Head(s.queue).no \in br.forwarded
      BY <1>4, <2>1, AnsweredHead
    <3> QED
      BY <3>1, <3>2, GoodReport, GoodDequeue
  <2>2. CASE ~Matches(s, "PUBLISH", p.id)
    BY <1>4, <2>2 DEF ReadData
  <2> QED
    BY <2>1, <2>2
<1>5. CASE p.type \in {"PUBREC", "PUBCOMP"}
  <2>1. ReadData(s, p) = Handshake(s, p)
    BY <1>5 DEF ReadData
  <2> QED
    BY <2>1, GoodHandshake
<1>6. CASE p.type = "PUBREL"
  <2>1. ReadData(s, p) \in {s, msg_enqueue(msg_dequeue(s), Packet("PUBCOMP", p.id))}
    BY <1>6 DEF ReadData
  <2>2. Packet("PUBCOMP", p.id) \in Message /\ Plain(Packet("PUBCOMP", p.id))
    BY <1>1, PacketMessage DEF MsgTypes, Plain
  <2>3. Good(msg_dequeue(s), br, n)
    BY GoodDequeue
  <2> QED
    BY <2>1, <2>2, <2>3, GoodEnqueue
<1>7. CASE p.type = "PINGREQ"
  <2>1. ReadData(s, p) = msg_enqueue(s, Packet("PINGRESP", 0))
    BY <1>7 DEF ReadData
  <2>2. Packet("PINGRESP", 0) \in Message /\ Plain(Packet("PINGRESP", 0))
    BY PacketMessage DEF MsgTypes, Plain
  <2> QED
    BY <2>1, <2>2, GoodEnqueue
<1>8. CASE p.type \notin {"SUBACK", "UNSUBACK", "PUBLISH", "PUBACK", "PUBREC", "PUBCOMP",
                          "PUBREL", "PINGREQ"}
  BY <1>8 DEF ReadData
<1> QED
  BY <1>2, <1>3, <1>4, <1>5, <1>6, <1>7, <1>8

LEMMA GoodPacket ==
  ASSUME NEW s, NEW br, NEW n \in Nat, Good(s, br, n), NEW p \in Message,
         AnswerOK(p, s.queue, s.ids, br)
  PROVE  Good(ReadPacket(s, p), br, n)
<1>1. ReadPacket(s, p) \in {s, ReadConnack(s, p), ReadData(s, p)}
  BY DEF ReadPacket
<1> QED
  BY <1>1, GoodConnack, GoodData

\* A segment: the packets that are read on behind are answered first.
LEMMA GoodReceived ==
  ASSUME NEW s, NEW br, NEW n \in Nat, Good(s, br, n), NEW segment \in Seq(Message),
         \A i \in 1 .. Len(segment) : AnswerOK(segment[i], s.queue, s.ids, br),
         NEW k \in 1 .. Len(segment)
  PROVE  Good(mqtt_socket_received(s, segment, k), br, n)
<1> DEFINE type(i) == IF segment[i].qos = 1 THEN "PUBACK" ELSE "PUBREC"
           answers == [i \in 1 .. k - 1 |-> Packet(type(i), segment[i].id)]
           q == s.queue \o answers
           t == [s EXCEPT !.queue = q]
<1>1. /\ s \in Client /\ s.queue \in Seq(Message)
      /\ Agree(s.queue, s.flight, s.inbox, s.ids, n, br)
  BY ClientFields DEF Good
<1>2. \A i \in 1 .. k - 1 : segment[i] \in Message /\ segment[i].id \in Nat
  BY MessageFields
<1>3. \A i \in 1 .. k - 1 : /\ Packet(type(i), segment[i].id) \in Message
                            /\ Plain(Packet(type(i), segment[i].id))
  BY <1>2, PacketMessage DEF MsgTypes, Plain
<1>4. /\ answers \in Seq(Message)
      /\ \A i \in 1 .. Len(answers) : Plain(answers[i])
  <2>1. k - 1 \in Nat
    OBVIOUS
  <2> HIDE DEF type
  <2>2. answers \in Seq(Message) /\ Len(answers) = k - 1
    BY <1>3, <2>1
  <2> QED
    BY <1>3, <2>2
<1>5. mqtt_socket_received(s, segment, k)
        = mqtt_send_if_possible(ReadPacket(t, segment[k]))
  BY DEF mqtt_socket_received
<1> HIDE DEF answers
<1>6. q \in Seq(Message) /\ Agree(q, s.flight, s.inbox, s.ids, n, br)
  BY <1>1, <1>4, AgreePlain
<1>7. Good(t, br, n) /\ t.queue = q /\ t.ids = s.ids
  <2> HIDE DEF q
  <2>1. Good(t, br, n) /\ t.queue = q
    BY <1>6, GoodQueue
  <2>2. t.ids = s.ids
    BY <1>1 DEF Client
  <2> QED
    BY <2>1, <2>2
<1>8. segment[k] \in Message /\ AnswerOK(segment[k], s.queue, s.ids, br)
  OBVIOUS
<1>9. AnswerOK(segment[k], q, s.ids, br)
  <2>1. /\ Len(q) = Len(s.queue) + Len(answers) /\ Len(s.queue) \in Nat /\ Len(answers) \in Nat
        /\ \A i \in 1 .. Len(s.queue) : q[i] = s.queue[i]
        /\ \A i \in 1 .. Len(q) : \/ i \in 1 .. Len(s.queue)
                                  \/ /\ i - Len(s.queue) \in 1 .. Len(answers)
                                     /\ q[i] = answers[i - Len(s.queue)]
    BY <1>1, <1>4
  <2> HIDE DEF q
  <2>2. \A i \in 1 .. Len(q) : \/ i \in 1 .. Len(s.queue) /\ q[i] = s.queue[i]
                               \/ ~Publish(q[i])
    BY <1>4, <2>1 DEF Plain, Publish
  <2> QED
    BY <1>8, <2>2 DEF AnswerOK
<1> HIDE DEF t
<1>10. Good(ReadPacket(t, segment[k]), br, n)
  BY <1>7, <1>8, <1>9, GoodPacket
<1> QED
  BY <1>5, <1>10, GoodSendIfPossible

\* The timer.
LEMMA GoodExpired ==
  ASSUME NEW s, NEW br, NEW n \in Nat, Good(s, br, n), NEW expired
  PROVE  Good(TimerExpired(s, expired), br, n)
<1>1. s \in Client /\ 0 \in Nat /\ s.keep_alive_tick \in Nat
  BY ClientFields DEF Good
<1>2. CASE s.connState = "INIT"
  <2> DEFINE t == [s EXCEPT !.timer = FALSE, !.late = TRUE]
  <2>1. TimerExpired(s, expired) = Tell(t)
    BY <1>2 DEF TimerExpired
  <2>2. t \in Client /\ SameMessages(s, t) /\ t.late /\ t.tcp = s.tcp /\ t.conn = s.conn
    BY <1>1 DEF Client, SameMessages
  <2>3. Guarded(t)
    BY <2>2 DEF Good, Guarded
  <2> HIDE DEF t
  <2> QED
    BY <2>1, <2>2, <2>3, GoodSame, GoodTell
<1>3. CASE s.connState \in {"CONNECT_SENDING", "CONNECT_SENT"}
  <2> DEFINE t == [s EXCEPT !.connState = "INIT"]
             u == espconn_disconnect(Tell(t))
             v == [u EXCEPT !.keep_alive_tick = 0]
  <2>1. TimerExpired(s, expired) \in {u, v}
    BY <1>3 DEF TimerExpired
  <2>2. t \in Client /\ SameMessages(s, t) /\ SameLink(s, t)
    BY <1>1 DEF Client, SameMessages, SameLink
  <2>3. Good(t, br, n)
    BY <2>2, GoodUnmoved
  <2> HIDE DEF t
  <2>4. Good(u, br, n) /\ u \in Client
    BY <2>3, GoodTell, GoodDisconnect DEF Good
  <2> HIDE DEF u
  <2>5. v \in Client /\ SameMessages(u, v) /\ SameLink(u, v)
    BY <1>1, <2>4 DEF Client, SameMessages, SameLink
  <2>6. Good(v, br, n)
    BY <2>4, <2>5, GoodUnmoved
  <2> QED
    BY <2>1, <2>4, <2>6
<1>4. CASE s.connState = "DATA"
  <2> DEFINE d == IF expired THEN msg_dequeue(s) ELSE s
             idle == [d EXCEPT !.keep_alive_tick = @ + 1]
             ping == Packet("PINGREQ", 0)
  <2>1. TimerExpired(s, expired) \in
          {mqtt_send_if_possible(d), idle, mqtt_send_if_possible(msg_enqueue(idle, ping))}
    BY <1>4 DEF TimerExpired
  <2>2. Good(d, br, n)
    BY GoodDequeue
  <2> HIDE DEF d
  <2>3. d \in Client /\ d.keep_alive_tick + 1 \in Nat
    BY <2>2, ClientFields DEF Good
  <2>4. idle \in Client /\ SameMessages(d, idle) /\ SameLink(d, idle)
    BY <2>2, <2>3 DEF Client, SameMessages, SameLink
  <2>5. Good(idle, br, n)
    BY <2>2, <2>4, GoodUnmoved
  <2>6. ping \in Message /\ Plain(ping)
    BY PacketMessage DEF MsgTypes, Plain
  <2> HIDE DEF idle, ping
  <2>7. Good(msg_enqueue(idle, ping), br, n)
    BY <2>5, <2>6, GoodEnqueue
  <2> QED
    BY <2>1, <2>2, <2>5, <2>7, GoodSendIfPossible
<1> QED
  BY <1>1, <1>2, <1>3, <1>4, ClientFields

LEMMA GoodTimer ==
  ASSUME NEW s, NEW br, NEW n \in Nat, Good(s, br, n)
  PROVE  Good(mqtt_socket_timer(s), br, n)
<1> DEFINE d == [s EXCEPT !.event_timeout = @ - 1]
           off == [s EXCEPT !.timer = FALSE]
<1>1. s \in Client /\ s.event_timeout \in 0 .. MQTT_SEND_TIMEOUT /\ MQTT_SEND_TIMEOUT \in Nat
  BY MqttAssumption, ClientFields DEF Good
<1>2. CASE ~s.conn
  <2>1. mqtt_socket_timer(s) = off
    BY <1>2 DEF mqtt_socket_timer
  <2>2. s.tcp = "none"
    BY <1>2 DEF Good, Guarded
  <2>3. off \in Client /\ SameMessages(s, off) /\ off.tcp = s.tcp
    BY <1>1 DEF Client, SameMessages
  <2>4. Guarded(off)
    BY <2>2, <2>3 DEF Guarded
  <2> QED
    BY <2>1, <2>3, <2>4, GoodSame
<1>3. CASE s.conn /\ s.event_timeout > 0
  <2>1. mqtt_socket_timer(s) \in {d, TimerExpired(d, TRUE)}
    <3>1. s.event_timeout > 1 \/ s.event_timeout = 1
      BY <1>1, <1>3
    <3> QED
      BY <1>3, <3>1, Zenon DEF mqtt_socket_timer
  <2>2. s.event_timeout - 1 \in 0 .. MQTT_SEND_TIMEOUT
    BY <1>1, <1>3
  <2>3. d \in Client /\ SameMessages(s, d) /\ SameLink(s, d)
    BY <1>1, <2>2 DEF Client, SameMessages, SameLink
  <2>4. Good(d, br, n)
    BY <2>3, GoodUnmoved
  <2> HIDE DEF d
  <2> QED
    BY <2>1, <2>4, GoodExpired
<1>4. CASE s.conn /\ ~(s.event_timeout > 0)
  <2>1. mqtt_socket_timer(s) = TimerExpired(s, FALSE)
    <3>1. ~(s.event_timeout > 1) /\ s.event_timeout # 1
      BY <1>1, <1>4
    <3> QED
      BY <1>4, <3>1, Zenon DEF mqtt_socket_timer
  <2> QED
    BY <2>1, GoodExpired
<1> QED
  BY <1>2, <1>3, <1>4

----------------------------------------------------------------------------
(* The actions keep the invariant.                                         *)

LEMMA MqttInit == Init => IInv
<1> SUFFICES ASSUME Init PROVE IInv
  OBVIOUS
<1>1. /\ MaxMessages \in Nat /\ MQTT_SEND_TIMEOUT \in Nat /\ IdMod \in Nat
      /\ UsedIds \in 0 .. IdMod - 1
  BY MqttAssumption
<1>2. c \in Client
  <2>1. 0 \in 0 .. MQTT_SEND_TIMEOUT /\ 0 \in Nat /\ << >> \in Seq(Message)
    BY <1>1
  <2>2. {} \in SUBSET (Nat \X (0 .. 2))
    OBVIOUS
  <2> QED
    BY <1>1, <2>1, <2>2 DEF Init, Client
<1>3. /\ c.queue = << >> /\ c.flight = << >> /\ c.inbox = << >> /\ c.reported = {}
      /\ c.tcp = "none"
  BY DEF Init
<1>4. BrokerOK(b, c.ids, messages)
  BY DEF Init, BrokerOK, Broker
<1>5. Agree(c.queue, c.flight, c.inbox, c.ids, messages, b)
  BY <1>3 DEF Agree, QueueOK
<1>6. Guarded(c)
  BY <1>3 DEF Guarded
<1>7. Len(c.flight) <= 1 /\ messages \in 0 .. MaxMessages
  BY <1>1, <1>3 DEF Init
<1>8. Good(c, b, messages)
  BY <1>2, <1>3, <1>4, <1>5, <1>6, <1>7 DEF Good
<1> QED
  BY <1>7, <1>8 DEF IInv, Init

\* What the actions find.
LEMMA Found ==
  ASSUME IInv
  PROVE  /\ messages \in Nat /\ wifi \in BOOLEAN /\ c \in Client /\ Good(c, b, messages)
         /\ BrokerOK(b, c.ids, messages)
         /\ Agree(c.queue, c.flight, c.inbox, c.ids, messages, b)
BY MqttAssumption DEF IInv, Good

\* For an action without a new message that does not get to the broker.
LEMMA Keeps ==
  ASSUME IInv, UNCHANGED <<b, wifi, messages>>, Good(c', b, messages)
  PROVE  IInv'
BY DEF IInv

LEMMA StepConnect ==
  ASSUME IInv, NEW auto \in BOOLEAN, NEW byName \in BOOLEAN, mqtt_socket_connect(auto, byName)
  PROVE  IInv'
<1> DEFINE address == ~byName
           start(a, d) == [c EXCEPT !.conn = TRUE, !.disconcb = FALSE,
                                    !.auto_reconnect = a, !.timer = FALSE,
                                    !.told = "pending", !.closed = FALSE,
                                    !.address = d, !.dns_reconn_count = 0]
           s == start(auto, address)
           t == [s EXCEPT !.tcp = "resolving"]
<1>1. c \in Client /\ 0 \in Nat /\ Good(c, b, messages) /\ wifi \in BOOLEAN
  BY Found
<1>2. /\ c.tcp = "none" /\ UNCHANGED <<b, wifi, messages>>
      /\ c' \in {t, socket_connect(s, wifi)}
  BY DEF mqtt_socket_connect
<1>3. s \in Client /\ SameMessages(c, s) /\ s.tcp = c.tcp /\ s.conn
  <2>1. /\ auto = TRUE \/ auto = FALSE
        /\ address = TRUE \/ address = FALSE
    BY Zenon
  <2> HIDE DEF address
  <2>2. s \in Client
    <3>1. start(TRUE, TRUE) \in Client
      BY <1>1 DEF Client
    <3>2. start(TRUE, FALSE) \in Client
      BY <1>1 DEF Client
    <3>3. start(FALSE, TRUE) \in Client
      BY <1>1 DEF Client
    <3>4. start(FALSE, FALSE) \in Client
      BY <1>1 DEF Client
    <3> HIDE DEF start
    <3> QED
      BY <2>1, <3>1, <3>2, <3>3, <3>4, Zenon
  <2>3. SameMessages(c, s) /\ s.tcp = c.tcp /\ s.conn
    BY <1>1 DEF Client, SameMessages
  <2> QED
    BY <2>2, <2>3
<1>4. Good(s, b, messages)
  <2>1. Guarded(s)
    BY <1>2, <1>3 DEF Guarded
  <2> QED
    BY <1>1, <1>3, <2>1, GoodSame
<1> HIDE DEF s
<1>5. t \in Client /\ SameMessages(s, t) /\ t.tcp = "resolving" /\ t.conn = s.conn
  BY <1>3 DEF Client, SameMessages
<1>6. Good(t, b, messages)
  <2>1. Guarded(t)
    BY <1>3, <1>5 DEF Guarded
  <2> QED
    BY <1>4, <1>5, <2>1, GoodSame
<1> HIDE DEF t
<1>7. Good(c', b, messages)
  BY <1>1, <1>2, <1>3, <1>4, <1>6, GoodConnect
<1> QED
  BY <1>2, <1>7, Keeps

LEMMA StepClose ==
  ASSUME IInv, mqtt_socket_close
  PROVE  IInv'
<1> DEFINE u == espconn_send(c, Packet("DISCONNECT", 0))
           t == [u EXCEPT !.auto_reconnect = FALSE, !.closed = TRUE]
<1>1. Good(u, b, messages)
  BY Found, PacketMessage, GoodSend DEF MsgTypes, Plain
<1>2. c' = espconn_disconnect(t) /\ UNCHANGED <<b, wifi, messages>>
  BY DEF mqtt_socket_close
<1> HIDE DEF u
<1>3. u \in Client
  BY <1>1 DEF Good
<1>4. t \in Client /\ SameMessages(u, t) /\ SameLink(u, t)
  BY <1>3 DEF Client, SameMessages, SameLink
<1>5. Good(t, b, messages)
  BY <1>1, <1>4, GoodUnmoved
<1> HIDE DEF t
<1>6. Good(c', b, messages)
  BY <1>2, <1>5, GoodDisconnect
<1> QED
  BY <1>2, <1>6, Keeps

\* publish, subscribe and unsubscribe: the id is new, and so is the number.
LEMMA StepEnqueue ==
  ASSUME IInv, NEW type \in {"PUBLISH", "SUBSCRIBE", "UNSUBSCRIBE"},
         NEW qos \in 0 .. 2, Enqueue(type, qos)
  PROVE  IInv'
<1> DEFINE id  == IF qos = 0 THEN 0 ELSE NextId(c)
           ids == IF InUse(id) THEN "reused" ELSE c.ids
           s   == IF qos = 0 THEN c ELSE [c EXCEPT !.message_id = id, !.ids = ids]
           m   == Msg(type, qos, id, messages + 1)
           new == messages + 1
           t   == msg_enqueue(s, m)
<1>1. /\ messages < MaxMessages /\ messages' = new /\ UNCHANGED <<b, wifi>>
      /\ c' = mqtt_send_if_possible(t)
  BY DEF Enqueue
<1>2. /\ messages \in Nat /\ wifi \in BOOLEAN /\ c \in Client /\ Good(c, b, messages)
      /\ BrokerOK(b, c.ids, messages) /\ MaxMessages \in Nat
      /\ Agree(c.queue, c.flight, c.inbox, c.ids, messages, b)
      /\ c.queue \in Seq(Message) /\ c.flight \in Seq(Message) /\ c.inbox \in Seq(Message)
  BY Found, ClientFields, MqttAssumption DEF Good
<1>3. /\ s \in Client /\ id \in Nat
      /\ s.ids \in {c.ids, "reused"}
      /\ qos > 0 => Fresh(id, c.queue, c.flight, c.inbox, s.ids, b)
      /\ qos = 0 <=> id = 0
      /\ s.queue = c.queue /\ s.flight = c.flight /\ s.inbox = c.inbox
      /\ s.reported = c.reported /\ SameLink(c, s)
  <2>1. CASE qos = 0
    <3>1. s = c /\ id = 0 /\ ~(qos > 0)
      BY <2>1
    <3> HIDE DEF s, id
    <3> QED
      BY <1>2, <2>1, <3>1, Zenon DEF SameLink
  <2>2. CASE qos # 0
    <3>1. id = NextId(c)
      BY <2>2
    <3>2. id \in 1 .. IdMod - 1 /\ IdMod \in Nat
      <4> HIDE DEF id
      <4> QED
        BY <1>2, <3>1, NewId, MqttAssumption
    <3> HIDE DEF id
    <3>3. id \in Nat /\ id # 0 /\ id \in 0 .. IdMod - 1
      BY <3>2
    <3>4. ids \in {c.ids, "reused"} /\ ids \in {"unique", "reused"}
      BY <1>2 DEF Client
    <3>5. Fresh(id, c.queue, c.flight, c.inbox, ids, b)
      <4>1. CASE InUse(id)
        BY <4>1 DEF Fresh
      <4>2. CASE ~InUse(id)
        BY <1>2, <4>2, FreshId
      <4> QED
        BY <4>1, <4>2
    <3> HIDE DEF ids
    <3>6. /\ s \in Client /\ s.ids = ids
          /\ s.queue = c.queue /\ s.flight = c.flight /\ s.inbox = c.inbox
          /\ s.reported = c.reported /\ SameLink(c, s)
      BY <1>2, <2>2, <3>3, <3>4 DEF Client, SameLink
    <3> HIDE DEF s
    <3> QED
      BY <2>2, <3>3, <3>4, <3>5, <3>6
  <2> QED
    BY <2>1, <2>2
<1>4. /\ m \in Message /\ m.type # "PUBREL" /\ m.no = messages + 1 /\ m.qos = qos
      /\ m.id = id
  <2> HIDE DEF id
  <2> QED
    BY <1>2, <1>3 DEF Msg, Message, MsgTypes
<1> HIDE DEF s, id, ids, m
<1>5. /\ Agree(s.queue, s.flight, s.inbox, s.ids, new, b)
      /\ BrokerOK(b, s.ids, new)
  BY <1>2, <1>3, AgreeOlder, BrokerOlder
<1>6. Good(s, b, new)
  <2>1. Guarded(s)
    BY <1>2, <1>3 DEF Good, Guarded, SameLink
  <2>2. Len(s.flight) <= 1
    BY <1>2, <1>3 DEF Good
  <2>3. s.ids = "unique" => \A r \in s.reported : r[2] > 0 => r[1] \in b.forwarded
    BY <1>2, <1>3 DEF Good
  <2> QED
    BY <1>3, <1>5, <2>1, <2>2, <2>3 DEF Good
<1>7. Fits(m, s.queue, s.flight, s.inbox, s.ids, new, b)
  <2>1. m.qos = 0 <=> m.id = 0
    BY <1>3, <1>4
  <2>2. m.qos > 0 => Fresh(m.id, c.queue, c.flight, c.inbox, s.ids, b)
    BY <1>3, <1>4
  <2> QED
    BY <1>2, <1>3, <1>4, <2>1, <2>2, NewFits
<1>8. Good(t, b, new)
  BY <1>4, <1>6, <1>7, GoodEnqueue
<1> HIDE DEF t
<1>9. new \in 0 .. MaxMessages
  BY <1>1, <1>2
<1> HIDE DEF new
<1>10. Good(c', b, new)
  BY <1>1, <1>8, GoodSendIfPossible
<1> QED
  BY <1>1, <1>2, <1>9, <1>10 DEF IInv

LEMMA StepDnsFound ==
  ASSUME IInv, DnsFound
  PROVE  IInv'
<1> DEFINE s == [c EXCEPT !.dns_reconn_count = 0, !.address = TRUE]
<1>1. c \in Client /\ 0 \in Nat /\ Good(c, b, messages) /\ wifi \in BOOLEAN
  BY Found
<1>2. c.tcp = "resolving" /\ c' = socket_connect(s, wifi) /\ UNCHANGED <<b, wifi, messages>>
  BY DEF DnsFound
<1>3. c.conn
  BY <1>1, <1>2 DEF Good, Guarded
<1>4. s \in Client /\ SameMessages(c, s) /\ SameLink(c, s)
  BY <1>1 DEF Client, SameMessages, SameLink
<1>5. Good(s, b, messages) /\ s.conn
  BY <1>1, <1>3, <1>4, GoodUnmoved DEF SameLink
<1> HIDE DEF s
<1>6. Good(c', b, messages)
  BY <1>1, <1>2, <1>5, GoodConnect
<1> QED
  BY <1>2, <1>6, Keeps

LEMMA StepDnsFailed ==
  ASSUME IInv, DnsFailed
  PROVE  IInv'
<1> DEFINE s == [c EXCEPT !.dns_reconn_count = @ + 1]
           t == [s EXCEPT !.tcp = "none"]
<1>1. c \in Client /\ c.dns_reconn_count + 1 \in Nat /\ Good(c, b, messages) /\ wifi \in BOOLEAN
  BY Found, ClientFields
<1>2. /\ c.tcp = "resolving" /\ UNCHANGED <<b, wifi, messages>>
      /\ c' \in {s, mqtt_socket_disconnected(Tell(t), wifi)}
  BY DEF DnsFailed
<1>3. c.conn
  BY <1>1, <1>2 DEF Good, Guarded
<1>4. s \in Client /\ SameMessages(c, s) /\ SameLink(c, s)
  BY <1>1 DEF Client, SameMessages, SameLink
<1>5. Good(s, b, messages) /\ s.conn
  BY <1>1, <1>3, <1>4, GoodUnmoved DEF SameLink
<1> HIDE DEF s
<1>6. t \in Client /\ SameMessages(s, t) /\ t.tcp = "none" /\ t.conn = s.conn
  BY <1>4 DEF Client, SameMessages
<1>7. Good(t, b, messages)
  <2>1. Guarded(t)
    BY <1>6 DEF Guarded
  <2> QED
    BY <1>5, <1>6, <2>1, GoodSame
<1>8. Good(Tell(t), b, messages) /\ Tell(t).tcp = "none" /\ Tell(t).conn
  <2>1. Tell(t).conn = t.conn
    BY <1>6 DEF Tell, Client
  <2> QED
    BY <1>5, <1>6, <1>7, <2>1, GoodTell
<1> HIDE DEF t
<1>9. Good(c', b, messages)
  BY <1>1, <1>2, <1>5, <1>8, GoodDisconnected
<1> QED
  BY <1>2, <1>9, Keeps

LEMMA StepConnected ==
  ASSUME IInv, Connected
  PROVE  IInv'
<1> DEFINE s == [c EXCEPT !.tcp = "up"]
<1>1. c \in Client /\ Good(c, b, messages)
  BY Found
<1>2. /\ c.tcp = "connecting" /\ UNCHANGED <<b, wifi, messages>>
      /\ c' = mqtt_socket_connected(s)
  BY DEF Connected
<1>3. /\ s \in Client /\ SameMessages(c, s) /\ s.tcp = "up" /\ s.conn = c.conn
      /\ s.timer = c.timer /\ s.late = c.late
  BY <1>1 DEF Client, SameMessages
<1>4. Guarded(s)
  BY <1>1, <1>2, <1>3 DEF Good, Guarded
<1> HIDE DEF s
<1>5. Good(c', b, messages)
  BY <1>1, <1>2, <1>3, <1>4, GoodSame, GoodConnected
<1> QED
  BY <1>2, <1>5, Keeps

\* The one message with TCP.
LEMMA InFlight ==
  ASSUME NEW s, NEW br, NEW n, Good(s, br, n), s.flight # << >>
  PROVE  Head(s.flight) \in Message /\ s.flight = <<Head(s.flight)>>
<1>1. s.flight \in Seq(Message) /\ Len(s.flight) <= 1
  BY ClientFields DEF Good
<1>2. ASSUME NEW f \in Seq(Message), Len(f) <= 1, f # << >>
      PROVE  Head(f) \in Message /\ f = <<Head(f)>>
  <2>1. Len(f) \in Nat /\ Len(f) # 0
    BY <1>2
  <2>2. Len(f) = 1
    <3>1. \A k \in Nat : k <= 1 /\ k # 0 => k = 1
      OBVIOUS
    <3> QED
      BY <1>2, <2>1, <3>1, Zenon
  <2>3. Head(f) \in Message /\ Head(f) = f[1]
    BY <1>2
  <2> QED
    BY <2>2, <2>3
<1> QED
  BY <1>1, <1>2

\* The message with TCP gets to the broker.
LEMMA StepSent ==
  ASSUME IInv, Sent
  PROVE  IInv' /\ b'.latest >= b.latest
<1> DEFINE m == Head(c.flight)
<1>1. /\ messages \in Nat /\ wifi \in BOOLEAN /\ c \in Client /\ Good(c, b, messages)
      /\ BrokerOK(b, c.ids, messages)
      /\ Agree(c.queue, c.flight, c.inbox, c.ids, messages, b)
      /\ c.queue \in Seq(Message) /\ c.inbox \in Seq(Message)
  BY Found, ClientFields
<1>2. c.flight # << >> /\ b' = Get(b, m) /\ UNCHANGED <<wifi, messages>>
  BY DEF Sent
<1>3. PICK answer \in Answers(m) :
        c' = mqtt_socket_sent([c EXCEPT !.flight = << >>, !.inbox = @ \o answer])
  BY DEF Sent
<1> DEFINE none == << >>
           x == c.inbox \o answer
           s == [c EXCEPT !.flight = none, !.inbox = x]
<1>4. m \in Message /\ c.flight = <<m>>
  BY <1>1, <1>2, InFlight
<1> HIDE DEF m
<1>5. /\ BrokerOK(b', c.ids, messages)
      /\ b.forwarded \subseteq b'.forwarded
      /\ b'.latest >= b.latest
  BY <1>1, <1>2, <1>4, Deliver
<1>6. x \in Seq(Message) /\ Agree(c.queue, none, x, c.ids, messages, b')
  BY <1>1, <1>2, <1>4, Answered
<1>7. none \in Seq(Message) /\ Len(none) <= 1
  OBVIOUS
<1>8. c' = mqtt_socket_sent(s)
  BY <1>3
<1> HIDE DEF x, none
<1>9. /\ s \in Client /\ s.queue = c.queue /\ s.flight = none /\ s.inbox = x
      /\ s.ids = c.ids /\ s.reported = c.reported /\ SameLink(c, s)
  BY <1>1, <1>6, <1>7 DEF Client, SameLink
<1> HIDE DEF s
<1>10. Good(s, b', messages)
  <2>1. Guarded(s)
    BY <1>1, <1>9 DEF Good, Guarded, SameLink
  <2>2. s.ids = "unique" => \A r \in s.reported : r[2] > 0 => r[1] \in b'.forwarded
    BY <1>1, <1>5, <1>9 DEF Good
  <2> QED
    BY <1>5, <1>6, <1>7, <1>9, <2>1, <2>2 DEF Good
<1>11. Good(c', b', messages)
  BY <1>8, <1>10, GoodSent
<1> QED
  BY <1>1, <1>2, <1>5, <1>11 DEF IInv

LEMMA StepReceived ==
  ASSUME IInv, NEW k \in 1 .. MaxInbox, Received(k)
  PROVE  IInv'
<1> DEFINE segment == SubSeq(c.inbox, 1, k)
           x == SubSeq(c.inbox, k + 1, Len(c.inbox))
           s == [c EXCEPT !.inbox = x]
<1>1. /\ messages \in Nat /\ c \in Client /\ Good(c, b, messages)
      /\ Agree(c.queue, c.flight, c.inbox, c.ids, messages, b)
      /\ c.inbox \in Seq(Message) /\ MaxInbox \in Nat
  BY Found, ClientFields, MqttAssumption
<1>2. k <= Len(c.inbox) /\ UNCHANGED <<b, wifi, messages>>
  BY DEF Received
<1>3. PICK l \in 1 .. k : c' = mqtt_socket_received(s, segment, l)
  BY DEF Received
<1>4. k \in 1 .. Len(c.inbox)
  BY <1>1, <1>2
<1>5. /\ segment \in Seq(Message) /\ Len(segment) = k
      /\ \A i \in 1 .. Len(segment) : segment[i] = c.inbox[i] /\ i \in 1 .. Len(c.inbox)
  BY <1>1, <1>4
<1>6. x \in Seq(Message) /\ Agree(c.queue, c.flight, x, c.ids, messages, b)
  BY <1>1, <1>4, AgreeLess
<1> HIDE DEF x, segment
<1>7. /\ s \in Client /\ s.queue = c.queue /\ s.flight = c.flight /\ s.inbox = x
      /\ s.ids = c.ids /\ s.reported = c.reported /\ SameLink(c, s)
  BY <1>1, <1>6 DEF Client, SameLink
<1> HIDE DEF s
<1>8. Good(s, b, messages)
  <2>1. Guarded(s)
    BY <1>1, <1>7 DEF Good, Guarded, SameLink
  <2> QED
    BY <1>1, <1>6, <1>7, <2>1 DEF Good
<1>9. \A i \in 1 .. Len(segment) : AnswerOK(segment[i], s.queue, s.ids, b)
  BY <1>1, <1>5, <1>7 DEF Agree
<1>10. Good(c', b, messages)
  BY <1>1, <1>3, <1>5, <1>8, <1>9, GoodReceived
<1> QED
  BY <1>2, <1>10, Keeps

LEMMA StepLose ==
  ASSUME IInv, NEW how \in {"closing", "failing"}, Lose(how)
  PROVE  IInv'
<1> DEFINE none == << >>
           s == [c EXCEPT !.tcp = how, !.inbox = none]
<1>1. c \in Client /\ Good(c, b, messages)
  BY Found
<1>2. c.tcp = "up" /\ c' = s /\ UNCHANGED <<b, wifi, messages>>
  BY DEF Lose
<1>3. none \in Seq(Message) /\ Agree(c.queue, c.flight, none, c.ids, messages, b)
  BY <1>1, AgreeNone DEF Good
<1> HIDE DEF none
<1>4. /\ s \in Client /\ s.queue = c.queue /\ s.flight = c.flight /\ s.inbox = none
      /\ s.ids = c.ids /\ s.reported = c.reported
      /\ s.tcp = how /\ s.conn = c.conn
  BY <1>1, <1>3 DEF Client
<1> HIDE DEF s
<1>5. Guarded(s)
  BY <1>1, <1>2, <1>4 DEF Good, Guarded
<1>6. Good(s, b, messages)
  BY <1>1, <1>3, <1>4, <1>5 DEF Good
<1> QED
  BY <1>2, <1>6, Keeps

LEMMA StepAttemptFails ==
  ASSUME IInv, AttemptFails
  PROVE  IInv'
<1> DEFINE s == [c EXCEPT !.tcp = "failing"]
<1>1. c \in Client /\ Good(c, b, messages)
  BY Found
<1>2. c.tcp = "connecting" /\ c' = s /\ UNCHANGED <<b, wifi, messages>>
  BY DEF AttemptFails
<1>3. s \in Client /\ SameMessages(c, s) /\ s.tcp = "failing" /\ s.conn = c.conn
  BY <1>1 DEF Client, SameMessages
<1> HIDE DEF s
<1>4. Guarded(s)
  BY <1>1, <1>2, <1>3 DEF Good, Guarded
<1>5. Good(s, b, messages)
  BY <1>1, <1>3, <1>4, GoodSame
<1> QED
  BY <1>2, <1>5, Keeps

LEMMA StepGone ==
  ASSUME IInv, Gone
  PROVE  IInv' /\ b'.latest >= b.latest
<1> DEFINE none == << >>
           s == [c EXCEPT !.tcp = "none", !.flight = none, !.late = FALSE]
<1>1. /\ messages \in Nat /\ wifi \in BOOLEAN /\ c \in Client /\ Good(c, b, messages)
      /\ BrokerOK(b, c.ids, messages)
      /\ Agree(c.queue, c.flight, c.inbox, c.ids, messages, b)
      /\ c.queue \in Seq(Message) /\ c.inbox \in Seq(Message) /\ c.flight \in Seq(Message)
  BY Found, ClientFields
<1>2. /\ c.tcp \in {"closing", "failing"} /\ UNCHANGED <<wifi, messages>>
      /\ c' \in {mqtt_socket_reconnected(s, wifi), mqtt_socket_disconnected(s, wifi), s}
  BY DEF Gone
<1>3. c.conn
  BY <1>1, <1>2 DEF Good, Guarded
<1>4. /\ BrokerOK(b', c.ids, messages)
      /\ b.forwarded \subseteq b'.forwarded
      /\ b'.latest >= b.latest
      /\ Agree(c.queue, none, c.inbox, c.ids, messages, b')
  <2>1. CASE b' = b
    BY <1>1, <2>1, AgreeNone DEF BrokerOK, Broker
  <2>2. CASE b' # b
    <3>1. PICK i \in 1 .. Len(c.flight) : b' = Get(b, c.flight[i])
      BY <2>2 DEF Gone
    <3>2. c.flight # << >>
      BY <1>1, <3>1
    <3> DEFINE m == Head(c.flight)
    <3>3. m \in Message /\ c.flight = <<m>>
      BY <1>1, <3>2, InFlight
    <3> HIDE DEF m
    <3>4. c.flight[i] = m
      BY <3>1, <3>3
    <3>5. b' = Get(b, m)
      BY <3>1, <3>4
    <3> QED
      BY <1>1, <3>3, <3>5, Deliver
  <2> QED
    BY <2>1, <2>2
<1>5. none \in Seq(Message) /\ Len(none) <= 1
  OBVIOUS
<1> HIDE DEF none
<1>6. /\ s \in Client /\ s.queue = c.queue /\ s.flight = none /\ s.inbox = c.inbox
      /\ s.ids = c.ids /\ s.reported = c.reported
      /\ s.tcp = "none" /\ s.conn = c.conn
  BY <1>1, <1>5 DEF Client
<1> HIDE DEF s
<1>7. Good(s, b', messages)
  <2>1. Guarded(s)
    BY <1>6 DEF Guarded
  <2>2. s.ids = "unique" => \A r \in s.reported : r[2] > 0 => r[1] \in b'.forwarded
    BY <1>1, <1>4, <1>6 DEF Good
  <2> QED
    BY <1>4, <1>5, <1>6, <2>1, <2>2 DEF Good
<1>8. Good(c', b', messages)
  BY <1>1, <1>2, <1>3, <1>6, <1>7, GoodReconnected, GoodDisconnected
<1> QED
  BY <1>1, <1>2, <1>4, <1>8 DEF IInv

LEMMA StepBroker ==
  ASSUME IInv, NEW qos \in {1, 2}, BrokerPublishes(qos)
  PROVE  IInv'
<1> DEFINE p == Msg("PUBLISH", qos, messages + 1, 0)
           new == messages + 1
           x == Append(c.inbox, p)
           s == [c EXCEPT !.inbox = x]
<1>1. /\ messages \in Nat /\ wifi \in BOOLEAN /\ c \in Client /\ Good(c, b, messages)
      /\ BrokerOK(b, c.ids, messages) /\ MaxMessages \in Nat
      /\ Agree(c.queue, c.flight, c.inbox, c.ids, messages, b)
      /\ c.inbox \in Seq(Message)
  BY Found, ClientFields, MqttAssumption
<1>2. /\ messages < MaxMessages /\ messages' = new /\ UNCHANGED <<b, wifi>>
      /\ c' = s
  BY DEF BrokerPublishes
<1>3. p \in Message /\ p.type = "PUBLISH"
  BY <1>1 DEF Msg, Message, MsgTypes
<1> HIDE DEF p
<1>4. AnswerOK(p, c.queue, c.ids, b)
  BY <1>3 DEF AnswerOK
<1>5. x \in Seq(Message) /\ Agree(c.queue, c.flight, x, c.ids, messages, b)
  BY <1>1, <1>3, <1>4, AgreeMore
<1> HIDE DEF x
<1>6. /\ s \in Client /\ s.queue = c.queue /\ s.flight = c.flight /\ s.inbox = x
      /\ s.ids = c.ids /\ s.reported = c.reported /\ SameLink(c, s)
  BY <1>1, <1>5 DEF Client, SameLink
<1> HIDE DEF s
<1>7. /\ Agree(s.queue, s.flight, s.inbox, s.ids, new, b)
      /\ BrokerOK(b, s.ids, new)
  BY <1>1, <1>5, <1>6, AgreeOlder, BrokerOlder
<1>8. new \in 0 .. MaxMessages
  BY <1>1, <1>2
<1> HIDE DEF new
<1>9. Good(s, b, new)
  <2>1. Guarded(s)
    BY <1>1, <1>6 DEF Good, Guarded, SameLink
  <2>2. s.ids = "unique" => \A r \in s.reported : r[2] > 0 => r[1] \in b.forwarded
    BY <1>1, <1>6 DEF Good
  <2>3. Len(s.flight) <= 1
    BY <1>1, <1>6 DEF Good
  <2> QED
    BY <1>6, <1>7, <1>8, <2>1, <2>2, <2>3 DEF Good
<1> QED
  BY <1>1, <1>2, <1>8, <1>9 DEF IInv

LEMMA MqttStep ==
  ASSUME IInv, [Next]_vars
  PROVE  IInv' /\ b'.latest >= b.latest
<1>1. b \in Broker /\ b.latest \in Nat
  BY DEF IInv, Good, BrokerOK, Broker
<1>2. CASE Program
  <2>1. CASE \E auto, byName \in BOOLEAN : mqtt_socket_connect(auto, byName)
    <3>1. UNCHANGED b
      BY <2>1 DEF mqtt_socket_connect
    <3> QED
      BY <1>1, <2>1, <3>1, StepConnect
  <2>2. CASE mqtt_socket_close
    <3>1. UNCHANGED b
      BY <2>2 DEF mqtt_socket_close
    <3> QED
      BY <1>1, <2>2, <3>1, StepClose
  <2>3. CASE \/ \E qos \in {0, 1, 2} : mqtt_socket_publish(qos)
             \/ mqtt_socket_subscribe \/ mqtt_socket_unsubscribe
    <3>1. PICK type \in {"PUBLISH", "SUBSCRIBE", "UNSUBSCRIBE"}, qos \in 0 .. 2 :
            Enqueue(type, qos)
      BY <2>3 DEF mqtt_socket_publish, mqtt_socket_subscribe, mqtt_socket_unsubscribe
    <3>2. UNCHANGED b
      BY <3>1 DEF Enqueue
    <3> QED
      BY <1>1, <3>1, <3>2, StepEnqueue
  <2> QED
    BY <1>2, <2>1, <2>2, <2>3 DEF Program
<1>3. CASE Network
  <2>1. CASE DnsFound
    <3>1. UNCHANGED b
      BY <2>1 DEF DnsFound
    <3> QED
      BY <1>1, <2>1, <3>1, StepDnsFound
  <2>2. CASE DnsFailed
    <3>1. UNCHANGED b
      BY <2>2 DEF DnsFailed
    <3> QED
      BY <1>1, <2>2, <3>1, StepDnsFailed
  <2>3. CASE Connected
    <3>1. UNCHANGED b
      BY <2>3 DEF Connected
    <3> QED
      BY <1>1, <2>3, <3>1, StepConnected
  <2>4. CASE Sent
    BY <2>4, StepSent
  <2>5. CASE \E k \in 1 .. MaxInbox : Received(k)
    <3>1. UNCHANGED b
      BY <2>5 DEF Received
    <3> QED
      BY <1>1, <2>5, <3>1, StepReceived
  <2>6. CASE Gone
    BY <2>6, StepGone
  <2>7. CASE AttemptFails
    <3>1. UNCHANGED b
      BY <2>7 DEF AttemptFails
    <3> QED
      BY <1>1, <2>7, <3>1, StepAttemptFails
  <2> QED
    BY <1>3, <2>1, <2>2, <2>3, <2>4, <2>5, <2>6, <2>7 DEF Network
<1>4. CASE Faults
  <2>1. CASE Wifi
    <3>1. UNCHANGED <<c, b, messages>> /\ wifi' \in BOOLEAN
      BY <2>1 DEF Wifi
    <3> QED
      BY <1>1, <3>1 DEF IInv
  <2>2. CASE \E how \in {"closing", "failing"} : Lose(how)
    <3>1. UNCHANGED b
      BY <2>2 DEF Lose
    <3> QED
      BY <1>1, <2>2, <3>1, StepLose
  <2> QED
    BY <1>4, <2>1, <2>2 DEF Faults
<1>5. CASE \E qos \in {1, 2} : BrokerPublishes(qos)
  <2>1. UNCHANGED b
    BY <1>5 DEF BrokerPublishes
  <2> QED
    BY <1>1, <1>5, <2>1, StepBroker
<1>6. CASE Timer
  <2>1. c' = mqtt_socket_timer(c) /\ UNCHANGED <<b, wifi, messages>>
    BY <1>6 DEF Timer
  <2>2. Good(c', b, messages)
    BY <2>1, Found, GoodTimer
  <2> QED
    BY <1>1, <2>1, <2>2, Keeps
<1>7. CASE UNCHANGED vars
  BY <1>1, <1>7 DEF vars, IInv
<1> QED
  BY <1>2, <1>3, <1>4, <1>5, <1>6, <1>7 DEF Next

----------------------------------------------------------------------------
(* The theorems.                                                           *)

\* Throughout every run of the client the messages in its queue, with TCP and
\* on their way from the broker agree with what the broker has forwarded.
THEOREM MqttInvariance == Spec => []IInv
<1>1. IInv /\ [Next]_vars => IInv'
  BY MqttStep
<1> QED
  BY MqttInit, <1>1, PTL DEF Spec

\* The callback of publish with quality of service 1 or 2 means that the broker
\* has the message: answers that are late, come twice or after a reconnection
\* are never taken for those of another message, however many messages there
\* are and however often the ids come round, until the client gives an id that
\* is still in use.
THEOREM AnswersTrue == Spec => []AnsweredReached
<1>1. IInv => AnsweredReached
  BY DEF IInv, Good, AnsweredReached
<1> QED
  BY <1>1, MqttInvariance, PTL

\* A message with quality of service 2 is forwarded once, however often it is
\* sent again, until the client gives an id that is still in use.
THEOREM ForwardedOnce == Spec => []ExactlyOnce
<1>1. IInv => ExactlyOnce
  BY DEF IInv, Good, BrokerOK, ExactlyOnce
<1> QED
  BY <1>1, MqttInvariance, PTL

\* An established connection is watched by the timer, or it came about after
\* the timer had reported that it would not.
THEOREM TimerWatches == Spec => []TimerGuards
<1>1. IInv => TimerGuards
  BY DEF IInv, Good, Guarded, TimerGuards
<1> QED
  BY <1>1, MqttInvariance, PTL

\* The broker gets what the program publishes in the order of the calls, also
\* what is sent again after a connection was lost, and also with ids reused.
THEOREM InOrder == Spec => ReceivedInOrder
<1>1. IInv /\ [Next]_vars => b'.latest >= b.latest
  BY MqttStep
<1>2. IInv /\ [Next]_vars => [b'.latest >= b.latest]_vars
  BY <1>1
<1> QED
  BY <1>2, MqttInvariance, PTL DEF Spec, ReceivedInOrder
============================================================================
