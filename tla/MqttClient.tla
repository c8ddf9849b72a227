----------------------------- MODULE MqttClient -----------------------------
(***************************************************************************)
(* The MQTT client of src/app/modules/mqtt.c with its message queue        *)
(* (src/app/mqtt/msg_queue.c), over one TCP connection at a time of        *)
(* espconn, and a broker that keeps the session of the client              *)
(* (clean_session = 0).  The handlers of mqtt.c are operators on the state *)
(* of the client; the actions are the callbacks of espconn, DNS and timer, *)
(* the calls of the Lua program, and what happens to the network.          *)
(***************************************************************************)
EXTENDS Integers, Sequences

CONSTANTS
  MQTT_SEND_TIMEOUT, \* ticks a message or a connection attempt has: 5
  KeepAlive,         \* idle ticks before a PINGREQ
  DnsTries,          \* DNS answers that fail before the client gives up: 5
  IdMod,             \* 2^16: message ids
  UsedIds,           \* message ids the client has used before
  MaxMessages,       \* bound: calls that send, messages published to the client
  MaxFaults,         \* bound: established connections lost, changes of the link
  MaxInbox           \* bound: packets of the broker on their way

ASSUME MqttAssumption ==
  /\ {MQTT_SEND_TIMEOUT, DnsTries, MaxInbox} \subseteq Nat \ {0}
  /\ {KeepAlive, MaxMessages, MaxFaults} \subseteq Nat
  /\ IdMod \in Nat /\ IdMod > 1
  /\ UsedIds \in 0 .. IdMod - 1

VARIABLES
  c,        \* the client and its end of the TCP connection
  b,        \* the broker
  wifi,     \* the station has an IP address
  faults, messages  \* how often the bounded actions have happened

vars == <<c, b, wifi, faults, messages>>

----------------------------------------------------------------------------
(* Messages.  no numbers the calls of the program; it is not transmitted.  *)

Msg(type, qos, id, no) == [type |-> type, qos |-> qos, id |-> id, no |-> no]
Packet(type, id) == Msg(type, 0, id, 0)

\* Mutant: a message is put in front of the queue.
enqueue_AtHead(s, m) == [s EXCEPT !.queue = <<m>> \o @]

msg_enqueue(s, m) == [s EXCEPT !.queue = Append(@, m)]

msg_dequeue(s) == [s EXCEPT !.queue = IF @ = << >> THEN @ ELSE Tail(@)]

\* The head of the queue is a message of this type; it has this id, too.
Pending(s, type) == s.queue # << >> /\ Head(s.queue).type = type

\* Mutant: any id will do.
Matches_AnyId(s, type, id) == Pending(s, type)

Matches(s, type, id) == Pending(s, type) /\ Head(s.queue).id = id

----------------------------------------------------------------------------
(* espconn, as far as mqtt.c uses it.                                      *)

\* One message at a time is with TCP; more are refused.
espconn_send(s, m) ==
  IF s.tcp = "up" /\ s.flight = << >> THEN [s EXCEPT !.flight = <<m>>] ELSE s

\* No callback but the one for the disconnection comes after this.
espconn_disconnect(s) ==
  IF s.tcp \in {"connecting", "up"} THEN [s EXCEPT !.tcp = "closing", !.inbox = << >>]
                                    ELSE s

----------------------------------------------------------------------------
(* The handlers of mqtt.c.                                                 *)

\* A callback that tells the program what became of its connection.
Tell(s) == [s EXCEPT !.told = "told"]

\* The callback for a publish call; m is reported to have gone out.
Report(s, m) == [s EXCEPT !.reported = @ \cup {<<m.no, m.qos>>}]

\* Mutant: the timer is not armed.
connect_NoTimer(s, online) ==
  [s EXCEPT !.event_timeout = MQTT_SEND_TIMEOUT, !.connState = "INIT",
            !.tcp = IF online THEN "connecting" ELSE "none", !.late = FALSE]

\* espconn_connect is refused without an IP address.
socket_connect(s, online) ==
  [s EXCEPT !.event_timeout = MQTT_SEND_TIMEOUT, !.connState = "INIT",
            !.tcp = IF online THEN "connecting" ELSE "none", !.timer = TRUE,
            !.late = FALSE]

mqtt_socket_disconnected(s, online) ==
  LET d == [s EXCEPT !.timer = FALSE, !.connected = FALSE]
      t == IF s.connected THEN Tell(d) ELSE d
  IN  IF s.auto_reconnect
        THEN socket_connect(t, online)
        ELSE [t EXCEPT !.conn = FALSE, !.disconcb = FALSE,
                       !.told = IF @ = "pending" THEN "dropped" ELSE @]

\* The socket counts as connected all the while, if it is to reconnect.
mqtt_socket_reconnected(s, online) ==
  LET d == [s EXCEPT !.timer = FALSE, !.event_timeout = 0]
  IN  IF s.auto_reconnect THEN socket_connect(d, online)
                          ELSE mqtt_socket_disconnected(d, online)

mqtt_send_if_possible(s) ==
  IF s.event_timeout = 0 /\ s.queue # << >>
    THEN [espconn_send(s, Head(s.queue)) EXCEPT
            !.event_timeout = MQTT_SEND_TIMEOUT, !.keep_alive_tick = 0]
    ELSE s

mqtt_socket_connected(s) ==
  [espconn_send(s, Packet("CONNECT", 0)) EXCEPT
     !.connected = TRUE, !.disconcb = TRUE, !.event_timeout = MQTT_SEND_TIMEOUT,
     !.keep_alive_tick = 0, !.connState = "CONNECT_SENDING"]

\* Mutant: a PINGREQ stays in the queue.
Unanswered_NoPing(s) ==
  \/ Pending(s, "PUBLISH") /\ Head(s.queue).qos = 0
  \/ \E type \in {"PUBACK", "PUBCOMP"} : Pending(s, type)

\* What mqtt_socket_sent takes from the queue: what is not answered.
Unanswered(s) ==
  \/ Pending(s, "PUBLISH") /\ Head(s.queue).qos = 0
  \/ \E type \in {"PUBACK", "PUBCOMP", "PINGREQ"} : Pending(s, type)

mqtt_socket_sent(s) ==
  LET d == [s EXCEPT !.event_timeout = 0, !.keep_alive_tick = 0]
  IN  IF ~s.connected THEN s
      ELSE IF s.connState = "CONNECT_SENDING"
        THEN [d EXCEPT !.connState = "CONNECT_SENT", !.event_timeout = MQTT_SEND_TIMEOUT]
      ELSE IF Unanswered(s)
        THEN mqtt_send_if_possible(msg_dequeue(
               IF Pending(s, "PUBLISH") THEN Report(d, Head(s.queue)) ELSE d))
      ELSE d

\* The answer of the broker to CONNECT.
ReadConnack(s, p) ==
  LET d == Tell([s EXCEPT !.event_timeout = 0])
  IN  IF p.type = "CONNACK" /\ p.id = 0 THEN [d EXCEPT !.connState = "DATA"]
      ELSE espconn_disconnect([d EXCEPT !.connState = "INIT"])

\* Mutant: the message is kept until PUBCOMP.
Handshake_KeepsPublish(s, p) ==
  CASE p.type = "PUBREC" /\ Matches(s, "PUBLISH", p.id) ->
         [s EXCEPT !.queue = <<Msg("PUBREL", 2, p.id, Head(@).no)>> \o @]
    [] p.type = "PUBCOMP" /\ Matches(s, "PUBREL", p.id) ->
         msg_dequeue(msg_dequeue(Report(s, Head(s.queue))))
    [] OTHER -> s

\* The answers to a message with quality of service 2.
Handshake(s, p) ==
  CASE p.type = "PUBREC" /\ Matches(s, "PUBLISH", p.id) ->
         msg_enqueue(msg_dequeue(s), Msg("PUBREL", 2, p.id, Head(s.queue).no))
    [] p.type = "PUBCOMP" /\ Matches(s, "PUBREL", p.id) ->
         msg_dequeue(Report(s, Head(s.queue)))
    [] OTHER -> s

\* A packet in MQTT_DATA.  A broker that keeps to MQTT sends no PINGREQ.
ReadData(s, p) ==
  CASE p.type = "SUBACK" /\ Matches(s, "SUBSCRIBE", p.id)     -> msg_dequeue(s)
    [] p.type = "UNSUBACK" /\ Matches(s, "UNSUBSCRIBE", p.id) -> msg_dequeue(s)
    [] p.type = "PUBLISH" /\ p.qos = 1 -> msg_enqueue(s, Packet("PUBACK", p.id))
    [] p.type = "PUBLISH" /\ p.qos = 2 -> msg_enqueue(s, Packet("PUBREC", p.id))
    [] p.type = "PUBACK" /\ Matches(s, "PUBLISH", p.id) ->
         msg_dequeue(Report(s, Head(s.queue)))
    [] p.type \in {"PUBREC", "PUBCOMP"} -> Handshake(s, p)
    [] p.type = "PUBREL" /\ Matches(s, "PUBREC", p.id) ->
         msg_enqueue(msg_dequeue(s), Packet("PUBCOMP", p.id))
    [] p.type = "PINGREQ" -> msg_enqueue(s, Packet("PINGRESP", 0))
    [] OTHER -> s

ReadPacket(s, p) ==
  CASE s.connState \in {"CONNECT_SENDING", "CONNECT_SENT"} -> ReadConnack(s, p)
    [] s.connState = "DATA" -> ReadData(s, p)
    [] OTHER -> s

\* A segment is read on behind a PUBLISH only: k is its last packet that is
\* read, and what follows is lost.
LastRead(s, segment, k) ==
  LET readOn(i) == s.connState = "DATA" /\ segment[i].type = "PUBLISH"
  IN  /\ \A i \in 1 .. k - 1 : readOn(i)
      /\ readOn(k) => k = Len(segment)

\* The messages that are read on behind are answered.
mqtt_socket_received(s, segment, k) ==
  LET answers == [i \in 1 .. k - 1 |->
                    Packet(IF segment[i].qos = 1 THEN "PUBACK" ELSE "PUBREC", segment[i].id)]
  IN  mqtt_send_if_possible(ReadPacket([s EXCEPT !.queue = @ \o answers], segment[k]))

\* The part of mqtt_socket_timer that is done when nothing is waited for.
\* expired: the wait has just ended.
TimerExpired(s, expired) ==
  CASE s.connState = "INIT" -> Tell([s EXCEPT !.timer = FALSE, !.late = TRUE])
    [] s.connState = "CONNECT_SENDING" ->
         [espconn_disconnect(Tell([s EXCEPT !.connState = "INIT"])) EXCEPT
            !.keep_alive_tick = 0]
    [] s.connState = "CONNECT_SENT" ->
         espconn_disconnect(Tell([s EXCEPT !.connState = "INIT"]))
    [] s.connState = "DATA" ->
         LET d == IF expired THEN msg_dequeue(s) ELSE s
             idle == [d EXCEPT !.keep_alive_tick = @ + 1]
         IN  IF d.queue # << >> THEN mqtt_send_if_possible(d)
             ELSE IF idle.keep_alive_tick > KeepAlive
               THEN mqtt_send_if_possible(msg_enqueue(idle, Packet("PINGREQ", 0)))
             ELSE idle

\* Mutant: a wait never ends.
timer_NeverExpires(s) ==
  IF s.event_timeout > 0 THEN s ELSE TimerExpired(s, FALSE)

mqtt_socket_timer(s) ==
  LET d == [s EXCEPT !.event_timeout = @ - 1]
  IN  IF ~s.conn THEN [s EXCEPT !.timer = FALSE]
      ELSE IF s.event_timeout > 1 THEN d
      ELSE IF s.event_timeout = 1 THEN TimerExpired(d, TRUE)
      ELSE TimerExpired(s, FALSE)

----------------------------------------------------------------------------
(* The Lua program.                                                        *)

\* mqtt:connect, to an address or to a name to be looked up.  A program that
\* calls it while an earlier attempt is under way is not modelled.
mqtt_socket_connect(auto, byName) ==
  /\ ~c.connected
  /\ c.tcp = "none"
  /\ c.told # "pending" \/ c.closed
  /\ LET s == [c EXCEPT !.conn = TRUE, !.disconcb = FALSE,
                        !.auto_reconnect = auto, !.timer = FALSE,
                        !.told = "pending", !.closed = FALSE,
                        !.address = ~byName, !.dns_reconn_count = 0]
     IN  c' = IF byName THEN [s EXCEPT !.tcp = "resolving"] ELSE socket_connect(s, wifi)
  /\ UNCHANGED <<b, wifi, faults, messages>>

mqtt_socket_close ==
  /\ c.conn
  /\ c' = espconn_disconnect([espconn_send(c, Packet("DISCONNECT", 0)) EXCEPT
                                !.auto_reconnect = FALSE, !.closed = TRUE])
  /\ UNCHANGED <<b, wifi, faults, messages>>

\* append_message_id: the next id that is not 0.
NextId(s) == IF (s.message_id + 1) % IdMod = 0 THEN 1 ELSE s.message_id + 1

Carries(s, types, id) == \E i \in 1 .. Len(s) : s[i].type \in types /\ s[i].id = id

\* Something of an earlier publish call with this id is not over: the message
\* waits, is under way or held by the broker, or an answer is under way.
InUse(id) ==
  \/ Carries(c.queue \o c.flight, {"PUBLISH", "PUBREL"}, id)
  \/ Carries(c.inbox, {"PUBACK", "PUBREC"}, id)
  \/ id \in b.held

\* A message the program wants to send is put in the queue.  The calls want a
\* connected socket, not that the broker has accepted the client; that an id is
\* still in use when the ids come round is not looked at, but recorded.
Enqueue(type, qos) ==
  /\ c.conn /\ c.connected
  /\ messages < MaxMessages
  /\ LET id == IF qos = 0 THEN 0 ELSE NextId(c)
         s  == IF qos = 0 THEN c
               ELSE [c EXCEPT !.message_id = id, !.ids = IF InUse(id) THEN "reused" ELSE @]
     IN  c' = mqtt_send_if_possible(msg_enqueue(s, Msg(type, qos, id, messages + 1)))
  /\ messages' = messages + 1
  /\ UNCHANGED <<b, wifi, faults>>

mqtt_socket_publish(qos) == Enqueue("PUBLISH", qos)

\* Their packets have an id of their own, as those with quality of service 1.
mqtt_socket_subscribe   == Enqueue("SUBSCRIBE", 1)
mqtt_socket_unsubscribe == Enqueue("UNSUBSCRIBE", 1)

----------------------------------------------------------------------------
(* The broker: what it becomes when it gets m, and what it answers.        *)

Forward(s, m) ==
  [s EXCEPT !.latest = m.no, !.forwarded = @ \cup {m.no},
            !.twice = IF m.no \in s.forwarded THEN @ \cup {<<m.no, m.qos>>} ELSE @]

Get(s, m) ==
  CASE m.type = "PUBLISH" /\ m.qos < 2 -> Forward(s, m)
    [] m.type = "PUBLISH" /\ m.qos = 2 ->
         IF m.id \in s.held THEN [s EXCEPT !.latest = m.no]
         ELSE [Forward(s, m) EXCEPT !.held = @ \cup {m.id}]
    [] m.type = "PUBREL" -> [s EXCEPT !.held = @ \ {m.id}]
    [] OTHER -> s

\* It may also refuse the client (id 1) or not answer a CONNECT at all.
Answers(m) ==
  LET answer == [SUBSCRIBE |-> "SUBACK", UNSUBSCRIBE |-> "UNSUBACK",
                 PUBREC |-> "PUBREL", PUBREL |-> "PUBCOMP", PINGREQ |-> "PINGRESP"]
  IN  CASE m.type = "CONNECT" -> {<<Packet("CONNACK", 0)>>, <<Packet("CONNACK", 1)>>, << >>}
        [] m.type = "PUBLISH" /\ m.qos = 1 -> {<<Packet("PUBACK", m.id)>>}
        [] m.type = "PUBLISH" /\ m.qos = 2 -> {<<Packet("PUBREC", m.id)>>}
        [] m.type \in DOMAIN answer -> {<<Packet(answer[m.type], m.id)>>}
        [] OTHER -> {<< >>}

\* A message is published to the client.
BrokerPublishes(qos) ==
  /\ c.tcp = "up" /\ c.connState = "DATA"
  /\ messages < MaxMessages
  /\ Len(c.inbox) < MaxInbox
  /\ messages' = messages + 1
  /\ c' = [c EXCEPT !.inbox = Append(@, Msg("PUBLISH", qos, messages + 1, 0))]
  /\ UNCHANGED <<b, wifi, faults>>

----------------------------------------------------------------------------
(* Events of network and timer.                                            *)

\* DNS answers: with an address, or without.
DnsFound ==
  /\ c.tcp = "resolving"
  /\ c' = socket_connect([c EXCEPT !.dns_reconn_count = 0, !.address = TRUE], wifi)
  /\ UNCHANGED <<b, wifi, faults, messages>>

DnsFailed ==
  /\ c.tcp = "resolving"
  /\ LET s == [c EXCEPT !.dns_reconn_count = @ + 1]
     IN  c' = IF s.dns_reconn_count >= DnsTries
                THEN mqtt_socket_disconnected(Tell([s EXCEPT !.tcp = "none"]), wifi)
                ELSE s
  /\ UNCHANGED <<b, wifi, faults, messages>>

Connected ==
  /\ c.tcp = "connecting" /\ c.address /\ wifi
  /\ c' = mqtt_socket_connected([c EXCEPT !.tcp = "up"])
  /\ UNCHANGED <<b, wifi, faults, messages>>

\* The message with TCP gets to the broker and is acknowledged.
Sent ==
  /\ c.tcp = "up" /\ c.flight # << >>
  /\ Len(c.inbox) < MaxInbox
  /\ b' = Get(b, Head(c.flight))
  /\ \E answer \in Answers(Head(c.flight)) :
       c' = mqtt_socket_sent([c EXCEPT !.flight = << >>, !.inbox = @ \o answer])
  /\ UNCHANGED <<wifi, faults, messages>>

\* The first n packets of the broker come in one segment.
Received(n) ==
  /\ c.tcp = "up"
  /\ n <= Len(c.inbox)
  /\ LET segment == SubSeq(c.inbox, 1, n)
     IN  \E k \in 1 .. n :
           /\ LastRead(c, segment, k)
           /\ c' = mqtt_socket_received([c EXCEPT !.inbox = SubSeq(@, n + 1, Len(@))],
                                        segment, k)
  /\ UNCHANGED <<b, wifi, faults, messages>>

\* The connection ends with an error, or the broker closes it.
Lose(how) ==
  /\ c.tcp = "up"
  /\ faults < MaxFaults
  /\ faults' = faults + 1
  /\ c' = [c EXCEPT !.tcp = how, !.inbox = << >>]
  /\ UNCHANGED <<b, wifi, messages>>

\* The host refuses the connection, or nobody answers; it may do so for ever.
AttemptFails ==
  /\ c.tcp = "connecting"
  /\ c' = [c EXCEPT !.tcp = "failing"]
  /\ UNCHANGED <<b, wifi, faults, messages>>

\* The message with TCP may still have got to the broker.
Gone ==
  /\ c.tcp \in {"closing", "failing"}
  /\ b' \in {b} \cup { Get(b, m) : m \in {c.flight[i] : i \in 1 .. Len(c.flight)} }
  /\ LET s == [c EXCEPT !.tcp = "none", !.flight = << >>, !.late = FALSE]
     IN  c' = IF c.tcp = "failing" THEN mqtt_socket_reconnected(s, wifi)
              ELSE IF c.disconcb THEN mqtt_socket_disconnected(s, wifi)
              ELSE s
  /\ UNCHANGED <<wifi, faults, messages>>

\* Events posted by espconn are handled before the next tick.
Timer ==
  /\ c.timer
  /\ c.tcp \notin {"closing", "failing"}
  /\ c' = mqtt_socket_timer(c)
  /\ UNCHANGED <<b, wifi, faults, messages>>

Wifi ==
  /\ faults < MaxFaults
  /\ wifi' = ~wifi
  /\ faults' = faults + 1
  /\ UNCHANGED <<c, b, messages>>

\* A client as mqtt.Client makes it, or one that has been in use and is idle.
Init ==
  /\ c = [conn |-> FALSE, disconcb |-> FALSE, connected |-> FALSE,
          auto_reconnect |-> FALSE, connState |-> "INIT", timer |-> FALSE,
          event_timeout |-> 0, keep_alive_tick |-> 0, dns_reconn_count |-> 0,
          address |-> FALSE, message_id |-> UsedIds, queue |-> << >>,
          tcp |-> "none", flight |-> << >>, inbox |-> << >>,
          told |-> "no", closed |-> FALSE, late |-> FALSE, reported |-> {},
          ids |-> "unique"]
  /\ b = [held |-> {}, latest |-> 0, forwarded |-> {}, twice |-> {}]
  /\ wifi = TRUE
  /\ faults = 0 /\ messages = 0

Program ==
  \/ \E auto, byName \in BOOLEAN : mqtt_socket_connect(auto, byName)
  \/ mqtt_socket_close
  \/ \E qos \in {0, 1, 2} : mqtt_socket_publish(qos)
  \/ mqtt_socket_subscribe
  \/ mqtt_socket_unsubscribe

Network ==
  \/ DnsFound \/ DnsFailed
  \/ Connected \/ AttemptFails
  \/ Sent
  \/ \E n \in 1 .. MaxInbox : Received(n)
  \/ Gone

Faults == Wifi \/ \E how \in {"closing", "failing"} : Lose(how)

Next ==
  \/ Program
  \/ Network
  \/ Faults
  \/ \E qos \in {1, 2} : BrokerPublishes(qos)
  \/ Timer

\* The system task runs what is posted, the timer ticks, TCP gets its segments
\* through as long as the connection lasts, and gives up an attempt in the end.
Fairness ==
  /\ WF_vars(DnsFound \/ DnsFailed)
  /\ WF_vars(Connected \/ AttemptFails)
  /\ WF_vars(Sent)
  /\ WF_vars(\E n \in 1 .. MaxInbox : Received(n))
  /\ WF_vars(Gone)
  /\ WF_vars(Timer)

Spec == Init /\ [][Next]_vars /\ Fairness
----------------------------------------------------------------------------
(* Properties.                                                             *)

\* The broker gets what the program publishes in the order of the calls, also
\* what is sent again because an answer is late or the connection was lost.
ReceivedInOrder == [][b'.latest >= b.latest]_vars

\* The callback for a publish call with quality of service 1 or 2 means that
\* the broker has the message: mqtt_socket_received takes an answer for the
\* right one, also if it is late, comes twice or after a reconnection, as long
\* as the client has not given an id that was still in use.
AnsweredReached ==
  c.ids = "unique" => \A r \in c.reported : r[2] > 0 => r[1] \in b.forwarded

\* The same with quality of service 0, where mqtt_socket_sent takes the
\* acknowledgement of TCP for that of the head of the queue.
SentReached == \A r \in c.reported : r[2] = 0 => r[1] \in b.forwarded

\* With quality of service 2 the broker forwards a message once, however often
\* the timer or a reconnection has it sent again, as long as the client has not
\* given an id that was still in use.
ExactlyOnce == c.ids = "unique" => \A t \in b.twice : t[2] # 2

\* A connection is watched by the timer, unless it came about after the timer
\* had reported that it would not.
TimerGuards == c.tcp = "up" => c.timer \/ c.late

\* mqtt:connect comes to an end in mqtt_socket_reconnected, the DNS callback or
\* the timer, unless the program closes it first: without autoreconnect always,
\* the program being told or the attempt dropped without a word; with it if the
\* attempts do not fail for ever, since each failure disarms the timer that
\* would have told the program.
ConnectEnds ==
  LET Ended == c.told # "pending" \/ c.closed
  IN  /\ (c.told = "pending" /\ ~c.auto_reconnect) ~> Ended
      /\ <>[][~AttemptFails]_vars => ((c.told = "pending") ~> Ended)

\* While a connection lasts and the timer runs, the queue gets empty again and
\* again: answers that are lost are asked for again.
QueueDrains ==
  <>[](c.tcp = "up" /\ c.connState = "DATA" /\ c.timer) => []<>(c.queue = << >>)

============================================================================
