-------------------------- MODULE CompMsgOtaProofs --------------------------
(***************************************************************************)
(* Proofs about CompMsgOta, for any number of connection structs, attempts *)
(* and bytes.  Types and the flag hold whatever fails.  The rest needs     *)
(* that updates come one after the other (OneAtATime: no otaStart while    *)
(* espconn still has an earlier connection) or that the network does not   *)
(* fail (QuietNetwork): otherwise a late error of an earlier connection is *)
(* taken for one of the present session.                                   *)
(***************************************************************************)
EXTENDS CompMsgOta, TLAPS

----------------------------------------------------------------------------
(* Records.                                                                *)

Flags  == {"IDLE", "START", "FINISH"}
Heaps  == [Conns -> {"free", "fresh", "ready"}]
Report == [att : 0 .. MaxAttempts, result : BOOLEAN, complete : BOOLEAN]

\* The fields of a session, and the session without its connection.
LEMMA SessionFields ==
  ASSUME NEW u \in userUpgradeData
  PROVE  /\ u # NULL
         /\ u.att \in 1 .. MaxAttempts /\ u.conn \in Conns \cup {NoConn}
         /\ u.fs \in BOOLEAN /\ u.got \in 0 .. MaxLen + 1 /\ u.len \in 0 .. MaxLen
         /\ u.from \in {"nowhere", "own", "other"}
         /\ [u EXCEPT !.conn = NoConn] \in userUpgradeData
         /\ [u EXCEPT !.conn = NoConn].conn = NoConn
         /\ [u EXCEPT !.conn = NoConn].att = u.att
         /\ [u EXCEPT !.conn = NoConn].got = u.got
         /\ [u EXCEPT !.conn = NoConn].len = u.len
         /\ [u EXCEPT !.conn = NoConn].from = u.from
  BY BoundsAssumption DEF userUpgradeData, NULL, NoConn

\* The fields of what the network stack holds, and of its next state.
LEMMA LinkFields ==
  ASSUME NEW l \in espconn_msg, NEW s \in {"lookup", "wait", "open", "close", "err"}
  PROVE  /\ l.att \in 1 .. MaxAttempts /\ l.conn \in Conns
         /\ l.st \in {"lookup", "wait", "open", "close", "err"}
         /\ [l EXCEPT !.st = s] \in espconn_msg
         /\ [l EXCEPT !.st = s].conn = l.conn
         /\ [l EXCEPT !.st = s].att = l.att
         /\ [l EXCEPT !.st = s].st = s
  BY DEF espconn_msg

\* No address is NULL.
LEMMA ConnIsNotNull ==
  /\ NoConn \notin Conns
  /\ \A c \in Conns : c # NoConn
  BY ConnsAssumption DEF NoConn

\* A link of a session's connection.
LEMMA NewLink ==
  ASSUME NEW u \in userUpgradeData, u.conn # NoConn,
         NEW s \in {"lookup", "wait", "open", "close", "err"}
  PROVE  /\ [att |-> u.att, conn |-> u.conn, st |-> s] \in espconn_msg
         /\ u.conn \in Conns
  BY SessionFields DEF espconn_msg

\* A session that begins.
LEMMA SessionBegins ==
  ASSUME NEW c \in Conns \cup {NoConn}, NEW fs \in BOOLEAN,
         attempts \in 0 .. MaxAttempts, attempts < MaxAttempts
  PROVE  /\ NewSession(c, fs) \in userUpgradeData
         /\ NewSession(c, fs).conn = c
         /\ NewSession(c, fs).att = attempts + 1
         /\ NewSession(c, fs).from = "nowhere"
  BY BoundsAssumption DEF NewSession, userUpgradeData

\* A session that receives: only its counts and where they came from change.
LEMMA SessionReceives ==
  ASSUME uud \in userUpgradeData, NEW l \in espconn_msg,
         NEW k \in 0 .. MaxLen + 1, NEW n \in 0 .. MaxLen
  PROVE  /\ Received(l, k, n) \in userUpgradeData
         /\ Received(l, k, n).conn = uud.conn
         /\ Received(l, k, n).att = uud.att
         /\ Received(l, k, n).from =
              IF uud.from # "other" /\ l.att = uud.att THEN "own" ELSE "other"
  <1>1. Count(uud.got, k) \in 0 .. MaxLen + 1
    <2>1. uud.got \in 0 .. MaxLen + 1
      BY SessionFields
    <2>. QED BY <2>1, BoundsAssumption DEF Count
  <1>2. (IF uud.len = 0 THEN n ELSE uud.len) \in 0 .. MaxLen
    BY SessionFields
  <1>3. (IF uud.from # "other" /\ l.att = uud.att THEN "own" ELSE "other")
          \in {"nowhere", "own", "other"}
    OBVIOUS
  <1>. QED BY <1>1, <1>2, <1>3 DEF Received, userUpgradeData

----------------------------------------------------------------------------
(* What the shared pieces do.                                              *)

\* espconn_disconnect, if it does anything, turns one link of the connection
\* into a posted close; without closeFails it does so whenever there is one.
Closes(c, ls) ==
  \E l \in ls : /\ l.conn = c /\ l.st \in {"wait", "open"}
                /\ links' = (ls \ {l}) \cup {[l EXCEPT !.st = "close"]}

LEMMA DisconnectEffect ==
  ASSUME NEW c, NEW ls, espconn_disconnect(c, ls)
  PROVE  \/ Closes(c, ls)
         \/ /\ links' = ls
            /\ \/ "closeFails" \in Faults
               \/ \A l \in ls : l.conn = c => l.st \notin {"wait", "open"}
  BY DEF espconn_disconnect, Closes

\* compMsgOtaDeinit ends the session: with a reset, or with the connection of
\* u being closed.
LEMMA DeinitEffect ==
  ASSUME NEW u, NEW fl, NEW ls, NEW hp, compMsgOtaDeinit(u, fl, ls, hp)
  PROVE  /\ uud' = NULL /\ timer' = "off" /\ attempts' = attempts
         /\ flag' = "IDLE" \/ flag' = fl
         /\ reported' = [att |-> u.att, result |-> fl = "FINISH",
                         complete |-> u.got = u.len /\ u.from = "own"]
         /\ \/ /\ links' = {} /\ heap' = [c \in Conns |-> "free"] /\ fault' = "none"
            \/ /\ heap' = hp /\ fault' = fault
               /\ \/ u.conn # NoConn /\ Closes(u.conn, ls)
                  \/ /\ links' = ls
                     /\ \/ u.conn = NoConn
                        \/ "closeFails" \in Faults
                        \/ \A l \in ls : l.conn = u.conn => l.st \notin {"wait", "open"}
  <1>1. CASE fl = "FINISH" /\ ~u.fs
    BY <1>1 DEF compMsgOtaDeinit, ResetAll
  <1>2. CASE ~(fl = "FINISH" /\ ~u.fs)
    <2>1. IF u.conn # NoConn THEN espconn_disconnect(u.conn, ls) ELSE links' = ls
      BY <1>2 DEF compMsgOtaDeinit
    <2>. QED BY <1>2, <2>1, DisconnectEffect DEF compMsgOtaDeinit
  <1>. QED BY <1>1, <1>2

----------------------------------------------------------------------------
(* Types, and the flag: for every fault.                                   *)

Basic == TypeOK /\ SessionHoldsFlag

LEMMA ClosesType ==
  ASSUME NEW c, NEW ls \in SUBSET espconn_msg, Closes(c, ls)
  PROVE  links' \subseteq espconn_msg
  <1>1. PICK l \in ls : links' = (ls \ {l}) \cup {[l EXCEPT !.st = "close"]}
    BY DEF Closes
  <1>2. [l EXCEPT !.st = "close"] \in espconn_msg
    BY LinkFields
  <1>. QED BY <1>1, <1>2

LEMMA DeinitBasic ==
  ASSUME Basic, NEW u \in userUpgradeData, NEW fl \in Flags,
         NEW ls \in SUBSET espconn_msg, NEW hp \in Heaps,
         compMsgOtaDeinit(u, fl, ls, hp)
  PROVE  Basic'
  <1>1. /\ uud' = NULL /\ timer' = "off" /\ attempts' = attempts
        /\ reported' = [att |-> u.att, result |-> fl = "FINISH",
                        complete |-> u.got = u.len /\ u.from = "own"]
    BY DeinitEffect, Zenon
  <1>5. flag' \in Flags
    <2>1. flag' = "IDLE" \/ flag' = fl
      BY DeinitEffect, Zenon
    <2>. QED BY <2>1 DEF Flags
  <1>2. links' \subseteq espconn_msg
    BY DeinitEffect, ClosesType
  <1>3. heap' \in Heaps /\ fault' \in {"none", "null", "freed"}
    BY DeinitEffect DEF Basic, TypeOK, Heaps
  <1>4. reported' \in Report
    <2>1. u.att \in 0 .. MaxAttempts
      <3>1. u.att \in 1 .. MaxAttempts
        BY SessionFields
      <3>. QED BY <3>1, BoundsAssumption
    <2>2. (fl = "FINISH") \in BOOLEAN /\ (u.got = u.len /\ u.from = "own") \in BOOLEAN
      OBVIOUS
    <2>. QED BY <1>1, <2>1, <2>2, Zenon DEF Report
  <1>. QED BY <1>1, <1>2, <1>3, <1>4, <1>5
           DEF Basic, TypeOK, SessionHoldsFlag, Flags, Heaps, Report

LEMMA FaultBasic ==
  ASSUME Basic, NEW what \in {"null", "freed"}, Fault(what)
  PROVE  Basic'
  BY DEF Basic, TypeOK, SessionHoldsFlag, Fault

LEMMA DisconBasic ==
  ASSUME Basic, NEW c \in Conns \cup {NoConn}, NEW ls \in SUBSET espconn_msg,
         upgradeDisconCb(c, ls)
  PROVE  Basic'
  <1>. DEFINE hp == [d \in Conns |-> IF d = c THEN "free" ELSE heap[d]]
  <1>1. hp \in Heaps
    BY DEF Basic, TypeOK, Heaps
  <1>2. CASE c # NoConn /\ ~Allocated(c)
    BY <1>2, FaultBasic DEF upgradeDisconCb
  <1>3. CASE ~(c # NoConn /\ ~Allocated(c)) /\ uud # NULL /\ uud.conn = c
    <2>1. uud \in userUpgradeData /\ flag \in Flags
      BY <1>3 DEF Basic, TypeOK, Flags
    <2>2. compMsgOtaDeinit([uud EXCEPT !.conn = NoConn], flag, ls, hp)
      BY <1>3 DEF upgradeDisconCb
    <2>. QED BY <1>1, <2>1, <2>2, SessionFields, DeinitBasic
  <1>4. CASE ~(c # NoConn /\ ~Allocated(c)) /\ ~(uud # NULL /\ uud.conn = c)
    <2>1. /\ timer' = "off" /\ heap' = hp /\ links' = ls
          /\ UNCHANGED <<flag, uud, fault, attempts, reported>>
      BY <1>4 DEF upgradeDisconCb
    <2>. QED BY <1>1, <2>1 DEF Basic, TypeOK, SessionHoldsFlag, Heaps
  <1>. QED BY <1>2, <1>3, <1>4

LEMMA ConnectBasic ==
  ASSUME Basic, NEW u \in userUpgradeData, u.conn # NoConn,
         NEW ls \in SUBSET espconn_msg, NEW hp \in Heaps,
         Connect(u, ls, hp), flag' = "START", attempts' \in 0 .. MaxAttempts,
         UNCHANGED <<fault, reported>>
  PROVE  Basic'
  <1>1. [att |-> u.att, conn |-> u.conn, st |-> "wait"] \in espconn_msg
    BY NewLink
  <1>2. links' \subseteq espconn_msg
    BY <1>1 DEF Connect
  <1>. QED BY <1>2 DEF Basic, TypeOK, SessionHoldsFlag, Connect, Heaps

LEMMA StartBasic ==
  ASSUME Basic, Start
  PROVE  Basic'
  <1>1. /\ MayStart
        /\ attempts \in 0 .. MaxAttempts /\ attempts < MaxAttempts
        /\ attempts' \in 0 .. MaxAttempts
    <2>1. MayStart
      BY DEF Start, otaStart, otaStart_NoMem, otaStart_SaveFails, otaStart_DnsError
    <2>. QED BY <2>1, BoundsAssumption DEF MayStart, Basic, TypeOK
  <1>2. CASE otaStart_NoMem
    BY <1>1, <1>2 DEF otaStart_NoMem, MayStart, Basic, TypeOK, SessionHoldsFlag
  <1>3. CASE otaStart_DnsError
    BY <1>1, <1>3 DEF otaStart_DnsError, MayStart, Basic, TypeOK, SessionHoldsFlag
  <1>4. CASE otaStart_SaveFails
    <2>1. PICK fs \in BOOLEAN : uud' = NewSession(NoConn, fs)
      BY <1>4 DEF otaStart_SaveFails
    <2>2. uud' \in userUpgradeData /\ uud'.conn = NoConn
      BY <1>1, <2>1, SessionBegins
    <2>. QED BY <1>1, <1>4, <2>2
             DEF otaStart_SaveFails, MayStart, Basic, TypeOK, SessionHoldsFlag
  <1>5. CASE otaStart
    <2>1. PICK c \in Conns, fs \in BOOLEAN :
            LET u  == NewSession(c, fs)
                hp == [heap EXCEPT ![c] = "fresh"]
            IN  \/ /\ uud' = u
                   /\ heap' = hp
                   /\ links' = links \cup {[att |-> u.att, conn |-> c, st |-> "lookup"]}
                   /\ UNCHANGED timer
                \/ Connect(u, links, hp)
      BY <1>5 DEF otaStart
    <2>. DEFINE u  == NewSession(c, fs)
                hp == [heap EXCEPT ![c] = "fresh"]
    <2>2. u \in userUpgradeData /\ u.conn = c /\ u.conn # NoConn
      BY <1>1, SessionBegins, ConnIsNotNull
    <2>3. hp \in Heaps /\ links \in SUBSET espconn_msg
      BY DEF Heaps, Basic, TypeOK
    <2>4. [att |-> u.att, conn |-> c, st |-> "lookup"] \in espconn_msg
      BY <2>2, NewLink
    <2>5. flag' = "START" /\ UNCHANGED <<fault, reported>>
      BY <1>5 DEF otaStart, MayStart
    <2>. HIDE DEF u, hp
    <2>6. CASE Connect(u, links, hp)
      BY <1>1, <2>2, <2>3, <2>5, <2>6, ConnectBasic
    <2>7. CASE /\ uud' = u
               /\ heap' = hp
               /\ links' = links \cup {[att |-> u.att, conn |-> c, st |-> "lookup"]}
               /\ UNCHANGED timer
      BY <1>1, <2>2, <2>3, <2>4, <2>5, <2>7
         DEF Basic, TypeOK, SessionHoldsFlag, Heaps
    <2>. QED BY <2>1, <2>6, <2>7 DEF u, hp
  <1>. QED BY <1>2, <1>3, <1>4, <1>5 DEF Start

LEMMA ReceiveBasic ==
  ASSUME Basic, NEW l \in links, upgradeRecvCb(l)
  PROVE  Basic'
  <1>1. /\ links \in SUBSET espconn_msg /\ l \in espconn_msg
        /\ heap \in Heaps /\ flag \in Flags
        /\ uud # NULL => uud \in userUpgradeData
    BY DEF Basic, TypeOK, Heaps, Flags
  <1>2. CASE \/ ~Allocated(l.conn)
             \/ Allocated(l.conn) /\ heap[l.conn] = "ready" /\ uud = NULL
    <2>1. Fault("freed") \/ Fault("null")
      BY <1>2 DEF upgradeRecvCb
    <2>. QED BY <2>1, FaultBasic
  <1>3. CASE Allocated(l.conn) /\ heap[l.conn] # "ready"
    BY <1>3 DEF upgradeRecvCb, vars, Basic, TypeOK, SessionHoldsFlag
  <1>4. CASE Allocated(l.conn) /\ heap[l.conn] = "ready" /\ uud # NULL
    <2>1. CASE compMsgOtaDeinit(uud, flag, links, heap)
      BY <1>1, <1>4, <2>1, DeinitBasic
    <2>2. ASSUME NEW k \in 0 .. MaxLen + 1, NEW n \in 0 .. MaxLen,
                 LET u == Received(l, k, n)
                 IN  IF u.got = u.len
                       THEN compMsgOtaDeinit(u, "FINISH", links, heap)
                     ELSE IF u.conn = NoConn
                       THEN Fault("null")
                     ELSE IF ~Reading(l)
                       THEN compMsgOtaDeinit(u, flag, links, heap)
                     ELSE /\ uud' = u
                          /\ timer' = "compMsgOtaDeinit"
                          /\ UNCHANGED <<flag, heap, links, fault, attempts,
                                         reported>>
          PROVE  Basic'
      <3>. DEFINE u == Received(l, k, n)
      <3>1. u \in userUpgradeData /\ u.conn = uud.conn
        BY <1>1, <1>4, SessionReceives
      <3>. HIDE DEF u
      <3>2. CASE compMsgOtaDeinit(u, "FINISH", links, heap)
        BY <1>1, <3>1, <3>2, DeinitBasic DEF Flags
      <3>3. CASE Fault("null")
        BY <3>3, FaultBasic
      <3>4. CASE compMsgOtaDeinit(u, flag, links, heap)
        BY <1>1, <3>1, <3>4, DeinitBasic
      <3>5. CASE /\ uud' = u
                 /\ timer' = "compMsgOtaDeinit"
                 /\ UNCHANGED <<flag, heap, links, fault, attempts, reported>>
        BY <1>4, <3>1, <3>5 DEF Basic, TypeOK, SessionHoldsFlag
      <3>. QED BY <2>2, <3>2, <3>3, <3>4, <3>5 DEF u
    <2>. QED BY <1>4, <2>1, <2>2 DEF upgradeRecvCb
  <1>. QED BY <1>2, <1>3, <1>4

LEMMA CallbackBasic ==
  ASSUME Basic, NEW l \in links,
         \/ upgradeResolved(l) \/ espconn_Task_Close(l) \/ espconn_Task_Err(l)
         \/ upgradeConnectCb(l) \/ espconn_client_close(l) \/ espconn_client_err(l)
  PROVE  Basic'
  <1>1. /\ links \in SUBSET espconn_msg /\ l \in espconn_msg
        /\ links \ {l} \in SUBSET espconn_msg
        /\ heap \in Heaps /\ flag \in Flags /\ l.conn \in Conns
        /\ uud # NULL => uud \in userUpgradeData /\ uud.conn \in Conns \cup {NoConn}
    BY LinkFields, SessionFields DEF Basic, TypeOK, Heaps, Flags
  <1>f. CASE Fault("freed") \/ Fault("null")
    BY <1>f, FaultBasic
  <1>d. CASE uud # NULL /\ upgradeDisconCb(uud.conn, links \ {l})
    BY <1>1, <1>d, DisconBasic
  <1>c. ASSUME NEW s \in {"open", "close", "err"},
               links' = (links \ {l}) \cup {[l EXCEPT !.st = s]},
               UNCHANGED <<flag, uud, heap, timer, fault, attempts, reported>>
        PROVE  Basic'
    <2>1. [l EXCEPT !.st = s] \in espconn_msg
      BY <1>1, LinkFields
    <2>. QED BY <1>1, <1>c, <2>1 DEF Basic, TypeOK, SessionHoldsFlag
  <1>2. CASE upgradeResolved(l)
    <2>1. CASE Connect(uud, links \ {l}, heap) /\ uud # NULL /\ uud.conn # NoConn
               /\ UNCHANGED <<flag, fault, attempts, reported>>
      <3>1. flag' = "START" /\ attempts' \in 0 .. MaxAttempts
        BY <2>1 DEF Basic, TypeOK, SessionHoldsFlag
      <3>. QED BY <1>1, <2>1, <3>1, ConnectBasic
    <2>. QED BY <1>2, <1>f, <1>d, <2>1 DEF upgradeResolved
  <1>3. CASE espconn_Task_Close(l)
    <2>1. CASE upgradeDisconCb(l.conn, links \ {l})
      BY <1>1, <2>1, DisconBasic
    <2>2. CASE links' = links \ {l}
               /\ UNCHANGED <<flag, uud, heap, timer, fault, attempts, reported>>
      BY <1>1, <2>2 DEF Basic, TypeOK, SessionHoldsFlag
    <2>. QED BY <1>3, <1>f, <2>1, <2>2 DEF espconn_Task_Close
  <1>4. CASE espconn_Task_Err(l)
    BY <1>4, <1>f, <1>d DEF espconn_Task_Err
  <1>5. CASE upgradeConnectCb(l)
    <2>. DEFINE ls == (links \ {l}) \cup {[l EXCEPT !.st = "open"]}
                hp == [d \in Conns |-> IF d = uud.conn THEN "ready" ELSE heap[d]]
    <2>1. ls \in SUBSET espconn_msg
      <3>1. [l EXCEPT !.st = "open"] \in espconn_msg
        BY <1>1, LinkFields
      <3>. QED BY <1>1, <3>1
    <2>2. hp \in Heaps
      BY DEF Heaps, Basic, TypeOK
    <2>. HIDE DEF ls, hp
    <2>3. CASE /\ links' = ls /\ heap' = hp /\ timer' = "compMsgOtaDeinit"
               /\ UNCHANGED <<flag, uud, fault, attempts, reported>>
      BY <2>1, <2>2, <2>3 DEF Basic, TypeOK, SessionHoldsFlag, Heaps
    <2>4. CASE uud # NULL /\ compMsgOtaDeinit(uud, flag, ls, hp)
      BY <1>1, <2>1, <2>2, <2>4, DeinitBasic
    <2>. QED BY <1>5, <1>f, <2>3, <2>4 DEF upgradeConnectCb, ls, hp
  <1>6. CASE espconn_client_close(l)
    BY <1>6, <1>f, <1>c DEF espconn_client_close
  <1>7. CASE espconn_client_err(l)
    BY <1>7, <1>f, <1>c DEF espconn_client_err
  <1>. QED BY <1>2, <1>3, <1>4, <1>5, <1>6, <1>7

LEMMA TimerBasic ==
  ASSUME Basic, Timer
  PROVE  Basic'
  <1>1. /\ links \in SUBSET espconn_msg
        /\ heap \in Heaps /\ flag \in Flags
        /\ uud # NULL => uud \in userUpgradeData /\ uud.conn \in Conns \cup {NoConn}
    BY SessionFields DEF Basic, TypeOK, Heaps, Flags
  <1>2. CASE Fault("null")
    BY <1>2, FaultBasic
  <1>3. CASE uud # NULL /\ upgradeDisconCb(uud.conn, links)
    BY <1>1, <1>3, DisconBasic
  <1>4. CASE uud # NULL /\ compMsgOtaDeinit(uud, flag, links, heap)
    BY <1>1, <1>4, DeinitBasic
  <1>. QED BY <1>2, <1>3, <1>4 DEF Timer, connectTimeoutCb, recvTimeout

LEMMA BasicStep ==
  ASSUME Basic, [Next]_vars
  PROVE  Basic'
  <1>1. CASE Start
    BY <1>1, StartBasic
  <1>2. CASE Timer
    BY <1>2, TimerBasic
  <1>3. CASE Callback
    BY <1>3, CallbackBasic DEF Callback
  <1>4. CASE Network
    BY <1>4, CallbackBasic, ReceiveBasic DEF Network
  <1>5. CASE Reset
    BY <1>5 DEF Reset, ResetAll, Basic, TypeOK, SessionHoldsFlag
  <1>6. CASE UNCHANGED vars
    BY <1>6 DEF vars, Basic, TypeOK, SessionHoldsFlag
  <1>. QED BY <1>1, <1>2, <1>3, <1>4, <1>5, <1>6 DEF Next

LEMMA BasicInit ==
  Init => Basic
  <1>1. 0 \in 0 .. MaxAttempts
    BY BoundsAssumption
  <1>. QED BY <1>1 DEF Init, Basic, TypeOK, SessionHoldsFlag

LEMMA BasicAlways ==
  Spec => []Basic
  BY BasicInit, BasicStep, PTL DEF Spec

\* The session, the heap of connection structs and what the network stack
\* still refers to keep their types, whatever fails: every callback computes
\* with fields that are there.
THEOREM SessionTypeCorrect ==
  Spec => []TypeOK
  <1>1. Basic => TypeOK
    BY DEF Basic
  <1>. QED BY <1>1, BasicAlways, PTL

\* With every failure of memory, name lookup and connection, and with updates
\* that overlap the end of earlier ones, a session that owns a connection has
\* the flag at START: otaStart never replaces it.
THEOREM FlagGuardsSession ==
  Spec => []SessionHoldsFlag
  <1>1. Basic => SessionHoldsFlag
    BY DEF Basic
  <1>. QED BY <1>1, BasicAlways, PTL

----------------------------------------------------------------------------
(* The inductive invariant, for updates that come one after the other or a *)
(* network that does not fail.                                             *)

OneAtATime   == "overlap" \notin Faults
QuietNetwork == /\ "connectTimeout" \notin Faults
                /\ "tcpError" \notin Faults
                /\ "closeFails" \notin Faults

\* The network stack has one entry for a struct.
LinksDistinct(ls) == \A k, l \in ls : k.conn = l.conn => k = l

\* A connection that was opened has its callbacks registered.
Registered(ls, hp) ==
  \A l \in ls : l.st \in {"open", "close"} => hp[l.conn] = "ready"

\* What is not being closed is the connection of the session, and what has its
\* struct was made by it.
Current ==
  uud # NULL => \A l \in links : l.st # "close" \/ l.conn = uud.conn =>
                                   l.conn = uud.conn /\ l.att = uud.att

OwnBytes == uud # NULL => uud.from # "other"

\* An armed timer is the session's; while it waits for data the stack has the
\* connection, while it waits for the connection that is not open yet.
TimerOfSession ==
  /\ timer # "off" => uud # NULL /\ uud.conn # NoConn
  /\ timer = "compMsgOtaDeinit" =>
       \E l \in links : l.conn = uud.conn /\ l.st \in {"open", "close", "err"}
  /\ timer = "connectTimeoutCb" =>
       \A l \in links : l.conn = uud.conn => l.st \in {"wait", "err"}

\* The struct of the session is allocated.
Held == uud # NULL /\ uud.conn # NoConn => Allocated(uud.conn)

Numbers ==
  /\ uud # NULL => uud.att <= attempts
  /\ reported.att <= attempts

\* One connection at a time.
Alone ==
  OneAtATime => /\ \A k, l \in links : k = l
                /\ \A l \in links : uud # NULL => l.conn = uud.conn
                /\ TimerGuardsSession

\* Without errors of the network only closes outlive their session.
Settled ==
  QuietNetwork =>
    /\ fault = "none"
    /\ \A l \in links : /\ Allocated(l.conn) /\ l.st # "err"
                        /\ l.st # "close" => uud # NULL

IInv ==
  /\ Basic
  /\ LinksDistinct(links) /\ Registered(links, heap)
  /\ Current /\ OwnBytes /\ TimerOfSession /\ Held /\ Numbers
  /\ NoLeak /\ SuccessIsComplete
  /\ Alone /\ Settled

\* What the list ls and the heap hp must be like for session u to end.
Ending(u, ls, hp) ==
  /\ LinksDistinct(ls) /\ Registered(ls, hp)
  /\ \A c \in Conns : hp[c] # "free" => \E l \in ls : l.conn = c
  /\ \A l \in ls : l.conn = u.conn => l.st \in {"open", "close", "err"}
  /\ OneAtATime => \A k, l \in ls : k = l
  /\ QuietNetwork => \A l \in ls : /\ hp[l.conn] # "free" /\ l.st # "err"
                                   /\ l.st # "close" => l.conn = u.conn

\* What a step from ls to new that replaces link l by n leaves true.
Moves(ls, l, n, new) ==
  /\ n \in new /\ n.conn = l.conn /\ n.att = l.att
  /\ \A k \in new : k = n \/ (k \in ls /\ k # l)
  /\ LinksDistinct(new)
  /\ \A c : (\E k \in ls : k.conn = c) => \E k \in new : k.conn = c
  /\ (\A j, k \in ls : j = k) => \A j, k \in new : j = k

LEMMA LinkMoves ==
  ASSUME NEW ls \in SUBSET espconn_msg, NEW l \in ls,
         NEW s \in {"lookup", "wait", "open", "close", "err"}, LinksDistinct(ls)
  PROVE  /\ Moves(ls, l, [l EXCEPT !.st = s], (ls \ {l}) \cup {[l EXCEPT !.st = s]})
         /\ [l EXCEPT !.st = s].st = s
  <1>. DEFINE n   == [l EXCEPT !.st = s]
              new == (ls \ {l}) \cup {n}
  <1>1. n \in new /\ n.conn = l.conn /\ n.att = l.att /\ n.st = s
    BY LinkFields
  <1>. HIDE DEF n
  <1>2. \A k \in new : k = n \/ (k \in ls /\ k # l)
    OBVIOUS
  <1>3. LinksDistinct(new)
    BY <1>1, <1>2 DEF LinksDistinct
  <1>4. \A c : (\E k \in ls : k.conn = c) => \E k \in new : k.conn = c
    BY <1>1
  <1>5. (\A j, k \in ls : j = k) => \A j, k \in new : j = k
    BY <1>2
  <1>. QED BY <1>1, <1>2, <1>3, <1>4, <1>5 DEF n, Moves

\* compMsgOtaDeinit preserves the invariant.
LEMMA DeinitStep ==
  ASSUME IInv, NEW u \in userUpgradeData, NEW fl \in Flags,
         NEW ls \in SUBSET espconn_msg, NEW hp \in Heaps,
         compMsgOtaDeinit(u, fl, ls, hp),
         u.att <= attempts,
         fl = "FINISH" => u.got = u.len /\ u.from = "own",
         Ending(u, ls, hp)
  PROVE  IInv'
  <1>1. Basic'
    BY DeinitBasic DEF IInv
  <1>2. uud' = NULL /\ timer' = "off" /\ attempts' = attempts
    BY DeinitEffect, Zenon
  <1>3. Current' /\ OwnBytes' /\ TimerOfSession' /\ Held'
    BY <1>2 DEF Current, OwnBytes, TimerOfSession, Held
  <1>4. Numbers' /\ SuccessIsComplete'
    <2>1. reported' = [att |-> u.att, result |-> fl = "FINISH",
                       complete |-> u.got = u.len /\ u.from = "own"]
      BY DeinitEffect, Zenon
    <2>2. reported'.att = u.att /\ (reported'.result => reported'.complete)
      BY <2>1
    <2>. QED BY <1>2, <2>2 DEF Numbers, SuccessIsComplete
  <1>5. CASE links' = {} /\ heap' = [c \in Conns |-> "free"] /\ fault' = "none"
    BY <1>1, <1>2, <1>3, <1>4, <1>5
       DEF IInv, LinksDistinct, Registered, NoLeak, Allocated, Alone, Settled,
           TimerGuardsSession
  <1>6. CASE /\ heap' = hp /\ fault' = fault
             /\ links' = ls
             /\ \/ u.conn = NoConn
                \/ "closeFails" \in Faults
                \/ \A l \in ls : l.conn = u.conn => l.st \notin {"wait", "open"}
    <2>1. LinksDistinct(links)' /\ Registered(links, heap)'
      BY <1>6 DEF Ending, LinksDistinct, Registered
    <2>2. NoLeak'
      BY <1>6 DEF Ending, NoLeak, Allocated
    <2>3. Alone'
      BY <1>2, <1>6 DEF Ending, Alone, TimerGuardsSession
    <2>4. Settled'
      <3>. SUFFICES ASSUME QuietNetwork PROVE Settled'
        BY DEF Settled
      <3>1. \A l \in ls : l.conn \in Conns
        BY LinkFields
      <3>2. \A l \in ls : l.st = "close"
        BY <1>6, <3>1, ConnIsNotNull DEF Ending, QuietNetwork
      <3>3. fault = "none"
        BY DEF IInv, Settled
      <3>. QED BY <1>6, <3>2, <3>3 DEF Ending, Settled, Allocated
    <2>. QED BY <1>1, <1>3, <1>4, <2>1, <2>2, <2>3, <2>4 DEF IInv
  <1>7. CASE heap' = hp /\ fault' = fault /\ u.conn # NoConn /\ Closes(u.conn, ls)
    <2>1. PICK l \in ls : /\ l.conn = u.conn /\ l.st \in {"wait", "open"}
                          /\ links' = (ls \ {l}) \cup {[l EXCEPT !.st = "close"]}
      BY <1>7 DEF Closes
    <2>. DEFINE n == [l EXCEPT !.st = "close"]
    <2>2. Moves(ls, l, n, links') /\ n.st = "close"
      <3>1. LinksDistinct(ls)
        BY DEF Ending
      <3>2. n.st = "close" /\ Moves(ls, l, n, (ls \ {l}) \cup {n})
        BY <3>1, LinkMoves
      <3>. QED BY <2>1, <3>2
    <2>. HIDE DEF n
    <2>3. l.st = "open" /\ hp[l.conn] = "ready"
      BY <2>1 DEF Ending, Registered
    <2>4. LinksDistinct(links)' /\ Registered(links, heap)'
      BY <1>7, <2>2, <2>3 DEF Ending, LinksDistinct, Registered, Moves
    <2>5. NoLeak'
      BY <1>7, <2>2 DEF Ending, NoLeak, Allocated, Moves
    <2>6. Alone'
      BY <1>2, <2>2 DEF Ending, Alone, TimerGuardsSession, Moves
    <2>7. Settled'
      <3>. SUFFICES ASSUME QuietNetwork PROVE Settled'
        BY DEF Settled
      <3>1. \A k \in ls : k.st # "close" => k = l
        BY <2>1 DEF Ending, LinksDistinct
      <3>2. fault = "none"
        BY DEF IInv, Settled
      <3>. QED BY <1>7, <2>2, <2>3, <3>1, <3>2 DEF Ending, Settled, Allocated, Moves
    <2>. QED BY <1>1, <1>3, <1>4, <2>4, <2>5, <2>6, <2>7 DEF IInv
  <1>. QED BY <1>5, <1>6, <1>7, DeinitEffect

\* A fault changes nothing else.
LEMMA FaultStep ==
  ASSUME IInv, NEW what \in {"null", "freed"}, Fault(what), ~QuietNetwork
  PROVE  IInv'
  <1>1. Basic'
    BY FaultBasic DEF IInv
  <1>. QED BY <1>1 DEF IInv, Fault, LinksDistinct, Registered, Current, OwnBytes,
                       TimerOfSession, Held, Numbers, NoLeak, Allocated,
                       SuccessIsComplete, Alone, Settled, TimerGuardsSession

\* upgradeDisconCb for the session's own connection: nothing that is left
\* refers to the struct but what is not connected, or failed.
LEMMA DisconOwnStep ==
  ASSUME IInv, uud # NULL, uud.conn # NoConn, NEW ls \in SUBSET links,
         upgradeDisconCb(uud.conn, ls),
         \A l \in links : l \in ls \/ l.conn = uud.conn,
         \A l \in ls : l.conn = uud.conn => l.st \in {"wait", "err"},
         QuietNetwork => \A l \in ls : l.conn # uud.conn
  PROVE  IInv'
  <1>. DEFINE c  == uud.conn
              hp == [d \in Conns |-> IF d = c THEN "free" ELSE heap[d]]
              u  == [uud EXCEPT !.conn = NoConn]
  <1>1. /\ uud \in userUpgradeData /\ c \in Conns /\ Allocated(c)
        /\ flag = "START" /\ flag \in Flags /\ uud.att <= attempts
        /\ heap \in Heaps /\ links \in SUBSET espconn_msg
    BY SessionFields DEF IInv, Basic, TypeOK, SessionHoldsFlag, Held, Numbers, Flags, Heaps
  <1>2. u \in userUpgradeData /\ u.conn = NoConn /\ u.att = uud.att
    BY <1>1, SessionFields
  <1>3. hp \in Heaps /\ \A d \in Conns : hp[d] = IF d = c THEN "free" ELSE heap[d]
    BY <1>1 DEF Heaps
  <1>4. compMsgOtaDeinit(u, flag, ls, hp)
    BY <1>1 DEF upgradeDisconCb
  <1>5. ls \in SUBSET espconn_msg /\ \A l \in ls : l \in links /\ l.conn \in Conns
    BY <1>1, LinkFields
  <1>. HIDE DEF hp, u
  <1>6. Ending(u, ls, hp)
    <2>1. LinksDistinct(ls)
      BY <1>5 DEF IInv, LinksDistinct
    <2>2. Registered(ls, hp)
      BY <1>3, <1>5 DEF IInv, Registered
    <2>3. \A d \in Conns : hp[d] # "free" => \E l \in ls : l.conn = d
      BY <1>3 DEF IInv, NoLeak, Allocated
    <2>4. \A l \in ls : l.conn = u.conn => l.st \in {"open", "close", "err"}
      BY <1>2, <1>5, ConnIsNotNull
    <2>5. OneAtATime => \A k, l \in ls : k = l
      BY <1>5 DEF IInv, Alone
    <2>6. QuietNetwork => \A l \in ls : /\ hp[l.conn] # "free" /\ l.st # "err"
                                        /\ l.st # "close" => l.conn = u.conn
      BY <1>3, <1>5 DEF IInv, Current, Settled, Allocated
    <2>. QED BY <2>1, <2>2, <2>3, <2>4, <2>5, <2>6 DEF Ending
  <1>. QED BY <1>1, <1>2, <1>3, <1>4, <1>5, <1>6, DeinitStep

\* Deinit with the session's connection still registered with the stack.
LEMMA EndingConnected ==
  ASSUME IInv, uud # NULL, NEW u \in userUpgradeData, u.conn = uud.conn,
         NEW l \in links, l.conn = uud.conn, l.st \in {"open", "close", "err"}
  PROVE  Ending(u, links, heap)
  <1>1. \A c \in Conns : heap[c] # "free" => \E k \in links : k.conn = c
    BY DEF IInv, NoLeak, Allocated
  <1>2. \A k \in links : k.conn = u.conn => k.st \in {"open", "close", "err"}
    BY DEF IInv, LinksDistinct
  <1>3. OneAtATime => \A j, k \in links : j = k
    BY DEF IInv, Alone
  <1>4. QuietNetwork => \A k \in links : /\ heap[k.conn] # "free" /\ k.st # "err"
                                         /\ k.st # "close" => k.conn = u.conn
    BY DEF IInv, Settled, Allocated, Current
  <1>. QED BY <1>1, <1>2, <1>3, <1>4 DEF IInv, Ending

\* A close that comes after the session of its connection: the struct is freed,
\* and the timer, which may be that of another session, disarmed.
LEMMA DisconOtherStep ==
  ASSUME IInv, NEW l \in links, l.st = "close", Allocated(l.conn),
         ~(uud # NULL /\ uud.conn = l.conn),
         upgradeDisconCb(l.conn, links \ {l})
  PROVE  IInv'
  <1>. DEFINE hp == [d \in Conns |-> IF d = l.conn THEN "free" ELSE heap[d]]
  <1>1. l.conn \in Conns /\ l.conn # NoConn /\ heap \in Heaps
        /\ \A k \in links : k.conn \in Conns
    BY LinkFields, ConnIsNotNull DEF IInv, Basic, TypeOK, Heaps
  <1>2. /\ timer' = "off" /\ links' = links \ {l}
        /\ UNCHANGED <<flag, uud, fault, attempts, reported>>
    BY <1>1 DEF upgradeDisconCb
  <1>3. heap' = hp
    BY <1>1 DEF upgradeDisconCb
  <1>4. \A d \in Conns : heap'[d] = IF d = l.conn THEN "free" ELSE heap[d]
    BY <1>3
  <1>5. Basic'
    <2>1. links \ {l} \in SUBSET espconn_msg
      BY DEF IInv, Basic, TypeOK
    <2>. QED BY <1>1, <2>1, DisconBasic DEF IInv
  <1>6. \A k \in links' : k \in links /\ k.conn # l.conn
    BY <1>2 DEF IInv, LinksDistinct
  <1>7. LinksDistinct(links)' /\ Registered(links, heap)'
    BY <1>1, <1>4, <1>6 DEF IInv, LinksDistinct, Registered
  <1>8. Current' /\ OwnBytes' /\ TimerOfSession' /\ Numbers' /\ SuccessIsComplete'
    BY <1>2, <1>6 DEF IInv, Current, OwnBytes, TimerOfSession, Numbers, SuccessIsComplete
  <1>9. Held'
    <2>. SUFFICES ASSUME uud # NULL, uud.conn # NoConn PROVE Allocated(uud.conn)'
      BY <1>2 DEF Held
    <2>1. uud.conn \in Conns /\ Allocated(uud.conn)
      BY SessionFields DEF IInv, Basic, TypeOK, Held
    <2>. QED BY <1>2, <1>4, <2>1 DEF Allocated
  <1>10. NoLeak'
    BY <1>2, <1>4 DEF IInv, NoLeak, Allocated
  <1>11. Alone'
    BY <1>2, <1>6 DEF IInv, Alone, TimerGuardsSession
  <1>12. Settled'
    BY <1>1, <1>2, <1>4, <1>6 DEF IInv, Settled, Allocated
  <1>. QED BY <1>5, <1>7, <1>8, <1>9, <1>10, <1>11, <1>12 DEF IInv

\* Session u looks up the address or connects, while everything else in the
\* list ls is being closed.
LEMMA ConnectingStep ==
  ASSUME Basic', NEW u \in userUpgradeData, u.conn # NoConn, u.from # "other",
         NEW ls \in SUBSET espconn_msg, NEW hp \in Heaps,
         NEW s \in {"lookup", "wait"},
         uud' = u, heap' = hp,
         \/ links' = ls \cup {[att |-> u.att, conn |-> u.conn, st |-> s]}
         \/ links' = ls /\ s = "wait",
         timer' = IF s = "wait" THEN "connectTimeoutCb" ELSE "off",
         LinksDistinct(ls), Registered(ls, hp),
         \A l \in ls : l.conn # u.conn /\ l.st = "close",
         hp[u.conn] # "free",
         \A c \in Conns : hp[c] # "free" => c = u.conn \/ \E l \in ls : l.conn = c,
         OneAtATime => ls = {},
         QuietNetwork => fault' = "none" /\ \A l \in ls : hp[l.conn] # "free",
         Numbers', SuccessIsComplete'
  PROVE  IInv'
  <1>. DEFINE n == [att |-> u.att, conn |-> u.conn, st |-> s]
  <1>1. n.att = u.att /\ n.conn = u.conn /\ n.st = s /\ u # NULL /\ u.conn \in Conns
    BY SessionFields, ConnIsNotNull
  <1>. HIDE DEF n
  <1>2. links' = ls \cup {n} \/ (links' = ls /\ s = "wait")
    BY DEF n
  <1>3. \A k \in links' : k = n \/ (k \in ls /\ k.conn # u.conn /\ k.st = "close")
    BY <1>2
  <1>4. LinksDistinct(links)'
    BY <1>1, <1>3 DEF LinksDistinct
  <1>5. Registered(links, heap)'
    BY <1>1, <1>3 DEF Registered
  <1>6. Current' /\ OwnBytes'
    BY <1>1, <1>3 DEF Current, OwnBytes
  <1>7. TimerOfSession'
    BY <1>1, <1>3 DEF TimerOfSession
  <1>8. Held' /\ NoLeak'
    BY <1>1, <1>2 DEF Held, NoLeak, Allocated
  <1>9. Alone'
    <2>. SUFFICES ASSUME OneAtATime
                  PROVE  /\ \A k, l \in links' : k = l
                         /\ \A l \in links' : uud' # NULL => l.conn = uud'.conn
                         /\ TimerGuardsSession'
      BY DEF Alone
    <2>1. \A k \in links' : k = n
      BY <1>3
    <2>2. TimerGuardsSession'
      BY <1>1, <1>2 DEF TimerGuardsSession
    <2>. QED BY <1>1, <2>1, <2>2
  <1>10. Settled'
    BY <1>1, <1>3 DEF Settled, Allocated
  <1>. QED BY <1>4, <1>5, <1>6, <1>7, <1>8, <1>9, <1>10 DEF IInv

LEMMA StartStep ==
  ASSUME IInv, Start, OneAtATime \/ QuietNetwork
  PROVE  IInv'
  <1>1. /\ Basic'
        /\ MayStart
        /\ attempts \in 0 .. MaxAttempts /\ attempts < MaxAttempts
    <2>1. MayStart
      BY DEF Start, otaStart, otaStart_NoMem, otaStart_SaveFails, otaStart_DnsError
    <2>. QED BY <2>1, StartBasic DEF MayStart, IInv, Basic, TypeOK
  <1>2. /\ uud = NULL \/ uud.conn = NoConn
        /\ timer = "off"
    BY <1>1 DEF MayStart, IInv, Basic, SessionHoldsFlag, TimerOfSession
  <1>3. /\ OneAtATime => links = {}
        /\ \A l \in links : l.conn \in Conns /\ l.conn # NoConn
        /\ \A l \in links : l.st = "close"
        /\ \A l \in links : Allocated(l.conn)
    <2>1. \A l \in links : l.conn \in Conns /\ l.conn # NoConn
      BY LinkFields, ConnIsNotNull DEF IInv, Basic, TypeOK
    <2>2. OneAtATime => links = {}
      BY <1>1 DEF MayStart, OneAtATime
    <2>. QED BY <1>2, <2>1, <2>2 DEF IInv, Current, Settled
  <1>4. /\ Numbers' /\ SuccessIsComplete'
        /\ uud' # NULL => uud'.from = "nowhere" /\ uud' \in userUpgradeData
    <2>1. /\ attempts' = attempts + 1 /\ reported' = reported
          /\ reported.att <= attempts /\ reported.att \in Nat
      BY <1>1, BoundsAssumption DEF MayStart, IInv, Numbers, Basic, TypeOK
    <2>2. uud' = NULL \/ \E c \in Conns \cup {NoConn}, fs \in BOOLEAN : uud' = NewSession(c, fs)
      BY DEF Start, otaStart, otaStart_NoMem, otaStart_SaveFails, otaStart_DnsError, Connect
    <2>3. uud' # NULL => /\ uud'.att = attempts + 1 /\ uud'.from = "nowhere"
                         /\ uud' \in userUpgradeData
      BY <1>1, <2>2, SessionBegins
    <2>. QED BY <1>1, <2>1, <2>3 DEF Numbers, IInv, SuccessIsComplete
  <1>5. CASE otaStart_NoMem \/ otaStart_SaveFails \/ otaStart_DnsError
    <2>1. /\ uud' = NULL \/ uud'.conn = NoConn
          /\ UNCHANGED <<heap, links, timer, fault>>
      <3>1. \A fs \in BOOLEAN : NewSession(NoConn, fs).conn = NoConn
        BY <1>1, SessionBegins
      <3>. QED BY <1>5, <3>1 DEF otaStart_NoMem, otaStart_SaveFails,
                                 otaStart_DnsError, MayStart
    <2>2. Current' /\ OwnBytes' /\ TimerOfSession' /\ Held'
      BY <1>2, <1>3, <1>4, <2>1 DEF Current, OwnBytes, TimerOfSession, Held
    <2>3. LinksDistinct(links)' /\ Registered(links, heap)'
      BY <2>1 DEF IInv, LinksDistinct, Registered
    <2>4. NoLeak'
      <3>1. \A c \in Conns : Allocated(c) => \E l \in links : l.conn = c
        BY <1>2, ConnIsNotNull DEF IInv, NoLeak
      <3>. QED BY <2>1, <3>1 DEF NoLeak, Allocated
    <2>5. Alone' /\ Settled'
      BY <1>3, <2>1 DEF IInv, Alone, Settled, Allocated, TimerGuardsSession
    <2>. QED BY <1>1, <1>4, <2>2, <2>3, <2>4, <2>5 DEF IInv
  <1>6. CASE otaStart
    <2>1. PICK c \in Conns, fs \in BOOLEAN :
            LET u  == NewSession(c, fs)
                hp == [heap EXCEPT ![c] = "fresh"]
            IN  /\ ~Allocated(c)
                /\ \/ /\ uud' = u
                      /\ heap' = hp
                      /\ links' = links \cup {[att |-> u.att, conn |-> c, st |-> "lookup"]}
                      /\ UNCHANGED timer
                   \/ Connect(u, links, hp)
      BY <1>6 DEF otaStart
    <2>. DEFINE u  == NewSession(c, fs)
                hp == [heap EXCEPT ![c] = "fresh"]
    <2>2. u \in userUpgradeData /\ u.conn = c /\ u.conn # NoConn /\ u.from # "other"
      BY <1>1, SessionBegins, ConnIsNotNull
    <2>3. /\ hp \in Heaps /\ links \in SUBSET espconn_msg
          /\ \A d \in Conns : hp[d] = IF d = c THEN "fresh" ELSE heap[d]
      BY DEF Heaps, IInv, Basic, TypeOK
    <2>4. ~Allocated(c) /\ fault' = fault
      BY <1>1, <2>1 DEF MayStart
    <2>. HIDE DEF u, hp
    <2>5. \A l \in links : l.conn # u.conn /\ l.st = "close" /\ hp[l.conn] = heap[l.conn]
      BY <1>3, <2>2, <2>3, <2>4
    <2>6. LinksDistinct(links) /\ Registered(links, hp)
      BY <2>5 DEF IInv, LinksDistinct, Registered
    <2>7. hp[u.conn] # "free"
      BY <2>2, <2>3
    <2>8. \A d \in Conns : hp[d] # "free" => d = u.conn \/ \E l \in links : l.conn = d
      BY <1>2, <2>2, <2>3, ConnIsNotNull DEF IInv, NoLeak, Allocated
    <2>9. QuietNetwork => fault' = "none" /\ \A l \in links : hp[l.conn] # "free"
      BY <1>3, <2>4, <2>5 DEF IInv, Settled, Allocated
    <2>10. PICK s \in {"lookup", "wait"} :
             /\ uud' = u /\ heap' = hp
             /\ \/ links' = links \cup {[att |-> u.att, conn |-> u.conn, st |-> s]}
                \/ links' = links /\ s = "wait"
             /\ timer' = IF s = "wait" THEN "connectTimeoutCb" ELSE "off"
      <3>1. CASE Connect(u, links, hp)
        BY <3>1 DEF Connect
      <3>2. CASE /\ uud' = u /\ heap' = hp
                 /\ links' = links \cup {[att |-> u.att, conn |-> c, st |-> "lookup"]}
                 /\ UNCHANGED timer
        BY <1>2, <2>2, <3>2
      <3>. QED BY <2>1, <3>1, <3>2 DEF u, hp
    <2>. QED BY <1>1, <1>3, <1>4, <2>2, <2>3, <2>5, <2>6, <2>7, <2>8, <2>9, <2>10,
                ConnectingStep
  <1>. QED BY <1>5, <1>6 DEF Start

\* With a quiet network a callback finds its struct allocated, and the session
\* unless it is a close.
LEMMA CallbackFindsSession ==
  ASSUME IInv, NEW l \in links, QuietNetwork
  PROVE  /\ Allocated(l.conn) /\ l.conn # NoConn
         /\ l.st # "close" => uud # NULL /\ uud.conn # NoConn
  <1>1. l.conn \in Conns /\ l.conn # NoConn
    BY LinkFields, ConnIsNotNull DEF IInv, Basic, TypeOK
  <1>. QED BY <1>1 DEF IInv, Settled, Current

\* The types of what a callback works on.
LEMMA CallbackTypes ==
  ASSUME IInv
  PROVE  /\ links \in SUBSET espconn_msg /\ heap \in Heaps /\ flag \in Flags
         /\ \A l \in links : /\ l \in espconn_msg
                             /\ l.conn \in Conns /\ l.conn # NoConn
                             /\ links \ {l} \in SUBSET espconn_msg
         /\ uud # NULL => /\ uud \in userUpgradeData /\ uud.att <= attempts
                          /\ uud.conn # NoConn => uud.conn \in Conns /\ flag = "START"
  BY LinkFields, SessionFields, ConnIsNotNull
     DEF IInv, Basic, TypeOK, Heaps, Flags, Numbers, SessionHoldsFlag

LEMMA ResolvedStep ==
  ASSUME IInv, NEW l \in links, upgradeResolved(l)
  PROVE  IInv'
  <1>1. l.st = "lookup" /\ l.conn # NoConn
    BY CallbackTypes DEF upgradeResolved
  <1>2. CASE Fault("null") /\ (uud = NULL \/ uud.conn = NoConn)
    BY <1>1, <1>2, CallbackFindsSession, FaultStep
  <1>3. uud # NULL => uud.conn = l.conn /\ uud.conn # NoConn
    BY <1>1 DEF IInv, Current
  <1>4. uud # NULL => \A k \in links \ {l} : k.conn # uud.conn /\ k.st = "close"
    BY <1>3 DEF IInv, Current, LinksDistinct
  <1>5. CASE uud # NULL /\ upgradeDisconCb(uud.conn, links \ {l})
    BY <1>3, <1>4, <1>5, DisconOwnStep
  <1>6. CASE /\ uud # NULL /\ Connect(uud, links \ {l}, heap)
             /\ UNCHANGED <<flag, fault, attempts, reported>>
    <2>. DEFINE ls == links \ {l}
    <2>1. Basic'
      BY CallbackBasic DEF IInv
    <2>2. /\ uud \in userUpgradeData /\ uud.conn \in Conns /\ heap \in Heaps
          /\ ls \in SUBSET espconn_msg
      BY <1>3, <1>6, CallbackTypes
    <2>3. /\ uud' = uud /\ heap' = heap /\ timer' = "connectTimeoutCb"
          /\ \/ links' = ls \cup {[att |-> uud.att, conn |-> uud.conn, st |-> "wait"]}
             \/ links' = ls
      BY <1>6 DEF Connect
    <2>4. LinksDistinct(ls) /\ Registered(ls, heap)
      BY DEF IInv, LinksDistinct, Registered
    <2>5. heap[uud.conn] # "free" /\ uud.from # "other"
      BY <1>3, <1>6 DEF IInv, Held, Allocated, OwnBytes
    <2>6. \A c \in Conns : heap[c] # "free" => c = uud.conn \/ \E k \in ls : k.conn = c
      BY <1>3, <1>6 DEF IInv, NoLeak, Allocated
    <2>7. OneAtATime => ls = {}
      BY DEF IInv, Alone
    <2>8. QuietNetwork => fault' = "none" /\ \A k \in ls : heap[k.conn] # "free"
      BY <1>6 DEF IInv, Settled, Allocated
    <2>9. Numbers' /\ SuccessIsComplete'
      BY <1>6, <2>3 DEF IInv, Numbers, SuccessIsComplete
    <2>. HIDE DEF ls
    <2>10. \A k \in ls : k.conn # uud.conn /\ k.st = "close"
      BY <1>4, <1>6 DEF ls
    <2>11. timer' = IF "wait" = "wait" THEN "connectTimeoutCb" ELSE "off"
      BY <2>3
    <2>12. \/ links' = ls \cup {[att |-> uud.att, conn |-> uud.conn, st |-> "wait"]}
           \/ links' = ls /\ "wait" = "wait"
      BY <2>3
    <2>. QED BY <1>3, <1>6, <2>1, <2>2, <2>3, <2>4, <2>5, <2>6, <2>7, <2>8, <2>9,
                <2>10, <2>11, <2>12, ConnectingStep
  <1>. QED BY <1>2, <1>5, <1>6 DEF upgradeResolved

LEMMA TaskStep ==
  ASSUME IInv, NEW l \in links, espconn_Task_Close(l) \/ espconn_Task_Err(l)
  PROVE  IInv'
  <1>1. l.conn \in Conns /\ l.conn # NoConn
    BY CallbackTypes
  <1>2. CASE Fault("freed") /\ ~Allocated(l.conn)
    BY <1>2, CallbackFindsSession, FaultStep
  <1>3. CASE espconn_Task_Err(l)
    <2>1. l.st = "err"
      BY <1>3 DEF espconn_Task_Err
    <2>2. CASE Fault("null") /\ uud = NULL
      BY <2>1, <2>2, CallbackFindsSession, FaultStep
    <2>3. CASE uud # NULL /\ upgradeDisconCb(uud.conn, links \ {l})
      <3>1. uud.conn = l.conn
        BY <2>1, <2>3 DEF IInv, Current
      <3>2. \A k \in links \ {l} : k.conn # uud.conn
        BY <3>1 DEF IInv, LinksDistinct
      <3>. QED BY <1>1, <2>3, <3>1, <3>2, DisconOwnStep
    <2>. QED BY <1>2, <1>3, <2>2, <2>3 DEF espconn_Task_Err
  <1>4. CASE espconn_Task_Close(l) /\ Allocated(l.conn)
    <2>1. l.st = "close"
      BY <1>4 DEF espconn_Task_Close
    <2>2. upgradeDisconCb(l.conn, links \ {l})
      BY <1>4, <2>1 DEF espconn_Task_Close, IInv, Registered
    <2>3. CASE uud # NULL /\ uud.conn = l.conn
      <3>1. \A k \in links \ {l} : k.conn # uud.conn
        BY <2>3 DEF IInv, LinksDistinct
      <3>. QED BY <1>1, <2>2, <2>3, <3>1, DisconOwnStep
    <2>4. CASE ~(uud # NULL /\ uud.conn = l.conn)
      BY <1>4, <2>1, <2>2, <2>4, DisconOtherStep
    <2>. QED BY <2>3, <2>4
  <1>. QED BY <1>2, <1>3, <1>4 DEF espconn_Task_Close

\* The connection of a callback is closed by the server, or fails.
LEMMA ClientEndStep ==
  ASSUME IInv, NEW l \in links, espconn_client_close(l) \/ espconn_client_err(l)
  PROVE  IInv'
  <1>1. CASE Fault("freed") /\ ~Allocated(l.conn)
    BY <1>1, CallbackFindsSession, FaultStep
  <1>2. CASE Allocated(l.conn)
    <2>1. PICK s \in {"close", "err"} :
            /\ links' = (links \ {l}) \cup {[l EXCEPT !.st = s]}
            /\ l.st = "open" \/ (l.st = "wait" /\ s = "err")
            /\ s = "err" => ~QuietNetwork
      BY <1>2 DEF espconn_client_close, espconn_client_err, QuietNetwork
    <2>2. UNCHANGED <<flag, uud, heap, timer, fault, attempts, reported>>
      BY <1>2 DEF espconn_client_close, espconn_client_err
    <2>. DEFINE n == [l EXCEPT !.st = s]
    <2>3. Moves(links, l, n, links') /\ n.st = s
      <3>1. n.st = s /\ Moves(links, l, n, (links \ {l}) \cup {n})
        BY CallbackTypes, LinkMoves DEF IInv
      <3>. QED BY <2>1, <3>1
    <2>4. Basic'
      BY CallbackBasic DEF IInv
    <2>. HIDE DEF n
    <2>5. LinksDistinct(links)' /\ Registered(links, heap)'
      BY <2>1, <2>2, <2>3 DEF Moves, IInv, LinksDistinct, Registered
    <2>6. Current' /\ OwnBytes' /\ Held' /\ Numbers' /\ SuccessIsComplete'
      BY <2>1, <2>2, <2>3
         DEF Moves, IInv, Current, OwnBytes, Held, Allocated, Numbers, SuccessIsComplete
    <2>7. TimerOfSession'
      <3>1. timer' # "off" => uud' # NULL /\ uud'.conn # NoConn
        BY <2>2 DEF IInv, TimerOfSession
      <3>2. ASSUME timer' = "compMsgOtaDeinit"
            PROVE  \E k \in links' : k.conn = uud'.conn /\ k.st \in {"open", "close", "err"}
        <4>1. PICK k \in links : k.conn = uud.conn /\ k.st \in {"open", "close", "err"}
          BY <2>2, <3>2 DEF IInv, TimerOfSession
        <4>2. CASE k = l
          BY <2>1, <2>2, <2>3, <4>1, <4>2 DEF Moves
        <4>3. CASE k # l
          BY <2>1, <2>2, <4>1, <4>3
        <4>. QED BY <4>2, <4>3
      <3>3. ASSUME timer' = "connectTimeoutCb"
            PROVE  \A k \in links' : k.conn = uud'.conn => k.st \in {"wait", "err"}
        BY <2>1, <2>2, <2>3, <3>3 DEF Moves, IInv, TimerOfSession
      <3>. QED BY <3>1, <3>2, <3>3 DEF TimerOfSession
    <2>8. NoLeak'
      BY <2>2, <2>3 DEF Moves, IInv, NoLeak, Allocated
    <2>9. Alone'
      BY <2>1, <2>2, <2>3 DEF Moves, IInv, Alone, TimerGuardsSession
    <2>10. Settled'
      BY <2>1, <2>2, <2>3 DEF Moves, IInv, Settled, Allocated
    <2>. QED BY <2>4, <2>5, <2>6, <2>7, <2>8, <2>9, <2>10 DEF IInv
  <1>. QED BY <1>1, <1>2 DEF espconn_client_close, espconn_client_err

LEMMA ConnectedStep ==
  ASSUME IInv, NEW l \in links, upgradeConnectCb(l)
  PROVE  IInv'
  <1>1. l.st = "wait" /\ l.conn \in Conns /\ l.conn # NoConn
    BY CallbackTypes DEF upgradeConnectCb
  <1>2. CASE (Fault("freed") /\ ~Allocated(l.conn)) \/ (Fault("null") /\ uud = NULL)
    BY <1>1, <1>2, CallbackFindsSession, FaultStep
  <1>3. CASE Allocated(l.conn) /\ uud # NULL
    <2>. DEFINE n  == [l EXCEPT !.st = "open"]
                ls == (links \ {l}) \cup {n}
                hp == [d \in Conns |-> IF d = uud.conn THEN "ready" ELSE heap[d]]
    <2>1. uud.conn = l.conn /\ l.att = uud.att
      BY <1>1, <1>3 DEF IInv, Current
    <2>2. Moves(links, l, n, ls) /\ n.st = "open" /\ n \in espconn_msg
      BY CallbackTypes, LinkMoves, LinkFields DEF IInv
    <2>3. ls \in SUBSET espconn_msg
      BY <2>2, CallbackTypes
    <2>4. /\ hp \in Heaps
          /\ \A d \in Conns : hp[d] = IF d = uud.conn THEN "ready" ELSE heap[d]
      BY CallbackTypes DEF Heaps
    <2>5. \/ /\ links' = ls /\ heap' = hp /\ timer' = "compMsgOtaDeinit"
             /\ UNCHANGED <<flag, uud, fault, attempts, reported>>
          \/ compMsgOtaDeinit(uud, flag, ls, hp)
      BY <1>3 DEF upgradeConnectCb
    <2>. HIDE DEF n, ls, hp
    <2>6. \A k \in ls : k = n \/ (k \in links /\ k.conn # uud.conn /\ k.st = "close")
      BY <1>3, <2>1, <2>2 DEF Moves, IInv, Current, LinksDistinct
    <2>7. Registered(ls, hp) /\ \A k \in ls : k.conn \in Conns
      BY <1>1, <2>1, <2>2, <2>4, <2>6, CallbackTypes DEF Moves, IInv, Registered
    <2>8. \A c \in Conns : hp[c] # "free" => \E k \in ls : k.conn = c
      BY <1>3, <2>1, <2>2, <2>4 DEF Moves, IInv, NoLeak, Allocated
    <2>9. OneAtATime => \A j, k \in ls : j = k
      BY <2>2 DEF Moves, IInv, Alone
    <2>10. QuietNetwork => \A k \in ls : /\ hp[k.conn] # "free" /\ k.st # "err"
                                         /\ k.st # "close" => k.conn = uud.conn
      BY <1>1, <2>1, <2>2, <2>4, <2>6, <2>7 DEF Moves, IInv, Settled, Allocated
    <2>11. CASE compMsgOtaDeinit(uud, flag, ls, hp)
      <3>1. Ending(uud, ls, hp)
        BY <2>2, <2>6, <2>7, <2>8, <2>9, <2>10 DEF Moves, Ending
      <3>2. flag # "FINISH"
        BY <1>1, <1>3, <2>1, CallbackTypes
      <3>. QED BY <1>3, <2>3, <2>4, <2>11, <3>1, <3>2, CallbackTypes, DeinitStep
    <2>12. CASE /\ links' = ls /\ heap' = hp /\ timer' = "compMsgOtaDeinit"
                /\ UNCHANGED <<flag, uud, fault, attempts, reported>>
      <3>1. Basic'
        BY CallbackBasic DEF IInv
      <3>2. LinksDistinct(links)' /\ Registered(links, heap)'
        BY <2>2, <2>7, <2>12 DEF Moves, LinksDistinct, Registered
      <3>3. Current' /\ OwnBytes' /\ Numbers' /\ SuccessIsComplete'
        BY <2>1, <2>2, <2>6, <2>12
           DEF Moves, IInv, Current, OwnBytes, Numbers, SuccessIsComplete
      <3>4. TimerOfSession'
        BY <1>1, <1>3, <2>1, <2>2, <2>12 DEF Moves, TimerOfSession
      <3>5. Held' /\ NoLeak'
        BY <1>1, <2>1, <2>4, <2>8, <2>12 DEF Held, NoLeak, Allocated
      <3>6. Alone'
        BY <1>3, <2>1, <2>2, <2>9, <2>12 DEF Moves, Alone, TimerGuardsSession
      <3>7. Settled'
        BY <1>3, <2>10, <2>12 DEF IInv, Settled, Allocated
      <3>. QED BY <3>1, <3>2, <3>3, <3>4, <3>5, <3>6, <3>7 DEF IInv
    <2>. QED BY <2>5, <2>11, <2>12
  <1>. QED BY <1>2, <1>3 DEF upgradeConnectCb

LEMMA StutterStep ==
  ASSUME IInv, UNCHANGED vars
  PROVE  IInv'
  BY DEF IInv, vars, Basic, TypeOK, SessionHoldsFlag, LinksDistinct, Registered,
         Current, OwnBytes, TimerOfSession, Held, Numbers, NoLeak, Allocated,
         SuccessIsComplete, Alone, Settled, TimerGuardsSession

LEMMA ReceiveStep ==
  ASSUME IInv, NEW l \in links, upgradeRecvCb(l)
  PROVE  IInv'
  <1>1. l.st = "open" /\ l.conn \in Conns /\ l.conn # NoConn
    BY CallbackTypes DEF upgradeRecvCb
  <1>2. CASE (Fault("freed") /\ ~Allocated(l.conn)) \/ (Fault("null") /\ uud = NULL)
    BY <1>1, <1>2, CallbackFindsSession, FaultStep
  <1>3. heap[l.conn] = "ready"
    BY <1>1 DEF IInv, Registered
  <1>4. CASE Allocated(l.conn) /\ uud # NULL
    <2>1. /\ uud.conn = l.conn /\ l.att = uud.att /\ uud.from # "other"
          /\ flag = "START" /\ flag \in Flags /\ uud \in userUpgradeData
          /\ uud.att <= attempts /\ heap \in Heaps /\ l \in espconn_msg
          /\ links \in SUBSET espconn_msg
      BY <1>1, <1>4, CallbackTypes DEF IInv, Current, OwnBytes
    <2>2. CASE compMsgOtaDeinit(uud, flag, links, heap)
      <3>1. Ending(uud, links, heap)
        BY <1>1, <1>4, <2>1, EndingConnected
      <3>. QED BY <2>1, <2>2, <3>1, DeinitStep
    <2>3. ASSUME NEW k \in 0 .. MaxLen + 1, NEW n \in 0 .. MaxLen,
                 LET u == Received(l, k, n)
                 IN  IF u.got = u.len
                       THEN compMsgOtaDeinit(u, "FINISH", links, heap)
                     ELSE IF u.conn = NoConn
                       THEN Fault("null")
                     ELSE IF ~Reading(l)
                       THEN compMsgOtaDeinit(u, flag, links, heap)
                     ELSE /\ uud' = u
                          /\ timer' = "compMsgOtaDeinit"
                          /\ UNCHANGED <<flag, heap, links, fault, attempts,
                                         reported>>
          PROVE  IInv'
      <3>. DEFINE u == Received(l, k, n)
      <3>1. u \in userUpgradeData /\ u.conn = uud.conn /\ u.att = uud.att
        BY <2>1, SessionReceives
      <3>2. u.from = "own"
        BY <2>1, SessionReceives
      <3>. HIDE DEF u
      <3>3. Ending(u, links, heap)
        BY <1>1, <1>4, <2>1, <3>1, EndingConnected
      <3>4. CASE u.got = u.len /\ compMsgOtaDeinit(u, "FINISH", links, heap)
        BY <2>1, <3>1, <3>2, <3>3, <3>4, DeinitStep DEF Flags
      <3>5. CASE compMsgOtaDeinit(u, flag, links, heap)
        BY <2>1, <3>1, <3>3, <3>5, DeinitStep
      <3>6. CASE /\ uud' = u
                 /\ timer' = "compMsgOtaDeinit"
                 /\ UNCHANGED <<flag, heap, links, fault, attempts, reported>>
        <4>1. Basic'
          BY ReceiveBasic DEF IInv
        <4>2. LinksDistinct(links)' /\ Registered(links, heap)'
          BY <3>6 DEF IInv, LinksDistinct, Registered
        <4>3. u # NULL
          BY <3>1, SessionFields
        <4>4. Current' /\ OwnBytes' /\ Held' /\ Numbers' /\ SuccessIsComplete'
          BY <1>4, <3>1, <3>2, <3>6
             DEF IInv, Current, OwnBytes, Held, Allocated, Numbers, SuccessIsComplete
        <4>5. TimerOfSession'
          BY <1>1, <2>1, <3>1, <3>6, <4>3 DEF TimerOfSession
        <4>6. NoLeak' /\ Settled'
          BY <1>4, <3>1, <3>6, <4>3 DEF IInv, NoLeak, Allocated, Settled
        <4>7. Alone'
          BY <1>4, <3>1, <3>6 DEF IInv, Alone, TimerGuardsSession
        <4>. QED BY <4>1, <4>2, <4>4, <4>5, <4>6, <4>7 DEF IInv
      <3>. QED BY <1>1, <2>1, <2>3, <3>1, <3>4, <3>5, <3>6 DEF u
    <2>. QED BY <1>3, <1>4, <2>2, <2>3 DEF upgradeRecvCb
  <1>. QED BY <1>2, <1>3, <1>4 DEF upgradeRecvCb

LEMMA TimerStep ==
  ASSUME IInv, Timer
  PROVE  IInv'
  <1>1. /\ timer # "off" => uud # NULL /\ uud.conn # NoConn
        /\ timer \in {"off", "connectTimeoutCb", "compMsgOtaDeinit"}
    BY DEF IInv, TimerOfSession, Basic, TypeOK
  <1>2. CASE connectTimeoutCb
    <2>1. uud # NULL /\ uud.conn # NoConn /\ upgradeDisconCb(uud.conn, links)
      BY <1>1, <1>2 DEF connectTimeoutCb
    <2>2. \A l \in links : l.conn = uud.conn => l.st \in {"wait", "err"}
      BY <1>2 DEF connectTimeoutCb, IInv, TimerOfSession
    <2>3. QuietNetwork => \A l \in links : l.conn # uud.conn
      BY <1>2, <2>2 DEF connectTimeoutCb, QuietNetwork, IInv, Settled
    <2>. QED BY <2>1, <2>2, <2>3, DisconOwnStep
  <1>3. CASE recvTimeout
    <2>1. uud # NULL /\ uud.conn # NoConn /\ compMsgOtaDeinit(uud, flag, links, heap)
      BY <1>1, <1>3 DEF recvTimeout
    <2>2. Ending(uud, links, heap)
      <3>1. PICK l \in links : l.conn = uud.conn /\ l.st \in {"open", "close", "err"}
        BY <1>3 DEF recvTimeout, IInv, TimerOfSession
      <3>. QED BY <2>1, <3>1, CallbackTypes, EndingConnected
    <2>. QED BY <2>1, <2>2, CallbackTypes, DeinitStep
  <1>. QED BY <1>2, <1>3 DEF Timer

LEMMA ResetStep ==
  ASSUME IInv, Reset
  PROVE  IInv'
  <1>1. Basic'
    BY BasicStep DEF IInv, Next
  <1>. QED BY <1>1 DEF Reset, ResetAll, IInv, LinksDistinct, Registered, Current,
                OwnBytes, TimerOfSession, Held, Numbers, NoLeak, Allocated,
                SuccessIsComplete, Alone, Settled, TimerGuardsSession

LEMMA IInvInit ==
  Init => IInv
  <1>. SUFFICES ASSUME Init PROVE IInv
    OBVIOUS
  <1>1. Basic
    BY BasicInit
  <1>. QED BY <1>1 DEF Init, IInv, LinksDistinct, Registered, Current, OwnBytes,
                TimerOfSession, Held, Numbers, NoLeak, Allocated,
                SuccessIsComplete, Alone, Settled, TimerGuardsSession

LEMMA IInvStep ==
  ASSUME IInv, [Next]_vars, OneAtATime \/ QuietNetwork
  PROVE  IInv'
  <1>1. CASE Start
    BY <1>1, StartStep
  <1>2. CASE Timer
    BY <1>2, TimerStep
  <1>3. CASE Callback
    BY <1>3, ResolvedStep, TaskStep DEF Callback
  <1>4. CASE Network
    BY <1>4, ConnectedStep, ReceiveStep, ClientEndStep DEF Network
  <1>5. CASE Reset
    BY <1>5, ResetStep
  <1>6. CASE UNCHANGED vars
    BY <1>6, StutterStep
  <1>. QED BY <1>1, <1>2, <1>3, <1>4, <1>5, <1>6 DEF Next

LEMMA SessionInvariance ==
  ASSUME OneAtATime \/ QuietNetwork
  PROVE  Spec => []IInv
  BY IInvInit, IInvStep, PTL DEF Spec

\* When updates come one after the other, whatever fails, or overlap on a
\* network that does not fail, the user callback hears of a success only for a
\* session that got its whole file over its own connection.
THEOREM SuccessMeansComplete ==
  ASSUME OneAtATime \/ QuietNetwork
  PROVE  Spec => []SuccessIsComplete
  <1>1. IInv => SuccessIsComplete
    BY DEF IInv
  <1>. QED BY <1>1, SessionInvariance, PTL

\* Under the same conditions every espconn struct that is allocated belongs to
\* the session or will be freed by a callback that is still to come.
THEOREM ConnectionsNotLeaked ==
  ASSUME OneAtATime \/ QuietNetwork
  PROVE  Spec => []NoLeak
  <1>1. IInv => NoLeak
    BY DEF IInv
  <1>. QED BY <1>1, SessionInvariance, PTL

\* When updates come one after the other, a session that is past the name
\* lookup always has ota_timer armed, whatever fails.
THEOREM EverySessionGuarded ==
  ASSUME OneAtATime
  PROVE  Spec => []TimerGuardsSession
  <1>1. IInv => TimerGuardsSession
    BY DEF IInv, Alone
  <1>. QED BY <1>1, SessionInvariance, PTL

\* On a network that does not fail no callback meets a NULL session or a freed
\* struct, also if updates overlap, memory runs out or lookups are refused.
THEOREM CallbacksMemorySafe ==
  ASSUME QuietNetwork
  PROVE  Spec => []MemorySafe
  <1>1. IInv => MemorySafe
    BY DEF IInv, Settled, MemorySafe
  <1>. QED BY <1>1, SessionInvariance, PTL

----------------------------------------------------------------------------
(* The update session that the user sees.                                  *)

\* How a step may change the session and what was reported: not at all, with
\* the end of the session and its report, without a word, with a new session.
Told(u) ==
  \E ok, all \in BOOLEAN : reported' = [att |-> u.att, result |-> ok, complete |-> all]

SessionChange ==
  \/ reported' = reported /\ uud' = uud
  \/ /\ reported' = reported /\ uud # NULL /\ uud' # NULL
     /\ uud'.att = uud.att
  \/ uud # NULL /\ uud' = NULL /\ Told(uud)
  \/ reported' = reported /\ uud' = NULL
  \/ reported' = reported /\ uud' # NULL /\ uud'.att = attempts + 1

LEMMA DeinitTells ==
  ASSUME uud # NULL, NEW u, u.att = uud.att, NEW fl, NEW ls, NEW hp,
         compMsgOtaDeinit(u, fl, ls, hp)
  PROVE  SessionChange
  <1>1. /\ uud' = NULL
        /\ reported' = [att |-> u.att, result |-> fl = "FINISH",
                        complete |-> u.got = u.len /\ u.from = "own"]
    BY DeinitEffect, Zenon
  <1>2. (fl = "FINISH") \in BOOLEAN /\ (u.got = u.len /\ u.from = "own") \in BOOLEAN
    OBVIOUS
  <1>3. Told(uud)
    BY <1>1, <1>2, Zenon DEF Told
  <1>. QED BY <1>1, <1>3 DEF SessionChange

LEMMA DisconTells ==
  ASSUME Basic, NEW c, NEW ls, upgradeDisconCb(c, ls)
  PROVE  SessionChange
  <1>1. CASE uud # NULL /\ uud.conn = c /\ ~(c # NoConn /\ ~Allocated(c))
    <2>1. uud \in userUpgradeData
      BY <1>1 DEF Basic, TypeOK
    <2>2. [uud EXCEPT !.conn = NoConn].att = uud.att
      BY <2>1, SessionFields
    <2>. QED BY <1>1, <2>2, DeinitTells DEF upgradeDisconCb
  <1>2. CASE ~(uud # NULL /\ uud.conn = c) \/ (c # NoConn /\ ~Allocated(c))
    BY <1>2 DEF upgradeDisconCb, Fault, SessionChange
  <1>. QED BY <1>1, <1>2

LEMMA CallbackTells ==
  ASSUME Basic, Callback \/ Network \/ Timer
  PROVE  SessionChange
  <1>1. ASSUME NEW what, Fault(what) PROVE SessionChange
    BY <1>1 DEF Fault, SessionChange
  <1>2. CASE Timer
    BY <1>1, <1>2, DeinitTells, DisconTells DEF Timer, connectTimeoutCb, recvTimeout
  <1>3. ASSUME NEW l \in links, upgradeResolved(l) PROVE SessionChange
    BY <1>1, <1>3, DisconTells DEF upgradeResolved, Connect, SessionChange
  <1>4. ASSUME NEW l \in links, espconn_Task_Close(l) \/ espconn_Task_Err(l)
        PROVE  SessionChange
    BY <1>1, <1>4, DisconTells DEF espconn_Task_Close, espconn_Task_Err, SessionChange
  <1>5. ASSUME NEW l \in links, espconn_client_close(l) \/ espconn_client_err(l)
        PROVE  SessionChange
    BY <1>1, <1>5 DEF espconn_client_close, espconn_client_err, SessionChange
  <1>6. ASSUME NEW l \in links, upgradeConnectCb(l) PROVE SessionChange
    BY <1>1, <1>6, DeinitTells DEF upgradeConnectCb, SessionChange
  <1>7. ASSUME NEW l \in links, upgradeRecvCb(l) PROVE SessionChange
    <2>1. CASE uud = NULL \/ heap[l.conn] # "ready" \/ ~Allocated(l.conn)
      BY <1>1, <1>7, <2>1 DEF upgradeRecvCb, vars, SessionChange
    <2>2. CASE uud # NULL /\ heap[l.conn] = "ready" /\ Allocated(l.conn)
      <3>1. uud \in userUpgradeData /\ l \in espconn_msg
        BY <2>2 DEF Basic, TypeOK
      <3>2. ASSUME NEW k \in 0 .. MaxLen + 1, NEW n \in 0 .. MaxLen
            PROVE  Received(l, k, n).att = uud.att /\ Received(l, k, n) # NULL
        <4>1. Received(l, k, n) \in userUpgradeData /\ Received(l, k, n).att = uud.att
          BY <3>1, SessionReceives
        <4>2. Received(l, k, n) # NULL
          BY <4>1, SessionFields
        <4>. QED BY <4>1, <4>2
      <3>. QED BY <1>1, <1>7, <2>2, <3>2, DeinitTells DEF upgradeRecvCb, SessionChange
    <2>. QED BY <2>1, <2>2
  <1>. QED BY <1>2, <1>3, <1>4, <1>5, <1>6, <1>7 DEF Callback, Network

LEMMA StepTells ==
  ASSUME Basic, [Next]_vars
  PROVE  SessionChange
  <1>1. CASE Start
    <2>1. \A c \in Conns \cup {NoConn}, fs \in BOOLEAN :
            NewSession(c, fs) # NULL /\ NewSession(c, fs).att = attempts + 1
      <3>1. attempts \in 0 .. MaxAttempts /\ attempts < MaxAttempts
        BY <1>1 DEF Start, otaStart, otaStart_NoMem, otaStart_SaveFails,
                    otaStart_DnsError, MayStart, Basic, TypeOK
      <3>. QED BY <3>1, SessionBegins, SessionFields
    <2>2. /\ reported' = reported
          /\ \/ uud' = NULL
             \/ \E c \in Conns \cup {NoConn}, fs \in BOOLEAN : uud' = NewSession(c, fs)
      BY <1>1 DEF Start, otaStart, otaStart_NoMem, otaStart_SaveFails,
                  otaStart_DnsError, MayStart, Connect
    <2>. QED BY <2>1, <2>2 DEF SessionChange
  <1>2. CASE Callback \/ Network \/ Timer
    BY <1>2, CallbackTells
  <1>3. CASE Reset \/ UNCHANGED vars
    BY <1>3 DEF Reset, ResetAll, vars, SessionChange
  <1>. QED BY <1>1, <1>2, <1>3 DEF Next

LEMMA SessionStep ==
  ASSUME IInv, IInv', SessionChange
  PROVE  [Session!Next]_(Session!vars)
  <1>. DEFINE session == IF uud = NULL THEN 0 ELSE uud.att
  <1>1. /\ uud # NULL => uud.att \in Nat /\ uud.att # 0
        /\ uud = NULL \/ uud.att <= attempts
        /\ attempts \in Nat /\ reported.att <= attempts /\ reported.att \in Nat
    <2>1. /\ uud # NULL => uud.att \in 1 .. MaxAttempts
          /\ attempts \in 0 .. MaxAttempts /\ reported.att \in 0 .. MaxAttempts
          /\ uud # NULL => uud.att <= attempts
          /\ reported.att <= attempts
      BY SessionFields DEF IInv, Basic, TypeOK, Numbers
    <2>. QED BY <2>1, BoundsAssumption
  <1>2. CASE reported' = reported /\ session' = session
    BY <1>2 DEF Session!vars
  <1>3. CASE uud # NULL /\ uud' = NULL /\ Told(uud)
    <2>1. PICK ok \in BOOLEAN, all \in BOOLEAN :
            reported' = [att |-> uud.att, result |-> ok, complete |-> all]
      BY <1>3 DEF Told
    <2>2. ok => all
      BY <2>1 DEF IInv, SuccessIsComplete
    <2>. QED BY <1>1, <1>3, <2>1, <2>2 DEF Session!Next, Session!End
  <1>4. CASE reported' = reported /\ uud # NULL /\ uud' = NULL
    BY <1>1, <1>4 DEF Session!Next, Session!Lose
  <1>5. CASE reported' = reported /\ uud' # NULL /\ uud'.att = attempts + 1
    BY <1>1, <1>5 DEF Session!Next, Session!Begin
  <1>. QED BY <1>2, <1>3, <1>4, <1>5 DEF SessionChange

\* Under the same conditions the callbacks together implement the abstract
\* update session: at most one result for each call of otaStart, while its
\* session is the current one, and a success only for a complete file.
THEOREM SessionImplemented ==
  ASSUME OneAtATime \/ QuietNetwork
  PROVE  Spec => ImplementsSession
  <1>1. Init => Session!Init
    BY DEF Init, Session!Init
  <1>2. IInv /\ IInv' /\ [Next]_vars => [Session!Next]_(Session!vars)
    BY StepTells, SessionStep DEF IInv
  <1>. QED BY <1>1, <1>2, SessionInvariance, PTL DEF Spec, ImplementsSession, Session!Spec
============================================================================
