---------------------------- MODULE CompMsgOta -----------------------------
(***************************************************************************)
(* The update session of src/app/compMsg/compMsgOta.c over the TCP client  *)
(* of src/app/lwip/app/espconn*.c: name lookup, connect, HTTP reply, data, *)
(* teardown.  Callbacks never preempt each other, so each is one step, but *)
(* those of an earlier attempt may come late, when the next attempt has    *)
(* already replaced the static uud and ota_timer they work on.             *)
(*                                                                         *)
(* Memory is modelled as far as the session's espconn structs go: they are *)
(* addresses, taken from and returned to a heap, that espconn's own        *)
(* connection list (links) keeps pointing to.  A use of a struct that is   *)
(* not allocated, or of the NULL uud, is a fault, after which the chip     *)
(* resets.                                                                 *)
(***************************************************************************)
EXTENDS Integers, FiniteSets

CONSTANTS
  Conns,        \* addresses of struct espconn, positive numbers
  MaxAttempts,  \* bound on the calls of otaStart
  MaxLen,       \* bound on the Content-Length of a reply
  Faults        \* what the environment may do, a subset of AllFaults

AllFaults ==
  { "noMem",           \* os_malloc, os_zalloc return NULL
    "saveFails",       \* saveUserData (uninitialised headerValueInfos)
    "dnsError",        \* espconn_gethostbyname refuses the lookup
    "connectTimeout",  \* no answer to the SYN within OTA_NETWORK_TIMEOUT
    "tcpError",        \* reset or retransmission limit of a connection
    "closeFails",      \* tcp_close: ERR_MEM
    "overlap" }        \* otaStart before the previous connection is gone

ASSUME ConnsAssumption == Conns \subseteq Nat \ {0}
ASSUME BoundsAssumption == MaxAttempts \in Nat /\ MaxLen \in Nat
ASSUME FaultsAssumption == Faults \subseteq AllFaults

VARIABLES
  flag,      \* system_upgrade_flag of the SDK
  uud,       \* the session, or NULL
  heap,      \* the espconn structs: "free", "fresh" (allocated) or "ready"
             \* (with the receive and disconnect callbacks registered)
  links,     \* what the network stack will call back about: espconn's
             \* plink_active and the DNS lookups under way
  timer,     \* ota_timer: "off" or the function it will call
  fault,     \* "none", "null" (NULL uud) or "freed" (struct not allocated)
  attempts,  \* calls of otaStart so far; numbers the sessions
  reported   \* the last call of the user callback

vars == <<flag, uud, heap, links, timer, fault, attempts, reported>>

----------------------------------------------------------------------------
NULL   == [att |-> 0]
NoConn == 0

Allocated(c) == heap[c] # "free"

\* userUpgradeData: conn is NoConn or an address; got, len: total_len and
\* content_len.  A server may send more than it announced: got stands at
\* MaxLen + 1 for every count that no Content-Length reaches.  Two facts are
\* recorded for the properties: att, the call of otaStart it belongs to, and
\* from, where its bytes came from so far.
userUpgradeData ==
  [att : 1 .. MaxAttempts, conn : Conns \cup {NoConn}, fs : BOOLEAN,
   got : 0 .. MaxLen + 1, len : 0 .. MaxLen,
   from : {"nowhere", "own", "other"}]

\* st is "lookup" (DNS), "wait" (SYN sent), "open", or what was posted to
\* espconn_Task, "close" (SIG_ESPCONN_CLOSE) or "err" (SIG_ESPCONN_ERRER).
espconn_msg == [att : 1 .. MaxAttempts, conn : Conns,
                st : {"lookup", "wait", "open", "close", "err"}]

\* A fault stops everything but the reset.
Fault(what) ==
  /\ fault' = what
  /\ UNCHANGED <<flag, uud, heap, links, timer, attempts, reported>>

\* RAM after a reset.
ResetAll ==
  /\ flag' = "IDLE"
  /\ uud' = NULL
  /\ heap' = [c \in Conns |-> "free"]
  /\ links' = {}
  /\ timer' = "off"
  /\ fault' = "none"

----------------------------------------------------------------------------
(* The pieces the callbacks share.  ls and hp are espconn's list and the   *)
(* heap as they are when the piece is entered.                             *)

\* espconn_disconnect(c), client side: posts SIG_ESPCONN_CLOSE unless that or
\* an error was posted before; if tcp_close fails nothing happens at all.
espconn_disconnect(c, ls) ==
  LET mine == { l \in ls : l.conn = c /\ l.st \in {"wait", "open"} }
  IN  \/ \E l \in mine : links' = (ls \ {l}) \cup {[l EXCEPT !.st = "close"]}
      \/ mine = {} /\ links' = ls
      \/ mine # {} /\ "closeFails" \in Faults /\ links' = ls

\* Mutants of compMsgOtaDeinit: the timer is not disarmed; the flag is not
\* reset.
Deinit_TimerRuns(u, fl, ls, hp) ==
  /\ reported' = [att |-> u.att, result |-> fl = "FINISH",
                  complete |-> u.got = u.len /\ u.from = "own"]
  /\ uud' = NULL
  /\ heap' = hp
  /\ IF u.conn # NoConn THEN espconn_disconnect(u.conn, ls) ELSE links' = ls
  /\ flag' = IF fl = "FINISH" THEN fl ELSE "IDLE"
  /\ UNCHANGED <<timer, fault, attempts>>

Deinit_KeepsFlag(u, fl, ls, hp) ==
  /\ reported' = [att |-> u.att, result |-> fl = "FINISH",
                  complete |-> u.got = u.len /\ u.from = "own"]
  /\ timer' = "off"
  /\ uud' = NULL
  /\ heap' = hp
  /\ IF u.conn # NoConn THEN espconn_disconnect(u.conn, ls) ELSE links' = ls
  /\ flag' = fl
  /\ UNCHANGED <<fault, attempts>>

\* Mutant: the session struct is freed and the static pointer to it kept.
Deinit_KeepsSession(u, fl, ls, hp) ==
  /\ reported' = [att |-> u.att, result |-> fl = "FINISH",
                  complete |-> u.got = u.len /\ u.from = "own"]
  /\ timer' = "off"
  /\ uud' = u
  /\ heap' = hp
  /\ IF u.conn # NoConn THEN espconn_disconnect(u.conn, ls) ELSE links' = ls
  /\ flag' = IF fl = "FINISH" THEN fl ELSE "IDLE"
  /\ UNCHANGED <<fault, attempts>>

\* compMsgOtaDeinit, u and fl being uud and the flag as they are then, with
\* the user callback otaUpdateCallback, which restarts after a new firmware.
compMsgOtaDeinit(u, fl, ls, hp) ==
  /\ reported' = [att |-> u.att, result |-> fl = "FINISH",
                  complete |-> u.got = u.len /\ u.from = "own"]
  /\ IF fl = "FINISH" /\ ~u.fs
       THEN ResetAll
       ELSE /\ timer' = "off"
            /\ uud' = NULL
            /\ heap' = hp
            /\ IF u.conn # NoConn THEN espconn_disconnect(u.conn, ls) ELSE links' = ls
            /\ flag' = IF fl = "FINISH" THEN fl ELSE "IDLE"
            /\ UNCHANGED fault
  /\ UNCHANGED attempts

\* Mutant: only the connection of the session is freed.
upgradeDisconCb_OwnOnly(c, ls) ==
  IF uud # NULL /\ uud.conn = c
    THEN compMsgOtaDeinit([uud EXCEPT !.conn = NoConn], flag, ls,
                          [d \in Conns |-> IF d = c THEN "free" ELSE heap[d]])
    ELSE /\ timer' = "off"
         /\ links' = ls
         /\ UNCHANGED <<flag, uud, heap, fault, attempts, reported>>

\* upgradeDisconCb(c): frees the connection and ends the session if it is
\* the session's.
upgradeDisconCb(c, ls) ==
  LET hp == [d \in Conns |-> IF d = c THEN "free" ELSE heap[d]]
  IN  IF c # NoConn /\ ~Allocated(c)
        THEN Fault("freed")
      ELSE IF uud # NULL /\ uud.conn = c
        THEN compMsgOtaDeinit([uud EXCEPT !.conn = NoConn], flag, ls, hp)
      ELSE /\ timer' = "off"
           /\ heap' = hp
           /\ links' = ls
           /\ UNCHANGED <<flag, uud, fault, attempts, reported>>

\* upgradeResolved with an address, for session u: espconn_connect creates a
\* link, or fails without anyone looking; the connect timeout is armed.
Connect(u, ls, hp) ==
  /\ uud' = u
  /\ heap' = hp
  /\ \/ links' = ls \cup {[att |-> u.att, conn |-> u.conn, st |-> "wait"]}
     \/ "noMem" \in Faults /\ links' = ls
  /\ timer' = "connectTimeoutCb"

----------------------------------------------------------------------------
(* otaStart.                                                               *)

\* The session otaStart creates with connection c.
NewSession(c, fs) ==
  [att |-> attempts + 1, conn |-> c, fs |-> fs, got |-> 0, len |-> 0,
   from |-> "nowhere"]

\* The common part: refused while the flag says START.
MayStart ==
  /\ fault = "none"
  /\ flag # "START"
  /\ attempts < MaxAttempts
  /\ "overlap" \in Faults \/ links = {}
  /\ attempts' = attempts + 1
  /\ UNCHANGED <<fault, reported>>

\* Out of memory, for uud or for its connection.
otaStart_NoMem ==
  /\ MayStart
  /\ "noMem" \in Faults
  /\ uud' = NULL
  /\ UNCHANGED <<flag, heap, links, timer>>

\* saveUserData fails: return with uud allocated and without a connection.
otaStart_SaveFails ==
  /\ MayStart
  /\ "saveFails" \in Faults
  /\ \E fs \in BOOLEAN : uud' = NewSession(NoConn, fs)
  /\ UNCHANGED <<flag, heap, links, timer>>

\* The lookup is refused: everything is freed, the flag stays at START.
otaStart_DnsError ==
  /\ MayStart
  /\ "dnsError" \in Faults
  /\ flag' = "START"
  /\ uud' = NULL
  /\ UNCHANGED <<heap, links, timer>>

\* Mutant: the flag is not set before the lookup.
otaStart_NoFlag ==
  /\ MayStart
  /\ \E c \in Conns, fs \in BOOLEAN :
       /\ ~Allocated(c)
       /\ uud' = NewSession(c, fs)
       /\ heap' = [heap EXCEPT ![c] = "fresh"]
       /\ links' = links \cup
                    {[att |-> attempts + 1, conn |-> c, st |-> "lookup"]}
       /\ UNCHANGED <<flag, timer>>

\* The lookup is under way, or the address was known and the connection is
\* opened at once.  The struct is zeroed: no callbacks are registered.
otaStart ==
  /\ MayStart
  /\ flag' = "START"
  /\ \E c \in Conns, fs \in BOOLEAN :
       LET u  == NewSession(c, fs)
           hp == [heap EXCEPT ![c] = "fresh"]
       IN  /\ ~Allocated(c)
           /\ \/ /\ uud' = u
                 /\ heap' = hp
                 /\ links' = links \cup {[att |-> u.att, conn |-> c, st |-> "lookup"]}
                 /\ UNCHANGED timer
              \/ Connect(u, links, hp)

----------------------------------------------------------------------------
(* Callbacks.                                                              *)

\* upgradeResolved as DNS calls it: it works on uud, whatever the lookup was
\* for.
upgradeResolved(l) ==
  /\ fault = "none"
  /\ l.st = "lookup"
  /\ \/ IF uud = NULL                           \* no address found
          THEN Fault("null")
          ELSE upgradeDisconCb(uud.conn, links \ {l})
     \/ IF uud = NULL \/ uud.conn = NoConn
          THEN Fault("null")
          ELSE /\ Connect(uud, links \ {l}, heap)
               /\ UNCHANGED <<flag, fault, attempts, reported>>

\* Mutant: the timer is disarmed and not armed again for the reply.
upgradeConnectCb_NoTimer(l) ==
  /\ fault = "none"
  /\ l.st = "wait"
  /\ IF ~Allocated(l.conn) THEN Fault("freed")
     ELSE IF uud = NULL THEN Fault("null")
     ELSE /\ links' = (links \ {l}) \cup {[l EXCEPT !.st = "open"]}
          /\ heap' = [d \in Conns |-> IF d = uud.conn THEN "ready" ELSE heap[d]]
          /\ timer' = "off"
          /\ UNCHANGED <<flag, uud, fault, attempts, reported>>

\* espconn_client_connect and upgradeConnectCb: callbacks are registered for
\* the session's connection, the request is sent, the reply timeout armed.
upgradeConnectCb(l) ==
  LET ls == (links \ {l}) \cup {[l EXCEPT !.st = "open"]}
      hp == [d \in Conns |-> IF d = uud.conn THEN "ready" ELSE heap[d]]
  IN  /\ fault = "none"
      /\ l.st = "wait"
      /\ IF ~Allocated(l.conn) THEN Fault("freed")
         ELSE IF uud = NULL THEN Fault("null")
         ELSE \/ /\ links' = ls
                 /\ heap' = hp
                 /\ timer' = "compMsgOtaDeinit"
                 /\ UNCHANGED <<flag, uud, fault, attempts, reported>>
              \/ /\ "noMem" \in Faults
                 /\ compMsgOtaDeinit(uud, flag, ls, hp)

\* uud->conn->state: ESPCONN_READ during the callback of that connection.
Reading(l) == uud.conn = l.conn

\* total_len after k more bytes.
Count(got, k) == IF got + k > MaxLen THEN MaxLen + 1 ELSE got + k

\* Mutant: a byte of the header is counted as data.
Received_CountsHeader(l, k, n) ==
  [uud EXCEPT !.got = Count(@, k) + 1,
              !.len = IF uud.len = 0 THEN n ELSE @,
              !.from = IF @ # "other" /\ l.att = uud.att THEN "own" ELSE "other"]

\* The session after k bytes of data over l; with the first reply comes its
\* Content-Length n.
Received(l, k, n) ==
  [uud EXCEPT !.got = Count(@, k),
              !.len = IF uud.len = 0 THEN n ELSE @,
              !.from = IF @ # "other" /\ l.att = uud.att THEN "own" ELSE "other"]

\* upgradeRecvCb: until a Content-Length is known a valid HTTP reply is
\* expected, with or without data behind its header.  Nothing stops data
\* beyond the Content-Length: the sum passes it and the timer is armed anew.
upgradeRecvCb(l) ==
  /\ fault = "none"
  /\ l.st = "open"
  /\ IF ~Allocated(l.conn) THEN Fault("freed")
     ELSE IF heap[l.conn] # "ready" THEN UNCHANGED vars
     ELSE IF uud = NULL THEN Fault("null")
     ELSE \/ uud.len = 0 /\ compMsgOtaDeinit(uud, flag, links, heap)
          \/ \E k \in 0 .. MaxLen + 1, n \in 0 .. MaxLen :
               LET u == Received(l, k, n)
               IN  /\ uud.len = 0 \/ k > 0
                   /\ IF u.got = u.len
                        THEN compMsgOtaDeinit(u, "FINISH", links, heap)
                      ELSE IF u.conn = NoConn
                        THEN Fault("null")
                      ELSE IF ~Reading(l)
                        THEN compMsgOtaDeinit(u, flag, links, heap)
                      ELSE /\ uud' = u
                           /\ timer' = "compMsgOtaDeinit"
                           /\ UNCHANGED <<flag, heap, links, fault, attempts,
                                          reported>>

\* The server closes: espconn_client_recv with no data, espconn_client_close.
espconn_client_close(l) ==
  /\ fault = "none"
  /\ l.st = "open"
  /\ IF ~Allocated(l.conn)
       THEN Fault("freed")
       ELSE /\ links' = (links \ {l}) \cup {[l EXCEPT !.st = "close"]}
            /\ UNCHANGED <<flag, uud, heap, timer, fault, attempts, reported>>

\* The connection is reset or gives up: the error is posted.
espconn_client_err(l) ==
  /\ fault = "none"
  /\ "tcpError" \in Faults
  /\ l.st \in {"wait", "open"}
  /\ IF ~Allocated(l.conn)
       THEN Fault("freed")
       ELSE /\ links' = (links \ {l}) \cup {[l EXCEPT !.st = "err"]}
            /\ UNCHANGED <<flag, uud, heap, timer, fault, attempts, reported>>

\* espconn_Task, SIG_ESPCONN_CLOSE: espconn_tcp_disconnect_successful calls
\* upgradeDisconCb with the connection that is gone.
espconn_Task_Close(l) ==
  /\ fault = "none"
  /\ l.st = "close"
  /\ IF ~Allocated(l.conn) THEN Fault("freed")
     ELSE IF heap[l.conn] = "ready" THEN upgradeDisconCb(l.conn, links \ {l})
     ELSE /\ links' = links \ {l}
          /\ UNCHANGED <<flag, uud, heap, timer, fault, attempts, reported>>

\* espconn_Task, SIG_ESPCONN_ERRER: espconn_tcp_reconnect calls
\* upgradeReconCb, which works on uud and not on the connection it is given.
espconn_Task_Err(l) ==
  /\ fault = "none"
  /\ l.st = "err"
  /\ IF ~Allocated(l.conn) THEN Fault("freed")
     ELSE IF uud = NULL THEN Fault("null")
     ELSE upgradeDisconCb(uud.conn, links \ {l})

\* ota_timer expires while connecting.
connectTimeoutCb ==
  /\ fault = "none"
  /\ timer = "connectTimeoutCb"
  /\ "connectTimeout" \in Faults \/ ~\E l \in links : l.st = "wait"
  /\ IF uud = NULL
       THEN Fault("null")
       ELSE upgradeDisconCb(uud.conn, links)

\* ota_timer expires while waiting for the reply or for more data.
recvTimeout ==
  /\ fault = "none"
  /\ timer = "compMsgOtaDeinit"
  /\ IF uud = NULL
       THEN Fault("null")
       ELSE compMsgOtaDeinit(uud, flag, links, heap)

\* The exception handler resets the chip.
Reset ==
  /\ fault # "none"
  /\ ResetAll
  /\ UNCHANGED <<attempts, reported>>

Init ==
  /\ flag = "IDLE"
  /\ uud = NULL
  /\ heap = [c \in Conns |-> "free"]
  /\ links = {}
  /\ timer = "off"
  /\ fault = "none"
  /\ attempts = 0
  /\ reported = [att |-> 0, result |-> FALSE, complete |-> FALSE]

Start == otaStart \/ otaStart_NoMem \/ otaStart_SaveFails \/ otaStart_DnsError

Timer == connectTimeoutCb \/ recvTimeout

\* What espconn and DNS have undertaken to call back.
Callback ==
  \E l \in links : upgradeResolved(l) \/ espconn_Task_Close(l) \/ espconn_Task_Err(l)

\* What the server and the network may do.
Network ==
  \E l \in links : \/ upgradeConnectCb(l)
                  \/ upgradeRecvCb(l)
                  \/ espconn_client_close(l)
                  \/ espconn_client_err(l)

Next == Start \/ Timer \/ Callback \/ Network \/ Reset

\* The server has sent more than it announced, so that total_len never
\* equals content_len again.
Oversent == uud # NULL /\ uud.got > uud.len

\* An armed timer expires, unless every receive arms it anew, which a server
\* can keep up only by sending beyond what it announced; a posted event is
\* delivered, a lookup ends (DNS has its own retry limit), a SYN is answered
\* or given up on, a fault resets.  The server owes nothing else.
Fairness ==
  /\ WF_vars(connectTimeoutCb)
  /\ WF_vars(~Oversent /\ recvTimeout)
  /\ WF_vars(Callback)
  /\ WF_vars(\E l \in links :
              l.st = "wait" /\ (upgradeConnectCb(l) \/ espconn_client_err(l)))
  /\ WF_vars(Reset)

Spec == Init /\ [][Next]_vars /\ Fairness

----------------------------------------------------------------------------
(* Properties.                                                             *)

\* Every variable stays in its type.
TypeOK ==
  /\ flag \in {"IDLE", "START", "FINISH"}
  /\ uud \in {NULL} \cup userUpgradeData
  /\ heap \in [Conns -> {"free", "fresh", "ready"}]
  /\ links \subseteq espconn_msg
  /\ timer \in {"off", "connectTimeoutCb", "compMsgOtaDeinit"}
  /\ fault \in {"none", "null", "freed"}
  /\ attempts \in 0 .. MaxAttempts
  /\ reported \in [att : 0 .. MaxAttempts, result : BOOLEAN, complete : BOOLEAN]

\* The user callback is told of a success only for a session that received
\* as many bytes as its reply announced, all over its own connection: the
\* FINISH left by an earlier file system update, or late data of an earlier
\* connection, do not make a later attempt succeed.
SuccessIsComplete == reported.result => reported.complete

\* While a session owns a connection the flag is START, so that otaStart
\* cannot replace the one static uud under it.
SessionHoldsFlag == uud # NULL /\ uud.conn # NoConn => flag = "START"

\* No callback finds uud NULL or works on a freed connection struct, and none
\* can: whatever DNS and espconn still hold a pointer to is allocated.
MemorySafe ==
  /\ fault = "none"
  /\ \A l \in links : Allocated(l.conn)

\* A connection struct is owned by the session, or by espconn for the
\* disconnect callback that will free it: none is leaked.
NoLeak ==
  \A c \in Conns : Allocated(c) =>
    (uud # NULL /\ uud.conn = c) \/ (\E l \in links : l.conn = c)

\* A session that has left the name lookup has the timer armed: connecting,
\* waiting for the reply and every later receive are each guarded by it.
TimerGuardsSession ==
  uud # NULL /\ uud.conn # NoConn /\ timer = "off" =>
    \E l \in links : l.att = uud.att /\ l.st = "lookup"

\* The session as its user sees it.
Session == INSTANCE UpdateSession
             WITH session <- IF uud = NULL THEN 0 ELSE uud.att,
                  told <- reported

\* The callbacks together, those of an earlier connection that come late
\* included, implement an update session: the result of each call of
\* otaStart is told at most once, while that call's session is the current
\* one, and a success only for a complete file.
ImplementsSession == Session!Spec

\* Every session that holds the flag gives it back, whatever the network
\* does, one way out being left to the server: nothing ends a session whose
\* server sends on beyond its Content-Length.
UpdateEnds == (flag = "START" /\ uud # NULL) ~> (flag # "START" \/ Oversent)
============================================================================
