---------------------------- MODULE ClientMode -----------------------------
(***************************************************************************)
(* How the device goes online: the mode functions of compMsgNetSocket.c,   *)
(* compMsgWebSocket.c and compMsgSSDPSocket.c, the connection timers of    *)
(* compMsgSocket.c, and the work put off until the client mode runs.       *)
(*                                                                         *)
(* A mode function configures the WiFi station, arms a timer and returns.  *)
(* The timer polls the station until it has an address or has failed.  The *)
(* work that waits for this is one function pointer, startSendMsg, shared  *)
(* by the firmware update, the cloud message and the provisioning answer;  *)
(* requests, polls and the station interleave freely.                      *)
(***************************************************************************)
EXTENDS Naturals

CONSTANTS
  NotifyLimit,  \* SSDP notifications sent before their timer stops
  MaxRequests,  \* bound on the requests and restarts
  MaxLosses     \* bound on the connections the station loses

ASSUME LimitsAssumption ==
  NotifyLimit \in Nat /\ MaxRequests \in Nat /\ MaxLosses \in Nat

VARIABLES
  up,           \* initDispatcher has run since the last restart
  station,      \* wifi_station_get_connect_status, its three failures as one
  opmode,       \* wifi_get_opmode, kept in flash by the SDK
  timer,        \* compMsgTimers
  flags,        \* runningModeFlags
  stopAP,       \* dispatcherCommon->stopAccessPoint
  startSendMsg, \* the function to call when the client mode runs
  listening,    \* the servers that espconn_accept has started
  numNotifies,  \* static counter of compMsgSSDPSocket.c, saturating
  pending,      \* history: startSendMsg was set and has not been called yet
  told,         \* history: the last attempt to go online has been answered by
                \* an error result or a NAK message
  started,      \* history: the put off function called by the last step
  requests,     \* bound
  losses        \* bound

vars == <<up, station, opmode, timer, flags, stopAP, startSendMsg, listening,
          numNotifies, pending, told, started, requests, losses>>

----------------------------------------------------------------------------
None == "none"

Updates == {"updateFirmware", "updateSpiffs"}
Jobs    == Updates \cup {"startCloudSocket", "sendClientIPMsg"}

\* The timer slots in use: the access point, the notifications, the client.
APTimer     == 0
SSDPTimer   == 1
ClientTimer == 4
TimerIds    == {APTimer, SSDPTimer, ClientTimer}

Callbacks ==
  {"startNetClientMode", "startWebClientMode", "startAccessPoint",
   "sendSSDPInfo"}

\* compMsgTimerSlot_t.  mode is what the code remembers of the SDK's timer,
\* armed and fcn what the SDK knows: TIMER_MODE_OFF, TIMER_IDLE_FLAG set,
\* TIMER_MODE_AUTO without that flag.
compMsgTimerSlot ==
  [mode : {"off", "idle", "auto"}, armed : BOOLEAN, fcn : Callbacks \cup {None}]

TimerOff == [mode |-> "off", armed |-> FALSE, fcn |-> None]

initTimers == [t \in TimerIds |-> TimerOff]

\* startConnectionTimer: disarm if the mode says it runs, set the function,
\* arm with automatic reload.
startConnectionTimer(slots, t, fcn) ==
  [slots EXCEPT ![t] = [mode |-> "auto", armed |-> TRUE, fcn |-> fcn]]

\* Mutant: the timer is disarmed, its mode is not set.
Disarm_KeepMode(slots, t) ==
  [slots EXCEPT ![t] = [mode |-> slots[t].mode, armed |-> FALSE,
                        fcn |-> slots[t].fcn]]

\* The idle flag and ets_timer_disarm, as they stand together in
\* checkConnectionStatus and sendSSDPInfo.
Disarm(slots, t) ==
  [slots EXCEPT ![t] = [mode |-> "idle", armed |-> FALSE,
                        fcn |-> slots[t].fcn]]

----------------------------------------------------------------------------
\* Mutant: the flags are left as they are.
ModeFlags_Kept == flags

\* newCompMsgDispatcher sets the flags of the common part to zero, whoever
\* creates a dispatcher; compMsgRequestInit creates four.
ModeFlagsOfNewDispatcher == {}

\* The SDK connects the station by itself at power up, if it is enabled.
AtPowerUp(mode) ==
  {"idle"} \cup (IF mode = "null" THEN {} ELSE {"connecting"})

\* RAM at power up, and the operating mode that was saved.
Init ==
  /\ up = FALSE
  /\ opmode \in {"station", "stationAp", "null"}
  /\ station \in AtPowerUp(opmode)
  /\ timer = initTimers
  /\ flags = {}
  /\ stopAP = FALSE
  /\ startSendMsg = None
  /\ listening = {}
  /\ numNotifies = 0
  /\ pending = FALSE
  /\ told = FALSE
  /\ started = None
  /\ requests = 0
  /\ losses = 0

Request ==
  /\ requests < MaxRequests
  /\ requests' = requests + 1
  /\ UNCHANGED losses

----------------------------------------------------------------------------
(* The mode functions.  They continue a request: st, mode and slots are    *)
(* the station, the operating mode and the timers as the request left them.*)

\* wifi_station_connect: a station that is connected may ignore the call
\* (wifi_station_disconnect is commented out in the code), and one that is
\* not enabled stays as it is.
wifi_station_connect(st, mode) ==
  IF mode = "null" THEN {st}
  ELSE {"connecting"} \cup (IF st = "gotIp" THEN {"gotIp"} ELSE {})

\* netSocketRunClientMode, webSocketRunClientMode: a missing ssid or password
\* and a refusal of the SDK end it with an error before the timer is started.
\* reports: whether the caller passes that error on.
RunClientMode(st, mode, slots, fcn, reports) ==
  \/ /\ station' = st
     /\ timer' = slots
     /\ told' = (told \/ reports)
  \/ /\ station' \in wifi_station_connect(st, mode)
     /\ timer' = startConnectionTimer(slots, ClientTimer, fcn)
     /\ told' = FALSE

\* webSocketRunAPMode: the station is disconnected first, then the operating
\* mode set, then the access point configured; the last two may be refused.
webSocketRunAPMode(slots) ==
  /\ station' = "idle"
  /\ \/ /\ opmode' \in {opmode, "stationAp"}
        /\ timer' = slots
     \/ /\ opmode' = "stationAp"
        /\ timer' = startConnectionTimer(slots, APTimer, "startAccessPoint")
  /\ UNCHANGED told

----------------------------------------------------------------------------
(* Requests.                                                               *)

\* The parts of initDispatcher that reset what this module is about:
\* compMsgRequestInit, compMsgSendReceiveInit, compMsgTimerInit.
Reinit ==
  /\ Request
  /\ up' = TRUE
  /\ stopAP' = FALSE
  /\ UNCHANGED <<listening, numNotifies>>

\* Mutant: the function put off is not reset.
initDispatcher_KeepJob ==
  /\ Reinit
  /\ flags' = ModeFlagsOfNewDispatcher
  /\ started' = None
  /\ timer' = initTimers
  /\ UNCHANGED <<station, opmode, told, startSendMsg, pending>>

\* No type, or one that does nothing to this state: 'D', 'G', 'I' and 'U' set
\* up other parts, an unknown one is ignored.
initDispatcher ==
  /\ Reinit
  /\ flags' = ModeFlagsOfNewDispatcher
  /\ startSendMsg' = None
  /\ pending' = FALSE
  /\ started' = None
  /\ timer' = initTimers
  /\ UNCHANGED <<station, opmode, told>>

\* A part fails to initialise and initDispatcher returns its error: nothing
\* has been reset, or the flags have, or startSendMsg too, or the timers too.
initDispatcher_Fails ==
  /\ Request
  /\ \/ UNCHANGED <<flags, stopAP, startSendMsg, pending, timer>>
     \/ /\ flags' = ModeFlagsOfNewDispatcher
        /\ stopAP' = FALSE
        /\ \/ UNCHANGED <<startSendMsg, pending, timer>>
           \/ /\ startSendMsg' = None
              /\ pending' = FALSE
              /\ timer' \in {timer, initTimers}
  /\ started' = None
  /\ UNCHANGED <<up, station, opmode, listening, numNotifies, told>>

\* Type 'L', startLightSleepWakeupMode: the station is disconnected and the
\* WiFi switched off, whose result is not looked at; after the sleep nobody
\* switches it on again.
initDispatcher_L ==
  /\ Reinit
  /\ flags' = ModeFlagsOfNewDispatcher
  /\ startSendMsg' = None
  /\ pending' = FALSE
  /\ started' = None
  /\ timer' = initTimers
  /\ station' = "idle"
  /\ opmode' \in {opmode, "null"}
  /\ UNCHANGED told

\* Type 'N'.
initDispatcher_N ==
  /\ Reinit
  /\ flags' = ModeFlagsOfNewDispatcher
  /\ startSendMsg' = None
  /\ pending' = FALSE
  /\ started' = None
  /\ RunClientMode(station, opmode, initTimers, "startNetClientMode", TRUE)
  /\ UNCHANGED opmode

\* Types 'O' and 'o': checkClientMode of compMsgOta.c.  The update starts at
\* once if the client mode runs, else when it does.
initDispatcher_O(job) ==
  /\ Reinit
  /\ flags' = ModeFlagsOfNewDispatcher
  /\ startSendMsg' = job
  /\ IF "client" \in ModeFlagsOfNewDispatcher
     THEN /\ pending' = FALSE
          /\ started' = job
          /\ timer' = initTimers
          /\ UNCHANGED <<station, told>>
     ELSE /\ pending' = TRUE
          /\ started' = None
          /\ RunClientMode(station, opmode, initTimers, "startNetClientMode", TRUE)
  /\ UNCHANGED opmode

\* Type 'S', startSendSSDPInfo: disconnect, new ssid, station mode (its result
\* is not looked at), client mode; the flag is set unless that failed.
initDispatcher_S ==
  /\ Reinit
  /\ startSendMsg' = None
  /\ pending' = FALSE
  /\ started' = None
  /\ opmode' \in {opmode, "station"}
  /\ RunClientMode("idle", opmode', initTimers, "startNetClientMode", TRUE)
  /\ flags' = ModeFlagsOfNewDispatcher
                \cup (IF timer'[ClientTimer].armed THEN {"ssdp"} ELSE {})

\* Type 'W'.
initDispatcher_W ==
  /\ Reinit
  /\ flags' = ModeFlagsOfNewDispatcher
  /\ startSendMsg' = None
  /\ pending' = FALSE
  /\ started' = None
  /\ webSocketRunAPMode(initTimers)

\* Type 'C', netSocketStartCloudSocket.
initDispatcher_C ==
  /\ Reinit
  /\ flags' = ModeFlagsOfNewDispatcher
  /\ startSendMsg' = None
  /\ pending' = FALSE
  /\ started' = "startCloudSocket"
  /\ timer' = initTimers
  /\ UNCHANGED <<station, opmode, told>>

\* Mutant: stopAccessPoint is not reset with the flags.
createDispatcher_KeepStop ==
  /\ up
  /\ Request
  /\ flags' = ModeFlagsOfNewDispatcher
  /\ started' = None
  /\ UNCHANGED <<up, station, opmode, timer, startSendMsg, listening,
                 numNotifies, pending, told, stopAP>>

\* compMsg_createDispatcher: a further dispatcher shares the common part.
createDispatcher ==
  /\ up
  /\ Request
  /\ flags' = ModeFlagsOfNewDispatcher
  /\ stopAP' = FALSE
  /\ started' = None
  /\ UNCHANGED <<up, station, opmode, timer, startSendMsg, listening,
                 numNotifies, pending, told>>

\* The action runClientMode; it drops the result.
runClientMode ==
  /\ up
  /\ Request
  /\ RunClientMode(station, opmode, timer, "startNetClientMode", FALSE)
  /\ started' = None
  /\ UNCHANGED <<up, opmode, flags, stopAP, startSendMsg, listening,
                 numNotifies, pending>>

\* The action runAPMode.
runAPMode ==
  /\ up
  /\ Request
  /\ webSocketRunAPMode(timer)
  /\ started' = None
  /\ UNCHANGED <<up, flags, stopAP, startSendMsg, listening, numNotifies,
                 pending>>

\* The action runAPConnect: ssid and password from the provisioning message,
\* the answer put off until the client mode runs.  Storing them may fail.
connectToAP ==
  /\ up
  /\ Request
  /\ \/ UNCHANGED <<startSendMsg, pending, station, timer, told>>
     \/ /\ startSendMsg' = "sendClientIPMsg"
        /\ pending' = TRUE
        /\ RunClientMode(station, opmode, timer, "startWebClientMode", TRUE)
  /\ started' = None
  /\ UNCHANGED <<up, opmode, flags, stopAP, listening, numNotifies>>

\* checkClientMode of compMsgSendReceive.c, for a message to the cloud.
checkClientMode ==
  /\ up
  /\ Request
  /\ IF "client" \in flags
     THEN /\ startSendMsg' = None
          /\ pending' = FALSE
          /\ started' = "startCloudSocket"
          /\ UNCHANGED <<station, timer, told>>
     ELSE /\ startSendMsg' = "startCloudSocket"
          /\ pending' = TRUE
          /\ started' = None
          /\ RunClientMode(station, opmode, timer, "startNetClientMode", TRUE)
  /\ UNCHANGED <<up, opmode, flags, stopAP, listening, numNotifies>>

----------------------------------------------------------------------------
(* The timers.  A poll that finds neither a failure nor an address changes *)
(* nothing; it is a stuttering step.                                       *)

\* A failed station ends every poll, the one for the access point too.
checkConnectionStatus_Failed(t) ==
  /\ timer[t].armed
  /\ timer[t].fcn # "sendSSDPInfo"
  /\ station = "failed"
  /\ timer' = Disarm(timer, t)
  /\ told' = TRUE
  /\ started' = None
  /\ UNCHANGED <<up, station, opmode, flags, stopAP, startSendMsg, listening,
                 numNotifies, pending, requests, losses>>

\* The end of checkConnectionStatus for a slot of the station, whose address
\* is known exactly when it is connected: the notifications follow up.
StationOnline(t, fcn) ==
  /\ timer[t].armed
  /\ timer[t].fcn = fcn
  /\ station = "gotIp"
  /\ timer' = startConnectionTimer(Disarm(timer, t), SSDPTimer, "sendSSDPInfo")
  /\ flags' = flags \cup {"client"}
  /\ UNCHANGED <<up, station, opmode, numNotifies, told, requests, losses>>

\* What the function behind startSendMsg does to the state of this module.
\* Only two of them clear the pointer.
CallStartSendMsg ==
  /\ started' = startSendMsg
  /\ pending' = FALSE
  /\ startSendMsg' = IF startSendMsg \in Updates THEN startSendMsg ELSE None
  /\ stopAP' = (stopAP \/ startSendMsg = "sendClientIPMsg")

startNetClientMode ==
  /\ StationOnline(ClientTimer, "startNetClientMode")
  /\ listening' = listening \cup {"net"}
  /\ CallStartSendMsg

\* Does not call startSendMsg.
startWebClientMode ==
  /\ StationOnline(ClientTimer, "startWebClientMode")
  /\ listening' = listening \cup {"web"}
  /\ started' = None
  /\ UNCHANGED <<stopAP, startSendMsg, pending>>

\* Mutant: the address of the station is looked at.
startAccessPoint_StationAddress ==
  /\ timer[APTimer].armed
  /\ station = "gotIp"
  /\ timer' = Disarm(timer, APTimer)
  /\ flags' = flags \cup {"accessPoint"}
  /\ listening' = listening \cup {"accessPoint"}
  /\ started' = None
  /\ UNCHANGED <<up, station, opmode, stopAP, startSendMsg, numNotifies,
                 pending, told, requests, losses>>

\* The address looked at is the one of the access point.
startAccessPoint ==
  /\ timer[APTimer].armed
  /\ station # "failed"
  /\ opmode = "stationAp"
  /\ timer' = Disarm(timer, APTimer)
  /\ flags' = flags \cup {"accessPoint"}
  /\ listening' = listening \cup {"accessPoint"}
  /\ started' = None
  /\ UNCHANGED <<up, station, opmode, stopAP, startSendMsg, numNotifies,
                 pending, told, requests, losses>>

\* Mutant: the limit is off by one.
sendSSDPInfo_OffByOne ==
  /\ timer[SSDPTimer].armed
  /\ numNotifies' = numNotifies + 1
  /\ timer' = IF numNotifies' > NotifyLimit + 1 THEN Disarm(timer, SSDPTimer)
              ELSE timer
  /\ started' = None
  /\ UNCHANGED <<up, station, opmode, flags, stopAP, startSendMsg, listening,
                 pending, told, requests, losses>>

\* ssdpSud is set from the first notification on.
sendSSDPInfo ==
  /\ timer[SSDPTimer].armed
  /\ numNotifies' = IF numNotifies > NotifyLimit THEN numNotifies
                    ELSE numNotifies + 1
  /\ timer' = IF numNotifies' > NotifyLimit THEN Disarm(timer, SSDPTimer)
              ELSE timer
  /\ started' = None
  /\ UNCHANGED <<up, station, opmode, flags, stopAP, startSendMsg, listening,
                 pending, told, requests, losses>>

\* socketSent of compMsgWebSocket.c with stopAccessPoint: a web socket has
\* sent its answer; the result of wifi_set_opmode is not looked at.
socketSent ==
  /\ stopAP
  /\ listening \cap {"web", "accessPoint"} # {}
  /\ stopAP' = FALSE
  /\ opmode' \in {opmode, "station"}
  /\ started' = None
  /\ UNCHANGED <<up, station, timer, flags, startSendMsg, listening,
                 numNotifies, pending, told, requests, losses>>

----------------------------------------------------------------------------
(* The surroundings.                                                       *)

\* The SDK reports how an attempt to connect ended.
StationResult ==
  /\ station = "connecting"
  /\ station' \in {"gotIp", "failed"}
  /\ started' = None
  /\ UNCHANGED <<up, opmode, timer, flags, stopAP, startSendMsg, listening,
                 numNotifies, pending, told, requests, losses>>

\* The router is gone, or the SDK tries again.
StationLost ==
  /\ station \in {"gotIp", "failed"}
  /\ losses < MaxLosses
  /\ losses' = losses + 1
  /\ station' = "connecting"
  /\ started' = None
  /\ UNCHANGED <<up, opmode, timer, flags, stopAP, startSendMsg, listening,
                 numNotifies, pending, told, requests>>

\* Power failure, or the restart at the end of an update.
Restart ==
  /\ up
  /\ Request
  /\ up' = FALSE
  /\ station' \in AtPowerUp(opmode)
  /\ timer' = initTimers
  /\ flags' = {}
  /\ stopAP' = FALSE
  /\ startSendMsg' = None
  /\ listening' = {}
  /\ numNotifies' = 0
  /\ pending' = FALSE
  /\ told' = FALSE
  /\ started' = None
  /\ UNCHANGED opmode

----------------------------------------------------------------------------
Requests ==
  \/ initDispatcher
  \/ initDispatcher_Fails
  \/ initDispatcher_L
  \/ initDispatcher_N
  \/ \E job \in Updates : initDispatcher_O(job)
  \/ initDispatcher_S
  \/ initDispatcher_W
  \/ initDispatcher_C
  \/ createDispatcher
  \/ runClientMode
  \/ runAPMode
  \/ connectToAP
  \/ checkClientMode

TimerCallbacks ==
  \/ \E t \in TimerIds : checkConnectionStatus_Failed(t)
  \/ startNetClientMode
  \/ startWebClientMode
  \/ startAccessPoint
  \/ sendSSDPInfo

Surroundings == socketSent \/ StationResult \/ StationLost \/ Restart

Next == Requests \/ TimerCallbacks \/ Surroundings

\* An armed timer fires again and again, and the SDK ends every attempt to
\* connect; requests, losses and restarts are owed to nobody.
Fairness ==
  /\ \A t \in TimerIds : WF_vars(checkConnectionStatus_Failed(t))
  /\ WF_vars(startNetClientMode)
  /\ WF_vars(startWebClientMode)
  /\ WF_vars(startAccessPoint)
  /\ WF_vars(sendSSDPInfo)
  /\ WF_vars(StationResult)

Spec == Init /\ [][Next]_vars /\ Fairness

----------------------------------------------------------------------------
\* Type invariant.
TypeOK ==
  /\ up \in BOOLEAN
  /\ station \in {"idle", "connecting", "failed", "gotIp"}
  /\ opmode \in {"station", "stationAp", "null"}
  /\ timer \in [TimerIds -> compMsgTimerSlot]
  /\ flags \subseteq {"client", "accessPoint", "ssdp"}
  /\ stopAP \in BOOLEAN
  /\ startSendMsg \in Jobs \cup {None}
  /\ listening \subseteq {"net", "web", "accessPoint"}
  /\ numNotifies \in 0 .. NotifyLimit + 1
  /\ pending \in BOOLEAN
  /\ told \in BOOLEAN
  /\ started \in Jobs \cup {None}
  /\ requests \in 0 .. MaxRequests
  /\ losses \in 0 .. MaxLosses

\* What each slot is for.
Purpose(t, fcn) ==
  \/ t = APTimer     /\ fcn = "startAccessPoint"
  \/ t = SSDPTimer   /\ fcn = "sendSSDPInfo"
  \/ t = ClientTimer /\ fcn \in {"startNetClientMode", "startWebClientMode"}

\* The mode kept in a slot tells whether the SDK's timer is armed.  By that
\* mode alone startConnectionTimer decides whether to disarm before it calls
\* ets_timer_setfn, which must not touch a timer in the SDK's list; a slot
\* that runs also has the function of its purpose.
TimerModeIsTrue ==
  \A t \in TimerIds :
    /\ timer[t].armed <=> timer[t].mode = "auto"
    /\ timer[t].armed => Purpose(t, timer[t].fcn)

\* The update or the cloud message that was put off last is awaited: until
\* its function is called, either the timer that will call it runs, or the
\* failure has been reported.  Of a request that another one has replaced
\* this says nothing: the code drops it without a word.
LastPutOffWorkAwaited ==
  pending /\ startSendMsg # "sendClientIPMsg" =>
    \/ told
    \/ timer[ClientTimer].armed /\ timer[ClientTimer].fcn = "startNetClientMode"

\* An update is started with the station connected, although the flag that
\* checkClientMode trusts outlives the connection it stands for.
UpdateStartsOnline ==
  started \in Updates => station = "gotIp"

\* The access point, over which the device is provisioned, is only told to
\* stop when the client mode has been reached since the flags were last reset.
AccessPointStopsAfterClient ==
  stopAP => "client" \in flags

\* Polling for the client mode ends, unless the station is not trying: the
\* access point mode has disconnected it meanwhile, or the WiFi is off since
\* a light sleep.  Nothing connects it again then.
ClientStartEnds ==
  timer[ClientTimer].armed ~>
    (~timer[ClientTimer].armed \/ station = "idle")

\* Polling for the access point ends, unless it is switched off meanwhile.
AccessPointStartEnds ==
  timer[APTimer].armed ~> (~timer[APTimer].armed \/ opmode = "station")

\* The notifications of sendSSDPInfo come to an end.
NotificationsEnd ==
  timer[SSDPTimer].armed ~> ~timer[SSDPTimer].armed

\* No timer slot polls for ever: each of the functions that poll ends with the
\* client mode, the access point, the last notification, or a failure.
PollsEnd == ClientStartEnds /\ AccessPointStartEnds /\ NotificationsEnd

=============================================================================
