-------------------------- MODULE ClientModeProofs -------------------------
(***************************************************************************)
(* Proofs of the safety properties of ClientMode, for every limit and any  *)
(* number of requests and losses.  The conjunction Inv of the type         *)
(* invariant and the properties is inductive.  The conjuncts fall into two *)
(* groups: what a step does to the table of timers, and what it does to    *)
(* the flags and to the work put off.                                      *)
(***************************************************************************)
EXTENDS ClientMode, TLAPS

\* The inductive invariant.
Inv ==
  /\ TypeOK
  /\ TimerModeIsTrue
  /\ LastPutOffWorkAwaited
  /\ UpdateStartsOnline
  /\ AccessPointStopsAfterClient

----------------------------------------------------------------------------
(* The timer table.                                                        *)

\* TimerModeIsTrue of one slot, in a table that need not be the present one.
GoodSlot(t, slot) ==
  /\ slot.armed <=> slot.mode = "auto"
  /\ slot.armed => Purpose(t, slot.fcn)

\* A table of slots that have their type and are good.
GoodTable(slots) ==
  /\ slots \in [TimerIds -> compMsgTimerSlot]
  /\ \A t \in TimerIds : GoodSlot(t, slots[t])

\* TimerModeIsTrue says that every slot is good.
LEMMA GoodTableMeaning ==
  GoodTable(timer) <=>
    timer \in [TimerIds -> compMsgTimerSlot] /\ TimerModeIsTrue
  BY DEF GoodTable, GoodSlot, TimerModeIsTrue

\* A slot that startConnectionTimer has set up is armed with the given
\* function, in the mode of a running timer; the table stays good.
LEMMA StartConnectionTimerLemma ==
  ASSUME NEW slots, GoodTable(slots), NEW t \in TimerIds, NEW f \in Callbacks,
         Purpose(t, f)
  PROVE  /\ GoodTable(startConnectionTimer(slots, t, f))
         /\ startConnectionTimer(slots, t, f)[t]
              = [mode |-> "auto", armed |-> TRUE, fcn |-> f]
         /\ \A u \in TimerIds \ {t} :
              startConnectionTimer(slots, t, f)[u] = slots[u]
<1> DEFINE new  == startConnectionTimer(slots, t, f)
           slot == [mode |-> "auto", armed |-> TRUE, fcn |-> f]
<1>1. slot \in compMsgTimerSlot
  BY DEF compMsgTimerSlot
<1>2. GoodSlot(t, slot)
  BY DEF GoodSlot
<1>3. /\ new \in [TimerIds -> compMsgTimerSlot]
      /\ new[t] = slot
      /\ \A u \in TimerIds \ {t} : new[u] = slots[u]
  BY <1>1 DEF startConnectionTimer, GoodTable
<1>4. \A u \in TimerIds : GoodSlot(u, new[u])
  BY <1>2, <1>3 DEF GoodTable
<1> QED
  BY <1>3, <1>4 DEF GoodTable

\* A slot that is disarmed is idle; the table stays good.
LEMMA DisarmLemma ==
  ASSUME NEW slots, GoodTable(slots), NEW t \in TimerIds
  PROVE  /\ GoodTable(Disarm(slots, t))
         /\ Disarm(slots, t)[t].armed = FALSE
         /\ \A u \in TimerIds \ {t} : Disarm(slots, t)[u] = slots[u]
<1> DEFINE new  == Disarm(slots, t)
           slot == [mode |-> "idle", armed |-> FALSE, fcn |-> slots[t].fcn]
<1>1. slots[t] \in compMsgTimerSlot
  BY DEF GoodTable
<1>2. slot \in compMsgTimerSlot
  BY <1>1 DEF compMsgTimerSlot
<1>3. GoodSlot(t, slot)
  BY DEF GoodSlot
<1>4. /\ new \in [TimerIds -> compMsgTimerSlot]
      /\ new[t] = slot
      /\ \A u \in TimerIds \ {t} : new[u] = slots[u]
  BY <1>2 DEF Disarm, GoodTable
<1>5. \A u \in TimerIds : GoodSlot(u, new[u])
  BY <1>3, <1>4 DEF GoodTable
<1> QED
  BY <1>4, <1>5 DEF GoodTable

\* The table made by initTimers is good and has no armed slot.
LEMMA InitTimersLemma ==
  /\ GoodTable(initTimers)
  /\ \A t \in TimerIds : initTimers[t].armed = FALSE
<1>1. TimerOff \in compMsgTimerSlot /\ TimerOff.armed = FALSE
  BY DEF TimerOff, compMsgTimerSlot
<1>2. \A t \in TimerIds : GoodSlot(t, TimerOff)
  BY DEF GoodSlot, TimerOff
<1> QED
  BY <1>1, <1>2 DEF initTimers, GoodTable

----------------------------------------------------------------------------
(* The mode functions.                                                     *)

Stations == {"idle", "connecting", "failed", "gotIp"}
OpModes  == {"station", "stationAp", "null"}

\* Whether or not a client mode function gets as far as its timer, the table
\* stays good.  If it does not, nothing is armed that was not; the error has
\* been reported if the caller does so.
LEMMA RunClientModeLemma ==
  ASSUME NEW st \in Stations, NEW slots, GoodTable(slots),
         NEW fcn \in {"startNetClientMode", "startWebClientMode"},
         NEW reports \in BOOLEAN, told \in BOOLEAN,
         NEW mode, RunClientMode(st, mode, slots, fcn, reports)
  PROVE  /\ station' \in Stations
         /\ GoodTable(timer')
         /\ told' \in BOOLEAN
         /\ \/ timer' = slots /\ (told' <=> told \/ reports)
            \/ timer'[ClientTimer].armed /\ timer'[ClientTimer].fcn = fcn
<1>1. CASE station' = st /\ timer' = slots /\ told' = (told \/ reports)
  BY <1>1
<1>2. CASE /\ station' \in wifi_station_connect(st, mode)
           /\ timer' = startConnectionTimer(slots, ClientTimer, fcn)
           /\ told' = FALSE
  <2>1. /\ GoodTable(timer')
        /\ timer'[ClientTimer].armed
        /\ timer'[ClientTimer].fcn = fcn
    <3>1. /\ ClientTimer \in TimerIds /\ fcn \in Callbacks
          /\ Purpose(ClientTimer, fcn)
      BY DEF TimerIds, Callbacks, Purpose
    <3>2. /\ GoodTable(startConnectionTimer(slots, ClientTimer, fcn))
          /\ startConnectionTimer(slots, ClientTimer, fcn)[ClientTimer]
               = [mode |-> "auto", armed |-> TRUE, fcn |-> fcn]
      BY <3>1, StartConnectionTimerLemma
    <3> QED
      BY <1>2, <3>2
  <2>2. station' \in Stations
    BY <1>2 DEF wifi_station_connect, Stations
  <2> QED
    BY <1>2, <2>1, <2>2
<1> QED
  BY <1>1, <1>2 DEF RunClientMode

\* The access point mode leaves the station idle and the table good.
LEMMA RunAPModeLemma ==
  ASSUME NEW slots, GoodTable(slots), opmode \in OpModes,
         webSocketRunAPMode(slots)
  PROVE  /\ station' \in Stations
         /\ opmode' \in OpModes
         /\ GoodTable(timer')
         /\ timer'[ClientTimer] = slots[ClientTimer]
         /\ told' = told
<1>1. /\ APTimer \in TimerIds /\ "startAccessPoint" \in Callbacks
      /\ Purpose(APTimer, "startAccessPoint")
      /\ ClientTimer \in TimerIds \ {APTimer}
  BY DEF TimerIds, APTimer, SSDPTimer, ClientTimer, Callbacks, Purpose
<1>2. GoodTable(startConnectionTimer(slots, APTimer, "startAccessPoint"))
  BY <1>1, StartConnectionTimerLemma
<1>3. startConnectionTimer(slots, APTimer, "startAccessPoint")[ClientTimer]
        = slots[ClientTimer]
  BY <1>1 DEF startConnectionTimer, GoodTable
<1> QED
  BY <1>2, <1>3 DEF webSocketRunAPMode, Stations, OpModes

----------------------------------------------------------------------------
(* The invariant.  Work is what it says beside the types and the timers.   *)

Work ==
  /\ LastPutOffWorkAwaited
  /\ UpdateStartsOnline
  /\ AccessPointStopsAfterClient

\* A good table of timers in the next state has its share of the invariant.
LEMMA NextTable ==
  GoodTable(timer') =>
    timer' \in [TimerIds -> compMsgTimerSlot] /\ TimerModeIsTrue'
  BY DEF GoodTable, GoodSlot, TimerModeIsTrue

\* A request is counted up to its bound, and is no loss.
LEMMA RequestCounters ==
  ASSUME TypeOK, Request
  PROVE  requests' \in 0 .. MaxRequests /\ losses' \in 0 .. MaxLosses
  BY LimitsAssumption DEF TypeOK, Request

\* The invariant holds when the device is switched on.
LEMMA InitInv == Init => Inv
<1> SUFFICES ASSUME Init PROVE Inv
  OBVIOUS
<1>1. GoodTable(timer)
  BY InitTimersLemma DEF Init
<1>2. TypeOK
  <2>1. /\ numNotifies \in 0 .. NotifyLimit + 1
        /\ requests \in 0 .. MaxRequests
        /\ losses \in 0 .. MaxLosses
    BY LimitsAssumption DEF Init
  <2>2. startSendMsg \in Jobs \cup {None} /\ started \in Jobs \cup {None}
    BY DEF Init
  <2> QED
    BY <1>1, <2>1, <2>2 DEF Init, AtPowerUp, TypeOK, GoodTable
<1>3. Work
  BY DEF Init, Work, LastPutOffWorkAwaited, UpdateStartsOnline,
         AccessPointStopsAfterClient, Updates, None
<1> QED
  BY <1>1, <1>2, <1>3, GoodTableMeaning DEF Inv, Work

----------------------------------------------------------------------------
(* One lemma per action.                                                   *)

\* Initialising the dispatcher again, with nothing started.
LEMMA initDispatcher_Inv ==
  ASSUME Inv, initDispatcher PROVE Inv'
<1>1. GoodTable(timer)
  BY GoodTableMeaning DEF Inv, TypeOK
<1>2. GoodTable(timer') /\ timer' = initTimers
  BY InitTimersLemma DEF initDispatcher
<1>3. TypeOK'
  <2>1. startSendMsg' \in Jobs \cup {None} /\ started' \in Jobs \cup {None}
    BY DEF Inv, TypeOK, initDispatcher, Jobs, Updates, None
  <2>2. requests' \in 0 .. MaxRequests /\ losses' \in 0 .. MaxLosses
    BY RequestCounters DEF Inv, initDispatcher, Reinit
  <2> QED
    BY <1>2, <2>1, <2>2, NextTable
    DEF Inv, TypeOK, initDispatcher, Reinit, ModeFlagsOfNewDispatcher
<1>4. Work'
  BY <1>1, <1>2
  DEF Inv, TypeOK, initDispatcher, Reinit, ModeFlagsOfNewDispatcher, Work,
      LastPutOffWorkAwaited, UpdateStartsOnline, AccessPointStopsAfterClient,
      Updates, None
<1> QED
  BY <1>2, <1>3, <1>4, NextTable DEF Inv, Work

\* Initialising the dispatcher fails on the way.
LEMMA initDispatcher_Fails_Inv ==
  ASSUME Inv, initDispatcher_Fails PROVE Inv'
<1>1. GoodTable(timer)
  BY GoodTableMeaning DEF Inv, TypeOK
<1>2. GoodTable(timer') /\ timer' \in {timer, initTimers}
  BY <1>1, InitTimersLemma DEF initDispatcher_Fails
<1>3. TypeOK'
  <2>1. startSendMsg' \in Jobs \cup {None} /\ started' \in Jobs \cup {None}
    BY DEF Inv, TypeOK, initDispatcher_Fails, Jobs, Updates, None
  <2>2. requests' \in 0 .. MaxRequests /\ losses' \in 0 .. MaxLosses
    BY RequestCounters DEF Inv, initDispatcher_Fails
  <2> QED
    BY <1>2, <2>1, <2>2, NextTable
    DEF Inv, TypeOK, initDispatcher_Fails, ModeFlagsOfNewDispatcher
<1>4. Work'
  BY <1>1, <1>2
  DEF Inv, TypeOK, initDispatcher_Fails, ModeFlagsOfNewDispatcher, Work,
      LastPutOffWorkAwaited, UpdateStartsOnline, AccessPointStopsAfterClient,
      Updates, None
<1> QED
  BY <1>2, <1>3, <1>4, NextTable DEF Inv, Work

\* Initialising with type 'L': the WiFi goes off and nothing waits for it.
LEMMA initDispatcher_L_Inv ==
  ASSUME Inv, initDispatcher_L PROVE Inv'
<1>1. GoodTable(timer)
  BY GoodTableMeaning DEF Inv, TypeOK
<1>2. GoodTable(timer') /\ timer' = initTimers
  BY InitTimersLemma DEF initDispatcher_L
<1>3. TypeOK'
  <2>1. startSendMsg' \in Jobs \cup {None} /\ started' \in Jobs \cup {None}
    BY DEF Inv, TypeOK, initDispatcher_L, Jobs, Updates, None
  <2>2. requests' \in 0 .. MaxRequests /\ losses' \in 0 .. MaxLosses
    BY RequestCounters DEF Inv, initDispatcher_L, Reinit
  <2> QED
    BY <1>2, <2>1, <2>2, NextTable
    DEF Inv, TypeOK, initDispatcher_L, Reinit, ModeFlagsOfNewDispatcher
<1>4. Work'
  BY <1>1, <1>2
  DEF Inv, TypeOK, initDispatcher_L, Reinit, ModeFlagsOfNewDispatcher, Work,
      LastPutOffWorkAwaited, UpdateStartsOnline, AccessPointStopsAfterClient,
      Updates, None
<1> QED
  BY <1>2, <1>3, <1>4, NextTable DEF Inv, Work

\* Initialising with type 'N'.
LEMMA initDispatcher_N_Inv ==
  ASSUME Inv, initDispatcher_N PROVE Inv'
<1>1. GoodTable(timer)
  BY GoodTableMeaning DEF Inv, TypeOK
<1> DEFINE Outcome ==
             /\ GoodTable(timer') /\ station' \in Stations /\ told' \in BOOLEAN
             /\ \/ timer' = initTimers /\ told'
                \/ /\ timer'[ClientTimer].armed
                   /\ timer'[ClientTimer].fcn = "startNetClientMode"
<1>2. Outcome
  <2>1. RunClientMode(station, opmode, initTimers, "startNetClientMode", TRUE)
    BY DEF initDispatcher_N
  <2>2. station \in Stations /\ told \in BOOLEAN /\ GoodTable(initTimers)
    BY <1>1, InitTimersLemma DEF Inv, TypeOK, Stations
  <2> QED
    BY <2>1, <2>2, RunClientModeLemma
<1>3. TypeOK'
  <2>1. startSendMsg' \in Jobs \cup {None} /\ started' \in Jobs \cup {None}
    BY DEF Inv, TypeOK, initDispatcher_N, Jobs, Updates, None
  <2>2. requests' \in 0 .. MaxRequests /\ losses' \in 0 .. MaxLosses
    BY RequestCounters DEF Inv, initDispatcher_N, Reinit
  <2> QED
    BY <1>2, <2>1, <2>2, NextTable
    DEF Inv, TypeOK, Stations, initDispatcher_N, Reinit,
        ModeFlagsOfNewDispatcher
<1>4. Work'
  BY <1>1, <1>2
  DEF Inv, TypeOK, initDispatcher_N, Reinit, ModeFlagsOfNewDispatcher, Work,
      LastPutOffWorkAwaited, UpdateStartsOnline, AccessPointStopsAfterClient,
      Updates, None
<1> QED
  BY <1>2, <1>3, <1>4, NextTable DEF Inv, Work

\* Initialising with an update: the flags are reset, so it is put off.
LEMMA initDispatcher_O_Inv ==
  ASSUME Inv, NEW job \in Updates, initDispatcher_O(job) PROVE Inv'
<1>1. GoodTable(timer)
  BY GoodTableMeaning DEF Inv, TypeOK
<1> DEFINE Outcome ==
             /\ GoodTable(timer') /\ station' \in Stations /\ told' \in BOOLEAN
             /\ \/ timer' = initTimers /\ told'
                \/ /\ timer'[ClientTimer].armed
                   /\ timer'[ClientTimer].fcn = "startNetClientMode"
<1>2. Outcome
  <2>1. RunClientMode(station, opmode, initTimers, "startNetClientMode", TRUE)
    BY DEF initDispatcher_O, ModeFlagsOfNewDispatcher
  <2>2. station \in Stations /\ told \in BOOLEAN /\ GoodTable(initTimers)
    BY <1>1, InitTimersLemma DEF Inv, TypeOK, Stations
  <2> QED
    BY <2>1, <2>2, RunClientModeLemma
<1>3. TypeOK'
  <2>1. startSendMsg' \in Jobs \cup {None} /\ started' \in Jobs \cup {None}
    BY DEF Inv, TypeOK, initDispatcher_O, Jobs, Updates, None
  <2>2. requests' \in 0 .. MaxRequests /\ losses' \in 0 .. MaxLosses
    BY RequestCounters DEF Inv, initDispatcher_O, Reinit
  <2> QED
    BY <1>2, <2>1, <2>2, NextTable
    DEF Inv, TypeOK, Stations, initDispatcher_O, Reinit,
        ModeFlagsOfNewDispatcher
<1>4. Work'
  BY <1>1, <1>2
  DEF Inv, TypeOK, initDispatcher_O, Reinit, ModeFlagsOfNewDispatcher, Work,
      LastPutOffWorkAwaited, UpdateStartsOnline, AccessPointStopsAfterClient,
      Updates, None
<1> QED
  BY <1>2, <1>3, <1>4, NextTable DEF Inv, Work

\* Initialising with type 'S'.
LEMMA initDispatcher_S_Inv ==
  ASSUME Inv, initDispatcher_S PROVE Inv'
<1>1. GoodTable(timer)
  BY GoodTableMeaning DEF Inv, TypeOK
<1> DEFINE Outcome ==
             /\ GoodTable(timer') /\ station' \in Stations /\ told' \in BOOLEAN
             /\ \/ timer' = initTimers /\ told'
                \/ /\ timer'[ClientTimer].armed
                   /\ timer'[ClientTimer].fcn = "startNetClientMode"
<1>2. Outcome
  <2>1. RunClientMode("idle", opmode', initTimers, "startNetClientMode", TRUE)
    BY DEF initDispatcher_S
  <2>2. "idle" \in Stations /\ told \in BOOLEAN /\ GoodTable(initTimers)
    BY <1>1, InitTimersLemma DEF Inv, TypeOK, Stations
  <2> QED
    BY <2>1, <2>2, RunClientModeLemma
<1>3. TypeOK'
  <2>1. startSendMsg' \in Jobs \cup {None} /\ started' \in Jobs \cup {None}
    BY DEF Inv, TypeOK, initDispatcher_S, Jobs, Updates, None
  <2>2. requests' \in 0 .. MaxRequests /\ losses' \in 0 .. MaxLosses
    BY RequestCounters DEF Inv, initDispatcher_S, Reinit
  <2> QED
    BY <1>2, <2>1, <2>2, NextTable
    DEF Inv, TypeOK, Stations, initDispatcher_S, Reinit,
        ModeFlagsOfNewDispatcher
<1>4. Work'
  BY <1>1, <1>2
  DEF Inv, TypeOK, initDispatcher_S, Reinit, ModeFlagsOfNewDispatcher, Work,
      LastPutOffWorkAwaited, UpdateStartsOnline, AccessPointStopsAfterClient,
      Updates, None
<1> QED
  BY <1>2, <1>3, <1>4, NextTable DEF Inv, Work

\* Initialising with type 'W'.
LEMMA initDispatcher_W_Inv ==
  ASSUME Inv, initDispatcher_W PROVE Inv'
<1>1. GoodTable(timer)
  BY GoodTableMeaning DEF Inv, TypeOK
<1>2. /\ GoodTable(timer') /\ station' \in Stations
      /\ opmode' \in OpModes
      /\ timer'[ClientTimer] = initTimers[ClientTimer] /\ told' = told
  <2>1. webSocketRunAPMode(initTimers) /\ opmode \in OpModes
    BY DEF initDispatcher_W, Inv, TypeOK, OpModes
  <2>2. GoodTable(initTimers)
    BY <1>1, InitTimersLemma
  <2> QED
    BY <2>1, <2>2, RunAPModeLemma
<1>3. TypeOK'
  <2>1. startSendMsg' \in Jobs \cup {None} /\ started' \in Jobs \cup {None}
    BY DEF Inv, TypeOK, initDispatcher_W, Jobs, Updates, None
  <2>2. requests' \in 0 .. MaxRequests /\ losses' \in 0 .. MaxLosses
    BY RequestCounters DEF Inv, initDispatcher_W, Reinit
  <2> QED
    BY <1>2, <2>1, <2>2, NextTable
    DEF Inv, TypeOK, Stations, OpModes, initDispatcher_W, Reinit,
        ModeFlagsOfNewDispatcher
<1>4. Work'
  BY <1>1, <1>2
  DEF Inv, TypeOK, initDispatcher_W, Reinit, ModeFlagsOfNewDispatcher, Work,
      LastPutOffWorkAwaited, UpdateStartsOnline, AccessPointStopsAfterClient,
      Updates, None
<1> QED
  BY <1>2, <1>3, <1>4, NextTable DEF Inv, Work

\* Initialising with type 'C'.
LEMMA initDispatcher_C_Inv ==
  ASSUME Inv, initDispatcher_C PROVE Inv'
<1>1. GoodTable(timer)
  BY GoodTableMeaning DEF Inv, TypeOK
<1>2. GoodTable(timer') /\ timer' = initTimers
  BY InitTimersLemma DEF initDispatcher_C
<1>3. TypeOK'
  <2>1. startSendMsg' \in Jobs \cup {None} /\ started' \in Jobs \cup {None}
    BY DEF Inv, TypeOK, initDispatcher_C, Jobs, Updates, None
  <2>2. requests' \in 0 .. MaxRequests /\ losses' \in 0 .. MaxLosses
    BY RequestCounters DEF Inv, initDispatcher_C, Reinit
  <2> QED
    BY <1>2, <2>1, <2>2, NextTable
    DEF Inv, TypeOK, initDispatcher_C, Reinit, ModeFlagsOfNewDispatcher
<1>4. Work'
  BY <1>1, <1>2
  DEF Inv, TypeOK, initDispatcher_C, Reinit, ModeFlagsOfNewDispatcher, Work,
      LastPutOffWorkAwaited, UpdateStartsOnline, AccessPointStopsAfterClient,
      Updates, None
<1> QED
  BY <1>2, <1>3, <1>4, NextTable DEF Inv, Work

\* A further dispatcher.
LEMMA createDispatcher_Inv ==
  ASSUME Inv, createDispatcher PROVE Inv'
<1>1. GoodTable(timer)
  BY GoodTableMeaning DEF Inv, TypeOK
<1>2. GoodTable(timer') /\ timer' = timer
  BY <1>1 DEF createDispatcher
<1>3. TypeOK'
  <2>1. startSendMsg' \in Jobs \cup {None} /\ started' \in Jobs \cup {None}
    BY DEF Inv, TypeOK, createDispatcher, Jobs, Updates, None
  <2>2. requests' \in 0 .. MaxRequests /\ losses' \in 0 .. MaxLosses
    BY RequestCounters DEF Inv, createDispatcher
  <2> QED
    BY <1>2, <2>1, <2>2, NextTable
    DEF Inv, TypeOK, createDispatcher, ModeFlagsOfNewDispatcher
<1>4. Work'
  BY <1>1, <1>2
  DEF Inv, TypeOK, createDispatcher, ModeFlagsOfNewDispatcher, Work,
      LastPutOffWorkAwaited, UpdateStartsOnline, AccessPointStopsAfterClient,
      Updates, None
<1> QED
  BY <1>2, <1>3, <1>4, NextTable DEF Inv, Work

\* The action runClientMode, which reports no error.
LEMMA runClientMode_Inv ==
  ASSUME Inv, runClientMode PROVE Inv'
<1>1. GoodTable(timer)
  BY GoodTableMeaning DEF Inv, TypeOK
<1> DEFINE Outcome ==
             /\ GoodTable(timer') /\ station' \in Stations /\ told' \in BOOLEAN
             /\ \/ timer' = timer /\ (told' <=> told)
                \/ /\ timer'[ClientTimer].armed
                   /\ timer'[ClientTimer].fcn = "startNetClientMode"
<1>2. Outcome
  <2>1. RunClientMode(station, opmode, timer, "startNetClientMode", FALSE)
    BY DEF runClientMode
  <2>2. station \in Stations /\ told \in BOOLEAN /\ GoodTable(timer)
    BY <1>1, InitTimersLemma DEF Inv, TypeOK, Stations
  <2> QED
    BY <2>1, <2>2, RunClientModeLemma
<1>3. TypeOK'
  BY <1>2, NextTable, LimitsAssumption
  DEF Inv, Request, Stations, runClientMode, TypeOK, Jobs, Updates, None
<1>4. Work'
  BY <1>1, <1>2
  DEF Inv, TypeOK, runClientMode, Work, LastPutOffWorkAwaited,
      UpdateStartsOnline, AccessPointStopsAfterClient, Updates, None
<1> QED
  BY <1>2, <1>3, <1>4, NextTable DEF Inv, Work

\* The action runAPMode: the station is lost, the client's timer goes on.
LEMMA runAPMode_Inv ==
  ASSUME Inv, runAPMode PROVE Inv'
<1>1. GoodTable(timer)
  BY GoodTableMeaning DEF Inv, TypeOK
<1>2. /\ GoodTable(timer') /\ station' \in Stations
      /\ opmode' \in OpModes
      /\ timer'[ClientTimer] = timer[ClientTimer] /\ told' = told
  <2>1. webSocketRunAPMode(timer) /\ opmode \in OpModes
    BY DEF runAPMode, Inv, TypeOK, OpModes
  <2>2. GoodTable(timer)
    BY <1>1, InitTimersLemma
  <2> QED
    BY <2>1, <2>2, RunAPModeLemma
<1>3. TypeOK'
  BY <1>2, NextTable, LimitsAssumption
  DEF Inv, Request, Stations, OpModes, runAPMode, TypeOK, Jobs, Updates, None
<1>4. Work'
  BY <1>1, <1>2
  DEF Inv, TypeOK, runAPMode, Work, LastPutOffWorkAwaited, UpdateStartsOnline,
      AccessPointStopsAfterClient, Updates, None
<1> QED
  BY <1>2, <1>3, <1>4, NextTable DEF Inv, Work

\* A provisioning request; the answer it puts off is the one nobody waits for.
LEMMA connectToAP_Inv ==
  ASSUME Inv, connectToAP PROVE Inv'
<1>1. GoodTable(timer)
  BY GoodTableMeaning DEF Inv, TypeOK
<1>2. GoodTable(timer') /\ station' \in Stations /\ told' \in BOOLEAN
  <2>1. CASE UNCHANGED <<startSendMsg, pending, station, timer, told>>
    BY <1>1, <2>1 DEF Inv, TypeOK, Stations
  <2>2. CASE RunClientMode(station, opmode, timer, "startWebClientMode", TRUE)
    <3>1. station \in Stations /\ told \in BOOLEAN
      BY DEF Inv, TypeOK, Stations
    <3> QED
      BY <1>1, <2>2, <3>1, RunClientModeLemma
  <2> QED
    BY <2>1, <2>2 DEF connectToAP
<1>3. TypeOK'
  <2>1. startSendMsg' \in Jobs \cup {None} /\ started' \in Jobs \cup {None}
    BY DEF Inv, TypeOK, connectToAP, Jobs, Updates, None
  <2>2. requests' \in 0 .. MaxRequests /\ losses' \in 0 .. MaxLosses
    BY RequestCounters DEF Inv, connectToAP
  <2> QED
    BY <1>2, <2>1, <2>2, NextTable DEF Inv, TypeOK, Stations, connectToAP
<1>4. Work'
  <2>1. /\ started' = None /\ UNCHANGED <<flags, stopAP>>
        /\ \/ UNCHANGED <<startSendMsg, pending, timer, told>>
           \/ startSendMsg' = "sendClientIPMsg"
    BY DEF connectToAP
  <2>2. LastPutOffWorkAwaited'
    BY <2>1 DEF Inv, LastPutOffWorkAwaited
  <2>3. UpdateStartsOnline' /\ AccessPointStopsAfterClient'
    BY <2>1
    DEF Inv, UpdateStartsOnline, AccessPointStopsAfterClient, Updates, None
  <2> QED
    BY <2>2, <2>3 DEF Work
<1> QED
  BY <1>2, <1>3, <1>4, NextTable DEF Inv, Work

\* A message to the cloud, sent or put off.
LEMMA checkClientMode_Inv ==
  ASSUME Inv, checkClientMode PROVE Inv'
<1>1. GoodTable(timer)
  BY GoodTableMeaning DEF Inv, TypeOK
<1> DEFINE Outcome ==
             \/ timer' = timer /\ told'
             \/ /\ timer'[ClientTimer].armed
                /\ timer'[ClientTimer].fcn = "startNetClientMode"
<1>2. /\ GoodTable(timer') /\ station' \in Stations /\ told' \in BOOLEAN
      /\ "client" \in flags \/ Outcome
  <2>1. CASE "client" \in flags
    BY <1>1, <2>1 DEF Inv, TypeOK, Stations, checkClientMode
  <2>2. CASE "client" \notin flags
    <3>1. RunClientMode(station, opmode, timer, "startNetClientMode", TRUE)
      BY <2>2 DEF checkClientMode
    <3>2. station \in Stations /\ told \in BOOLEAN
      BY DEF Inv, TypeOK, Stations
    <3> QED
      BY <1>1, <3>1, <3>2, RunClientModeLemma
  <2> QED
    BY <2>1, <2>2
<1>3. TypeOK'
  <2>1. startSendMsg' \in Jobs \cup {None} /\ started' \in Jobs \cup {None}
    BY DEF Inv, TypeOK, checkClientMode, Jobs, Updates, None
  <2>2. requests' \in 0 .. MaxRequests /\ losses' \in 0 .. MaxLosses
    BY RequestCounters DEF Inv, checkClientMode
  <2> QED
    BY <1>2, <2>1, <2>2, NextTable DEF Inv, TypeOK, Stations, checkClientMode
<1>4. Work'
  BY <1>1, <1>2
  DEF Inv, TypeOK, checkClientMode, Work, LastPutOffWorkAwaited,
      UpdateStartsOnline, AccessPointStopsAfterClient, Updates, None
<1> QED
  BY <1>2, <1>3, <1>4, NextTable DEF Inv, Work

\* A poll that finds a failure, and reports it.
LEMMA checkConnectionStatus_Failed_Inv ==
  ASSUME Inv, NEW t \in TimerIds, checkConnectionStatus_Failed(t) PROVE Inv'
<1>1. GoodTable(timer)
  BY GoodTableMeaning DEF Inv, TypeOK
<1>2. GoodTable(timer') /\ told'
  BY <1>1, DisarmLemma DEF checkConnectionStatus_Failed
<1>3. TypeOK'
  BY <1>2, NextTable, LimitsAssumption
  DEF Inv, checkConnectionStatus_Failed, TypeOK, Jobs, Updates, None
<1>4. Work'
  BY <1>1, <1>2
  DEF Inv, TypeOK, checkConnectionStatus_Failed, Work, LastPutOffWorkAwaited,
      UpdateStartsOnline, AccessPointStopsAfterClient, Updates, None
<1> QED
  BY <1>2, <1>3, <1>4, NextTable DEF Inv, Work

\* The client mode is reached: the work put off is started, so none waits.
LEMMA startNetClientMode_Inv ==
  ASSUME Inv, startNetClientMode PROVE Inv'
<1>1. GoodTable(timer)
  BY GoodTableMeaning DEF Inv, TypeOK
<1>2. GoodTable(timer')
  <2>1. /\ ClientTimer \in TimerIds /\ SSDPTimer \in TimerIds
        /\ "sendSSDPInfo" \in Callbacks /\ Purpose(SSDPTimer, "sendSSDPInfo")
    BY DEF TimerIds, Callbacks, Purpose
  <2>2. GoodTable(Disarm(timer, ClientTimer))
    BY <1>1, <2>1, DisarmLemma
  <2>3. GoodTable(startConnectionTimer(Disarm(timer, ClientTimer), SSDPTimer,
                                       "sendSSDPInfo"))
    BY <2>1, <2>2, StartConnectionTimerLemma
  <2> QED
    BY <2>3 DEF startNetClientMode, StationOnline
<1>3. TypeOK'
  BY <1>2, NextTable, LimitsAssumption
  DEF Inv, startNetClientMode, TypeOK, Jobs, Updates, None, StationOnline,
      CallStartSendMsg
<1>4. Work'
  BY <1>1, <1>2
  DEF Inv, TypeOK, startNetClientMode, Work, LastPutOffWorkAwaited,
      UpdateStartsOnline, AccessPointStopsAfterClient, Updates, None,
      StationOnline, CallStartSendMsg
<1> QED
  BY <1>2, <1>3, <1>4, NextTable DEF Inv, Work

\* The web client mode is reached; no other work waited for its timer.
LEMMA startWebClientMode_Inv ==
  ASSUME Inv, startWebClientMode PROVE Inv'
<1>1. GoodTable(timer)
  BY GoodTableMeaning DEF Inv, TypeOK
<1>2. GoodTable(timer')
  <2>1. /\ ClientTimer \in TimerIds /\ SSDPTimer \in TimerIds
        /\ "sendSSDPInfo" \in Callbacks /\ Purpose(SSDPTimer, "sendSSDPInfo")
    BY DEF TimerIds, Callbacks, Purpose
  <2>2. GoodTable(Disarm(timer, ClientTimer))
    BY <1>1, <2>1, DisarmLemma
  <2>3. GoodTable(startConnectionTimer(Disarm(timer, ClientTimer), SSDPTimer,
                                       "sendSSDPInfo"))
    BY <2>1, <2>2, StartConnectionTimerLemma
  <2> QED
    BY <2>3 DEF startWebClientMode, StationOnline
<1>3. TypeOK'
  BY <1>2, NextTable, LimitsAssumption
  DEF Inv, startWebClientMode, TypeOK, Jobs, Updates, None, StationOnline
<1>4. Work'
  BY <1>1, <1>2
  DEF Inv, TypeOK, startWebClientMode, Work, LastPutOffWorkAwaited,
      UpdateStartsOnline, AccessPointStopsAfterClient, Updates, None,
      StationOnline
<1> QED
  BY <1>2, <1>3, <1>4, NextTable DEF Inv, Work

\* The access point is reached.
LEMMA startAccessPoint_Inv ==
  ASSUME Inv, startAccessPoint PROVE Inv'
<1>1. GoodTable(timer)
  BY GoodTableMeaning DEF Inv, TypeOK
<1>2. GoodTable(timer') /\ timer'[ClientTimer] = timer[ClientTimer]
  <2>1. APTimer \in TimerIds /\ ClientTimer \in TimerIds \ {APTimer}
    BY DEF TimerIds, APTimer, SSDPTimer, ClientTimer
  <2>2. GoodTable(timer')
    BY <1>1, <2>1, DisarmLemma DEF startAccessPoint
  <2>3. timer'[ClientTimer] = timer[ClientTimer]
    BY <1>1, <2>1 DEF startAccessPoint, Disarm, GoodTable
  <2> QED
    BY <2>2, <2>3
<1>3. TypeOK'
  BY <1>2, NextTable, LimitsAssumption
  DEF Inv, startAccessPoint, TypeOK, Jobs, Updates, None
<1>4. Work'
  BY <1>1, <1>2
  DEF Inv, TypeOK, startAccessPoint, Work, LastPutOffWorkAwaited,
      UpdateStartsOnline, AccessPointStopsAfterClient, Updates, None
<1> QED
  BY <1>2, <1>3, <1>4, NextTable DEF Inv, Work

\* A notification; the counter stops one above its limit.
LEMMA sendSSDPInfo_Inv ==
  ASSUME Inv, sendSSDPInfo PROVE Inv'
<1>1. GoodTable(timer)
  BY GoodTableMeaning DEF Inv, TypeOK
<1>2. GoodTable(timer') /\ timer'[ClientTimer] = timer[ClientTimer]
  <2>1. SSDPTimer \in TimerIds /\ ClientTimer \in TimerIds \ {SSDPTimer}
    BY DEF TimerIds, APTimer, SSDPTimer, ClientTimer
  <2>2. timer' = timer \/ timer' = Disarm(timer, SSDPTimer)
    BY DEF sendSSDPInfo
  <2>3. GoodTable(Disarm(timer, SSDPTimer))
    BY <1>1, <2>1, DisarmLemma
  <2>4. Disarm(timer, SSDPTimer)[ClientTimer] = timer[ClientTimer]
    BY <1>1, <2>1 DEF Disarm, GoodTable
  <2> QED
    BY <1>1, <2>2, <2>3, <2>4
<1>3. TypeOK'
  BY <1>2, NextTable, LimitsAssumption
  DEF Inv, sendSSDPInfo, TypeOK, Jobs, Updates, None
<1>4. Work'
  BY <1>1, <1>2
  DEF Inv, TypeOK, sendSSDPInfo, Work, LastPutOffWorkAwaited,
      UpdateStartsOnline, AccessPointStopsAfterClient, Updates, None
<1> QED
  BY <1>2, <1>3, <1>4, NextTable DEF Inv, Work

\* The access point is stopped.
LEMMA socketSent_Inv ==
  ASSUME Inv, socketSent PROVE Inv'
<1>1. GoodTable(timer)
  BY GoodTableMeaning DEF Inv, TypeOK
<1>2. GoodTable(timer') /\ timer' = timer
  BY <1>1 DEF socketSent
<1>3. TypeOK'
  BY <1>2, NextTable, LimitsAssumption
  DEF Inv, socketSent, TypeOK, Jobs, Updates, None
<1>4. Work'
  BY <1>1, <1>2
  DEF Inv, TypeOK, socketSent, Work, LastPutOffWorkAwaited, UpdateStartsOnline,
      AccessPointStopsAfterClient, Updates, None
<1> QED
  BY <1>2, <1>3, <1>4, NextTable DEF Inv, Work

\* An attempt to connect ends.
LEMMA StationResult_Inv ==
  ASSUME Inv, StationResult PROVE Inv'
<1>1. GoodTable(timer)
  BY GoodTableMeaning DEF Inv, TypeOK
<1>2. GoodTable(timer') /\ timer' = timer
  BY <1>1 DEF StationResult
<1>3. TypeOK'
  BY <1>2, NextTable, LimitsAssumption
  DEF Inv, StationResult, TypeOK, Jobs, Updates, None
<1>4. Work'
  BY <1>1, <1>2
  DEF Inv, TypeOK, StationResult, Work, LastPutOffWorkAwaited,
      UpdateStartsOnline, AccessPointStopsAfterClient, Updates, None
<1> QED
  BY <1>2, <1>3, <1>4, NextTable DEF Inv, Work

\* A connection is lost.
LEMMA StationLost_Inv ==
  ASSUME Inv, StationLost PROVE Inv'
<1>1. GoodTable(timer)
  BY GoodTableMeaning DEF Inv, TypeOK
<1>2. GoodTable(timer') /\ timer' = timer
  BY <1>1 DEF StationLost
<1>3. TypeOK'
  BY <1>2, NextTable, LimitsAssumption
  DEF Inv, StationLost, TypeOK, Jobs, Updates, None
<1>4. Work'
  BY <1>1, <1>2
  DEF Inv, TypeOK, StationLost, Work, LastPutOffWorkAwaited, UpdateStartsOnline,
      AccessPointStopsAfterClient, Updates, None
<1> QED
  BY <1>2, <1>3, <1>4, NextTable DEF Inv, Work

\* A restart.
LEMMA Restart_Inv ==
  ASSUME Inv, Restart PROVE Inv'
<1>1. GoodTable(timer)
  BY GoodTableMeaning DEF Inv, TypeOK
<1>2. GoodTable(timer') /\ timer' = initTimers
  BY InitTimersLemma DEF Restart
<1>3. TypeOK'
  <2>1. startSendMsg' \in Jobs \cup {None} /\ started' \in Jobs \cup {None}
    BY DEF Inv, TypeOK, Restart, Jobs, Updates, None
  <2>2. requests' \in 0 .. MaxRequests /\ losses' \in 0 .. MaxLosses
    BY RequestCounters DEF Inv, Restart
  <2>3. numNotifies' \in 0 .. NotifyLimit + 1
    BY LimitsAssumption DEF Restart
  <2> QED
    BY <1>2, <2>1, <2>2, NextTable, <2>3 DEF Inv, TypeOK, Restart, AtPowerUp
<1>4. Work'
  BY <1>1, <1>2
  DEF Inv, TypeOK, Restart, Work, LastPutOffWorkAwaited, UpdateStartsOnline,
      AccessPointStopsAfterClient, Updates, None
<1> QED
  BY <1>2, <1>3, <1>4, NextTable DEF Inv, Work

\* Every step preserves the invariant.
LEMMA NextInv == Inv /\ [Next]_vars => Inv'
<1> SUFFICES ASSUME Inv, [Next]_vars PROVE Inv'
  OBVIOUS
<1>1. CASE Requests
  BY <1>1, initDispatcher_Inv, initDispatcher_Fails_Inv, initDispatcher_L_Inv,
     initDispatcher_N_Inv, initDispatcher_O_Inv, initDispatcher_S_Inv,
     initDispatcher_W_Inv, initDispatcher_C_Inv, createDispatcher_Inv,
     runClientMode_Inv, runAPMode_Inv, connectToAP_Inv,
     checkClientMode_Inv
     DEF Requests
<1>2. CASE TimerCallbacks
  BY <1>2, checkConnectionStatus_Failed_Inv, startNetClientMode_Inv,
     startWebClientMode_Inv, startAccessPoint_Inv, sendSSDPInfo_Inv
     DEF TimerCallbacks
<1>3. CASE Surroundings
  BY <1>3, socketSent_Inv, StationResult_Inv, StationLost_Inv, Restart_Inv
     DEF Surroundings
<1>4. CASE UNCHANGED vars
  BY <1>4 DEF vars, Inv, TypeOK, TimerModeIsTrue, LastPutOffWorkAwaited,
              UpdateStartsOnline, AccessPointStopsAfterClient
<1> QED
  BY <1>1, <1>2, <1>3, <1>4 DEF Next

----------------------------------------------------------------------------
\* The invariant holds throughout, for every limit and bound.
THEOREM ClientInvariance == Spec => []Inv
  BY InitInv, NextInv, PTL DEF Spec

\* The variables keep their types; the notification counter stays within its
\* limit however often the client mode is started.
THEOREM ClientTypeCorrect == Spec => []TypeOK
<1>1. Inv => TypeOK
  BY DEF Inv
<1> QED
  BY <1>1, ClientInvariance, PTL

\* startConnectionTimer never calls ets_timer_setfn on an armed timer, as its
\* test of the mode intends.
THEOREM TimerModesTrue == Spec => []TimerModeIsTrue
<1>1. Inv => TimerModeIsTrue
  BY DEF Inv
<1> QED
  BY <1>1, ClientInvariance, PTL

\* The update or cloud message put off last by checkClientMode is never left
\* with neither a timer that will start it nor a report of its failure.
THEOREM LastPutOffWorkIsAwaited == Spec => []LastPutOffWorkAwaited
<1>1. Inv => LastPutOffWorkAwaited
  BY DEF Inv
<1> QED
  BY <1>1, ClientInvariance, PTL

\* checkClientMode of compMsgOta.c never starts an update offline.
THEOREM UpdatesStartOnline == Spec => []UpdateStartsOnline
<1>1. Inv => UpdateStartsOnline
  BY DEF Inv
<1> QED
  BY <1>1, ClientInvariance, PTL

\* sendClientIPMsg asks for the end of the access point only after the client
\* mode was reached.
THEOREM AccessPointStopsLate == Spec => []AccessPointStopsAfterClient
<1>1. Inv => AccessPointStopsAfterClient
  BY DEF Inv
<1> QED
  BY <1>1, ClientInvariance, PTL

=============================================================================
