# A TLA+ model of the NodeMCU/compMsg firmware

This directory holds TLA+ modules that model the core of the firmware in
this repository, TLC configurations that check them on small instances, and
TLAPS proofs for every value of the constants. `PROJECT.json` is the index:
components, runs, the mutants that show each property can fail, the source
lines behind every definition, the disagreements found between code and
documentation, the hazards and the theorems.

## 1. The system

The firmware runs on an ESP8266: one processor, no preemption between
callbacks, interrupts between any two instructions, code executed directly from
SPI flash. Most of the tree is upstream code (NodeMCU, Lua, lwIP, SPIFFS,
display libraries). What is the repository's own is `app/compMsg`, a messaging
layer between a UART, sockets and a cloud server, with its firmware update, and
its adaptation of the boot loader rBoot in `rboot/` and `app/rboot/`. Of the
upstream modules the ones with a protocol of their own are modelled as well:
the MQTT client, the sample store in RTC memory, the rotary switch.

| Component | State | Operations | Interacts with |
|---|---|---|---|
| Boot loader (`rboot/rboot.c`) | configuration sector and rom slots in flash; in RAM the candidate rom | `find_image` at reset: read or create the configuration, pick a rom, fall back, rewrite, boot | flash; the application through the configuration |
| rBoot interface (`app/rboot/rboot-api.c`) | `rboot_write_status` | `rboot_get/set_config`, `rboot_set_current_rom`, `rboot_write_init`, `rboot_write_flash` | flash; called by the update session and by Lua |
| Update session (`compMsg/compMsgOta.c`, copied from `app/rboot/rboot-ota.c`) | static `uud`, `ota_timer`, the SDK's upgrade flag | `otaStart`, callbacks for DNS, connect, receive, disconnect, error, timer; `compMsgOtaDeinit`; `storeUserData` | espconn, rBoot interface, client mode |
| espconn (`lwip/app/espconn*.c`, vendored) | list of connections, events posted to `espconn_Task` | connect, disconnect, receive, error | every socket user |
| Request slots (`compMsgRequest.c`) | table of partly received messages, per source | `addRequestData`, `detectMsg`, `startRequest`, `deleteRequest` | UART, sockets, dispatcher |
| Send/receive (`compMsgSendReceive.c`) | send and receive buffers | `uartReceiveCb`, `handleReceivedPart`, `sendMsg` | request slots, identification |
| Dispatcher (`compMsgDispatcher.c`) | handle table, singleton, shared common part | `addHandle`, `deleteHandle`, `checkHandle`, `newCompMsgDispatcher` | all parts of compMsg |
| Identification (`compMsgIdentify.c`) | header parts, current message | `handleReceivedHeader`, `storeReceivedMsg`, `prepareAnswerMsg` | message layout, building |
| Message layout (`compMsgData.c`, `compMsgDataView.c`, `dataView.c`) | field descriptions, offsets, buffer | `initMsg`, `prepareMsg`, typed get/set | identification, building |
| Client and access point mode (`compMsgNetSocket.c`, `compMsgWebSocket.c`, `compMsgSocket.c`, `compMsgTimer.c`) | timer slots, running mode flags, sockets | `netSocketRunClientMode`, `checkConnectionStatus`, `startConnectionTimer`, socket callbacks | WiFi station, espconn, update session |
| RTC sample store (`include/rtc/rtcfifo.h`, `modules/rtcfifo.c`) | control block and slots in RTC memory, which survives resets | `prepare`, `put`, `pop`, `drop`, `peek` | deep sleep: every wake-up is a reset |
| MQTT client (`modules/mqtt.c`, `mqtt/msg_queue.c`) | state of the connection, queue of messages, one timer for attempts, answers and keep alive | `connect`, `close`, `publish`, `subscribe`, `unsubscribe`; callbacks of DNS, espconn and timer | espconn, a broker, the Lua program |
| Rotary switch (`driver/rotary.c`, `modules/rotary.c`) | ring of changes, written by the interrupt and read by a task; what the program was told; a timer | `setup`, `close`; interrupt, task, timer | GPIO interrupt, task queue, SDK timers |

Hard behaviours: the power may fail between any two flash accesses, and the
boot loader must come up from what is left; an update overwrites one rom while
executing another; callbacks of a finished connection arrive when the next
session already uses the same static variables; memory given back to the heap
is still known to espconn; timers race answers; error paths return with half
of the work done; a stream is cut into chunks by the network and into words
and sectors by the flash; a reset stops an operation on memory that survives
it; an acknowledgement does not say which message it is for; an interrupt
comes between a check and what is done about it.

What makes each part correct:

* boot loader: there is always a rom to boot; the selected one is preferred;
  the configuration names what runs;
* rBoot interface: the stream is stored unchanged, and nothing else is touched;
* update session: success is reported for complete downloads only, no callback
  works on memory that is gone, each attempt ends, an attempt can follow;
* request slots: the bytes of a message stay together and in order; a slot is
  given back; the buffer is not exceeded;
* dispatcher: the table and its count agree; a handle leads to its dispatcher;
* sample store: samples come out as they went in and in that order, and never
  spill into memory of the program;
* MQTT client: what was published arrives, in order, as often as the quality of
  service says; what is reported as delivered is; attempts and waits end;
* rotary switch: no change of the button is lost, no event waits for a wake-up
  that does not come, the position is right, a long press was a long one;
* client mode: one timer per purpose, flags that follow the connections, and
  work put off that somebody waits for, the last one at least.

## 2. Plan

1. `Rboot`, `OtaSystem`: flash, loader, power failures, updates. **Done.**
2. `CompMsgOta`: the update session over espconn. **Done.**
3. `RbootApi`: the flash writer. **Done.**
4. `OtaSystemProofs`: type correctness and the safety invariants, torn writes
   included. **Done.**
5. `ClientMode`, `ClientModeProofs`: timers, station status, running mode
   flags, the work put off until the client mode runs, the start of an update
   (`checkClientMode`). **Done.**
6. `UpdateSession`: what a session promises, implemented by `CompMsgOta`. **Done.**
7. `SampleFifo`, `RtcFifo`: the sample store and the queue it is. **Done.**
8. `MqttClient`: client, connection and broker. **Done.**
9. `Rotary`: interrupt, task and timer of the rotary switch. **Done.**
10. `RbootApiProofs`, `CompMsgOtaProofs`, `RotaryProofs`, `MqttClientProofs`: the
    safety properties of these modules and the refinement of `UpdateSession`.
    **Done.**
11. `RtcFifoProofs`, `RtcQueueProofs`: indices, timestamps and the refinement of
    `SampleFifo`. **Done.** Every safety property of the runs is proved; what is
    left to the runs alone is liveness.

Given up: modules for the request slots, the identification of messages and the
handle table of the dispatcher. `compMsgRequest.c` is unfinished at this commit:
from the first message on it works with an uninitialised pointer, so that there
is no behaviour to model (section 7).

## 3. Modules

### Rboot

The boot loader and the functions that rewrite the configuration sector.
`conf` and `rom` are flash; everything else is RAM and set back by
`ResetRAM`. `find_image` is split at its flash accesses, since that is where a
power failure makes a difference: `FindImage_Read`, `FindImage_DefaultErase`,
`FindImage_DefaultWrite`, `FindImage_Select`, the search loop
(`FindImage_Good`, `FindImage_Bad`), `FindImage_UpdateErase`,
`FindImage_UpdateWrite`. `rboot_set_config` continues with `SetConfig_Erase`
and `SetConfig_Write`; while it runs nothing else does, as in the code.

An image is abstracted to whether it passes `check_image`. The configuration
keeps the fields the loader uses: magic (with the version byte), the selected
rom, the count, how many addresses are set, the user data flag. A torn write
(`Torn`) leaves a prefix of the new sector, in the order of the struct, over an
erased one. The options compiled out in `rboot.h` (configuration
checksum, GPIO and RTC boot) are left out.

`BootInit` is a device as it is set up: no configuration yet or one that
selects rom 0 or 1 of at least two, and a good image in rom 0 or 1. Updates
alternate between these two whatever the count is, so a device whose only good
image is in a higher slot has no rom left when the configuration is lost, for
the default configuration has two roms; such a setup is outside of the theorems.

### OtaSystem

Rboot composed with what an update does to flash: the slot is chosen from the
configuration (`OtherSlot`), chunks damage it, the last chunk leaves a good or
a bad image (results of the flash functions are ignored by the code), selects
it and restarts. User data are saved before and during a session by rewriting
the configuration. Power failures come at any step (`Fail`). `torn` is history: a
power failure has left the configuration partly written.

### CompMsgOta

The session itself. `uud`, `flag` and `timer` are the statics of the code;
`heap` is the allocation state of the connection structs; `links` is what
espconn and DNS will still call back about, each entry pointing to a struct.
Every callback is one action. `Fault` stands for the use of a NULL session or
of a freed struct, after which the chip resets. Environment faults are
switched by the constant `Faults`, so that a run can say which of them a
property tolerates. `attempts` bounds the calls of `otaStart`; `att` and
`from` are history for the properties.

A freed struct is modelled as a fault even when the heap would still hold the
old bytes; a struct that was freed and handed out again counts as allocated,
as it does in the code. A server may send more than it announced, as long as it
likes: `got` counts to `MaxLen + 1`, one more than any announced length.

Only the server can end a session in which it sends beyond its Content-Length (`:163`), by
falling silent: `UpdateEnds` allows for it (`Oversent`).

Three things the model shows that are not in a run, for no text speaks about them:
a lookup that DNS refuses leaves the flag at START without a session, and every
later update is refused (`compMsgOta.c:506`; `UpdateEnds` is about sessions that
exist); the connect timeout frees a struct espconn still holds (`:261`; `connectTimeout`
with `MemorySafe`), and a connection error that was posted meets a session that is
gone (`:303`; `tcpError` with `MemorySafe`).

### UpdateSession

What the caller of `otaStart` may rely on, without connection, timer and flag:
sessions begin one after the other, the result of each is told at most once and
while it is the current one, a success means a complete file. `CompMsgOta`
implements it with `session` as the attempt number in `uud` (0 for NULL) and
`told` as the last report.

### RbootApi

The streaming writer on bytes of flash: an erased cell takes a byte, any other
one is garbled. All ways to cut a download into chunks are explored, with at
most one failing call per download (no memory, an erase that fails, a write
that stops at a word). `upgradeRecvCb` writes whatever arrives until the sum is the
announced length, so a server that oversteps it is stopped only by the bound
`MaxLen`, which ends before the flash does. How far the slot reaches nobody knows:
the check is commented out (`rboot-api.c:136`), and `NeighboursIntact` is about the
sectors that none of the received bytes reach. The writer keeps a tail of up to
three bytes, which no call writes (`:131`).

### ClientMode

How the device goes online. A request (`initDispatcher` with its type letter, a
further dispatcher, the actions `runClientMode`, `runAPMode`, `runAPConnect`,
a message to the cloud) configures the station and arms a timer slot; type 'L'
switches the WiFi off for a light sleep, and nothing switches it on again. The slot
polls the station once a second: `checkConnectionStatus_Failed` is the poll
that finds a failure, `startNetClientMode`, `startWebClientMode` and
`startAccessPoint` the one that finds an address; a poll that finds neither is
a stuttering step. `timer` keeps for each slot both what the code remembers
(`mode`) and what the SDK knows (`armed`, `fcn`). `flags` and `stopAP` belong to
the part shared by all dispatchers, `startSendMsg` is the one pointer for the
work that waits. `opmode` is in flash and survives `Restart`.

`pending`, `told` and `started` are history. `told` records that a request
returned an error or that `webSocketSendConnectError` was called; whether its
message reaches anybody is not modelled. `wifi_station_connect` may be ignored
by a station that is connected, and either outcome of an SDK call whose result
is not looked at is possible. The connection behind `netSocketStartCloudSocket`
is not modelled: the code that would set its host and port is under
`#ifdef OLD`. Slots have no interval, since the properties do not depend on it.
The production test mode has no caller.

Three things the model shows and no text in the repository speaks about: there is
one pointer for work put off, and a request replaces what another has put there,
so that a provisioning request silently drops a cloud message that waits for the
client mode, and the other way round (`compMsgWifiData.c:503`,
`compMsgSendReceive.c:376`; `LastPutOffWorkAwaited` is about the one put off last);
`startWebClientMode` does not call `startSendMsg`, so the answer to a provisioning
request stays put off (`LastPutOffWorkAwaited` excludes it); and a request for the
access point or a light sleep while the client's timer polls leaves that timer
polling an idle station for ever (`ClientStartEnds` allows for it).

### SampleFifo, RtcFifo

`RtcFifo` is the store in RTC memory. An operation is the sequence of its
writes, in program order (`rtc_fifo_store_sample` and the others); the action
applies all of them, `CutShort` a proper prefix, which is what a reset leaves. A
word of the memory then holds what was written to it last (`Word`, `After`).
Entries are packed into words and unpacked again as in the code, times are
unsigned words, `loc` is one word as in the code. `stamps` and `restarted` are
history for the timestamps, `torn` records an interrupted operation.

`SampleFifo` is what `docs/en/modules/rtcfifo.md` promises: a bounded queue that
evicts its oldest sample when full and starts anew with a sample that fits
neither its names nor its time base. The mapping reads the samples out with
`rtc_fifo_peek_sample`; while a reset has left the store damaged it maps to the
damaged state, which a `prepare` or a restart ends.

Assumptions, all in `SlotsAssumption`: another storage begins at or below the
default one, for `rtcfifo_prepare` sets the indices for the default storage in
any case, and a higher one has its first samples in slots of the program; at
most `TagMod` sensors, since a seventeenth is stored under the first one's name;
names are not 0, which marks a free slot. A damaged store is used on up to
`MaxCount` samples.

What the model shows: a sample that does not fit the time base restarts the
store, and the difference that did not fit, cut to nine bits, is stored with it,
so that this and the following samples come out late by it, by up to 511 s
(`rtcfifo.h:364`), while rtcfifo.md promises the values that went in: run
`rtc_late_times`. `TimestampsKept` is what the code keeps instead: one amount for
all samples, less than the field holds, and 0 unless the store was restarted. A
reset inside `prepare` leaves the magic of the store before, with indices outside
of the new location (`rtcfifo.h:487`; `IndexesInStorage` excludes it).

### MqttClient

The handlers of `mqtt.c` are operators on the record `c`, named as in the code;
the actions are the callbacks, the calls of the program and what happens to
network and broker. espconn takes one message at a time (`flight`) and refuses
more, as the return values that `mqtt.c` ignores say. A message is a type, an
id, a quality of service and `no`, the number of the call, which is not
transmitted and serves the properties. The broker keeps the session of a client
with `clean_session = 0`: it holds the ids of messages with quality of service
2 until their PUBREL and notes what it forwards, and how often. Ids come round, and
the code does not look whether one is still in use (`InUse`): from then on `ids` is
"reused", and `ExactlyOnce` and `AnsweredReached` promise nothing any more. An attempt
to connect may fail any number of times (`AttemptFails`); `MaxFaults` bounds the
connections that are lost. A segment brings the first packets of `inbox`;
`mqtt_socket_received` works on the first of them and goes on behind it only as long
as the packets are PUBLISHes (`LastRead`).

Not modelled: TLS; `connect` while an attempt is under way (it frees the
espconn the stack works with); a lookup that DNS refuses at once (nobody is
told); contents and lifetime of buffers. Events espconn has posted are handled
before the next tick of the timer.

The run `mqtt_lost_publish` shows where the code goes wrong: the timeout dequeues a
message TCP still has, and its acknowledgement is taken for that of the next, which
is dropped and reported as sent.

What the model shows beside this: with `auto_reconnect` each refused attempt disarms
the timer that would report it, so that a host which refuses every attempt is never
reported (`mqtt.c:150`; mqtt.md:94 and :103 have a callback for a failed connect;
`ConnectEnds` leaves out attempts that fail for ever); with `auto_reconnect` and the WiFi gone,
`espconn_connect` is refused, the timer reports once and stops, and as the client
still counts as connected neither `connect` nor `close` leads out (`mqtt.c:154`;
mqtt.md has "you can call m:connect again"); a connection that comes after the timer
has given up runs without timer (`:593`, `TimerGuards` allows for it); an attempt
that fails without `auto_reconnect` ends without a callback (`told = "dropped"`);
what follows a packet other than PUBLISH in one segment is lost (`:454`), and
`QueueDrains` shows that the client recovers.

### Rotary

`d` is the driver's data, `m` the module's, `posts` the messages in the task
queue. `rotary_interrupt` is one step, since it runs with everything else masked
off. The task is cut where an interrupt makes a difference: `lrotary_task` takes
the message and clears `task_queued`, `lrotary_dequeue_single` takes an entry (in
the code with the interrupt disabled), `LookForMore` and `PostForMore` follow.
Positions are integers (the code has 31 bits), read and write offsets count on
(32 bits); time is modulo `TimeMod` in the code's comparisons.

The events told to the program are changes of `m`: TURN, PRESS and RELEASE of
`lastpos`, LONGPRESS and CLICK the end of `was_press` and `was_release` by time,
DBLCLICK the end of `dbl_click`.

The task queue is shared by the whole firmware, so any message may be refused,
and a refused one is not sent again (`driver/rotary.c:180`, `modules/rotary.c:378`):
`h.refused` is set until the task looks at the ring the next time, and
`NoLostWakeUp` holds but for it. Turns do not bring the wake-up back, since they are
merged into the entry that waits, so that a press may never be delivered.

A timer that is armed when its struct is freed (`close`) or cleared (`setup`)
makes the state `wild`; when it expires the chip restarts. Callbacks that close
their own channel are not modelled, nor are channels other than 0: `lrotary_setup`
clears `d->id` and nobody sets it, so that every channel reads the queue of
channel 0, while rotary.md speaks of three switches.

Two more things the model shows: a task that is late reports a long press although
the release is already queued behind the press, for `modules/rotary.c:304` compares
the press with the present time, while rotary.md:42 speaks of the duration of the
press; and a switch without the optional press pin is reported as pressed at its
first turn (`driver/rotary.c:129`).

`LongPressIsLong` is what holds of long presses: the button itself is down, and for long enough,
when nothing is queued, the channel has a button and the interrupt knows its state.
It does not know it (`h.unseen`) when the button was down at `setup`, or when it has
ignored a change because the last one was less than the debounce time ago; such a
change is noticed at the next edge only.

### OtaSystemProofs, ClientModeProofs, RbootApiProofs, CompMsgOtaProofs, RotaryProofs, MqttClientProofs, RtcFifoProofs, RtcQueueProofs

Theorems and their proofs, see section 6.

## 4. Runs

| Run | Configuration | Shows |
|---|---|---|
| `ota_system` | `OtaSystem.cfg` | `RunningRomIntact`, `CurrentRomIsRunning`, `SelectedRomFirst`, `TypeOK`, torn writes included; `AlwaysBootable` and `EventuallyBoots` until a write is torn |
| `ota_torn_config` | `OtaTornConfig.cfg` | violation: a corrupted configuration is not replaced |
| `ota_session_overlap` | `OtaSessionOverlap.cfg` | success only for complete downloads, no use of freed memory, no leak, and `UpdateSession` implemented, with sessions that overlap |
| `ota_session_faults` | `OtaSessionFaults.cfg` | timer and flag discipline, the end of every session but for a server that sends on, one session at a time and every error of network, DNS, memory and flash |
| `ota_late_disconnect` | `OtaLateDisconnect.cfg` | violation: a late disconnect disarms the next session's timer |
| `flash_writer` | `FlashWriter.cfg` | `StreamStored`, `NeighboursIntact`, `WrittenOnce` over all chunkings and failures, with servers that send more than they announced |
| `client_mode` | `ClientMode.cfg` | timers, the work put off last, start of updates, end of the access point and of every poll, over all orders of requests |
| `rtc_fifo` | `RtcFifo.cfg` | `SampleFifo` implemented, timestamps, indices inside of the storage, with a reset after every write |
| `rtc_late_times` | `RtcLateTimes.cfg` | violation: a sample that restarts the store comes out with another time |
| `mqtt_client` | `MqttClient.cfg` | order, exactly once, answers for the right message, timer, end of attempts, draining of the queue, with connections lost or refused and WiFi off |
| `mqtt_lost_publish` | `MqttLostPublish.cfg` | violation: a message is reported as sent that never was |
| `rotary_switch` | `Rotary.cfg` | changes of the button kept, wake-ups lost only when refused, exact position, long presses that are, presses and releases that end, under all interleavings of interrupt, task, timer and program |

Bounds. Four rom slots (`MAX_ROMS`) are two more than updates use, so that
fallback through slots outside of the alternation happens. Two connection
structs and three attempts let a callback of the first attempt meet the
second, and a third reuse the first one's memory; downloads of two bytes have
a first, a middle and a last chunk. Sectors have 8 bytes and the slot two of
them: lengths 10 and 8 end in the middle of a word and on a sector boundary, a server may
send on to the end of the second sector, chunks of up to 9 bytes span a sector. Four requests let
the client mode be reached, be put in question by a second and a third request
of any kind, and be followed by a restart or another initialisation; with one
lost connection the flags outlive what they stand for; a limit of two
notifications is passed in one start and met again in the next. The sample
store has three slots by default and four with the other storage, one or two of
them for names, so that wrapping, eviction, a full table of names and a store
with a single place all happen; clocks of two bits and differences of one let
samples be in time, late, and early across the wrap of the clock. One message
waits behind another in the MQTT queue, either of which may come from the
broker; one lost connection or change of the WiFi link strikes anywhere; ids are
two (0 is none), of which one is used up, so that they wrap, and the two messages
get different ones (what becomes of ids that come round is left to the theorems);
time limits of one tick, a
keep alive of 0 and one DNS answer only shorten the waits. Four changes of the
switch make a double click and fill a ring of four; time begins shortly before
the clock wraps and goes on until every timer has expired; two calls of `setup`
meet an open and a closed channel; the task queue has room for one message of the
switch and may refuse any. Bounded attempts, downloads, requests and inputs make the runs
stop, hence `CHECK_DEADLOCK FALSE` in the session, writer, client mode, sample
store and switch runs; the system and MQTT runs have an action left in
every state and are checked for deadlock.

## 5. Fairness

`OtaSystem`: straight-line code goes on (the loader and the rest of
`rboot_set_config`); nothing is assumed of network, user or power.
`EventuallyBoots` is about behaviours in which the power stays on from some
point and no write was torn before.

`CompMsgOta`: an armed timer expires; what was posted to `espconn_Task` is
delivered; a lookup ends, since DNS has a retry limit of its own; a SYN is
answered or given up on, since TCP has one too; a fault resets. The receive timeout
expires unless the server has oversent: one that sends on keeps it from expiring. The server
owes nothing after it has accepted the connection: it may be silent for ever.

`ClientMode`: a slot is armed with automatic reload, so a poll that could
change something comes again; the SDK ends every attempt to connect, with an
address or a failure. Requests, lost connections and restarts are owed to
nobody.

`MqttClient`: lookups are answered; an attempt of TCP to connect ends, well or badly,
and badly for ever if the host refuses it; as long as
a connection lasts segments get through; what espconn has posted is handled; the
timer ticks while it is armed. Nothing is assumed of the program, of the broker's
answer to a CONNECT, or of lost connections. `QueueDrains` is about connections
that last, and the second part of `ConnectEnds` about attempts that do not fail for
ever.

`Rotary`: a latched interrupt is taken, messages the task queue has accepted are
handled, armed timers expire, time passes. The switch and the program owe nothing.

## 6. Proofs

Eight modules prove safety for every value of the constants. What a theorem
assumes of them is in the named ASSUMEs of its component, which TLC evaluates
on every run, and, where a theorem needs more, in its own statement. In each
module a predicate `IInv` (`Inv` in `ClientModeProofs`, `TruthInv` beside it in
`OtaSystemProofs`, `Placed`, `TimesKept` and `NamesKept` for `RtcFifo`) is shown to
hold at the start and to be kept by every step, one lemma per action or group of
actions, and the theorems follow from it. TLC has checked these predicates on
the instances of the runs first.

`OtaSystemProofs`, for every number of slots from 2 to 254:

* `TypeCorrect`, `RunningRomSafe`, `CurrentRomTrue`, `SelectedRomBoots`: torn writes
  included;
* `Bootable`: until a write is torn. The limit is needed: a
  torn configuration can name 255 roms of which none has an address, and the
  loader's search then passes through entries that are not there before it comes
  to the good one, or misses it when the addresses are not written.

`AlwaysBootable` says that the search does not come back to where it began. That
needs what the search has learnt (`Tried`: all slots between the selected one
and the candidate are bad), that one of roms 0 and 1 is good at any time
(`OneOfTwoGood`), that the configuration covers both (`Whole`: at least two roms,
all with addresses), and that an update damages only the slot that is not
running (`AppInv`); together `SafeInv`. The last depends on the configuration naming the rom that
runs while the application runs. The other three safety theorems need only
the part of this that survives a torn configuration (`TruthInv`): what is left
names an existing rom or none; the loader leaves the selected rom only when its
image is bad, and boots with a configuration that names what it boots; a rewrite
after which the application goes on writes the rom that runs; the slot of an
update is the other one.

`ClientModeProofs`, for every limit of notifications and any number of requests
and lost connections: `ClientTypeCorrect`, `TimerModesTrue`, `LastPutOffWorkIsAwaited`,
`UpdatesStartOnline` and `AccessPointStopsLate`. Their conjunction `Inv` is
inductive (`ClientInvariance`). The argument has two halves. The table of
timers stays good under `startConnectionTimer`, `Disarm` and `initTimers`, each a
lemma of its own; and a client mode function either arms the client's slot with
its function or leaves the slots as they are and reports
(`RunClientModeLemma`), which is what put off work relies on. The web client
mode can take over the slot only together with `startSendMsg`, and the function
of a slot that polls tells which of the two may come next: this is why
`LastPutOffWorkAwaited` needs the function of the slot and not only that it is
armed. The one assumption is `LimitsAssumption`.

`RbootApiProofs`, for every size of sectors (a multiple of the word), of chunks,
of images and of flash, and any number of downloads: `WriterTypeCorrect`,
`StreamIsStored`, `NeighboursAreIntact`, `BytesWrittenOnce`. The stream is stored
because the writer is always in front of empty bytes: everything from its
position to the end of the last sector it erased is erased (`EmptyAhead`), and
what it wrote does not go past that sector (`Reached`). Neighbours are safe
because what is written and held back was received (`Progress`), and the sector
a chunk ends in is one the received bytes reach. `Reached` and `Progress` hold whatever
fails, `EmptyAhead` and the stream as long as no call failed.

`CompMsgOtaProofs`, for any number of connection structs, attempts and bytes:

* `SessionTypeCorrect`, `FlagGuardsSession`: whatever fails;
* `SuccessMeansComplete`, `ConnectionsNotLeaked` and `SessionImplemented`, the
  refinement of `UpdateSession`: if updates come one after the other
  (`OneAtATime`: no `otaStart` while espconn still has an earlier connection) or
  the network does not fail (`QuietNetwork`: no connect timeout, no connection
  error, no close that fails);
* `EverySessionGuarded`: if updates come one after the other;
* `CallbacksMemorySafe`: if the network does not fail.

These are the conditions of the runs `ota_session_faults` and
`ota_session_overlap`. Neither can be left out: `ota_late_disconnect` is what
becomes of the timer when updates overlap, section 3 names the freed struct and
the missing session that network errors lead to, and with both an error of an
earlier connection is taken for one of the present session. The invariant says
that the network stack has one entry per struct (`LinksDistinct`), that entries
not yet closing belong to the session (`Current`), that an armed timer is the
session's and waits for what the entry says (`TimerOfSession`), and that the
struct of the session is allocated (`Held`). `Alone` and `Settled` are what each
of the two conditions adds. For the refinement `StepTells` shows of every step
which report it makes, `SessionStep` that this is a step of `UpdateSession`.

`RotaryProofs`, for any size of the ring from 2, any length of the task queue and
any messages refused, any delays and positions: `RotaryTypeCorrect`, `WakeUpsKept`, `ButtonChangesTold`,
`PositionExact`, `LatestKnown`, `LongPressesReal`. Beside bounds on the constants
`RotaryAssumption` says that the time modelled is shorter than the wrap of the
clock, though it may begin right before one. A wake-up is not lost because
`task_queued` is set only while the message that clears it is on its way
(`Posted`) and because every refusal is noted (`RefusedNoted`). The program knows the latest state because the ring still has the
entry it was told last, right before the oldest that waits (`ToldSoFar`): the
interrupt merges into the last entry only when that one is still waiting, and
leaves one place of the ring free. The changes of the button that are owed are
numbered along the ring, in order, by the entries that differ from the one
before (`PressesKept`), which a merge does not disturb since it keeps the
button; `TimeKept` connects the driver's time of the last change with the last
one owed. `PositionFollows` shows that the interrupt recovers the position from
the phases modulo 4 as long as it missed no step. That a reported long press is one
of the button, not only of the ring's last entry, rests on `ButtonSeen`: when no
interrupt waits and no change was ignored, the two agree.

`MqttClientProofs`, for every number of messages, faults and packets on their
way: `ForwardedOnce`, `AnswersTrue`, `InOrder`, `TimerWatches`. An answer carries an
id and nothing else, so everything rests on what the same id in two places
means. The invariant relates the queue, the message with TCP and the packets
coming back (`Agree`): the queue is in the order of the calls and different
messages in it have different ids (`Earlier`); a message with TCP is in the queue
or was in front of it (`FlightOK`); the broker holds the id of a message with
quality of service 2 that is still in the queue exactly if it has forwarded it
(`MsgOK`), which is why a repetition is recognised; a PUBREL is queued only when
its PUBLISH is gone (`Released`), so that the broker never forgets an id that is
sent once more; an acknowledgement on its way names no message the broker has not
forwarded (`AnswerOK`). Every handler of `mqtt.c` is shown to keep this, with a
lemma for each operation on the queue. All of
this but the order holds as long as no id is given that is still in use
(`c.ids = "unique"`), which the code does not look at: `MqttAssumption` only says that
there is an id, and messages may be many more than ids. That an id not in use is safe
to give again is shown where a message is queued: nothing with that id is in the
queue, with TCP, on its way back or held by the broker.

`RtcFifoProofs`, for every layout of the RTC memory, every width of the bit fields,
any samples and any number of them: `IndexesStay`. Its first half is what
sequences of writes leave behind: a word holds what it was written last, so
every operation has a lemma that says what it makes of each word (`AfterFit`,
`AfterMisfit`, `AfterPop`, `AfterDrop`, `AfterPrepare`). For resets this is not
enough, since they leave any prefix. There the argument goes write by write:
each write of an operation on samples keeps the types (`KeepsTypes`) and puts
head and tail only where samples belong (`KeepsRoom`), hence so does every prefix
(`PrefixOfOperation`); the first write of a `prepare` sets a location that is
valid, which is all that holds after an interrupted one (`PrefixOfPrepare`).
`Placed` is the invariant.

`RtcQueueProofs`: `TimesComeOut` and `QueueImplemented`, the refinement of
`SampleFifo`. Fields packed into an entry come out of it for any widths
(`EntryParts`), and the slots from head on are all different up to the size of
the ring (`PosFacts`), so a new entry overwrites none that is still in use. While
the store is not damaged head, count and tail agree (`Ring`); the stored
differences are those of the timestamps (`Timed`), from which `TimesTrue` gets the
times by adding up modulo the width of the clock; and every sample's tag slot is
in use (`Named`), which is why a later sample that takes a free slot cannot change
the name of an earlier one. What the recursive functions `SlotOf` and `TimeOf`
compute is shown by looking at the least place where they would differ
(`LeastNat`), which needs no induction theorem.

The constants of `RtcFifo` are bound by its four ASSUMEs only, which section 3
explains.

Only model-checked: the liveness properties, since fairness is out of the
prover's reach (`EventuallyBoots`, `UpdateEnds`, `PollsEnd`, `ConnectEnds`,
`QueueDrains`, `ClickEnds`).

## 7. Not modelled

Everything else upstream (Lua, lwIP below espconn, SPIFFS, libraries, the other
Lua modules), the older `structmsg` and `structmsg2`, description files and text
parsing, debug output. Of the boot loader, the image checksum arithmetic and the
options that are off. Of the session, the HTTP header text: a reply is valid
with some length, or not. Whether an image fits its slot: the check is commented
out (`rboot-api.c:136`), and what lies behind a slot depends on the device.

The message path of compMsg is unfinished at this commit. `detectMsg` passes an
uninitialised pointer on as the received header and works with a dummy length of
999; `deleteRequest` can never find the slot it is called for; a slot taken for
the UART still looks unused to a socket (`compMsgRequest.c:165`); the check for
free space looks at the new chunk only (`:294`); slots are never given back
(`:148`). Since the behaviour is undefined from the first message on, there is
nothing a model could be held against. With it fall the identification of
messages, the building of answers, `storeUserData`'s copy of a message
(`compMsgOta.c:359`) and the callbacks of opened sockets
(`compMsgNetSocket.c:359`), which are reached through it only. The handle table of
the dispatcher is written by `createDispatcher` and read by nobody. The message
layout is sequential arithmetic without state between calls.
