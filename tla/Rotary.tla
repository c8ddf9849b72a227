------------------------------- MODULE Rotary -------------------------------
(***************************************************************************)
(* A rotary switch: the driver src/app/driver/rotary.c, which follows the  *)
(* pins at interrupt level and queues what it sees, and the module         *)
(* src/app/modules/rotary.c, whose task and timer turn the queue into the  *)
(* events TURN, PRESS, RELEASE, LONGPRESS, CLICK and DBLCLICK for the Lua  *)
(* program.  The interrupt comes between any two steps of the task.        *)
(***************************************************************************)
EXTENDS Integers, Sequences

CONSTANTS
  QUEUE_SIZE,        \* entries of the driver's ring: 8
  TASK_QUEUE_LEN,    \* TASK_DEFAULT_QUEUE_LEN: entries of the task queue: 8
  Debounce,          \* ticks for which changes of the button are ignored
  longpress_delay, click_delay,
  Missed,            \* 1000000: mark of a missed interrupt
  TimeMod,           \* 2^32: system_get_time() is an unsigned word
  Start,             \* time at which the program starts
  MaxInput, MaxTime, \* bounds: time of the last input, time
  MaxInputs,         \* bound: changes of the switch
  Positions,         \* bound: positions the switch is turned to
  MaxSetups          \* bound: calls of rotary.setup

ASSUME RotaryAssumption ==
  /\ {QUEUE_SIZE, TASK_QUEUE_LEN} \subseteq Nat /\ QUEUE_SIZE >= 2
  /\ {Debounce, longpress_delay, click_delay, Start, MaxInput, MaxTime, MaxInputs,
      MaxSetups} \subseteq Nat
  /\ Positions \subseteq Int
  /\ Missed \in Nat /\ Missed % 4 = 0
  /\ Start <= MaxTime /\ TimeMod \in Nat /\ TimeMod > MaxTime - Start
  /\ MaxTime > MaxInput + longpress_delay /\ MaxTime > MaxInput + click_delay

VARIABLES
  axis, button,  \* the switch: its position in steps, whether it is pressed
  irq,           \* a change of its pins waits for the interrupt
  now,           \* ticks since the start of the chip
  d,             \* the driver's data of the channel
  m,             \* the module's data of the channel
  task_queued,   \* the message that points to task_queued is in the task queue
  posts,         \* its messages in the task queue: whether they point to that
  pc, need_to_post, \* lrotary_task: its next step, and its variable
  wild,          \* the SDK still has a timer whose memory is gone
  inputs, setups,   \* how often the bounded actions have happened
  h              \* history, for the properties: see NewHistory

switch == <<axis, button, inputs>>
task   == <<pc, need_to_post>>
queue  == <<posts, task_queued>>
vars   == <<switch, irq, now, d, m, queue, task, wild, setups, h>>

system_get_time == now % TimeMod

\* Unsigned difference of two times.
Since(t, earlier) == (t - earlier) % TimeMod

----------------------------------------------------------------------------
(* The driver.                                                             *)

Status(s) == [pos |-> s.pos, pressed |-> s.pressed]
Entry(s, t) == [pos |-> s.pos, pressed |-> s.pressed, time_us |-> t]

GET_LAST_STATUS(x) == x.queue[(x.write_offset - 1) % QUEUE_SIZE]
GET_PREV_STATUS(x) == x.queue[(x.write_offset - 2) % QUEUE_SIZE]
HAS_QUEUED_DATA(x) == x.read_offset < x.write_offset

\* Mutant: the entry before the oldest is not kept.
space_All(x) == x.read_offset + QUEUE_SIZE > x.write_offset

HAS_QUEUE_SPACE(x) == x.read_offset + QUEUE_SIZE - 1 > x.write_offset

REPLACE_STATUS(x, s) ==
  [x EXCEPT !.queue = [x.queue EXCEPT
     ![(x.write_offset - 1) % QUEUE_SIZE] = Entry(s, system_get_time)]]
QUEUE_STATUS(x, s) ==
  [x EXCEPT !.queue = [x.queue EXCEPT
     ![x.write_offset % QUEUE_SIZE] = Entry(s, system_get_time)],
            !.write_offset = @ + 1]

\* The pins of the two phases, and the place in the cycle they stand for.
PhaseA == axis % 4 \in {0, 1}
PhaseB == axis % 4 \in {0, 3}

micropos == IF PhaseA THEN (IF PhaseB THEN 0 ELSE 1)
                      ELSE (IF PhaseB THEN 3 ELSE 2)

\* Mutant: the directions are those of the pins changed round.
rotary_pos_Swapped(last) ==
  LET step == (micropos - last) % 4
  IN  IF step = 0 THEN last
      ELSE IF step = 1 THEN last - 1
      ELSE IF step = 3 THEN last + 1
      ELSE last + Missed

\* The position after an interrupt.
rotary_pos(last) ==
  LET step == (micropos - last) % 4
  IN  IF step = 0 THEN last
      ELSE IF step = 1 THEN last + 1
      ELSE IF step = 3 THEN last - 1
      ELSE last + Missed

\* The button is looked at again when the last change is long enough ago.
\* Without a pin for it, it always looks pressed.
Debounced == Since(system_get_time, d.last_press_change_time) > Debounce

new_status(last) ==
  [pos     |-> rotary_pos(last.pos),
   pressed |-> IF Debounced THEN d.press => button ELSE last.pressed]

\* Mutants: a turn may take the place of a press; a change that of one the
\* program knows already.
NewEntry_TurnReplaces(last, new) ==
  \/ ~HAS_QUEUED_DATA(d)
  \/ last.pressed # new.pressed

NewEntry_ReplacesRead(last, new) ==
  \/ last.pressed # new.pressed
  \/ last.pressed # GET_PREV_STATUS(d).pressed

\* An entry of its own, for what must not be lost with the next change.
NewEntry(last, new) ==
  \/ ~HAS_QUEUED_DATA(d)
  \/ last.pressed # new.pressed
  \/ last.pressed # GET_PREV_STATUS(d).pressed

\* A message that finds the queue full is refused; as the whole firmware puts
\* its messages there, that may happen to any of them.
task_post_medium(pointer, refused) ==
  \/ /\ refused
     /\ UNCHANGED queue
  \/ /\ ~refused
     /\ Len(posts) < TASK_QUEUE_LEN
     /\ posts' = Append(posts, pointer)
     /\ task_queued' = (task_queued \/ pointer)

\* owed: changes of the button the program has not been told of yet, full: one
\* met a full ring, base: the position that counts as 0, seen: that of the last
\* interrupt, lost: steps were lost between two interrupts, unseen: the button
\* was down at setup, or the last interrupt ignored a change of it, refused: the
\* last message was refused, and the task has not looked since.
NewHistory == [owed |-> << >>, full |-> FALSE,
               base |-> axis, seen |-> axis, lost |-> axis % 4 # 0,
               unseen |-> button, refused |-> FALSE]

Change(s, t) == [pressed |-> s.pressed, time_us |-> t]

rotary_interrupt(refused) ==
  /\ irq
  /\ irq' = FALSE
  /\ LET last  == GET_LAST_STATUS(d)
         new   == new_status(last)
         fresh == Status(last) # new /\ NewEntry(last, new)
         post  == fresh /\ HAS_QUEUE_SPACE(d) /\ ~task_queued
         x     == IF last.pressed = new.pressed THEN d
                  ELSE [d EXCEPT !.last_press_change_time = system_get_time]
     IN  /\ d' = IF Status(last) = new THEN d
                 ELSE IF fresh /\ HAS_QUEUE_SPACE(d) THEN QUEUE_STATUS(x, new)
                 ELSE REPLACE_STATUS(x, new)
         /\ IF post THEN task_post_medium(TRUE, refused) ELSE UNCHANGED queue
         /\ h' = [h EXCEPT
              !.owed = IF last.pressed = new.pressed THEN @
                       ELSE Append(@, Change(new, system_get_time)),
              !.full = @ \/ (fresh /\ ~HAS_QUEUE_SPACE(d)),
              !.seen = axis,
              !.lost = @ \/ axis - h.seen \notin -1 .. 1,
              !.unseen = ~Debounced /\ button # last.pressed,
              !.refused = IF post THEN refused ELSE @]
  /\ UNCHANGED <<switch, now, m, task, wild, setups>>

\* The data of a channel that is closed.
NoData == [open |-> FALSE, press |-> FALSE, read_offset |-> 0, write_offset |-> 0,
           last_press_change_time |-> 0,
           queue |-> [i \in 0 .. QUEUE_SIZE - 1 |->
                        [pos |-> 0, pressed |-> FALSE, time_us |-> 0]]]

rotary_close == NoData

rotary_setup(press) == [rotary_close EXCEPT !.open = TRUE, !.press = press]

rotary_has_queued_event(x) == HAS_QUEUED_DATA(x)

\* The oldest event, and the data without it; there is one.
rotary_getevent(x) ==
  [event |-> x.queue[x.read_offset % QUEUE_SIZE],
   data  |-> [x EXCEPT !.read_offset = @ + 1]]

----------------------------------------------------------------------------
(* The module.                                                             *)

NoModule == [open |-> FALSE, lastpos |-> [pos |-> 0, pressed |-> FALSE],
             was_press |-> FALSE, was_release |-> FALSE, dbl_click |-> FALSE,
             last_event_time |-> 0, timer_running |-> FALSE, expires |-> 0]

\* What the time t says about the last change of the button.
LongPress(x, t) == x.was_press /\ Since(t, x.last_event_time) > longpress_delay
Click(x, t)     == x.was_release /\ Since(t, x.last_event_time) > click_delay

\* Mutant: the timer is not armed again.
check_timer_NoTimer(x, t, dotimer) ==
  [x EXCEPT !.was_press = @ /\ ~LongPress(x, t),
            !.was_release = @ /\ ~Click(x, t), !.timer_running = FALSE]

lrotary_check_timer(x, t, dotimer) ==
  LET y == [x EXCEPT !.was_press = @ /\ ~LongPress(x, t),
                     !.was_release = @ /\ ~Click(x, t)]
      delay == IF y.was_release THEN click_delay ELSE longpress_delay
  IN  IF dotimer /\ (y.was_press \/ y.was_release)
        THEN [y EXCEPT !.timer_running = TRUE,
                       !.expires = now + (delay - Since(t, x.last_event_time)) + 1]
        ELSE [y EXCEPT !.timer_running = FALSE, !.expires = 0]

\* Mutant: the time of the press is not kept.
Press_KeepsTime(x, t) ==
  [x EXCEPT !.was_press = TRUE, !.was_release = FALSE,
            !.dbl_click = @ \/ (x.was_release
                                /\ Since(t, x.last_event_time) < click_delay)]

\* The part of lrotary_dequeue_single that is about the button.
Press(x, t) ==
  [x EXCEPT !.was_press = TRUE, !.was_release = FALSE, !.last_event_time = t,
            !.dbl_click = @ \/ (x.was_release
                                /\ Since(t, x.last_event_time) < click_delay)]

Release(x, t) ==
  [x EXCEPT !.was_press = FALSE, !.was_release = ~x.dbl_click,
            !.dbl_click = FALSE, !.last_event_time = t]

\* lrotary_task: the message is taken from the queue.
lrotary_task ==
  /\ pc = "idle"
  /\ posts # << >>
  /\ posts' = Tail(posts)
  /\ task_queued' = (task_queued /\ ~Head(posts))
  /\ need_to_post' = FALSE
  /\ pc' = IF m.open THEN "get" ELSE "idle"
  /\ h' = [h EXCEPT !.refused = FALSE]
  /\ UNCHANGED <<switch, irq, now, d, m, wild, setups>>

\* rotary_getevent, with the interrupt disabled, and what is made of the event.
\* Without one only the timer is checked.
lrotary_dequeue_single ==
  /\ pc = "get"
  /\ IF HAS_QUEUED_DATA(d)
       THEN LET e == rotary_getevent(d).event
                x == lrotary_check_timer(m, e.time_us, FALSE)
                y == IF e.pressed = m.lastpos.pressed THEN x
                     ELSE IF e.pressed THEN Press(x, e.time_us)
                     ELSE Release(x, e.time_us)
            IN  /\ d' = rotary_getevent(d).data
                /\ m' = [y EXCEPT !.lastpos = Status(e)]
                /\ h' = IF e.pressed = m.lastpos.pressed THEN h
                        ELSE [h EXCEPT !.owed = IF @ = << >> THEN @ ELSE Tail(@)]
                /\ pc' = "look"
       ELSE /\ m' = lrotary_check_timer(m, system_get_time, TRUE)
            /\ pc' = "idle"
            /\ UNCHANGED <<d, h>>
  /\ UNCHANGED <<switch, irq, now, queue, need_to_post, wild, setups>>

\* rotary_has_queued_event, and the timer.
LookForMore ==
  /\ pc = "look"
  /\ need_to_post' = rotary_has_queued_event(d)
  /\ m' = lrotary_check_timer(m, system_get_time, TRUE)
  /\ pc' = "post"
  /\ h' = [h EXCEPT !.refused = FALSE]
  /\ UNCHANGED <<switch, irq, now, d, queue, wild, setups>>

\* Mutant: the message for the rest is forgotten.
PostForMore_Never(refused) ==
  /\ pc = "post"
  /\ pc' = "idle"
  /\ UNCHANGED <<switch, irq, now, d, m, queue, need_to_post, wild, setups, h>>

\* The end of lrotary_task.
PostForMore(refused) ==
  /\ pc = "post"
  /\ IF need_to_post
       THEN /\ task_post_medium(FALSE, refused)
            /\ h' = [h EXCEPT !.refused = refused]
       ELSE UNCHANGED <<queue, h>>
  /\ pc' = "idle"
  /\ UNCHANGED <<switch, irq, now, d, m, need_to_post, wild, setups>>

lrotary_timer_done ==
  /\ pc = "idle"
  /\ m.timer_running
  /\ now >= m.expires
  /\ m' = lrotary_check_timer(m, system_get_time, TRUE)
  /\ UNCHANGED <<switch, irq, now, d, queue, task, wild, setups, h>>

\* rotary.setup; with pins that are not valid (ok = FALSE) it leaves the driver
\* closed.  The timer is not disarmed, its memory is cleared.
lrotary_setup(press, ok) ==
  /\ pc = "idle"
  /\ setups < MaxSetups
  /\ setups' = setups + 1
  /\ d' = IF ok THEN rotary_setup(press) ELSE rotary_close
  /\ m' = [NoModule EXCEPT !.open = TRUE]
  /\ wild' = (wild \/ m.timer_running)
  /\ irq' = FALSE
  /\ h' = NewHistory
  /\ UNCHANGED <<switch, now, queue, task>>

\* rotary.close.  The timer is not disarmed, its memory is freed.
lrotary_close ==
  /\ pc = "idle"
  /\ m.open
  /\ d' = rotary_close
  /\ m' = NoModule
  /\ wild' = (wild \/ m.timer_running)
  /\ irq' = FALSE
  /\ h' = NewHistory
  /\ UNCHANGED <<switch, now, queue, task, setups>>

----------------------------------------------------------------------------
(* The switch, the time, and the reset.                                    *)

Input ==
  /\ inputs < MaxInputs
  /\ now <= MaxInput
  /\ inputs' = inputs + 1

\* One step of the switch; two of them may come before the interrupt.
Turn(step) ==
  /\ Input
  /\ axis' = axis + step /\ axis' \in Positions
  /\ irq' = d.open
  /\ UNCHANGED <<button, now, d, m, queue, task, wild, setups, h>>

PressOrRelease ==
  /\ Input
  /\ button' = ~button
  /\ irq' = (irq \/ (d.open /\ d.press))
  /\ UNCHANGED <<axis, now, d, m, queue, task, wild, setups, h>>

\* Interrupts are taken, and a run of the task is over, within a tick; messages
\* may wait longer than that, when the program is busy.
Tick ==
  /\ now < MaxTime
  /\ ~irq /\ pc = "idle"
  /\ now' = now + 1
  /\ UNCHANGED <<switch, irq, d, m, queue, task, wild, setups, h>>

\* The SDK uses the timer that is gone: the chip starts again.
Fault ==
  /\ wild
  /\ pc = "idle"
  /\ wild' = FALSE
  /\ d' = NoData /\ m' = NoModule
  /\ irq' = FALSE
  /\ posts' = << >> /\ task_queued' = FALSE
  /\ h' = NewHistory
  /\ UNCHANGED <<switch, now, task, setups>>

Init ==
  /\ axis \in Positions /\ axis % 4 = 0  \* it rests in a detent
  /\ button = FALSE
  /\ inputs = 0 /\ setups = 0
  /\ irq = FALSE
  /\ now = Start
  /\ d = NoData /\ m = NoModule
  /\ task_queued = FALSE /\ posts = << >>
  /\ pc = "idle" /\ need_to_post = FALSE
  /\ wild = FALSE
  /\ h = NewHistory

Interrupt == \E refused \in BOOLEAN : rotary_interrupt(refused)

Task ==
  \/ lrotary_task \/ lrotary_dequeue_single \/ LookForMore
  \/ \E refused \in BOOLEAN : PostForMore(refused)

Next ==
  \/ Interrupt
  \/ Task
  \/ lrotary_timer_done
  \/ \E press, ok \in BOOLEAN : lrotary_setup(press, ok)
  \/ lrotary_close
  \/ \E step \in {-1, 1} : Turn(step)
  \/ PressOrRelease
  \/ Tick
  \/ Fault

\* Interrupts, posted messages and timers are served, and time passes.
Fairness ==
  /\ WF_vars(Interrupt)
  /\ WF_vars(Task)
  /\ WF_vars(lrotary_timer_done)
  /\ WF_vars(Tick)
  /\ WF_vars(Fault)

Spec == Init /\ [][Next]_vars /\ Fairness
----------------------------------------------------------------------------
(* Properties.                                                             *)

\* The ring keeps the entry before the oldest one, which tells whether that one
\* is a change of the button.
TypeOK ==
  /\ axis \in Positions /\ button \in BOOLEAN /\ irq \in BOOLEAN /\ wild \in BOOLEAN
  /\ now \in Start .. MaxTime
  /\ d.read_offset \in 0 .. d.write_offset
  /\ d.write_offset - d.read_offset < QUEUE_SIZE
  /\ irq => d.open
  /\ d.open => m.open
  /\ ~(m.was_press /\ m.was_release)
  /\ task_queued \in BOOLEAN /\ posts \in Seq(BOOLEAN)
  /\ Len(posts) <= TASK_QUEUE_LEN
  /\ pc \in {"idle", "get", "look", "post"} /\ need_to_post \in BOOLEAN

\* The entry with number j, as long as the ring keeps it, what the program knows
\* when it comes to that entry, and the queued entries that change the button.
At(x, j) == x.queue[j % QUEUE_SIZE]

Before(j) == IF j = d.read_offset THEN m.lastpos ELSE Status(At(d, j - 1))

Changes ==
  { j \in d.read_offset .. d.write_offset - 1 : At(d, j).pressed # Before(j).pressed }

\* Every change of the button that the interrupt has accepted is told to the
\* program, in order and with its own time, however turns are merged and
\* whenever the task comes, as long as no change has met a full queue: f is the
\* order-preserving numbering of the queued changes.
PressesKept ==
  ~h.full =>
    \E f \in [1 .. Len(h.owed) -> Changes] :
      /\ \A i, j \in 1 .. Len(h.owed) : i < j => f[i] < f[j]
      /\ \A c \in Changes : \E i \in 1 .. Len(h.owed) : f[i] = c
      /\ \A i \in 1 .. Len(h.owed) :
           h.owed[i] = Change(At(d, f[i]), At(d, f[i]).time_us)

\* The position is exact as long as no two steps fell between two interrupts.
PositionTracked ==
  d.open /\ ~irq /\ ~h.lost => GET_LAST_STATUS(d).pos = axis - h.base

\* When the queue is empty the program has been told the present position and
\* state of the button, also if the queue was full in between.
KnowsLatest ==
  d.open /\ ~HAS_QUEUED_DATA(d) => m.lastpos = Status(GET_LAST_STATUS(d))

\* For what is queued a message is on its way, or the task will look for it,
\* unless the task queue has refused the last message: then nobody tries again.
NoLostWakeUp ==
  HAS_QUEUED_DATA(d) =>
    \/ posts # << >>
    \/ pc \in {"get", "look"}
    \/ (pc = "post" /\ need_to_post)
    \/ h.refused

\* The program has been told of a long press: the wait for it ends without a
\* change of the button or of the channel.
LongPressReported ==
  /\ m.was_press /\ ~m'.was_press
  /\ m'.open /\ m'.lastpos.pressed

\* A long press that is reported when nothing is queued is one: the switch has a
\* button, which is down, and its last change is longer ago than the delay.  Not
\* so for a change that the interrupt ignores or is about to see.
LongPressIsLong ==
  [][ /\ LongPressReported /\ d.open /\ d.press
      /\ ~HAS_QUEUED_DATA(d) /\ ~irq /\ ~h.unseen /\ ~h.full
      => /\ button
         /\ Since(system_get_time, d.last_press_change_time) > longpress_delay ]_vars

\* Every press and every release comes to an end for the program: with another
\* event, or by the timer as a long press or a click.
ClickEnds ==
  /\ m.was_press ~> ~m.was_press
  /\ m.was_release ~> ~m.was_release

============================================================================
