---------------------------- MODULE RotaryProofs ----------------------------
(***************************************************************************)
(* Proofs about Rotary, for any size of the ring and of the task queue,    *)
(* any delays and any positions of the switch.                             *)
(***************************************************************************)
EXTENDS Rotary, SequenceTheorems, TLAPS

----------------------------------------------------------------------------
(* Arithmetic.                                                             *)

\* An index into the ring.
LEMMA ModRange ==
  ASSUME NEW q \in Nat, q > 0, NEW i \in Int
  PROVE  i % q \in 0 .. q - 1 /\ i % q \in Int
  OBVIOUS

LEMMA ModMeaning ==
  ASSUME NEW q \in Nat, q > 0, NEW i \in Int
  PROVE  i \div q \in Int /\ i = q * (i \div q) + (i % q) /\ q * (i \div q) \in Int
  OBVIOUS

\* Places closer than the size of the ring are different.
LEMMA ModDistinct ==
  ASSUME NEW q \in Nat, q > 0, NEW i \in Int, NEW j \in Int, i < j, j - i < q
  PROVE  i % q # j % q
  <1>. SUFFICES ASSUME i % q = j % q PROVE FALSE
    OBVIOUS
  <1>. DEFINE a == i \div q
              b == j \div q
  <1>1. /\ a \in Int /\ b \in Int /\ q * a \in Int /\ q * b \in Int
        /\ i = q * a + (i % q) /\ j = q * b + (j % q)
        /\ i % q \in Int /\ j % q \in Int
    BY ModMeaning, ModRange
  <1>. HIDE DEF a, b
  <1>2. j - i = q * b - q * a
    BY <1>1
  <1>3. \A x, y \in Int : x <= y => q * x <= q * y
    OBVIOUS
  <1>4. \A x \in Int : q * (x + 1) = q * x + q
    OBVIOUS
  <1>5. CASE b <= a
    BY <1>1, <1>2, <1>3, <1>5
  <1>6. CASE a + 1 <= b
    <2>1. q * (a + 1) <= q * b /\ q * (a + 1) = q * a + q
      BY <1>1, <1>3, <1>4, <1>6
    <2>. QED BY <1>1, <1>2, <2>1
  <1>. QED BY <1>1, <1>5, <1>6

\* The times are numbers.
LEMMA Times ==
  ASSUME now \in Start .. MaxTime
  PROVE  /\ system_get_time \in Int
         /\ \A t, u \in Int : Since(t, u) \in Int
  <1>1. TimeMod \in Nat /\ TimeMod > 0 /\ now \in Int
    BY RotaryAssumption
  <1>. QED BY <1>1, ModRange DEF system_get_time, Since

----------------------------------------------------------------------------
(* Data.                                                                   *)

Entries == [pos : Int, pressed : BOOLEAN, time_us : Int]
Statuses == [pos : Int, pressed : BOOLEAN]

Driver ==
  [open : BOOLEAN, press : BOOLEAN, read_offset : Nat, write_offset : Nat,
   last_press_change_time : Int, queue : [0 .. QUEUE_SIZE - 1 -> Entries]]

Client ==
  [open : BOOLEAN, lastpos : Statuses, was_press : BOOLEAN, was_release : BOOLEAN,
   dbl_click : BOOLEAN, last_event_time : Int, timer_running : BOOLEAN, expires : Int]


LEMMA Sizes ==
  /\ QUEUE_SIZE \in Nat /\ QUEUE_SIZE > 1 /\ QUEUE_SIZE > 0
  /\ TASK_QUEUE_LEN \in Nat
  BY RotaryAssumption

LEMMA Ring ==
  ASSUME NEW i \in Int
  PROVE  i % QUEUE_SIZE \in 0 .. QUEUE_SIZE - 1
  BY ModRange, Sizes

LEMMA RingDistinct ==
  ASSUME NEW i \in Int, NEW j \in Int, i < j, j - i < QUEUE_SIZE
  PROVE  i % QUEUE_SIZE # j % QUEUE_SIZE
  BY ModDistinct, Sizes

LEMMA EntryFields ==
  ASSUME NEW s \in Statuses, NEW t \in Int
  PROVE  /\ Entry(s, t) \in Entries
         /\ Entry(s, t).pos = s.pos /\ Entry(s, t).pressed = s.pressed
         /\ Entry(s, t).time_us = t
         /\ Status(Entry(s, t)) = s
  BY DEF Entry, Entries, Statuses, Status

\* The entry is written at the end of the ring.
LEMMA QueueStatus ==
  ASSUME NEW x \in Driver, NEW s \in Statuses, now \in Start .. MaxTime
  PROVE  LET y == QUEUE_STATUS(x, s)
         IN  /\ y \in Driver
             /\ y.open = x.open /\ y.press = x.press
             /\ y.read_offset = x.read_offset /\ y.write_offset = x.write_offset + 1
             /\ y.last_press_change_time = x.last_press_change_time
             /\ At(y, x.write_offset) = Entry(s, system_get_time)
             /\ \A j \in Int : j < x.write_offset /\ x.write_offset - j < QUEUE_SIZE =>
                                 At(y, j) = At(x, j)
  <1>. DEFINE w == x.write_offset
              e == Entry(s, system_get_time)
              q == [x.queue EXCEPT ![w % QUEUE_SIZE] = e]
              y == QUEUE_STATUS(x, s)
  <1>1. w \in Nat /\ x.queue \in [0 .. QUEUE_SIZE - 1 -> Entries]
    BY DEF Driver
  <1>2. e \in Entries
    BY Times, EntryFields
  <1>3. w % QUEUE_SIZE \in 0 .. QUEUE_SIZE - 1
    <2>1. w \in Int
      BY <1>1
    <2>. HIDE DEF w
    <2>. QED BY <2>1, Ring
  <1>. HIDE DEF e
  <1>4. q \in [0 .. QUEUE_SIZE - 1 -> Entries]
    BY <1>1, <1>2
  <1>5. q[w % QUEUE_SIZE] = e
    BY <1>1, <1>3
  <1>6. ASSUME NEW j \in Int, j < w, w - j < QUEUE_SIZE
        PROVE  q[j % QUEUE_SIZE] = x.queue[j % QUEUE_SIZE]
    <2>1. j % QUEUE_SIZE # w % QUEUE_SIZE
      BY <1>1, <1>6, RingDistinct
    <2>2. j % QUEUE_SIZE \in 0 .. QUEUE_SIZE - 1
      BY Ring
    <2>. QED BY <1>1, <2>1, <2>2
  <1>. HIDE DEF q
  <1>7. y = [x EXCEPT !.queue = q, !.write_offset = w + 1]
    BY DEF QUEUE_STATUS, e, q
  <1>9. w + 1 \in Nat
    BY <1>1
  <1>. HIDE DEF y
  <1>8. /\ y \in Driver
        /\ y.open = x.open /\ y.press = x.press
        /\ y.read_offset = x.read_offset /\ y.write_offset = w + 1
        /\ y.last_press_change_time = x.last_press_change_time /\ y.queue = q
    BY <1>4, <1>7, <1>9 DEF Driver
  <1>. QED BY <1>5, <1>6, <1>8 DEF At, e, y

\* The last entry is overwritten.
LEMMA ReplaceStatus ==
  ASSUME NEW x \in Driver, NEW s \in Statuses, now \in Start .. MaxTime
  PROVE  LET y == REPLACE_STATUS(x, s)
         IN  /\ y \in Driver
             /\ y.open = x.open /\ y.press = x.press
             /\ y.read_offset = x.read_offset /\ y.write_offset = x.write_offset
             /\ y.last_press_change_time = x.last_press_change_time
             /\ At(y, x.write_offset - 1) = Entry(s, system_get_time)
             /\ \A j \in Int : j < x.write_offset - 1
                                 /\ (x.write_offset - 1) - j < QUEUE_SIZE =>
                                 At(y, j) = At(x, j)
  <1>. DEFINE w == x.write_offset - 1
              e == Entry(s, system_get_time)
              q == [x.queue EXCEPT ![w % QUEUE_SIZE] = e]
              y == REPLACE_STATUS(x, s)
  <1>1. w \in Int /\ x.queue \in [0 .. QUEUE_SIZE - 1 -> Entries]
    BY DEF Driver
  <1>2. e \in Entries
    BY Times, EntryFields
  <1>3. w % QUEUE_SIZE \in 0 .. QUEUE_SIZE - 1
    <2>1. w \in Int
      BY <1>1
    <2>. HIDE DEF w
    <2>. QED BY <2>1, Ring
  <1>. HIDE DEF e
  <1>4. q \in [0 .. QUEUE_SIZE - 1 -> Entries]
    BY <1>1, <1>2
  <1>5. q[w % QUEUE_SIZE] = e
    BY <1>1, <1>3
  <1>6. ASSUME NEW j \in Int, j < w, w - j < QUEUE_SIZE
        PROVE  q[j % QUEUE_SIZE] = x.queue[j % QUEUE_SIZE]
    <2>1. j % QUEUE_SIZE # w % QUEUE_SIZE
      BY <1>1, <1>6, RingDistinct
    <2>2. j % QUEUE_SIZE \in 0 .. QUEUE_SIZE - 1
      BY Ring
    <2>. QED BY <1>1, <2>1, <2>2
  <1>. HIDE DEF q
  <1>7. y = [x EXCEPT !.queue = q]
    BY DEF REPLACE_STATUS, e, q
  <1>. HIDE DEF y
  <1>8. /\ y \in Driver
        /\ y.open = x.open /\ y.press = x.press
        /\ y.read_offset = x.read_offset /\ y.write_offset = x.write_offset
        /\ y.last_press_change_time = x.last_press_change_time /\ y.queue = q
    BY <1>1, <1>4, <1>7 DEF Driver
  <1>. QED BY <1>5, <1>6, <1>8 DEF At, e, y

\* Taking the oldest entry leaves the ring as it is.
LEMMA GetEvent ==
  ASSUME NEW x \in Driver
  PROVE  LET y == rotary_getevent(x).data
         IN  /\ y \in Driver
             /\ y.open = x.open /\ y.press = x.press /\ y.queue = x.queue
             /\ y.read_offset = x.read_offset + 1 /\ y.write_offset = x.write_offset
             /\ y.last_press_change_time = x.last_press_change_time
             /\ rotary_getevent(x).event = At(x, x.read_offset)
  <1>1. x.read_offset + 1 \in Nat
    BY DEF Driver
  <1>. QED BY <1>1 DEF rotary_getevent, Driver, At

LEMMA EntryKept ==
  ASSUME NEW x \in Driver, NEW j \in Int
  PROVE  /\ At(x, j) \in Entries
         /\ At(x, j).pos \in Int /\ At(x, j).pressed \in BOOLEAN /\ At(x, j).time_us \in Int
         /\ Status(At(x, j)) \in Statuses
         /\ Status(At(x, j)).pressed = At(x, j).pressed
         /\ Status(At(x, j)).pos = At(x, j).pos
  <1>1. At(x, j) \in Entries
    BY Ring DEF Driver, At
  <1>. QED BY <1>1 DEF Entries, Statuses, Status

\* The time of the last change is noted.
LEMMA NoteChange ==
  ASSUME NEW x \in Driver, NEW t \in Int
  PROVE  LET y == [x EXCEPT !.last_press_change_time = t]
         IN  /\ y \in Driver
             /\ y.open = x.open /\ y.press = x.press /\ y.queue = x.queue
             /\ y.read_offset = x.read_offset /\ y.write_offset = x.write_offset
             /\ y.last_press_change_time = t
  BY DEF Driver

\* lrotary_check_timer ends a wait only when its time is over, and changes
\* nothing else that the program is told.
LEMMA CheckTimer ==
  ASSUME NEW x \in Client, NEW t \in Int, NEW dotimer \in BOOLEAN, now \in Start .. MaxTime
  PROVE  LET y == lrotary_check_timer(x, t, dotimer)
         IN  /\ y \in Client
             /\ y.open = x.open /\ y.lastpos = x.lastpos
             /\ y.last_event_time = x.last_event_time
             /\ y.was_press => x.was_press
             /\ y.was_release => x.was_release
             /\ x.was_press /\ ~y.was_press => LongPress(x, t)
  <1>. DEFINE z == [x EXCEPT !.was_press = x.was_press /\ ~LongPress(x, t),
                             !.was_release = x.was_release /\ ~Click(x, t)]
              delay == IF z.was_release THEN click_delay ELSE longpress_delay
              e == now + (delay - Since(t, x.last_event_time)) + 1
  <1>1. (x.was_press /\ ~LongPress(x, t)) \in BOOLEAN /\ (x.was_release /\ ~Click(x, t)) \in BOOLEAN
    OBVIOUS
  <1>2. /\ z \in Client
        /\ z.open = x.open /\ z.lastpos = x.lastpos /\ z.dbl_click = x.dbl_click
        /\ z.last_event_time = x.last_event_time
        /\ z.was_press = (x.was_press /\ ~LongPress(x, t))
        /\ z.was_release = (x.was_release /\ ~Click(x, t))
    BY <1>1 DEF Client
  <1>3. e \in Int
    <2>1. delay \in Int
      BY RotaryAssumption
    <2>2. now \in Int
      BY RotaryAssumption
    <2>3. Since(t, x.last_event_time) \in Int
      BY Times DEF Client
    <2>. HIDE DEF delay
    <2>. QED BY <2>1, <2>2, <2>3
  <1>. HIDE DEF z
  <1>4. ASSUME NEW y, NEW r \in BOOLEAN, NEW i \in Int,
               y = [z EXCEPT !.timer_running = r, !.expires = i]
        PROVE  /\ y \in Client
               /\ y.open = x.open /\ y.lastpos = x.lastpos
               /\ y.last_event_time = x.last_event_time
               /\ y.was_press => x.was_press
               /\ y.was_release => x.was_release
               /\ x.was_press /\ ~y.was_press => LongPress(x, t)
    BY <1>2, <1>4 DEF Client
  <1>. HIDE DEF e, delay
  <1>5. \/ lrotary_check_timer(x, t, dotimer) = [z EXCEPT !.timer_running = TRUE, !.expires = e]
        \/ lrotary_check_timer(x, t, dotimer) = [z EXCEPT !.timer_running = FALSE, !.expires = 0]
    BY DEF lrotary_check_timer, z, e, delay
  <1>6. CASE lrotary_check_timer(x, t, dotimer) = [z EXCEPT !.timer_running = TRUE, !.expires = e]
    BY <1>3, <1>4, <1>6, TRUE \in BOOLEAN, Zenon
  <1>7. CASE lrotary_check_timer(x, t, dotimer) = [z EXCEPT !.timer_running = FALSE, !.expires = 0]
    <2>1. 0 \in Int
      OBVIOUS
    <2>. QED BY <1>4, <1>7, <2>1, FALSE \in BOOLEAN, Zenon
  <1>. QED BY <1>5, <1>6, <1>7

\* The program is told status s, with a press, a release or neither.
Told(x, s) == [x EXCEPT !.lastpos = s]

LEMMA TellPress ==
  ASSUME NEW x \in Client, NEW t \in Int, NEW s \in Statuses, NEW y,
         y = Told(Press(x, t), s)
  PROVE  /\ y \in Client /\ y.open = x.open /\ y.lastpos = s
         /\ ~y.was_release /\ y.last_event_time = t
  <1>1. (x.dbl_click \/ (x.was_release /\ Since(t, x.last_event_time) < click_delay)) \in BOOLEAN
    OBVIOUS
  <1>. QED BY <1>1 DEF Told, Press, Client

LEMMA TellRelease ==
  ASSUME NEW x \in Client, NEW t \in Int, NEW s \in Statuses, NEW y,
         y = Told(Release(x, t), s)
  PROVE  /\ y \in Client /\ y.open = x.open /\ y.lastpos = s
         /\ ~y.was_press /\ y.last_event_time = t
  <1>1. (~x.dbl_click) \in BOOLEAN
    OBVIOUS
  <1>. QED BY <1>1 DEF Told, Release, Client

LEMMA TellTurn ==
  ASSUME NEW x \in Client, NEW s \in Statuses, NEW y, y = Told(x, s)
  PROVE  /\ y \in Client /\ y.open = x.open /\ y.lastpos = s
         /\ y.was_press = x.was_press /\ y.was_release = x.was_release
         /\ y.last_event_time = x.last_event_time
  BY DEF Told, Client

\* The interrupt takes a step of the switch for what it is, as long as it is one.
LEMMA Micropos ==
  ASSUME axis \in Int
  PROVE  micropos = axis % 4 /\ micropos \in 0 .. 3
  BY DEF micropos, PhaseA, PhaseB

LEMMA PositionFollows ==
  ASSUME axis \in Int
  PROVE  /\ \A last \in Int : rotary_pos(last) \in Int
         /\ \A seen, base \in Int :
              base % 4 = 0 /\ axis - seen \in -1 .. 1 =>
                rotary_pos(seen - base) = axis - base
  <1>1. micropos = axis % 4 /\ micropos \in Int
    BY Micropos
  <1>2. Missed \in Int
    BY RotaryAssumption
  <1>. HIDE DEF micropos
  <1>3. ASSUME NEW last \in Int PROVE rotary_pos(last) \in Int
    BY <1>1, <1>2 DEF rotary_pos
  <1>4. ASSUME NEW seen \in Int, NEW base \in Int, base % 4 = 0, axis - seen \in -1 .. 1
        PROVE  rotary_pos(seen - base) = axis - base
    <2>. DEFINE step == (micropos - (seen - base)) % 4
    <2>1. step = (axis - seen) % 4
      BY <1>1, <1>4
    <2>2. CASE axis - seen = 0
      BY <2>1, <2>2, <1>4 DEF rotary_pos
    <2>3. CASE axis - seen = 1
      <3>1. step = 1
        BY <2>1, <2>3
      <3>. QED BY <2>3, <3>1, <1>4 DEF rotary_pos
    <2>4. CASE axis - seen = -1
      <3>1. step = 3
        BY <2>1, <2>4
      <3>. QED BY <2>4, <3>1, <1>4 DEF rotary_pos
    <2>. QED BY <1>4, <2>2, <2>3, <2>4
  <1>. QED BY <1>3, <1>4

----------------------------------------------------------------------------
(* The inductive invariant.                                                *)

History ==
  [owed : Seq([pressed : BOOLEAN, time_us : Int]), full : BOOLEAN,
   base : Int, seen : Int, lost : BOOLEAN, unseen : BOOLEAN, refused : BOOLEAN]

Types == TypeOK /\ d \in Driver /\ m \in Client /\ h \in History

\* While task_queued is set the message that clears it is on its way.
Posted == task_queued => \E i \in 1 .. Len(posts) : posts[i]

\* A channel that is closed has nothing queued.
Closed == ~d.open => ~HAS_QUEUED_DATA(d)

\* The ring still has the entry that the program was told last.
ToldSoFar == m.lastpos = Status(At(d, d.read_offset - 1))

PressIsDown == m.was_press => m.lastpos.pressed

\* The last entry is the position at the last interrupt.
Tracked ==
  d.open => /\ ~irq => h.seen = axis
            /\ ~h.lost => /\ At(d, d.write_offset - 1).pos = h.seen - h.base
                          /\ h.base % 4 = 0

\* The last entry has the button as it is, unless the interrupt ignored a change.
ButtonSeen ==
  d.open /\ d.press /\ ~irq /\ ~h.unseen =>
    (At(d, d.write_offset - 1).pressed <=> button)

\* The driver's time of the last change is that of the last one owed, or, if
\* there is none, the one the program was told.
TimeKept ==
  ~h.full => d.last_press_change_time =
               IF h.owed = << >> THEN m.last_event_time
                                 ELSE h.owed[Len(h.owed)].time_us

IInv ==
  /\ Types
  /\ Posted /\ Closed /\ NoLostWakeUp
  /\ ToldSoFar /\ PressIsDown /\ Tracked /\ ButtonSeen
  /\ PressesKept /\ TimeKept

----------------------------------------------------------------------------
(* What the interrupt does.                                                *)

\* Entry new is written behind the last one, or over it, or nothing changes.
Writes(new) ==
  LET w    == d.write_offset
      last == At(d, w - 1)
      t    == system_get_time
  IN  /\ d' \in Driver
      /\ d'.open = d.open /\ d'.press = d.press /\ d'.read_offset = d.read_offset
      /\ d'.last_press_change_time =
           IF last.pressed = new.pressed THEN d.last_press_change_time ELSE t
      /\ \/ /\ d' = d /\ Status(last) = new
            /\ h'.full = h.full
         \/ /\ HAS_QUEUE_SPACE(d)
            /\ d'.write_offset = w + 1 /\ At(d', w) = Entry(new, t)
            /\ \A j \in Int : j < w /\ w - j < QUEUE_SIZE => At(d', j) = At(d, j)
            /\ h'.full = h.full
         \/ /\ HAS_QUEUED_DATA(d)
            /\ d'.write_offset = w /\ At(d', w - 1) = Entry(new, t)
            /\ \A j \in Int : j < w - 1 /\ (w - 1) - j < QUEUE_SIZE => At(d', j) = At(d, j)
            /\ \/ h'.full = TRUE
               \/ /\ h'.full = h.full
                  /\ last.pressed = new.pressed
                  /\ last.pressed = At(d, w - 2).pressed

LEMMA NewStatus ==
  ASSUME Types
  PROVE  /\ new_status(At(d, d.write_offset - 1)) \in Statuses
         /\ new_status(At(d, d.write_offset - 1)).pos = rotary_pos(At(d, d.write_offset - 1).pos)
         /\ d.press /\ ~(~Debounced /\ button # At(d, d.write_offset - 1).pressed) =>
              (new_status(At(d, d.write_offset - 1)).pressed <=> button)
  <1>. DEFINE last == At(d, d.write_offset - 1)
  <1>1. d.write_offset - 1 \in Int /\ axis \in Int /\ button \in BOOLEAN /\ d.press \in BOOLEAN
    <2>1. axis \in Positions /\ button \in BOOLEAN /\ d \in Driver
      BY DEF Types, TypeOK
    <2>2. d.write_offset \in Nat /\ d.press \in BOOLEAN
      BY <2>1 DEF Driver
    <2>3. Positions \subseteq Int
      BY RotaryAssumption
    <2>. QED BY <2>1, <2>2, <2>3
  <1>2. last.pos \in Int /\ last.pressed \in BOOLEAN
    BY <1>1, EntryKept DEF Types
  <1>. HIDE DEF last
  <1>3. rotary_pos(last.pos) \in Int
    BY <1>1, <1>2, PositionFollows
  <1>4. (IF Debounced THEN d.press => button ELSE last.pressed) \in BOOLEAN
    BY <1>1, <1>2
  <1>5. new_status(last) = [pos |-> rotary_pos(last.pos),
                            pressed |-> IF Debounced THEN d.press => button ELSE last.pressed]
    BY DEF new_status
  <1>6. new_status(last) \in Statuses /\ new_status(last).pos = rotary_pos(last.pos)
    BY <1>3, <1>4, <1>5 DEF Statuses
  <1>7. new_status(last).pressed = IF Debounced THEN d.press => button ELSE last.pressed
    BY <1>5
  <1>8. d.press /\ ~(~Debounced /\ button # last.pressed) =>
          (new_status(last).pressed <=> button)
    BY <1>1, <1>2, <1>7
  <1>. QED BY <1>6, <1>8 DEF last

LEMMA InterruptWrites ==
  ASSUME Types, NEW refused \in BOOLEAN, rotary_interrupt(refused)
  PROVE  Writes(new_status(At(d, d.write_offset - 1)))
  <1>. DEFINE w     == d.write_offset
              last  == At(d, w - 1)
              new   == new_status(last)
              fresh == Status(last) # new /\ NewEntry(last, new)
              t     == system_get_time
              post  == fresh /\ HAS_QUEUE_SPACE(d) /\ ~task_queued
              x     == IF last.pressed = new.pressed THEN d
                       ELSE [d EXCEPT !.last_press_change_time = t]
  <1>1. GET_LAST_STATUS(d) = last /\ GET_PREV_STATUS(d) = At(d, w - 2)
    BY DEF GET_LAST_STATUS, GET_PREV_STATUS, At
  <1>2. /\ d' = IF Status(last) = new THEN d
                ELSE IF fresh /\ HAS_QUEUE_SPACE(d) THEN QUEUE_STATUS(x, new)
                ELSE REPLACE_STATUS(x, new)
        /\ h' = [h EXCEPT
              !.owed = IF last.pressed = new.pressed THEN @
                       ELSE Append(@, Change(new, t)),
              !.full = @ \/ (fresh /\ ~HAS_QUEUE_SPACE(d)),
              !.seen = axis,
              !.lost = @ \/ axis - h.seen \notin -1 .. 1,
              !.unseen = ~Debounced /\ button # last.pressed,
              !.refused = IF post THEN refused ELSE @]
    BY <1>1, Zenon DEF rotary_interrupt
  <1>3. h'.full = (h.full \/ (fresh /\ ~HAS_QUEUE_SPACE(d)))
    BY <1>2 DEF Types, History
  <1>4. new \in Statuses /\ t \in Int /\ now \in Start .. MaxTime
    BY NewStatus, Times DEF Types, TypeOK
  <1>5. /\ x \in Driver /\ x.open = d.open /\ x.press = d.press /\ x.queue = d.queue
        /\ x.read_offset = d.read_offset /\ x.write_offset = w
        /\ x.last_press_change_time =
             IF last.pressed = new.pressed THEN d.last_press_change_time ELSE t
    BY <1>4, NoteChange DEF Types
  <1>6. NewEntry(last, new) <=> \/ ~HAS_QUEUED_DATA(d)
                                \/ last.pressed # new.pressed
                                \/ last.pressed # At(d, w - 2).pressed
    BY <1>1 DEF NewEntry
  <1>7. ~HAS_QUEUED_DATA(d) => HAS_QUEUE_SPACE(d)
    BY Sizes DEF HAS_QUEUED_DATA, HAS_QUEUE_SPACE, Types, TypeOK, Driver
  <1>8. Status(last) = new => last.pressed = new.pressed
    BY DEF Status
  <1>. HIDE DEF x, new, t
  <1>9. CASE Status(last) = new
    BY <1>2, <1>3, <1>8, <1>9 DEF Writes, Types, History, x, new, t
  <1>10. CASE fresh /\ HAS_QUEUE_SPACE(d)
    <2>1. h'.full = h.full
      BY <1>3, <1>10 DEF Types, History
    <2>2. d' = QUEUE_STATUS(x, new)
      BY <1>2, <1>10
    <2>3. /\ d' \in Driver
          /\ d'.open = x.open /\ d'.press = x.press
          /\ d'.read_offset = x.read_offset /\ d'.write_offset = x.write_offset + 1
          /\ d'.last_press_change_time = x.last_press_change_time
          /\ At(d', x.write_offset) = Entry(new, t)
          /\ \A j \in Int : j < x.write_offset /\ x.write_offset - j < QUEUE_SIZE =>
                              At(d', j) = At(x, j)
      BY <1>4, <1>5, <2>2, QueueStatus, Zenon DEF t
    <2>4. \A j : At(x, j) = At(d, j)
      BY <1>5 DEF At
    <2>. QED BY <1>5, <1>10, <2>1, <2>3, <2>4 DEF Writes, new, t
  <1>11. CASE Status(last) # new /\ ~(fresh /\ HAS_QUEUE_SPACE(d))
    <2>1. \/ h'.full = TRUE
          \/ h'.full = h.full /\ last.pressed = new.pressed /\ last.pressed = At(d, w - 2).pressed
      BY <1>3, <1>6, <1>11 DEF Types, History
    <2>2. HAS_QUEUED_DATA(d)
      BY <1>6, <1>7, <1>11
    <2>3. d' = REPLACE_STATUS(x, new)
      BY <1>2, <1>11
    <2>4. /\ d' \in Driver
          /\ d'.open = x.open /\ d'.press = x.press
          /\ d'.read_offset = x.read_offset /\ d'.write_offset = x.write_offset
          /\ d'.last_press_change_time = x.last_press_change_time
          /\ At(d', x.write_offset - 1) = Entry(new, t)
          /\ \A j \in Int : j < x.write_offset - 1
                              /\ (x.write_offset - 1) - j < QUEUE_SIZE =>
                              At(d', j) = At(x, j)
      BY <1>4, <1>5, <2>3, ReplaceStatus, Zenon DEF t
    <2>5. \A j : At(x, j) = At(d, j)
      BY <1>5 DEF At
    <2>. QED BY <1>5, <2>1, <2>2, <2>4, <2>5 DEF Writes, new, t
  <1>. QED BY <1>9, <1>10, <1>11

----------------------------------------------------------------------------
(* The changes of the button that are owed.                                *)

ButtonChange == [pressed : BOOLEAN, time_us : Int]

\* f numbers the entries C of ring x in the order of owed, which says what they
\* are.
Numbering(f, x, C, owed) ==
  /\ f \in [1 .. Len(owed) -> C]
  /\ \A i, j \in 1 .. Len(owed) : i < j => f[i] < f[j]
  /\ \A c \in C : \E i \in 1 .. Len(owed) : f[i] = c
  /\ \A i \in 1 .. Len(owed) : owed[i] = Change(At(x, f[i]), At(x, f[i]).time_us)

LEMMA NumberingKept ==
  ASSUME NEW x, NEW y, NEW C, NEW owed, NEW f, Numbering(f, x, C, owed),
         \A c \in C : At(y, c) = At(x, c)
  PROVE  Numbering(f, y, C, owed)
  BY DEF Numbering

\* A change that is queued behind the others is owed last.
LEMMA NumberingAppend ==
  ASSUME NEW x, NEW y, NEW C \in SUBSET Int, NEW owed \in Seq(ButtonChange), NEW f,
         Numbering(f, x, C, owed),
         \A c \in C : At(y, c) = At(x, c),
         NEW w \in Int, \A c \in C : c < w,
         NEW e \in ButtonChange, e = Change(At(y, w), At(y, w).time_us)
  PROVE  \E g : Numbering(g, y, C \cup {w}, Append(owed, e))
  <1>. DEFINE n == Len(owed)
              o == Append(owed, e)
              g == [i \in 1 .. n + 1 |-> IF i = n + 1 THEN w ELSE f[i]]
  <1>1. n \in Nat /\ Len(o) = n + 1
    OBVIOUS
  <1>2. o[n + 1] = e /\ \A i \in 1 .. n : o[i] = owed[i]
    OBVIOUS
  <1>. HIDE DEF n, o
  <1>3. /\ f \in [1 .. n -> C]
        /\ \A i, j \in 1 .. n : i < j => f[i] < f[j]
        /\ \A c \in C : \E i \in 1 .. n : f[i] = c
        /\ \A i \in 1 .. n : owed[i] = Change(At(y, f[i]), At(y, f[i]).time_us)
    BY NumberingKept DEF Numbering, n
  <1>4. \A i \in 1 .. n + 1 : i = n + 1 \/ i \in 1 .. n
    BY <1>1
  <1>5. \A i \in 1 .. n : i # n + 1 /\ i \in 1 .. n + 1 /\ g[i] = f[i] /\ f[i] \in C
    BY <1>1, <1>3
  <1>6. n + 1 \in 1 .. n + 1 /\ g[n + 1] = w
    BY <1>1
  <1>7. g \in [1 .. n + 1 -> C \cup {w}]
    BY <1>3, <1>4, <1>5
  <1>. HIDE DEF g
  <1>8. \A i, j \in 1 .. n + 1 : i < j => g[i] < g[j]
    <2>. TAKE i \in 1 .. n + 1, j \in 1 .. n + 1
    <2>. HAVE i < j
    <2>1. i \in 1 .. n
      BY <1>1
    <2>2. CASE j = n + 1
      BY <1>5, <1>6, <2>1, <2>2
    <2>3. CASE j \in 1 .. n
      BY <1>3, <1>5, <2>1, <2>3
    <2>. QED BY <1>4, <2>2, <2>3
  <1>9. \A c \in C \cup {w} : \E i \in 1 .. n + 1 : g[i] = c
    <2>. TAKE c \in C \cup {w}
    <2>1. CASE c = w
      BY <1>6, <2>1
    <2>2. CASE c \in C
      <3>1. PICK i \in 1 .. n : f[i] = c
        BY <1>3, <2>2
      <3>. QED BY <1>5, <3>1
    <2>. QED BY <2>1, <2>2
  <1>10. \A i \in 1 .. n + 1 : o[i] = Change(At(y, g[i]), At(y, g[i]).time_us)
    <2>. TAKE i \in 1 .. n + 1
    <2>1. CASE i = n + 1
      BY <1>2, <1>6, <2>1
    <2>2. CASE i \in 1 .. n
      BY <1>2, <1>3, <1>5, <2>2
    <2>. QED BY <1>4, <2>1, <2>2
  <1>11. Numbering(g, y, C \cup {w}, o)
    BY <1>1, <1>7, <1>8, <1>9, <1>10 DEF Numbering
  <1>. QED BY <1>11 DEF o

LEMMA TailLast ==
  ASSUME NEW o \in Seq(ButtonChange), o # << >>
  PROVE  /\ Len(o) \in Nat /\ Len(o) > 0
         /\ Len(o) = 1 => Tail(o) = << >>
         /\ Len(o) > 1 => Tail(o) # << >> /\ Tail(o)[Len(Tail(o))] = o[Len(o)]
  <1>1. /\ Tail(o) \in Seq(ButtonChange) /\ Len(Tail(o)) = Len(o) - 1 /\ Len(o) \in Nat
        /\ \A i \in 1 .. Len(Tail(o)) : Tail(o)[i] = o[i + 1]
    BY HeadTailProperties, LenProperties
  <1>2. Len(o) > 0
    BY <1>1, EmptySeq
  <1>3. Tail(o) = << >> <=> Len(o) = 1
    <2>1. Tail(o) # << >> => Len(Tail(o)) \in Nat \ {0}
      BY <1>1, EmptySeq
    <2>2. Tail(o) = << >> => Len(Tail(o)) = 0
      BY EmptySeq
    <2>. QED BY <1>1, <2>1, <2>2
  <1>4. ASSUME Len(o) > 1 PROVE Tail(o)[Len(Tail(o))] = o[Len(o)]
    <2>1. Len(o) - 1 \in 1 .. Len(Tail(o)) /\ (Len(o) - 1) + 1 = Len(o)
      BY <1>1, <1>4
    <2>. QED BY <1>1, <2>1
  <1>. QED BY <1>1, <1>2, <1>3, <1>4

\* The first queued change is the one that is owed first.
LEMMA NumberingTail ==
  ASSUME NEW x, NEW C \in SUBSET Int, NEW owed \in Seq(ButtonChange), NEW f,
         Numbering(f, x, C, owed), NEW r \in C, \A c \in C : r <= c
  PROVE  /\ owed # << >> /\ Len(owed) \in Nat /\ Len(owed) > 0
         /\ owed[1] = Change(At(x, r), At(x, r).time_us)
         /\ \E g : Numbering(g, x, C \ {r}, Tail(owed))
  <1>. DEFINE n == Len(owed)
              o == Tail(owed)
              g == [i \in 1 .. n - 1 |-> f[i + 1]]
  <1>1. n \in Nat
    OBVIOUS
  <1>2. /\ f \in [1 .. n -> C]
        /\ \A i, j \in 1 .. n : i < j => f[i] < f[j]
        /\ \A c \in C : \E i \in 1 .. n : f[i] = c
        /\ \A i \in 1 .. n : owed[i] = Change(At(x, f[i]), At(x, f[i]).time_us)
    BY DEF Numbering
  <1>3. PICK k \in 1 .. n : f[k] = r
    BY <1>2
  <1>4. n > 0 /\ 1 \in 1 .. n
    BY <1>1, <1>3
  <1>5. f[1] = r /\ k = 1
    <2>1. f[1] \in C /\ r <= f[1] /\ f[1] \in Int /\ r \in Int
      BY <1>2, <1>4
    <2>2. 1 < k => f[1] < f[k]
      BY <1>2, <1>3, <1>4
    <2>3. ~(1 < k)
      BY <1>3, <2>1, <2>2
    <2>. QED BY <1>1, <1>3, <2>3
  <1>6. owed # << >>
    BY <1>4
  <1>7. Len(o) = n - 1 /\ \A i \in 1 .. n - 1 : o[i] = owed[i + 1]
    BY <1>4, <1>6
  <1>. HIDE DEF n, o
  <1>8. \A i \in 1 .. n - 1 : i + 1 \in 1 .. n /\ i + 1 # 1 /\ g[i] = f[i + 1]
    BY <1>1
  <1>9. \A i \in 2 .. n : f[i] \in C \ {r}
    <2>. TAKE i \in 2 .. n
    <2>1. i \in 1 .. n /\ 1 < i
      BY <1>1
    <2>2. f[1] < f[i] /\ f[i] \in C /\ f[i] \in Int /\ f[1] \in Int
      BY <1>2, <1>4, <2>1
    <2>. QED BY <1>5, <2>2
  <1>10. g \in [1 .. n - 1 -> C \ {r}]
    <2>1. \A i \in 1 .. n - 1 : i + 1 \in 2 .. n
      BY <1>1
    <2>. QED BY <1>9, <2>1
  <1>. HIDE DEF g
  <1>11. \A i, j \in 1 .. n - 1 : i < j => g[i] < g[j]
    <2>. TAKE i \in 1 .. n - 1, j \in 1 .. n - 1
    <2>1. i < j => i + 1 < j + 1
      BY <1>1
    <2>. QED BY <1>2, <1>8, <2>1
  <1>12. \A c \in C \ {r} : \E i \in 1 .. n - 1 : g[i] = c
    <2>. TAKE c \in C \ {r}
    <2>1. PICK i \in 1 .. n : f[i] = c
      BY <1>2
    <2>2. i # 1
      BY <1>5, <2>1
    <2>3. i - 1 \in 1 .. n - 1 /\ (i - 1) + 1 = i
      BY <1>1, <2>1, <2>2
    <2>. QED BY <1>8, <2>1, <2>3
  <1>13. \A i \in 1 .. n - 1 : o[i] = Change(At(x, g[i]), At(x, g[i]).time_us)
    BY <1>2, <1>7, <1>8
  <1>14. Numbering(g, x, C \ {r}, o)
    BY <1>7, <1>10, <1>11, <1>12, <1>13 DEF Numbering
  <1>15. owed[1] = Change(At(x, r), At(x, r).time_us)
    BY <1>2, <1>4, <1>5
  <1>. QED BY <1>1, <1>4, <1>6, <1>14, <1>15 DEF n, o

\* The queued changes, in terms of the ring alone.
LEMMA ChangesMeaning ==
  Types /\ ToldSoFar =>
    \A j : j \in Changes <=> /\ j \in d.read_offset .. d.write_offset - 1
                             /\ At(d, j).pressed # At(d, j - 1).pressed
  <1>. SUFFICES ASSUME Types, ToldSoFar,
                       NEW j \in d.read_offset .. d.write_offset - 1
                PROVE  Before(j).pressed = At(d, j - 1).pressed
    BY DEF Changes
  <1>1. j - 1 \in Int /\ d.read_offset - 1 \in Int
    BY DEF Types, Driver
  <1>. QED BY <1>1, EntryKept DEF Before, ToldSoFar, Types

LEMMA KeptMeaning ==
  PressesKept <=> (~h.full => \E f : Numbering(f, d, Changes, h.owed))
  BY DEF PressesKept, Numbering

----------------------------------------------------------------------------
(* Messages.                                                               *)

\* After a post something is in the queue, unless it was refused.
LEMMA PostEffect ==
  ASSUME posts \in Seq(BOOLEAN), Len(posts) <= TASK_QUEUE_LEN, task_queued \in BOOLEAN,
         Posted, NEW pointer \in BOOLEAN, NEW refused \in BOOLEAN,
         task_post_medium(pointer, refused)
  PROVE  /\ posts' \in Seq(BOOLEAN) /\ Len(posts') <= TASK_QUEUE_LEN
         /\ task_queued' \in BOOLEAN
         /\ Posted' /\ (refused \/ posts' # << >>)
  <1>1. CASE ~refused
    <2>1. /\ posts' = Append(posts, pointer) /\ task_queued' = (task_queued \/ pointer)
          /\ Len(posts) < TASK_QUEUE_LEN
      BY <1>1 DEF task_post_medium
    <2>2. /\ posts' \in Seq(BOOLEAN) /\ Len(posts') = Len(posts) + 1
          /\ posts'[Len(posts) + 1] = pointer
          /\ \A i \in 1 .. Len(posts) : posts'[i] = posts[i]
          /\ Len(posts) \in Nat
      BY <2>1
    <2>3. Len(posts') <= TASK_QUEUE_LEN /\ posts' # << >>
      BY <2>1, <2>2, Sizes
    <2>4. Posted'
      <3>. SUFFICES ASSUME task_queued' PROVE \E i \in 1 .. Len(posts') : posts'[i]
        BY DEF Posted
      <3>1. CASE task_queued
        <4>1. PICK i \in 1 .. Len(posts) : posts[i]
          BY <3>1 DEF Posted
        <4>2. i \in 1 .. Len(posts')
          BY <2>2
        <4>3. posts'[i] = posts[i]
          BY <2>2
        <4>. QED BY <4>1, <4>2, <4>3
      <3>2. CASE pointer
        <4>1. Len(posts) + 1 \in 1 .. Len(posts')
          BY <2>2
        <4>2. posts'[Len(posts) + 1] = pointer
          BY <2>2
        <4>. QED BY <3>2, <4>1, <4>2
      <3>. QED BY <2>1, <3>1, <3>2
    <2>5. task_queued' \in BOOLEAN
      BY <2>1
    <2>. QED BY <2>2, <2>3, <2>4, <2>5
  <1>2. CASE refused
    <2>1. posts' = posts /\ task_queued' = task_queued
      BY <1>2 DEF task_post_medium, queue
    <2>2. Posted'
      BY <2>1 DEF Posted
    <2>. QED BY <1>2, <2>1, <2>2
  <1>. QED BY <1>1, <1>2

----------------------------------------------------------------------------
(* The interrupt preserves the invariant.                                  *)

LEMMA InterruptHistory ==
  ASSUME Types, NEW refused \in BOOLEAN, rotary_interrupt(refused)
  PROVE  LET last == At(d, d.write_offset - 1)
             new  == new_status(last)
         IN  /\ h' \in History
             /\ h'.seen = axis /\ h'.base = h.base
             /\ ~h'.lost => ~h.lost /\ axis - h.seen \in -1 .. 1
             /\ h'.owed = IF last.pressed = new.pressed THEN h.owed
                          ELSE Append(h.owed, Change(new, system_get_time))
             /\ Change(new, system_get_time) \in ButtonChange
             /\ h'.unseen = (~Debounced /\ button # last.pressed)
             /\ h'.refused = IF /\ Status(last) # new /\ NewEntry(last, new)
                               /\ HAS_QUEUE_SPACE(d) /\ ~task_queued
                              THEN refused ELSE h.refused
  <1>. DEFINE last == At(d, d.write_offset - 1)
              new  == new_status(last)
              t    == system_get_time
              o    == IF last.pressed = new.pressed THEN h.owed
                      ELSE Append(h.owed, Change(new, t))
              fl   == h.full \/ (/\ (Status(last) # new /\ NewEntry(last, new))
                                 /\ ~HAS_QUEUE_SPACE(d))
              lo   == h.lost \/ axis - h.seen \notin -1 .. 1
              us   == ~Debounced /\ button # last.pressed
              rf   == IF /\ Status(last) # new /\ NewEntry(last, new)
                         /\ HAS_QUEUE_SPACE(d) /\ ~task_queued
                        THEN refused ELSE h.refused
  <1>1. GET_LAST_STATUS(d) = last
    BY DEF GET_LAST_STATUS, At
  <1>2. h' = [h EXCEPT !.owed = o, !.full = fl, !.seen = axis, !.lost = lo,
                      !.unseen = us, !.refused = rf]
    BY <1>1, Zenon DEF rotary_interrupt
  <1>3. new \in Statuses /\ t \in Int /\ axis \in Int
    BY NewStatus, Times, RotaryAssumption DEF Types, TypeOK
  <1>4. Change(new, t) \in ButtonChange
    BY <1>3 DEF Change, Statuses, ButtonChange
  <1>5. h.owed \in Seq(ButtonChange)
    BY DEF Types, History, ButtonChange
  <1>6. o \in Seq(ButtonChange)
    BY <1>4, <1>5
  <1>7. fl \in BOOLEAN /\ lo \in BOOLEAN /\ us \in BOOLEAN /\ rf \in BOOLEAN
    BY DEF Types, History
  <1>8. lo \/ (~h.lost /\ axis - h.seen \in -1 .. 1)
    OBVIOUS
  <1>. HIDE DEF o, fl, lo, us, rf
  <1>9. /\ h' \in History /\ h'.seen = axis /\ h'.base = h.base
        /\ h'.lost = lo /\ h'.owed = o /\ h'.unseen = us /\ h'.refused = rf
    BY <1>2, <1>3, <1>6, <1>7 DEF Types, History, ButtonChange
  <1>. QED BY <1>4, <1>8, <1>9 DEF o, us, rf

LEMMA InterruptTypes ==
  ASSUME IInv, NEW refused \in BOOLEAN, rotary_interrupt(refused)
  PROVE  Types' /\ Posted' /\ Closed' /\ NoLostWakeUp'
  <1>. DEFINE new == new_status(At(d, d.write_offset - 1))
  <1>1. Writes(new) /\ h' \in History
    BY InterruptWrites, InterruptHistory DEF IInv
  <1>2. /\ d' \in Driver /\ d'.open = d.open /\ d'.read_offset = d.read_offset
        /\ d.read_offset \in Nat /\ d.write_offset \in Nat
        /\ \/ d'.write_offset = d.write_offset
           \/ d'.write_offset = d.write_offset + 1 /\ HAS_QUEUE_SPACE(d)
        /\ HAS_QUEUED_DATA(d) => HAS_QUEUED_DATA(d)'
    BY <1>1 DEF Writes, IInv, Types, Driver, HAS_QUEUED_DATA
  <1>3. /\ irq /\ irq' = FALSE
        /\ UNCHANGED <<axis, button, now, m, pc, need_to_post, wild>>
    BY DEF rotary_interrupt, switch, task
  <1>4. d.open
    BY <1>3 DEF IInv, Types, TypeOK
  <1>5. \/ task_post_medium(TRUE, refused) /\ h'.refused = refused
        \/ /\ UNCHANGED queue /\ h'.refused = h.refused
           /\ task_queued \/ d'.write_offset = d.write_offset
    <2>1. GET_LAST_STATUS(d) = At(d, d.write_offset - 1)
      BY DEF GET_LAST_STATUS, At
    <2>2. LET fresh == Status(GET_LAST_STATUS(d)) # new /\ NewEntry(GET_LAST_STATUS(d), new)
              x     == IF GET_LAST_STATUS(d).pressed = new.pressed THEN d
                       ELSE [d EXCEPT !.last_press_change_time = system_get_time]
          IN  /\ d' = IF Status(GET_LAST_STATUS(d)) = new THEN d
                      ELSE IF fresh /\ HAS_QUEUE_SPACE(d) THEN QUEUE_STATUS(x, new)
                      ELSE REPLACE_STATUS(x, new)
              /\ IF fresh /\ HAS_QUEUE_SPACE(d) /\ ~task_queued
                   THEN task_post_medium(TRUE, refused) ELSE UNCHANGED queue
      BY <2>1, Zenon DEF rotary_interrupt
    <2>6. h'.refused = IF /\ Status(GET_LAST_STATUS(d)) # new
                          /\ NewEntry(GET_LAST_STATUS(d), new)
                          /\ HAS_QUEUE_SPACE(d) /\ ~task_queued
                         THEN refused ELSE h.refused
      BY <2>1, InterruptHistory DEF IInv
    <2>3. \A x \in Driver : REPLACE_STATUS(x, new).write_offset = x.write_offset
      BY ReplaceStatus, NewStatus DEF IInv, Types, TypeOK
    <2>4. [d EXCEPT !.last_press_change_time = system_get_time] \in Driver
          /\ [d EXCEPT !.last_press_change_time = system_get_time].write_offset = d.write_offset
      BY NoteChange, Times DEF IInv, Types, TypeOK
    <2>. HIDE DEF new
    <2>5. d \in Driver
      BY DEF IInv, Types
    <2>. QED BY <2>2, <2>3, <2>4, <2>5, <2>6
  <1>6. /\ posts' \in Seq(BOOLEAN) /\ Len(posts') <= TASK_QUEUE_LEN
        /\ task_queued' \in BOOLEAN /\ Posted'
        /\ \/ posts' # << >> \/ h'.refused
           \/ /\ posts' = posts /\ h'.refused = h.refused
              /\ d'.write_offset = d.write_offset
    <2>1. /\ posts \in Seq(BOOLEAN) /\ Len(posts) <= TASK_QUEUE_LEN /\ task_queued \in BOOLEAN
          /\ Posted /\ TRUE \in BOOLEAN
      BY DEF IInv, Types, TypeOK
    <2>2. CASE task_post_medium(TRUE, refused) /\ h'.refused = refused
      BY <2>1, <2>2, PostEffect, Zenon
    <2>3. CASE /\ UNCHANGED queue /\ h'.refused = h.refused
               /\ task_queued \/ d'.write_offset = d.write_offset
      <3>1. task_queued => posts # << >>
        BY <2>1 DEF Posted
      <3>2. Posted'
        BY <2>1, <2>3 DEF queue, Posted
      <3>. QED BY <2>1, <2>3, <3>1, <3>2 DEF queue
    <2>. QED BY <1>5, <2>2, <2>3
  <1>7. /\ d'.read_offset \in 0 .. d'.write_offset
        /\ d'.write_offset - d'.read_offset < QUEUE_SIZE
    BY <1>2, Sizes DEF IInv, Types, TypeOK, HAS_QUEUE_SPACE
  <1>8. Types'
    BY <1>1, <1>2, <1>3, <1>6, <1>7 DEF IInv, Types, TypeOK
  <1>9. Closed'
    BY <1>2, <1>4 DEF Closed
  <1>10. NoLostWakeUp'
    BY <1>2, <1>3, <1>6 DEF IInv, NoLostWakeUp, HAS_QUEUED_DATA
  <1>. QED BY <1>6, <1>8, <1>9, <1>10

LEMMA InterruptStep ==
  ASSUME IInv, NEW refused \in BOOLEAN, rotary_interrupt(refused)
  PROVE  IInv'
  <1>. DEFINE r    == d.read_offset
              w    == d.write_offset
              last == At(d, w - 1)
              new  == new_status(last)
              t    == system_get_time
  <1>1. Types' /\ Posted' /\ Closed' /\ NoLostWakeUp'
    BY InterruptTypes
  <1>2. /\ irq' = FALSE /\ axis' = axis /\ m' = m
        /\ r \in Int /\ w \in Int /\ QUEUE_SIZE \in Int
        /\ r <= w /\ w - r < QUEUE_SIZE
        /\ d \in Driver /\ d' \in Driver
        /\ h.owed \in Seq(ButtonChange) /\ h.full \in BOOLEAN
        /\ axis \in Int /\ h.seen \in Int /\ h.base \in Int
    <2>1. irq' = FALSE /\ axis' = axis /\ m' = m
      BY DEF rotary_interrupt, switch
    <2>2. axis \in Int
      BY RotaryAssumption DEF IInv, Types, TypeOK
    <2>3. /\ r \in Int /\ w \in Int /\ QUEUE_SIZE \in Int
          /\ r <= w /\ w - r < QUEUE_SIZE
      BY Sizes DEF IInv, Types, TypeOK, Driver
    <2>4. /\ d \in Driver /\ d' \in Driver
          /\ h.owed \in Seq(ButtonChange) /\ h.full \in BOOLEAN
          /\ h.seen \in Int /\ h.base \in Int
      BY <1>1 DEF IInv, Types, History, ButtonChange
    <2>. QED BY <2>1, <2>2, <2>3, <2>4
  <1>3. /\ h'.seen = axis /\ h'.base = h.base
        /\ ~h'.lost => ~h.lost /\ axis - h.seen \in -1 .. 1
        /\ h'.owed = IF last.pressed = new.pressed THEN h.owed
                     ELSE Append(h.owed, Change(new, t))
        /\ Change(new, t) \in ButtonChange
        /\ h'.unseen = (~Debounced /\ button # last.pressed)
    BY InterruptHistory DEF IInv
  <1>4. Writes(new)
    BY InterruptWrites DEF IInv
  <1>5. /\ new \in Statuses /\ new.pos = rotary_pos(last.pos)
        /\ Entry(new, t).pos = new.pos /\ Entry(new, t).pressed = new.pressed
        /\ Entry(new, t).time_us = t
        /\ d.press /\ ~(~Debounced /\ button # last.pressed) => (new.pressed <=> button)
    BY NewStatus, Times, EntryFields DEF IInv, Types, TypeOK
  <1>. HIDE DEF new, t
  <1>6. /\ d'.open = d.open /\ d'.press = d.press /\ d'.read_offset = r
        /\ d'.last_press_change_time =
             IF last.pressed = new.pressed THEN d.last_press_change_time ELSE t
        /\ \/ /\ d' = d /\ Status(last) = new
              /\ h'.full = h.full
           \/ /\ HAS_QUEUE_SPACE(d)
              /\ d'.write_offset = w + 1 /\ At(d', w) = Entry(new, t)
              /\ \A j \in Int : j < w /\ w - j < QUEUE_SIZE => At(d', j) = At(d, j)
              /\ h'.full = h.full
           \/ /\ HAS_QUEUED_DATA(d)
              /\ d'.write_offset = w /\ At(d', w - 1) = Entry(new, t)
              /\ \A j \in Int : j < w - 1 /\ (w - 1) - j < QUEUE_SIZE => At(d', j) = At(d, j)
              /\ \/ h'.full = TRUE
                 \/ /\ h'.full = h.full
                    /\ last.pressed = new.pressed
                    /\ last.pressed = At(d, w - 2).pressed
    BY <1>4 DEF Writes, t
  <1>. HIDE DEF last
  <1>7. At(d', r - 1) = At(d, r - 1)
    <2>1. CASE d' = d
      BY <2>1
    <2>2. CASE /\ HAS_QUEUE_SPACE(d)
               /\ \A j \in Int : j < w /\ w - j < QUEUE_SIZE => At(d', j) = At(d, j)
      <3>1. r - 1 \in Int /\ r - 1 < w /\ w - (r - 1) < QUEUE_SIZE
        BY <1>2, <2>2 DEF HAS_QUEUE_SPACE
      <3>. QED BY <2>2, <3>1
    <2>3. CASE /\ HAS_QUEUED_DATA(d)
               /\ \A j \in Int : j < w - 1 /\ (w - 1) - j < QUEUE_SIZE => At(d', j) = At(d, j)
      <3>1. r - 1 \in Int /\ r - 1 < w - 1 /\ (w - 1) - (r - 1) < QUEUE_SIZE
        BY <1>2, <2>3 DEF HAS_QUEUED_DATA
      <3>. QED BY <2>3, <3>1
    <2>. QED BY <1>6, <2>1, <2>2, <2>3, Zenon
  <1>8. ToldSoFar' /\ PressIsDown'
    BY <1>2, <1>6, <1>7 DEF IInv, ToldSoFar, PressIsDown
  <1>9. At(d', d'.write_offset - 1).pos = new.pos /\ At(d', d'.write_offset - 1).pressed = new.pressed
    <2>1. CASE d' = d /\ Status(last) = new
      BY <2>1 DEF Status, last
    <2>2. CASE d'.write_offset = w + 1 /\ At(d', w) = Entry(new, t)
      <3>1. d'.write_offset - 1 = w
        BY <1>2, <2>2
      <3>. QED BY <1>5, <2>2, <3>1
    <2>3. CASE d'.write_offset = w /\ At(d', w - 1) = Entry(new, t)
      BY <1>5, <2>3
    <2>. QED BY <1>6, <2>1, <2>2, <2>3
  <1>10. Tracked'
    <2>1. ASSUME d.open, ~h'.lost PROVE new.pos = axis - h.base /\ h.base % 4 = 0
      <3>1. ~h.lost /\ axis - h.seen \in -1 .. 1
        BY <1>3, <2>1
      <3>2. last.pos = h.seen - h.base /\ h.base % 4 = 0
        BY <2>1, <3>1 DEF IInv, Tracked, last
      <3>. QED BY <1>2, <1>5, <3>1, <3>2, PositionFollows
    <2>. QED BY <1>2, <1>3, <1>6, <1>9, <2>1 DEF Tracked
  <1>13. ButtonSeen'
    <2>1. button' = button
      BY DEF rotary_interrupt, switch
    <2>. QED BY <1>3, <1>5, <1>6, <1>9, <2>1 DEF ButtonSeen
  <1>11. ASSUME ~h'.full PROVE PressesKept' /\ TimeKept'
    <2>1. ~h.full
      BY <1>2, <1>6, <1>11
    <2>2. PICK f : Numbering(f, d, Changes, h.owed)
      BY <2>1, KeptMeaning DEF IInv
    <2>3. \A j : j \in Changes <=> j \in r .. w - 1 /\ At(d, j).pressed # At(d, j - 1).pressed
      BY ChangesMeaning DEF IInv
    <2>4. \A j : j \in Changes' <=> /\ j \in d'.read_offset .. d'.write_offset - 1
                                    /\ At(d', j).pressed # At(d', j - 1).pressed
      <3>1. (Types /\ ToldSoFar)' =>
              (\A j : j \in Changes <=> /\ j \in d.read_offset .. d.write_offset - 1
                                        /\ At(d, j).pressed # At(d, j - 1).pressed)'
        BY ChangesMeaning, PTL
      <3>. QED BY <1>1, <1>8, <3>1
    <2>5. PressesKept' <=> (~h'.full => \E g : Numbering(g, d', Changes', h'.owed))
      BY DEF PressesKept, Numbering
    <2>6. d.last_press_change_time = IF h.owed = << >> THEN m.last_event_time
                                                       ELSE h.owed[Len(h.owed)].time_us
      BY <2>1 DEF IInv, TimeKept
    <2>7. Changes \in SUBSET Int /\ \A c \in Changes : r <= c /\ c < w
      BY <1>2, <2>3
    <2>8. CASE d' = d /\ Status(last) = new
      <3>1. last.pressed = new.pressed
        BY <2>8 DEF Status
      <3>2. Changes' = Changes
        BY <2>3, <2>4, <2>8
      <3>3. PressesKept'
        BY <1>3, <2>2, <2>5, <2>8, <3>1, <3>2
      <3>. QED BY <1>2, <1>3, <2>6, <2>8, <3>1, <3>3 DEF TimeKept
    <2>9. CASE /\ HAS_QUEUE_SPACE(d)
               /\ d'.write_offset = w + 1 /\ At(d', w) = Entry(new, t)
               /\ \A j \in Int : j < w /\ w - j < QUEUE_SIZE => At(d', j) = At(d, j)
      <3>1. w - r < QUEUE_SIZE - 1
        BY <1>2, <2>9 DEF HAS_QUEUE_SPACE
      <3>2. \A j \in Int : r - 1 <= j /\ j < w => At(d', j) = At(d, j)
        BY <1>2, <2>9, <3>1
      <3>3. /\ \A j \in r .. w - 1 : At(d', j) = At(d, j) /\ At(d', j - 1) = At(d, j - 1)
            /\ At(d', w - 1) = last
        BY <1>2, <3>2 DEF last
      <3>4. \A c \in Changes : At(d', c) = At(d, c)
        BY <2>3, <3>3
      <3>5. \A j : j \in r .. w <=> j \in r .. w - 1 \/ j = w
        BY <1>2
      <3>6. \A j : j \in Changes' <=> \/ j \in Changes
                                      \/ j = w /\ new.pressed # last.pressed
        <4>. TAKE j
        <4>1. d'.write_offset - 1 = w
          BY <1>2, <2>9
        <4>2. j \in Changes' <=> j \in r .. w /\ At(d', j).pressed # At(d', j - 1).pressed
          BY <1>6, <2>4, <4>1
        <4>3. w \in r .. w /\ w \notin r .. w - 1
          BY <1>2
        <4>4. CASE j \in r .. w - 1
          BY <2>3, <3>3, <3>5, <4>2, <4>3, <4>4
        <4>5. CASE j = w
          BY <1>5, <2>3, <2>9, <3>3, <4>2, <4>3, <4>5
        <4>. QED BY <2>3, <3>5, <4>2, <4>4, <4>5
      <3>7. CASE last.pressed = new.pressed
        <4>1. Changes' = Changes
          BY <3>6, <3>7
        <4>2. Numbering(f, d', Changes, h.owed)
          BY <2>2, <3>4, NumberingKept
        <4>3. PressesKept'
          BY <1>3, <2>5, <3>7, <4>1, <4>2
        <4>. QED BY <1>2, <1>3, <1>6, <2>6, <3>7, <4>3 DEF TimeKept
      <3>8. CASE last.pressed # new.pressed
        <4>. DEFINE e == Change(new, t)
        <4>1. Changes' = Changes \cup {w}
          BY <3>6, <3>8
        <4>2. e = Change(At(d', w), At(d', w).time_us) /\ e.time_us = t
          BY <1>5, <2>9 DEF Change
        <4>3. e \in ButtonChange /\ h'.owed = Append(h.owed, e)
          BY <1>3, <3>8
        <4>. HIDE DEF e
        <4>4. \E g : Numbering(g, d', Changes \cup {w}, Append(h.owed, e))
          BY <1>2, <2>2, <2>7, <3>4, <4>2, <4>3, NumberingAppend
        <4>5. PressesKept'
          BY <2>5, <4>1, <4>3, <4>4
        <4>6. h'.owed # << >> /\ h'.owed[Len(h'.owed)] = e
          <5>1. \A o \in Seq(ButtonChange) : /\ Append(o, e) # << >>
                                             /\ Append(o, e)[Len(Append(o, e))] = e
            BY <4>3
          <5>. QED BY <1>2, <4>3, <5>1
        <4>. QED BY <1>6, <3>8, <4>2, <4>5, <4>6 DEF TimeKept
      <3>. QED BY <3>7, <3>8
    <2>10. CASE /\ HAS_QUEUED_DATA(d)
                /\ d'.write_offset = w /\ At(d', w - 1) = Entry(new, t)
                /\ \A j \in Int : j < w - 1 /\ (w - 1) - j < QUEUE_SIZE => At(d', j) = At(d, j)
                /\ last.pressed = new.pressed
                /\ last.pressed = At(d, w - 2).pressed
      <3>1. \A j \in Int : r - 1 <= j /\ j < w - 1 => At(d', j) = At(d, j)
        BY <1>2, <2>10
      <3>2. \A j \in r .. w - 1 : /\ j # w - 1 => At(d', j) = At(d, j)
                                  /\ At(d', j - 1) = At(d, j - 1)
                                  /\ At(d', j).pressed = At(d, j).pressed
        <4>. TAKE j \in r .. w - 1
        <4>1. j \in Int /\ r - 1 <= j - 1 /\ j - 1 < w - 1 /\ j - 1 \in Int
          BY <1>2
        <4>2. At(d', j - 1) = At(d, j - 1)
          BY <3>1, <4>1
        <4>3. CASE j = w - 1
          BY <1>5, <2>10, <4>2, <4>3 DEF last
        <4>4. CASE j # w - 1
          <5>1. r - 1 <= j /\ j < w - 1
            BY <1>2, <4>1, <4>4
          <5>. QED BY <3>1, <4>1, <4>2, <5>1
        <4>. QED BY <4>3, <4>4
      <3>3. Changes' = Changes
        BY <1>6, <2>3, <2>4, <2>10, <3>2
      <3>4. w - 1 \notin Changes
        <4>1. (w - 1) - 1 = w - 2
          BY <1>2
        <4>. QED BY <2>3, <2>10, <4>1 DEF last
      <3>5. Numbering(f, d', Changes, h.owed)
        BY <2>2, <2>3, <3>2, <3>4, NumberingKept
      <3>6. PressesKept'
        BY <1>3, <2>5, <2>10, <3>3, <3>5
      <3>. QED BY <1>2, <1>3, <1>6, <2>6, <2>10, <3>6 DEF TimeKept
    <2>. QED BY <1>6, <1>11, <2>8, <2>9, <2>10
  <1>12. PressesKept' /\ TimeKept'
    BY <1>11 DEF PressesKept, TimeKept
  <1>. QED BY <1>1, <1>8, <1>10, <1>12, <1>13 DEF IInv

----------------------------------------------------------------------------
(* The task and the timer.                                                 *)

\* What lrotary_dequeue_single makes of the oldest entry.
LEMMA DequeueClient ==
  ASSUME IInv, lrotary_dequeue_single, HAS_QUEUED_DATA(d)
  PROVE  LET e == At(d, d.read_offset)
         IN  /\ m' \in Client /\ m'.open = m.open /\ m'.lastpos = Status(e)
             /\ m'.was_press => e.pressed
             /\ ~(m'.was_press /\ m'.was_release)
             /\ m'.last_event_time = IF e.pressed = m.lastpos.pressed
                                       THEN m.last_event_time ELSE e.time_us
             /\ d' = rotary_getevent(d).data
             /\ h' = IF e.pressed = m.lastpos.pressed THEN h
                     ELSE [h EXCEPT !.owed = IF @ = << >> THEN @ ELSE Tail(@)]
             /\ pc = "get" /\ pc' = "look"
  <1>. DEFINE e == At(d, d.read_offset)
              x == lrotary_check_timer(m, e.time_us, FALSE)
              y == IF e.pressed = m.lastpos.pressed THEN x
                   ELSE IF e.pressed THEN Press(x, e.time_us)
                   ELSE Release(x, e.time_us)
  <1>1. /\ d \in Driver /\ m \in Client /\ now \in Start .. MaxTime
        /\ d.read_offset \in Int /\ FALSE \in BOOLEAN
    BY DEF IInv, Types, TypeOK, Driver
  <1>2. rotary_getevent(d).event = e
    BY <1>1, GetEvent
  <1>3. /\ d' = rotary_getevent(d).data
        /\ m' = [y EXCEPT !.lastpos = Status(e)]
        /\ h' = IF e.pressed = m.lastpos.pressed THEN h
                ELSE [h EXCEPT !.owed = IF @ = << >> THEN @ ELSE Tail(@)]
        /\ pc = "get" /\ pc' = "look"
    BY <1>2, Zenon DEF lrotary_dequeue_single
  <1>4. e.time_us \in Int /\ e.pressed \in BOOLEAN /\ Status(e) \in Statuses
    BY <1>1, EntryKept
  <1>. HIDE DEF e
  <1>5. /\ x \in Client /\ x.open = m.open /\ x.lastpos = m.lastpos
        /\ x.last_event_time = m.last_event_time
        /\ x.was_press => m.was_press
        /\ x.was_release => m.was_release
    BY <1>1, <1>4, CheckTimer, Zenon
  <1>. HIDE DEF x
  <1>6. /\ m.was_press => m.lastpos.pressed
        /\ ~(m.was_press /\ m.was_release)
    BY DEF IInv, PressIsDown, Types, TypeOK
  <1>7. CASE e.pressed = m.lastpos.pressed
    <2>1. m' = Told(x, Status(e))
      BY <1>3, <1>7 DEF Told
    <2>2. /\ m' \in Client /\ m'.open = m.open /\ m'.lastpos = Status(e)
          /\ m'.was_press = x.was_press /\ m'.was_release = x.was_release
          /\ m'.last_event_time = m.last_event_time
      BY <1>4, <1>5, <2>1, TellTurn
    <2>. QED BY <1>3, <1>5, <1>6, <1>7, <2>2 DEF e
  <1>8. CASE e.pressed # m.lastpos.pressed /\ e.pressed
    <2>1. m' = Told(Press(x, e.time_us), Status(e))
      BY <1>3, <1>8 DEF Told
    <2>2. x \in Client /\ x.open = m.open
      BY <1>5
    <2>3. /\ m' \in Client /\ m'.open = x.open /\ m'.lastpos = Status(e)
          /\ ~m'.was_release /\ m'.last_event_time = e.time_us
      BY <1>4, <2>1, <2>2, TellPress
    <2>. QED BY <1>3, <1>8, <2>2, <2>3 DEF e
  <1>9. CASE e.pressed # m.lastpos.pressed /\ ~e.pressed
    <2>1. m' = Told(Release(x, e.time_us), Status(e))
      BY <1>3, <1>9 DEF Told
    <2>2. x \in Client /\ x.open = m.open
      BY <1>5
    <2>3. /\ m' \in Client /\ m'.open = x.open /\ m'.lastpos = Status(e)
          /\ ~m'.was_press /\ m'.last_event_time = e.time_us
      BY <1>4, <2>1, <2>2, TellRelease
    <2>. QED BY <1>3, <1>9, <2>2, <2>3 DEF e
  <1>. QED BY <1>7, <1>8, <1>9

LEMMA DequeueStep ==
  ASSUME IInv, lrotary_dequeue_single, HAS_QUEUED_DATA(d)
  PROVE  IInv'
  <1>. DEFINE r == d.read_offset
              w == d.write_offset
              e == At(d, r)
  <1>1. /\ m' \in Client /\ m'.open = m.open /\ m'.lastpos = Status(e)
        /\ m'.was_press => e.pressed
        /\ ~(m'.was_press /\ m'.was_release)
        /\ m'.last_event_time = IF e.pressed = m.lastpos.pressed
                                  THEN m.last_event_time ELSE e.time_us
        /\ d' = rotary_getevent(d).data
        /\ h' = IF e.pressed = m.lastpos.pressed THEN h
                ELSE [h EXCEPT !.owed = IF @ = << >> THEN @ ELSE Tail(@)]
        /\ pc' = "look"
    BY DequeueClient
  <1>2. /\ d \in Driver /\ r \in Int /\ w \in Int /\ r < w /\ w - r < QUEUE_SIZE
        /\ QUEUE_SIZE \in Int /\ r \in Nat
        /\ h.owed \in Seq(ButtonChange) /\ h.full \in BOOLEAN /\ h \in History
    BY Sizes DEF IInv, Types, TypeOK, Driver, History, ButtonChange, HAS_QUEUED_DATA
  <1>3. /\ d' \in Driver
        /\ d'.open = d.open /\ d'.press = d.press /\ d'.queue = d.queue
        /\ d'.read_offset = r + 1 /\ d'.write_offset = w
        /\ d'.last_press_change_time = d.last_press_change_time
    BY <1>1, <1>2, GetEvent
  <1>4. \A j : At(d', j) = At(d, j)
    BY <1>3 DEF At
  <1>5. UNCHANGED <<axis, button, irq, now, posts, task_queued, need_to_post, wild>>
    BY DEF lrotary_dequeue_single, switch, queue
  <1>6. /\ h' \in History /\ h'.full = h.full /\ h'.base = h.base
        /\ h'.seen = h.seen /\ h'.lost = h.lost /\ h'.unseen = h.unseen
        /\ h'.owed = IF e.pressed = m.lastpos.pressed \/ h.owed = << >>
                       THEN h.owed ELSE Tail(h.owed)
    <2>. DEFINE o == IF h.owed = << >> THEN h.owed ELSE Tail(h.owed)
    <2>1. o \in Seq(ButtonChange)
      BY <1>2
    <2>2. h' = IF e.pressed = m.lastpos.pressed THEN h ELSE [h EXCEPT !.owed = o]
      BY <1>1
    <2>. HIDE DEF o
    <2>3. CASE e.pressed = m.lastpos.pressed
      BY <1>2, <2>2, <2>3 DEF History
    <2>4. CASE e.pressed # m.lastpos.pressed
      <3>1. h' = [h EXCEPT !.owed = o]
        BY <2>2, <2>4
      <3>2. /\ h' \in History /\ h'.full = h.full /\ h'.base = h.base
            /\ h'.seen = h.seen /\ h'.lost = h.lost /\ h'.unseen = h.unseen
            /\ h'.owed = o
        BY <1>2, <2>1, <3>1 DEF History, ButtonChange
      <3>. QED BY <2>4, <3>2 DEF o
    <2>. QED BY <2>3, <2>4
  <1>7. Types'
    <2>1. /\ d'.read_offset \in 0 .. d'.write_offset
          /\ d'.write_offset - d'.read_offset < QUEUE_SIZE
      BY <1>2, <1>3
    <2>. QED BY <1>1, <1>3, <1>5, <1>6, <2>1 DEF IInv, Types, TypeOK
  <1>8. Posted' /\ NoLostWakeUp' /\ Tracked' /\ ButtonSeen'
    BY <1>1, <1>3, <1>4, <1>5, <1>6 DEF IInv, Posted, NoLostWakeUp, Tracked, ButtonSeen
  <1>9. Closed'
    BY <1>3 DEF IInv, Closed
  <1>10. ToldSoFar' /\ PressIsDown'
    <2>1. (r + 1) - 1 = r
      BY <1>2
    <2>2. Status(e).pressed = e.pressed
      BY <1>2, EntryKept
    <2>. QED BY <1>1, <1>3, <1>4, <2>1, <2>2 DEF ToldSoFar, PressIsDown
  <1>11. ASSUME ~h.full PROVE PressesKept' /\ TimeKept'
    <2>2. PICK f : Numbering(f, d, Changes, h.owed)
      BY <1>11, KeptMeaning DEF IInv
    <2>3. \A j : j \in Changes <=> j \in r .. w - 1 /\ At(d, j).pressed # At(d, j - 1).pressed
      BY ChangesMeaning DEF IInv
    <2>4. \A j : j \in Changes' <=> /\ j \in r + 1 .. w - 1
                                    /\ At(d, j).pressed # At(d, j - 1).pressed
      <3>1. (Types /\ ToldSoFar)' =>
              (\A j : j \in Changes <=> /\ j \in d.read_offset .. d.write_offset - 1
                                        /\ At(d, j).pressed # At(d, j - 1).pressed)'
        BY ChangesMeaning, PTL
      <3>. QED BY <1>3, <1>4, <1>7, <1>10, <3>1
    <2>5. PressesKept' <=> (~h'.full => \E g : Numbering(g, d', Changes', h'.owed))
      BY DEF PressesKept, Numbering
    <2>6. d.last_press_change_time = IF h.owed = << >> THEN m.last_event_time
                                                       ELSE h.owed[Len(h.owed)].time_us
      BY <1>11 DEF IInv, TimeKept
    <2>7. Changes \in SUBSET Int /\ \A c \in Changes : r <= c
      BY <1>2, <2>3
    <2>8. m.lastpos.pressed = At(d, r - 1).pressed
      BY <1>2, EntryKept DEF IInv, ToldSoFar
    <2>9. \A j : j \in r .. w - 1 <=> j \in r + 1 .. w - 1 \/ j = r
      BY <1>2
    <2>10. r \notin r + 1 .. w - 1
      BY <1>2
    <2>11. CASE e.pressed = m.lastpos.pressed
      <3>1. Changes' = Changes
        BY <2>3, <2>4, <2>8, <2>9, <2>10, <2>11
      <3>2. Numbering(f, d', Changes, h.owed)
        BY <1>4, <2>2, NumberingKept
      <3>3. h'.owed = h.owed
        BY <1>6, <2>11
      <3>4. PressesKept'
        BY <2>5, <3>1, <3>2, <3>3
      <3>. QED BY <1>1, <1>3, <2>6, <2>11, <3>3, <3>4 DEF TimeKept
    <2>12. CASE e.pressed # m.lastpos.pressed
      <3>1. r \in Changes /\ Changes' = Changes \ {r}
        BY <2>3, <2>4, <2>8, <2>9, <2>10, <2>12
      <3>2. /\ h.owed # << >> /\ Len(h.owed) \in Nat /\ Len(h.owed) > 0
            /\ h.owed[1] = Change(At(d, r), At(d, r).time_us)
            /\ \E g : Numbering(g, d, Changes \ {r}, Tail(h.owed))
        BY <1>2, <2>2, <2>7, <3>1, NumberingTail
      <3>3. PICK g : Numbering(g, d, Changes \ {r}, Tail(h.owed))
        BY <3>2
      <3>4. Numbering(g, d', Changes \ {r}, Tail(h.owed))
        BY <1>4, <3>3, NumberingKept
      <3>5. h'.owed = Tail(h.owed)
        BY <1>6, <2>12, <3>2
      <3>6. PressesKept'
        BY <2>5, <3>1, <3>4, <3>5
      <3>7. h.owed[1].time_us = e.time_us
        BY <3>2 DEF Change
      <3>8. m'.last_event_time = e.time_us
        BY <1>1, <2>12
      <3>9. CASE Len(h.owed) = 1
        <4>1. Tail(h.owed) = << >>
          BY <1>2, <3>2, <3>9, TailLast
        <4>. QED BY <1>3, <2>6, <3>2, <3>5, <3>6, <3>7, <3>8, <3>9, <4>1 DEF TimeKept
      <3>10. CASE Len(h.owed) > 1
        <4>2. h'.owed # << >> /\ h'.owed[Len(h'.owed)] = h.owed[Len(h.owed)]
          BY <1>2, <3>2, <3>5, <3>10, TailLast
        <4>. QED BY <1>3, <2>6, <3>2, <3>6, <4>2 DEF TimeKept
      <3>11. Len(h.owed) = 1 \/ Len(h.owed) > 1
        <4>1. \A n \in Nat : n > 0 => n = 1 \/ n > 1
          OBVIOUS
        <4>. QED BY <3>2, <4>1, Zenon
      <3>. QED BY <3>9, <3>10, <3>11, Zenon
    <2>. QED BY <2>11, <2>12
  <1>12. PressesKept' /\ TimeKept'
    BY <1>6, <1>11 DEF PressesKept, TimeKept
  <1>. QED BY <1>7, <1>8, <1>9, <1>10, <1>12 DEF IInv

\* What is only about the ring and what the program was told does not change
\* when neither of them does.
ToldUnchanged ==
  /\ d' = d
  /\ h' \in History /\ h'.owed = h.owed /\ h'.full = h.full /\ h'.base = h.base
  /\ h'.seen = h.seen /\ h'.lost = h.lost /\ h'.unseen = h.unseen
  /\ m' \in Client /\ m'.open = m.open /\ m'.lastpos = m.lastpos
  /\ m'.last_event_time = m.last_event_time
  /\ m'.was_press => m.was_press
  /\ m'.was_release => m.was_release
  /\ (axis' = axis /\ (irq => irq')) \/ (d.open => irq')
  /\ (button' = button /\ (irq => irq')) \/ (d.open /\ d.press => irq')

LEMMA RefusedNoted ==
  ASSUME h \in History, NEW r \in BOOLEAN, h' = [h EXCEPT !.refused = r]
  PROVE  /\ h' \in History /\ h'.owed = h.owed /\ h'.full = h.full /\ h'.base = h.base
         /\ h'.seen = h.seen /\ h'.lost = h.lost /\ h'.unseen = h.unseen
         /\ h'.refused = r
  BY DEF History

LEMMA RingUnchanged ==
  ASSUME IInv, ToldUnchanged
  PROVE  /\ Closed' /\ ToldSoFar' /\ PressIsDown' /\ Tracked' /\ ButtonSeen'
         /\ PressesKept' /\ TimeKept'
  <1>1. /\ d' = d /\ m'.lastpos = m.lastpos
        /\ m'.last_event_time = m.last_event_time
        /\ h'.owed = h.owed /\ h'.full = h.full
    BY DEF ToldUnchanged
  <1>2. Closed' /\ ToldSoFar' /\ TimeKept'
    BY <1>1 DEF IInv, Closed, ToldSoFar, TimeKept
  <1>3. PressIsDown'
    BY <1>1 DEF IInv, PressIsDown, ToldUnchanged
  <1>4. Tracked' /\ ButtonSeen'
    BY <1>1 DEF IInv, Tracked, ButtonSeen, ToldUnchanged
  <1>5. Changes' = Changes
    BY <1>1 DEF Changes, Before
  <1>6. PressesKept'
    BY <1>1, <1>5 DEF IInv, PressesKept
  <1>. QED BY <1>2, <1>3, <1>4, <1>6

\* The types, when the ring and what the program was told do not change.
LEMMA TypesUnchanged ==
  ASSUME IInv, ToldUnchanged, wild' \in BOOLEAN, button' \in BOOLEAN,
         axis' \in Positions, now' \in Start .. MaxTime,
         irq' \in BOOLEAN, irq' => d.open,
         posts' \in Seq(BOOLEAN), Len(posts') <= TASK_QUEUE_LEN, task_queued' \in BOOLEAN,
         pc' \in {"idle", "get", "look", "post"}, need_to_post' \in BOOLEAN
  PROVE  Types'
  <1>1. ~(m'.was_press /\ m'.was_release)
    BY DEF IInv, Types, TypeOK, ToldUnchanged
  <1>2. /\ d \in Driver /\ h \in History
        /\ d.read_offset \in 0 .. d.write_offset /\ d.write_offset - d.read_offset < QUEUE_SIZE
        /\ d.open => m.open
    BY DEF IInv, Types, TypeOK
  <1>. QED BY <1>1, <1>2 DEF Types, TypeOK, ToldUnchanged

\* lrotary_check_timer with the present time.
LEMMA TimerChecked ==
  ASSUME IInv, m' = lrotary_check_timer(m, system_get_time, TRUE),
         d' = d, axis' = axis, button' = button, irq' = irq,
         h' = h \/ h' = [h EXCEPT !.refused = FALSE]
  PROVE  ToldUnchanged /\ (m.was_press /\ ~m'.was_press => LongPress(m, system_get_time))
  <1>1. m \in Client /\ now \in Start .. MaxTime /\ TRUE \in BOOLEAN
    BY DEF IInv, Types, TypeOK
  <1>2. system_get_time \in Int
    BY <1>1, Times
  <1>. HIDE DEF system_get_time
  <1>3. /\ m' \in Client
        /\ m'.open = m.open /\ m'.lastpos = m.lastpos
        /\ m'.last_event_time = m.last_event_time
        /\ m'.was_press => m.was_press
        /\ m'.was_release => m.was_release
        /\ m.was_press /\ ~m'.was_press => LongPress(m, system_get_time)
    BY <1>1, <1>2, CheckTimer, Zenon
  <1>4. /\ h' \in History /\ h'.owed = h.owed /\ h'.full = h.full /\ h'.base = h.base
        /\ h'.seen = h.seen /\ h'.lost = h.lost /\ h'.unseen = h.unseen
    BY RefusedNoted DEF IInv, Types
  <1>. QED BY <1>3, <1>4, Zenon DEF ToldUnchanged

LEMMA DequeueNothing ==
  ASSUME IInv, lrotary_dequeue_single, ~HAS_QUEUED_DATA(d)
  PROVE  IInv'
  <1>1. /\ d' = d /\ h' = h /\ pc' = "idle"
        /\ m' = lrotary_check_timer(m, system_get_time, TRUE)
        /\ UNCHANGED <<axis, button, irq, now, posts, task_queued, need_to_post, wild>>
    BY DEF lrotary_dequeue_single, switch, queue
  <1>2. ToldUnchanged
    BY <1>1, TimerChecked
  <1>3. Types'
    BY <1>1, <1>2, TypesUnchanged DEF IInv, Types, TypeOK
  <1>4. Posted' /\ NoLostWakeUp'
    BY <1>1 DEF IInv, Posted, NoLostWakeUp
  <1>. QED BY <1>2, <1>3, <1>4, RingUnchanged DEF IInv

LEMMA LookStep ==
  ASSUME IInv, LookForMore
  PROVE  IInv'
  <1>1. /\ d' = d /\ h' = [h EXCEPT !.refused = FALSE] /\ pc' = "post" /\ need_to_post' = HAS_QUEUED_DATA(d)
        /\ m' = lrotary_check_timer(m, system_get_time, TRUE)
        /\ UNCHANGED <<axis, button, irq, now, posts, task_queued, wild>>
    BY DEF LookForMore, switch, queue, rotary_has_queued_event
  <1>2. ToldUnchanged
    BY <1>1, TimerChecked
  <1>3. HAS_QUEUED_DATA(d) \in BOOLEAN
    BY DEF HAS_QUEUED_DATA
  <1>4. Types'
    BY <1>1, <1>2, <1>3, TypesUnchanged DEF IInv, Types, TypeOK
  <1>5. Posted' /\ NoLostWakeUp'
    BY <1>1 DEF IInv, Posted, NoLostWakeUp
  <1>. QED BY <1>2, <1>4, <1>5, RingUnchanged DEF IInv

LEMMA TimerStep ==
  ASSUME IInv, lrotary_timer_done
  PROVE  IInv'
  <1>1. /\ d' = d /\ h' = h
        /\ m' = lrotary_check_timer(m, system_get_time, TRUE)
        /\ UNCHANGED <<axis, button, irq, now, posts, task_queued, pc, need_to_post, wild>>
    BY DEF lrotary_timer_done, switch, queue, task
  <1>2. ToldUnchanged
    BY <1>1, TimerChecked
  <1>3. Types'
    BY <1>1, <1>2, TypesUnchanged DEF IInv, Types, TypeOK
  <1>4. Posted' /\ NoLostWakeUp'
    BY <1>1 DEF IInv, Posted, NoLostWakeUp
  <1>. QED BY <1>2, <1>3, <1>4, RingUnchanged DEF IInv

\* The message that is taken is the one task_queued stands for, or another one
\* does.
LEMMA TaskStep ==
  ASSUME IInv, lrotary_task
  PROVE  IInv'
  <1>1. /\ d' = d /\ h' = [h EXCEPT !.refused = FALSE] /\ m' = m /\ pc = "idle"
        /\ posts # << >> /\ posts' = Tail(posts)
        /\ task_queued' = (task_queued /\ ~Head(posts))
        /\ need_to_post' = FALSE
        /\ pc' = IF m.open THEN "get" ELSE "idle"
        /\ UNCHANGED <<axis, button, irq, now, wild>>
    BY DEF lrotary_task, switch
  <1>2. ToldUnchanged
    BY <1>1, RefusedNoted DEF ToldUnchanged, IInv, Types
  <1>3. posts \in Seq(BOOLEAN) /\ Len(posts) <= TASK_QUEUE_LEN /\ TASK_QUEUE_LEN \in Nat
    BY Sizes DEF IInv, Types, TypeOK
  <1>4. /\ posts' \in Seq(BOOLEAN) /\ Len(posts') = Len(posts) - 1 /\ Len(posts) \in Nat
        /\ Head(posts) = posts[1]
        /\ \A i \in 1 .. Len(posts') : posts'[i] = posts[i + 1]
    <2>1. posts # << >> /\ posts' = Tail(posts)
      BY <1>1
    <2>. QED BY <1>3, <2>1
  <1>5. Types'
    <2>1. Len(posts') <= TASK_QUEUE_LEN
      BY <1>3, <1>4
    <2>2. task_queued' \in BOOLEAN /\ pc' \in {"idle", "get", "look", "post"}
      BY <1>1
    <2>. QED BY <1>1, <1>2, <1>4, <2>1, <2>2, TypesUnchanged DEF IInv, Types, TypeOK
  <1>6. Posted'
    <2>. SUFFICES ASSUME task_queued' PROVE \E i \in 1 .. Len(posts') : posts'[i]
      BY DEF Posted
    <2>1. task_queued /\ ~posts[1]
      BY <1>1, <1>4
    <2>2. PICK i \in 1 .. Len(posts) : posts[i]
      BY <2>1 DEF IInv, Posted
    <2>3. i # 1
      BY <2>1, <2>2
    <2>4. i - 1 \in 1 .. Len(posts') /\ (i - 1) + 1 = i
      BY <1>4, <2>3
    <2>5. posts'[i - 1] = posts[i]
      BY <1>4, <2>4
    <2>. QED BY <2>2, <2>4, <2>5
  <1>7. NoLostWakeUp'
    BY <1>1 DEF IInv, NoLostWakeUp, Closed, Types, TypeOK
  <1>. QED BY <1>2, <1>5, <1>6, <1>7, RingUnchanged DEF IInv

\* The task posts for what is left, and is refused or has a message in the queue.
LEMMA PostStep ==
  ASSUME IInv, NEW refused \in BOOLEAN, PostForMore(refused)
  PROVE  IInv'
  <1>1. /\ d' = d /\ m' = m /\ pc = "post" /\ pc' = "idle"
        /\ IF need_to_post
             THEN task_post_medium(FALSE, refused) /\ h' = [h EXCEPT !.refused = refused]
             ELSE posts' = posts /\ task_queued' = task_queued /\ h' = h
        /\ UNCHANGED <<axis, button, irq, now, need_to_post, wild>>
    BY DEF PostForMore, switch, queue
  <1>2. ToldUnchanged /\ (need_to_post => h'.refused = refused) /\ (~need_to_post => h' = h)
    BY <1>1, RefusedNoted DEF ToldUnchanged, IInv, Types
  <1>3. /\ posts \in Seq(BOOLEAN) /\ Len(posts) <= TASK_QUEUE_LEN /\ task_queued \in BOOLEAN
        /\ Posted /\ FALSE \in BOOLEAN
    BY DEF IInv, Types, TypeOK
  <1>4. /\ posts' \in Seq(BOOLEAN) /\ Len(posts') <= TASK_QUEUE_LEN
        /\ task_queued' \in BOOLEAN /\ Posted'
        /\ need_to_post => posts' # << >> \/ refused
        /\ ~need_to_post => posts' = posts
    <2>1. CASE need_to_post
      <3>1. task_post_medium(FALSE, refused)
        BY <1>1, <2>1
      <3>2. /\ posts' \in Seq(BOOLEAN) /\ Len(posts') <= TASK_QUEUE_LEN
            /\ task_queued' \in BOOLEAN /\ Posted' /\ (posts' # << >> \/ refused)
        BY <1>3, <3>1, PostEffect, Zenon
      <3>. QED BY <2>1, <3>2
    <2>2. CASE ~need_to_post
      BY <1>1, <1>3, <2>2 DEF Posted
    <2>. QED BY <2>1, <2>2
  <1>5. Types'
    BY <1>1, <1>2, <1>4, TypesUnchanged DEF IInv, Types, TypeOK
  <1>6. NoLostWakeUp'
    BY <1>1, <1>2, <1>4 DEF IInv, NoLostWakeUp
  <1>. QED BY <1>2, <1>4, <1>5, <1>6, RingUnchanged DEF IInv

----------------------------------------------------------------------------
(* The switch and the time.                                                *)

\* The switch and the time move, the program does nothing.
LEMMA WorldStep ==
  ASSUME IInv,
         \/ \E step \in {-1, 1} : Turn(step)
         \/ PressOrRelease
         \/ Tick
         \/ UNCHANGED vars
  PROVE  IInv'
  <1>1. /\ UNCHANGED <<d, h, m, posts, task_queued, pc, need_to_post, wild>>
        /\ m \in Client /\ d.open \in BOOLEAN
    BY DEF Turn, PressOrRelease, Tick, vars, queue, task, IInv, Types, Driver
  <1>2. /\ (axis' = axis /\ (irq => irq')) \/ (d.open => irq')
        /\ (button' = button /\ (irq => irq')) \/ (d.open /\ d.press => irq')
        /\ axis' \in Positions /\ button' \in BOOLEAN
        /\ irq' \in BOOLEAN /\ (irq' => d.open)
    <2>1. /\ axis \in Positions /\ button \in BOOLEAN
          /\ irq \in BOOLEAN /\ (irq => d.open)
      BY DEF IInv, Types, TypeOK
    <2>2. ASSUME NEW step \in {-1, 1}, Turn(step)
          PROVE  axis' \in Positions /\ irq' = d.open /\ button' = button
      BY <2>2 DEF Turn
    <2>3. CASE PressOrRelease
      BY <1>1, <2>1, <2>3 DEF PressOrRelease
    <2>4. CASE Tick \/ UNCHANGED vars
      BY <2>1, <2>4 DEF Tick, vars, switch
    <2>. QED BY <1>1, <2>1, <2>2, <2>3, <2>4
  <1>3. now' \in Start .. MaxTime
    <2>1. now \in Start .. MaxTime /\ Start \in Nat /\ MaxTime \in Nat
      BY RotaryAssumption DEF IInv, Types, TypeOK
    <2>2. now' = now \/ (now < MaxTime /\ now' = now + 1)
      BY DEF Turn, PressOrRelease, Tick, vars
    <2>. QED BY <2>1, <2>2
  <1>4. ToldUnchanged
    BY <1>1, <1>2 DEF ToldUnchanged, IInv, Types
  <1>5. Types'
    BY <1>1, <1>2, <1>3, <1>4, TypesUnchanged DEF IInv, Types, TypeOK
  <1>6. Posted' /\ NoLostWakeUp'
    BY <1>1 DEF IInv, Posted, NoLostWakeUp
  <1>. QED BY <1>4, <1>5, <1>6, RingUnchanged DEF IInv

----------------------------------------------------------------------------
(* A new channel.                                                          *)

\* The ring is empty, nothing has been told, and nothing happened yet.
Fresh ==
  /\ d = NoData \/ \E press \in BOOLEAN : d = rotary_setup(press)
  /\ m = NoModule \/ m = [NoModule EXCEPT !.open = TRUE]
  /\ d.open => m.open
  /\ irq = FALSE
  /\ h = NewHistory

LEMMA FreshChannel ==
  Fresh /\ axis \in Int /\ button \in BOOLEAN =>
    /\ d \in Driver /\ m \in Client /\ h \in History
    /\ d.read_offset \in 0 .. d.write_offset
    /\ d.write_offset - d.read_offset < QUEUE_SIZE
    /\ ~m.was_press /\ ~m.was_release /\ ~m.lastpos.pressed
    /\ ~HAS_QUEUED_DATA(d)
    /\ ToldSoFar /\ Tracked /\ ButtonSeen /\ PressesKept /\ TimeKept
  <1>. SUFFICES ASSUME Fresh, axis \in Int, button \in BOOLEAN
                PROVE  /\ d \in Driver /\ m \in Client /\ h \in History
                       /\ d.read_offset \in 0 .. d.write_offset
                       /\ d.write_offset - d.read_offset < QUEUE_SIZE
                       /\ ~m.was_press /\ ~m.was_release /\ ~m.lastpos.pressed
                       /\ ~HAS_QUEUED_DATA(d)
                       /\ ToldSoFar /\ Tracked /\ ButtonSeen /\ PressesKept /\ TimeKept
    OBVIOUS
  <1>. DEFINE zero == [pos |-> 0, pressed |-> FALSE, time_us |-> 0]
              empty == [i \in 0 .. QUEUE_SIZE - 1 |-> zero]
  <1>1. zero \in Entries /\ zero.pos = 0 /\ Status(zero) = [pos |-> 0, pressed |-> FALSE]
    BY DEF Entries, Status
  <1>2. empty \in [0 .. QUEUE_SIZE - 1 -> Entries]
    BY <1>1
  <1>3. \A i \in 0 .. QUEUE_SIZE - 1 : empty[i] = zero
    OBVIOUS
  <1>5. NoData = [open |-> FALSE, press |-> FALSE, read_offset |-> 0, write_offset |-> 0,
                  last_press_change_time |-> 0, queue |-> empty]
    BY DEF NoData
  <1>. HIDE DEF empty
  <1>6. /\ d \in Driver /\ d.read_offset = 0 /\ d.write_offset = 0
        /\ d.last_press_change_time = 0 /\ d.queue = empty
    <2>1. 0 \in Nat /\ 0 \in Int
      OBVIOUS
    <2>2. CASE d = NoData
      BY <1>2, <1>5, <2>1, <2>2 DEF Driver
    <2>3. ASSUME NEW press \in BOOLEAN, d = rotary_setup(press)
          PROVE  /\ d \in Driver /\ d.read_offset = 0 /\ d.write_offset = 0
                 /\ d.last_press_change_time = 0 /\ d.queue = empty
      BY <1>2, <1>5, <2>1, <2>3 DEF Driver, rotary_setup, rotary_close
    <2>. QED BY <2>2, <2>3 DEF Fresh
  <1>7. /\ m \in Client /\ m.lastpos = [pos |-> 0, pressed |-> FALSE]
        /\ ~m.was_press /\ ~m.was_release /\ m.last_event_time = 0
    <2>1. m = NoModule \/ m = [NoModule EXCEPT !.open = TRUE]
      BY DEF Fresh
    <2>2. [pos |-> 0, pressed |-> FALSE] \in Statuses
      BY DEF Statuses
    <2>3. 0 \in Int
      OBVIOUS
    <2>4. /\ NoModule \in Client /\ NoModule.lastpos = [pos |-> 0, pressed |-> FALSE]
          /\ ~NoModule.was_press /\ ~NoModule.was_release /\ NoModule.last_event_time = 0
      BY <2>2, <2>3 DEF NoModule, Client
    <2>5. CASE m = NoModule
      BY <2>4, <2>5
    <2>6. CASE m = [NoModule EXCEPT !.open = TRUE]
      BY <2>4, <2>6 DEF Client
    <2>. QED BY <2>1, <2>5, <2>6
  <1>8. /\ h \in History /\ h.owed = << >> /\ h.full = FALSE
        /\ h.base = axis /\ h.seen = axis /\ h.lost = (axis % 4 # 0) /\ h.unseen = button
    <2>1. (axis % 4 # 0) \in BOOLEAN /\ << >> \in Seq([pressed : BOOLEAN, time_us : Int])
      OBVIOUS
    <2>. QED BY <2>1 DEF Fresh, NewHistory, History
  <1>9. /\ ~HAS_QUEUED_DATA(d) /\ d.read_offset \in 0 .. d.write_offset
        /\ d.write_offset - d.read_offset < QUEUE_SIZE
    BY <1>6, Sizes DEF HAS_QUEUED_DATA
  <1>10. d.read_offset - 1 \in Int /\ d.write_offset = d.read_offset
    BY <1>6
  <1>11. At(d, d.read_offset - 1) = zero
    <2>1. (d.read_offset - 1) % QUEUE_SIZE \in 0 .. QUEUE_SIZE - 1
      BY <1>10, Ring
    <2>. QED BY <1>3, <1>6, <2>1 DEF At
  <1>12. ToldSoFar
    BY <1>1, <1>7, <1>11 DEF ToldSoFar
  <1>13. Tracked
    <2>1. 0 = axis - axis
      OBVIOUS
    <2>. QED BY <1>1, <1>8, <1>10, <1>11, <2>1 DEF Tracked, Fresh
  <1>17. ButtonSeen
    BY <1>1, <1>8, <1>10, <1>11 DEF ButtonSeen
  <1>14. Changes = {}
    <2>1. d.read_offset .. d.write_offset - 1 = {}
      BY <1>6
    <2>. QED BY <2>1 DEF Changes
  <1>15. PressesKept
    <2>. DEFINE f == [i \in 1 .. Len(h.owed) |-> 0]
    <2>1. 1 .. Len(h.owed) = {}
      BY <1>8
    <2>2. f \in [1 .. Len(h.owed) -> Changes]
      BY <2>1
    <2>. QED BY <1>14, <2>1, <2>2 DEF PressesKept
  <1>16. TimeKept
    BY <1>6, <1>7, <1>8 DEF TimeKept
  <1>. QED BY <1>6, <1>7, <1>8, <1>9, <1>12, <1>13, <1>15, <1>16, <1>17

LEMMA FreshStep ==
  ASSUME IInv, Fresh', now' = now, axis' = axis, button' = button, wild' \in BOOLEAN,
         UNCHANGED <<pc, need_to_post>>,
         UNCHANGED queue \/ (posts' = << >> /\ task_queued' = FALSE)
  PROVE  IInv' /\ ~m'.lastpos.pressed
  <1>1. axis' \in Int /\ button' \in BOOLEAN
    BY RotaryAssumption DEF IInv, Types, TypeOK
  <1>2. Fresh' /\ (axis \in Int /\ button \in BOOLEAN)' =>
          /\ (d \in Driver /\ m \in Client /\ h \in History)'
          /\ (d.read_offset \in 0 .. d.write_offset)'
          /\ (d.write_offset - d.read_offset < QUEUE_SIZE)'
          /\ (~m.was_press /\ ~m.was_release /\ ~m.lastpos.pressed)'
          /\ (~HAS_QUEUED_DATA(d))'
          /\ (ToldSoFar /\ Tracked /\ ButtonSeen /\ PressesKept /\ TimeKept)'
    BY FreshChannel, PTL
  <1>3. /\ d' \in Driver /\ m' \in Client /\ h' \in History
        /\ d'.read_offset \in 0 .. d'.write_offset
        /\ d'.write_offset - d'.read_offset < QUEUE_SIZE
        /\ ~m'.was_press /\ ~m'.was_release /\ ~m'.lastpos.pressed
        /\ ~HAS_QUEUED_DATA(d)'
        /\ ToldSoFar' /\ Tracked' /\ ButtonSeen' /\ PressesKept' /\ TimeKept'
    BY <1>1, <1>2, Zenon
  <1>4. /\ posts' \in Seq(BOOLEAN) /\ Len(posts') <= TASK_QUEUE_LEN
        /\ task_queued' \in BOOLEAN /\ Posted'
    <2>1. /\ posts \in Seq(BOOLEAN) /\ Len(posts) <= TASK_QUEUE_LEN /\ task_queued \in BOOLEAN
          /\ Posted
      BY DEF IInv, Types, TypeOK
    <2>2. CASE UNCHANGED queue
      BY <2>1, <2>2 DEF queue, Posted
    <2>3. CASE posts' = << >> /\ task_queued' = FALSE
      <3>1. << >> \in Seq(BOOLEAN) /\ Len(<< >>) <= TASK_QUEUE_LEN
        BY Sizes
      <3>2. Posted' /\ task_queued' \in BOOLEAN
        BY <2>3 DEF Posted
      <3>. QED BY <2>3, <3>1, <3>2
    <2>. QED BY <2>2, <2>3
  <1>5. irq' = FALSE /\ (d'.open => m'.open)
    BY DEF Fresh
  <1>6. /\ axis' \in Positions /\ button' \in BOOLEAN /\ now' \in Start .. MaxTime
        /\ pc' \in {"idle", "get", "look", "post"} /\ need_to_post' \in BOOLEAN
    BY DEF IInv, Types, TypeOK
  <1>7. Types'
    BY <1>3, <1>4, <1>5, <1>6 DEF Types, TypeOK
  <1>8. Closed' /\ NoLostWakeUp' /\ PressIsDown'
    BY <1>3 DEF Closed, NoLostWakeUp, PressIsDown
  <1>. QED BY <1>3, <1>4, <1>7, <1>8 DEF IInv

\* rotary.setup, rotary.close and a restart of the chip make a new channel.
LEMMA NewChannelStep ==
  ASSUME IInv,
         \/ \E press, ok \in BOOLEAN : lrotary_setup(press, ok)
         \/ lrotary_close
         \/ Fault
  PROVE  IInv' /\ ~m'.lastpos.pressed
  <1>1. ~NoData.open
    BY DEF NoData
  <1>2. [NoModule EXCEPT !.open = TRUE].open
    BY DEF NoModule
  <1>5. wild \in BOOLEAN /\ m.timer_running \in BOOLEAN
    BY DEF IInv, Types, TypeOK, Client
  <1>6. axis' = axis /\ button' = button => NewHistory' = NewHistory
    BY DEF NewHistory
  <1>7. ASSUME NEW press \in BOOLEAN, NEW ok \in BOOLEAN, lrotary_setup(press, ok)
        PROVE  IInv' /\ ~m'.lastpos.pressed
    <2>1. /\ d' = IF ok THEN rotary_setup(press) ELSE NoData
          /\ m' = [NoModule EXCEPT !.open = TRUE]
          /\ wild' = (wild \/ m.timer_running)
          /\ irq' = FALSE /\ h' = NewHistory
          /\ UNCHANGED <<axis, button, now, pc, need_to_post>> /\ UNCHANGED queue
      BY <1>7 DEF lrotary_setup, rotary_close, switch, task
    <2>2. d' = NoData \/ d' = rotary_setup(press)
      BY <2>1
    <2>3. m'.open
      BY <1>2, <2>1
    <2>5. Fresh'
      BY <1>6, <2>1, <2>2, <2>3 DEF Fresh, NoData, NoModule, rotary_setup, rotary_close
    <2>6. wild' \in BOOLEAN
      BY <1>5, <2>1
    <2>. QED BY <2>1, <2>5, <2>6, FreshStep
  <1>8. ASSUME lrotary_close \/ Fault PROVE IInv' /\ ~m'.lastpos.pressed
    <2>1. /\ d' = NoData /\ m' = NoModule
          /\ irq' = FALSE /\ h' = NewHistory
          /\ UNCHANGED <<axis, button, now, pc, need_to_post>>
          /\ UNCHANGED queue \/ (posts' = << >> /\ task_queued' = FALSE)
          /\ wild' = FALSE \/ wild' = (wild \/ m.timer_running)
      BY <1>8 DEF lrotary_close, Fault, rotary_close, switch, task
    <2>3. ~d'.open
      BY <1>1, <2>1
    <2>5. Fresh'
      BY <1>6, <2>1, <2>3 DEF Fresh, NoData, NoModule
    <2>6. wild' \in BOOLEAN
      BY <1>5, <2>1
    <2>. QED BY <2>1, <2>5, <2>6, FreshStep
  <1>. QED BY <1>7, <1>8

----------------------------------------------------------------------------
(* The invariant.                                                          *)

LEMMA IInvInit == Init => IInv
  <1>. SUFFICES ASSUME Init PROVE IInv
    OBVIOUS
  <1>1. /\ d = NoData /\ m = NoModule /\ h = NewHistory /\ irq = FALSE
        /\ axis \in Int /\ button \in BOOLEAN /\ posts = << >> /\ task_queued = FALSE
    BY RotaryAssumption DEF Init
  <1>2. Fresh
    <2>5. ~d.open
      BY <1>1 DEF NoData
    <2>. QED BY <1>1, <2>5 DEF Fresh
  <1>3. /\ d \in Driver /\ m \in Client /\ h \in History
        /\ d.read_offset \in 0 .. d.write_offset
        /\ d.write_offset - d.read_offset < QUEUE_SIZE
        /\ ~m.was_press /\ ~m.was_release /\ ~m.lastpos.pressed
        /\ ~HAS_QUEUED_DATA(d)
        /\ ToldSoFar /\ Tracked /\ ButtonSeen /\ PressesKept /\ TimeKept
    BY <1>1, <1>2, FreshChannel, Zenon
  <1>4. now \in Start .. MaxTime
    BY RotaryAssumption DEF Init
  <1>5. posts \in Seq(BOOLEAN) /\ Len(posts) <= TASK_QUEUE_LEN
    BY <1>1, Sizes
  <1>6. Types
    BY <1>2, <1>3, <1>4, <1>5 DEF Init, Types, TypeOK, Fresh
  <1>7. Posted
    BY <1>1 DEF Posted
  <1>8. Closed /\ NoLostWakeUp /\ PressIsDown
    BY <1>3 DEF Closed, NoLostWakeUp, PressIsDown
  <1>. QED BY <1>3, <1>6, <1>7, <1>8 DEF IInv

LEMMA IInvNext == IInv /\ [Next]_vars => IInv'
  <1>. SUFFICES ASSUME IInv, [Next]_vars PROVE IInv'
    OBVIOUS
  <1>1. CASE Interrupt
    BY <1>1, InterruptStep DEF Interrupt
  <1>2. CASE lrotary_task
    BY <1>2, TaskStep
  <1>3. CASE lrotary_dequeue_single
    BY <1>3, DequeueStep, DequeueNothing
  <1>4. CASE LookForMore
    BY <1>4, LookStep
  <1>5. CASE \E refused \in BOOLEAN : PostForMore(refused)
    BY <1>5, PostStep
  <1>6. CASE lrotary_timer_done
    BY <1>6, TimerStep
  <1>7. CASE \/ \E press, ok \in BOOLEAN : lrotary_setup(press, ok)
             \/ lrotary_close
             \/ Fault
    BY <1>7, NewChannelStep
  <1>8. CASE \/ \E step \in {-1, 1} : Turn(step)
             \/ PressOrRelease
             \/ Tick
             \/ UNCHANGED vars
    BY <1>8, WorldStep
  <1>. QED BY <1>1, <1>2, <1>3, <1>4, <1>5, <1>6, <1>7, <1>8, Zenon DEF Next, Task

\* The inductive invariant holds in every state.
THEOREM RotaryInvariance == Spec => []IInv
  BY IInvInit, IInvNext, PTL DEF Spec

\* Type correctness, for any sizes: the ring is never overrun, it always keeps the
\* entry before the oldest one, and the task queue stays within its bound.
THEOREM RotaryTypeCorrect == Spec => []TypeOK
  <1>1. IInv => TypeOK
    BY DEF IInv, Types
  <1>. QED BY <1>1, RotaryInvariance, PTL

\* For what the interrupt has queued a message is on its way or the task is going
\* to look, unless the last message of rotary_interrupt or lrotary_task was refused.
THEOREM WakeUpsKept == Spec => []NoLostWakeUp
  <1>1. IInv => NoLostWakeUp
    BY DEF IInv
  <1>. QED BY <1>1, RotaryInvariance, PTL

\* Every change of the button that rotary_interrupt accepted is told to the program,
\* in order and with its time, unless one met a full ring.
THEOREM ButtonChangesTold == Spec => []PressesKept
  <1>1. IInv => PressesKept
    BY DEF IInv
  <1>. QED BY <1>1, RotaryInvariance, PTL

\* The position of the ring's last entry is that of the switch, whatever was merged
\* or overwritten, as long as the interrupt saw every step.
THEOREM PositionExact == Spec => []PositionTracked
  <1>1. IInv => PositionTracked
    BY DEF IInv, Tracked, PositionTracked, GET_LAST_STATUS, At
  <1>. QED BY <1>1, RotaryInvariance, PTL

\* When nothing is queued the program has been told the last entry of the ring.
THEOREM LatestKnown == Spec => []KnowsLatest
  <1>1. ASSUME IInv, ~HAS_QUEUED_DATA(d)
        PROVE  m.lastpos = Status(GET_LAST_STATUS(d))
    <2>1. d.read_offset = d.write_offset
      BY <1>1 DEF IInv, Types, TypeOK, Driver, HAS_QUEUED_DATA
    <2>. QED BY <1>1, <2>1 DEF IInv, ToldSoFar, GET_LAST_STATUS, At
  <1>2. IInv => KnowsLatest
    BY <1>1 DEF KnowsLatest
  <1>. QED BY <1>2, RotaryInvariance, PTL

\* Who can end the wait for a long press without a change of the button.
LEMMA LongPressStep ==
  ASSUME IInv, [Next]_vars, LongPressReported, ~HAS_QUEUED_DATA(d)
  PROVE  LongPress(m, system_get_time)
  <1>1. m.was_press /\ ~m'.was_press /\ m'.lastpos.pressed
    BY DEF LongPressReported
  <1>2. CASE m' = m
    BY <1>1, <1>2
  <1>3. CASE lrotary_dequeue_single
    BY <1>1, <1>3, TimerChecked DEF lrotary_dequeue_single, switch
  <1>4. CASE LookForMore
    BY <1>1, <1>4, TimerChecked DEF LookForMore, switch
  <1>5. CASE lrotary_timer_done
    BY <1>1, <1>5, TimerChecked DEF lrotary_timer_done, switch
  <1>6. CASE \/ \E press, ok \in BOOLEAN : lrotary_setup(press, ok)
             \/ lrotary_close
             \/ Fault
    BY <1>1, <1>6, NewChannelStep
  <1>7. \/ Interrupt \/ lrotary_task \/ \E refused \in BOOLEAN : PostForMore(refused)
        \/ \E step \in {-1, 1} : Turn(step)
        \/ PressOrRelease \/ Tick \/ UNCHANGED vars
        => m' = m
    BY DEF Interrupt, rotary_interrupt, lrotary_task, PostForMore, Turn, PressOrRelease, Tick, vars
  <1>. QED BY <1>2, <1>3, <1>4, <1>5, <1>6, <1>7, Zenon DEF Next, Task

\* A long press that lrotary_check_timer reports when nothing is queued is one, for
\* a channel with a button: it is down, and has been for longer than the delay,
\* unless a change of it is ignored or not seen yet by rotary_interrupt.
THEOREM LongPressesReal == Spec => LongPressIsLong
  <1>. DEFINE When == /\ LongPressReported /\ d.open /\ d.press
                      /\ ~HAS_QUEUED_DATA(d) /\ ~irq /\ ~h.unseen /\ ~h.full
              Real == /\ button
                      /\ Since(system_get_time, d.last_press_change_time) > longpress_delay
  <1>1. ASSUME IInv, [Next]_vars, When
        PROVE  Real
    <2>1. /\ d.read_offset = d.write_offset /\ d.write_offset \in Int
          /\ d.write_offset - 1 \in Int /\ d \in Driver
          /\ h.owed \in Seq(ButtonChange)
      BY <1>1 DEF IInv, Types, TypeOK, Driver, HAS_QUEUED_DATA, History, ButtonChange
    <2>2. GET_LAST_STATUS(d) = At(d, d.write_offset - 1)
      BY DEF GET_LAST_STATUS, At
    <2>3. m.lastpos.pressed /\ m.lastpos = Status(At(d, d.write_offset - 1))
      BY <1>1, <2>1 DEF IInv, PressIsDown, ToldSoFar, LongPressReported
    <2>4. button
      <3>1. At(d, d.write_offset - 1).pressed
        BY <2>1, <2>3, EntryKept
      <3>. QED BY <1>1, <3>1 DEF IInv, ButtonSeen
    <2>5. h.owed = << >>
      <3>1. Changes = {}
        <4>1. d.read_offset .. d.write_offset - 1 = {}
          BY <2>1
        <4>. QED BY <4>1 DEF Changes
      <3>2. PICK f : Numbering(f, d, Changes, h.owed)
        BY <1>1, KeptMeaning DEF IInv
      <3>3. 1 .. Len(h.owed) = {}
        BY <3>1, <3>2 DEF Numbering
      <3>4. Len(h.owed) \in Nat
        BY <2>1
      <3>5. Len(h.owed) = 0
        BY <3>3, <3>4
      <3>. QED BY <2>1, <3>5, EmptySeq
    <2>6. d.last_press_change_time = m.last_event_time
      BY <1>1, <2>5 DEF IInv, TimeKept
    <2>7. LongPress(m, system_get_time)
      BY <1>1, LongPressStep
    <2>8. Since(system_get_time, m.last_event_time) > longpress_delay
      BY <2>7 DEF LongPress
    <2>. QED BY <2>4, <2>6, <2>8
  <1>2. IInv /\ [Next]_vars => [When => Real]_vars
    BY <1>1
  <1>. QED BY <1>2, RotaryInvariance, PTL DEF Spec, LongPressIsLong
============================================================================
