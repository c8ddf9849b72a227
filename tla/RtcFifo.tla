------------------------------ MODULE RtcFifo ------------------------------
(***************************************************************************)
(* The store for sensor readings of src/app/include/rtc/rtcfifo.h and      *)
(* src/app/modules/rtcfifo.c.  It lives in the user memory of the RTC,     *)
(* which keeps its contents over deep sleep and every other reset: a ring  *)
(* of samples behind a table of sensor names, with a control block of its  *)
(* own.  Timestamps are stored as differences to the sample before.        *)
(*                                                                         *)
(* An operation is the sequence of its writes to RTC memory, in the order  *)
(* of the program.  Nothing runs in between, but a reset may stop it after *)
(* any of them.                                                            *)
(***************************************************************************)
EXTENDS Integers, Sequences, FiniteSetsExt

CONSTANTS
  Slots,                   \* RTC user memory slots beside the control block
  DefaultBegin, DefaultEnd,\* RTC_DEFAULT_FIFO_START, RTC_DEFAULT_FIFO_END
  Storages,                \* other <<storage_begin, storage_end>> asked for
  SensorCounts,            \* values of sensor_count, not 0
  ValueMod, DeltaMod, DecimalsMod, TagMod,
                           \* 2^16, 2^9, 2^3, 2^4: sizes of the bit fields
  TimeMod,                 \* 2^32: timestamps are unsigned words
  Times, Values, Decimals, \* what samples are put in with
  Tags,                    \* sensor names as words, not 0
  MaxCount                 \* bound: samples a damaged store counts up to

Fields == {ValueMod, DeltaMod, DecimalsMod, TagMod}

ASSUME FieldsAssumption == Fields \subseteq Nat \ {0} /\ TimeMod \in Nat \ {0}
ASSUME SlotsAssumption ==
  /\ Slots \subseteq Nat /\ {DefaultBegin, DefaultEnd} \subseteq Nat
  /\ Storages \subseteq Nat \X Nat
  /\ SensorCounts \subseteq 1 .. TagMod
  /\ \A n \in SensorCounts :
       /\ DefaultBegin + n < DefaultEnd
       /\ \A st \in Storages : st[1] <= DefaultBegin /\ DefaultBegin + n < st[2]
  /\ \A st \in Storages \cup {<<DefaultBegin, DefaultEnd>>} : st[1] .. st[2] - 1 \subseteq Slots
ASSUME SamplesAssumption ==
  /\ Times \subseteq 0 .. TimeMod - 1
  /\ Values \subseteq Nat /\ Decimals \subseteq Nat
  /\ Tags \subseteq Nat \ {0}
ASSUME MaxCountAssumption == MaxCount \in Nat

VARIABLES
  rtc,       \* the RTC memory
  torn,      \* what a reset has interrupted since the store was last emptied:
             \* "no", "samples" (an operation on samples), "prepare"
  stamps,    \* the timestamps the samples in the store were put in with
  restarted  \* the oldest of them was put in by a restart of the store

vars == <<rtc, torn, stamps, restarted>>

----------------------------------------------------------------------------
(* RTC memory: the control block and the slots.                            *)

\* loc is one word: the first slot, the first behind the storage, the number
\* of tag slots at its beginning.
rtc_fifo_get_tagpos(r)   == r.loc[1]
rtc_fifo_get_last(r)     == r.loc[2]
rtc_fifo_get_tagcount(r) == r.loc[3]
rtc_fifo_get_first(r)    == rtc_fifo_get_tagpos(r) + rtc_fifo_get_tagcount(r)

rtc_fifo_normalise_index(r, i) ==
  IF i >= rtc_fifo_get_last(r) THEN rtc_fifo_get_first(r) ELSE i

\* A write to a word of the control block, and to a slot.
Put(field, v) == [field |-> field, at |-> 0, v |-> v]
rtc_mem_write(a, v) == [field |-> "mem", at |-> a, v |-> v]

\* What a word holds after the writes ws: what was written to it last.
Word(ws, field, a, old) ==
  LET writes == { i \in 1 .. Len(ws) : ws[i].field = field /\ ws[i].at = a }
  IN  IF writes = {} THEN old ELSE ws[Max(writes)].v

\* The memory after the writes ws.
After(r, ws) ==
  [magic  |-> Word(ws, "magic", 0, r.magic),
   loc    |-> Word(ws, "loc", 0, r.loc),
   count  |-> Word(ws, "count", 0, r.count),
   head   |-> Word(ws, "head", 0, r.head),
   tail   |-> Word(ws, "tail", 0, r.tail),
   head_t |-> Word(ws, "head_t", 0, r.head_t),
   tail_t |-> Word(ws, "tail_t", 0, r.tail_t),
   mem    |-> [a \in Slots |-> Word(ws, "mem", a, r.mem[a])]]

----------------------------------------------------------------------------
(* Entries: value, time since the sample before, decimals and tag index in *)
(* one word.                                                               *)

rtc_fifo_construct_entry(val, tagindex, decimals, deltat) ==
  (val % ValueMod)
    + ValueMod * ((deltat % DeltaMod)
        + DeltaMod * ((decimals % DecimalsMod)
            + DecimalsMod * (tagindex % TagMod)))

rtc_fifo_get_value(e)    == e % ValueMod
rtc_fifo_get_deltat(e)   == (e \div ValueMod) % DeltaMod
rtc_fifo_get_decimals(e) == (e \div (ValueMod * DeltaMod)) % DecimalsMod
rtc_fifo_get_tagindex(e) == (e \div (ValueMod * DeltaMod * DecimalsMod)) % TagMod

\* Negative for a time before ref_t, or too long after it.
rtc_fifo_delta_t(t, ref_t) ==
  LET delta == (t - ref_t) % TimeMod
  IN  IF delta >= DeltaMod THEN -1 ELSE delta

\* The slot of the sample k places behind the oldest one, and its time.
SlotOf(r) ==
  LET f[k \in 0 .. r.count] ==
        IF k = 0 THEN r.head ELSE rtc_fifo_normalise_index(r, f[k - 1] + 1)
  IN  f

TimeOf(r) ==
  LET s == SlotOf(r)
      f[k \in 0 .. r.count] ==
        ((IF k = 0 THEN r.head_t ELSE f[k - 1]) + rtc_fifo_get_deltat(r.mem[s[k]]))
          % TimeMod
  IN  f

\* rtc_fifo_peek_sample: the sample k places behind the oldest one.
rtc_fifo_peek_sample(r, k) ==
  LET e == r.mem[SlotOf(r)[k]]
  IN  [value |-> rtc_fifo_get_value(e),
       decimals |-> rtc_fifo_get_decimals(e),
       tag |-> r.mem[rtc_fifo_get_tagpos(r) + rtc_fifo_get_tagindex(e)]]

----------------------------------------------------------------------------
(* The operations, as writes.                                              *)

\* The index of a tag: its own slot or the first free one; -1 if none is.
rtc_fifo_find_tag_index(r, tag) ==
  LET usable == { i \in 0 .. rtc_fifo_get_tagcount(r) - 1 :
                    r.mem[rtc_fifo_get_tagpos(r) + i] \in {tag, 0} }
  IN  IF usable = {} THEN -1 ELSE Min(usable)

\* The write that takes a free slot.
TagWrite(r, tag, i) ==
  IF i >= 0 /\ r.mem[rtc_fifo_get_tagpos(r) + i] = 0
    THEN <<rtc_mem_write(rtc_fifo_get_tagpos(r) + i, tag)>> ELSE << >>

\* Mutants: samples start in the tag slots; the tag slots are not cleared.
clear_InTags(r) ==
  LET first == rtc_fifo_get_tagpos(r)
  IN  <<Put("tail", first), Put("head", first), Put("count", 0),
        Put("tail_t", 0), Put("head_t", 0)>>
      \o [i \in 1 .. rtc_fifo_get_tagcount(r) |->
            rtc_mem_write(rtc_fifo_get_tagpos(r) + i - 1, 0)]

clear_KeepsTags(r) ==
  LET first == rtc_fifo_get_first(r)
  IN  <<Put("tail", first), Put("head", first), Put("count", 0),
        Put("tail_t", 0), Put("head_t", 0)>>

rtc_fifo_clear_content(r) ==
  LET first == rtc_fifo_get_first(r)
  IN  <<Put("tail", first), Put("head", first), Put("count", 0),
        Put("tail_t", 0), Put("head_t", 0)>>
      \o [i \in 1 .. rtc_fifo_get_tagcount(r) |->
            rtc_mem_write(rtc_fifo_get_tagpos(r) + i - 1, 0)]

\* Mutant: the time base does not follow the head.
pop_KeepsTime(r) ==
  <<Put("head", rtc_fifo_normalise_index(r, r.head + 1)),
    Put("count", r.count - 1)>>

rtc_fifo_pop_sample(r) ==
  <<Put("head", rtc_fifo_normalise_index(r, r.head + 1)),
    Put("head_t", (r.head_t + rtc_fifo_get_deltat(r.mem[r.head])) % TimeMod),
    Put("count", r.count - 1)>>

\* n is at most the count by now.
rtc_fifo_drop_samples(r, n) ==
  [i \in 1 .. n |-> Put("count", r.count - i)]
    \o <<Put("head", SlotOf(r)[n]),
         Put("head_t", IF n = 0 THEN r.head_t ELSE TimeOf(r)[n - 1])>>

\* The last part of rtc_fifo_store_sample: write the entry, advance the tail.
StoreEntry(r, s, t, tagindex, deltat) ==
  <<rtc_mem_write(r.tail,
      rtc_fifo_construct_entry(s.value, tagindex, s.decimals, deltat)),
    Put("tail", rtc_fifo_normalise_index(r, r.tail + 1)),
    Put("tail_t", t),
    Put("count", r.count + 1)>>

\* Whether sample s taken at time t fits behind the ones in the store.
Misfit(r, s, t) ==
  \/ rtc_fifo_find_tag_index(r, s.tag) < 0
  \/ r.count > 0 /\ rtc_fifo_delta_t(t, r.tail_t) < 0

\* rtc_fifo_store_sample.  A sample that does not fit empties the store; the
\* difference in time that did not fit is stored with it all the same.
rtc_fifo_store_sample(r, s, t) ==
  LET tagindex == rtc_fifo_find_tag_index(r, s.tag)
      tag      == TagWrite(r, s.tag, tagindex)
      base     == IF r.count = 0 THEN <<Put("head_t", t), Put("tail_t", t)>>
                                 ELSE << >>
      deltat   == IF r.count = 0 THEN 0 ELSE rtc_fifo_delta_t(t, r.tail_t)
      clear    == rtc_fifo_clear_content(r)
                    \o <<Put("head_t", t), Put("tail_t", t)>>
                    \o <<rtc_mem_write(rtc_fifo_get_tagpos(r), s.tag)>>
      evict    == IF r.head = r.tail /\ r.count > 0 THEN rtc_fifo_pop_sample(r)
                                                    ELSE << >>
  IN  IF Misfit(r, s, t)
        THEN tag \o base \o clear
               \o StoreEntry(After(r, clear), s, t, 0, deltat)
        ELSE tag \o base \o evict
               \o StoreEntry(After(r, evict), s, t, tagindex, deltat)

\* rtcfifo_prepare and rtc_fifo_prepare: the default storage is prepared in any case; another one
\* only replaces its location.
rtcfifo_prepare(r, n, storages) ==
  LET init == <<Put("loc", <<DefaultBegin, DefaultEnd, n>>)>>
  IN  init
        \o rtc_fifo_clear_content(After(r, init))
        \o <<Put("magic", TRUE)>>
        \o storages

----------------------------------------------------------------------------
(* Actions: calls of the Lua functions, and the resets that cut them short.*)

Samples == [value : Values, decimals : Decimals, tag : Tags]

\* The location an argument of rtcfifo.prepare asks for, as a write.
OtherStorage(n) == { << >> } \cup { <<Put("loc", <<st[1], st[2], n>>)>> : st \in Storages }

prepare ==
  \E n \in SensorCounts : \E other \in OtherStorage(n) :
    /\ rtc' = After(rtc, rtcfifo_prepare(rtc, n, other))
    /\ torn' = "no"
    /\ stamps' = << >>
    /\ restarted' = FALSE

put ==
  \E s \in Samples, t \in Times :
    /\ rtc.magic
    /\ torn = "no" \/ rtc.count < MaxCount
    /\ rtc' = After(rtc, rtc_fifo_store_sample(rtc, s, t))
    /\ IF Misfit(rtc, s, t)
         THEN /\ torn' = "no"
              /\ stamps' = <<t>>
              /\ restarted' = TRUE
         ELSE /\ stamps' = IF torn # "no" THEN << >>
                           ELSE Append(IF rtc'.count = rtc.count THEN Tail(stamps)
                                                                 ELSE stamps, t)
              /\ restarted' = (restarted /\ rtc.count > 0)
              /\ UNCHANGED torn

\* The samples that are left when the n oldest are gone.
Rest(n) == IF torn # "no" THEN << >> ELSE SubSeq(stamps, n + 1, Len(stamps))

pop ==
  /\ rtc.magic
  /\ rtc.count > 0
  /\ rtc' = After(rtc, rtc_fifo_pop_sample(rtc))
  /\ stamps' = Rest(1)
  /\ UNCHANGED <<torn, restarted>>

drop ==
  \E n \in 1 .. rtc.count :
    /\ rtc.magic
    /\ rtc' = After(rtc, rtc_fifo_drop_samples(rtc, n))
    /\ stamps' = Rest(n)
    /\ UNCHANGED <<torn, restarted>>

\* A reset after some but not all of the writes ws.
CutShort(ws, what) ==
  /\ \E k \in 1 .. Len(ws) - 1 : rtc' = After(rtc, SubSeq(ws, 1, k))
  /\ torn' = what
  /\ stamps' = << >>
  /\ restarted' = FALSE

reset_in_prepare ==
  \E n \in SensorCounts : \E other \in OtherStorage(n) :
    CutShort(rtcfifo_prepare(rtc, n, other), "prepare")

\* Bound: one since the store was last emptied.
reset_in_operation ==
  /\ rtc.magic
  /\ torn = "no"
  /\ \/ \E s \in Samples, t \in Times :
          CutShort(rtc_fifo_store_sample(rtc, s, t), "samples")
     \/ \E n \in 1 .. rtc.count :
          CutShort(rtc_fifo_drop_samples(rtc, n), "samples")
     \/ /\ rtc.count > 0
        /\ CutShort(rtc_fifo_pop_sample(rtc), "samples")

\* RTC memory as it comes up: without the magic, with anything in the slots.
Init ==
  /\ \E junk \in {0} \cup Tags :
       rtc = [magic |-> FALSE, loc |-> <<0, 0, 0>>, count |-> 0, head |-> 0,
              tail |-> 0, head_t |-> 0, tail_t |-> 0,
              mem |-> [a \in Slots |-> junk]]
  /\ torn = "no"
  /\ stamps = << >>
  /\ restarted = FALSE

Next == prepare \/ put \/ pop \/ drop \/ reset_in_prepare \/ reset_in_operation

Spec == Init /\ [][Next]_vars
----------------------------------------------------------------------------
(* Properties.                                                             *)

Damaged == torn # "no" \/ ~rtc.magic

\* The tag slots.
TagTable(r) ==
  [i \in 1 .. rtc_fifo_get_tagcount(r) |-> r.mem[rtc_fifo_get_tagpos(r) + i - 1]]

\* What rtcfifo.peek returns for the samples in the store, but for the time.
Peeked(r) == [k \in 1 .. r.count |-> rtc_fifo_peek_sample(r, k - 1)]

\* A sample as far as the entry has bits for it.
Stored(s) == [s EXCEPT !.value = @ % ValueMod, !.decimals = @ % DecimalsMod]

Fifo == INSTANCE SampleFifo WITH
  Samples <- { Stored(s) : s \in Samples },
  Fits    <- LAMBDA t, l : rtc_fifo_delta_t(t, l) >= 0,
  damaged <- Damaged,
  samples <- IF Damaged THEN << >> ELSE Peeked(rtc),
  names   <- IF Damaged THEN << >> ELSE TagTable(rtc),
  last    <- IF Damaged THEN 0 ELSE rtc.tail_t,
  room    <- IF Damaged THEN 0 ELSE rtc_fifo_get_last(rtc) - rtc_fifo_get_first(rtc)

\* Ring, tag table and packed entries are a queue: samples come out in the
\* order they went in, with their value, scale and sensor name, whatever wraps
\* around, is evicted or starts anew in between (rtcfifo.h 258-428).
ImplementsFifo == Fifo!Spec

\* rtcfifo.md says of peek and pop that the values returned match the input
\* arguments of put.  The times do not in a store that a sample has restarted:
\* the difference that did not fit is stored with it.
TimesMatchInput ==
  ~Damaged => \A k \in 1 .. rtc.count : TimeOf(rtc)[k - 1] = stamps[k]

\* What the code keeps instead: the time differences in the ring add up to
\* the timestamps.  What peek and pop return is later than what was put in by
\* the same amount for all samples, less than the time field holds (511 s),
\* and exact unless the store was restarted by the oldest.
TimestampsKept ==
  ~Damaged =>
    /\ Len(stamps) = rtc.count
    /\ \E late \in 0 .. DeltaMod - 1 :
         /\ ~restarted => late = 0
         /\ \A k \in 1 .. rtc.count :
              TimeOf(rtc)[k - 1] = (stamps[k] + late) % TimeMod

\* Head and tail stay in the part of the storage behind the tag slots, also
\* when an operation on samples was interrupted: samples overwrite neither
\* the sensor names nor slots that belong to the program.
IndexesInStorage ==
  rtc.magic /\ torn # "prepare" =>
    {rtc.head, rtc.tail} \subseteq rtc_fifo_get_first(rtc) .. rtc_fifo_get_last(rtc) - 1

============================================================================
