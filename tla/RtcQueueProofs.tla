--------------------------- MODULE RtcQueueProofs --------------------------
(***************************************************************************)
(* Proofs about what comes out of the store of RtcFifo: the times of the   *)
(* samples, and that the store is the queue of SampleFifo.                 *)
(***************************************************************************)
EXTENDS RtcFifoProofs

----------------------------------------------------------------------------
(* Arithmetic.                                                             *)

LEMMA DivMod ==
  ASSUME NEW q \in Nat \ {0}, NEW i \in Int
  PROVE  /\ i \div q \in Int /\ i % q \in Int
         /\ i % q >= 0 /\ i % q < q
         /\ i = q * (i \div q) + (i % q)
  OBVIOUS

\* Quotient and remainder are the only ones.
LEMMA DivModUnique ==
  ASSUME NEW q \in Nat \ {0}, NEW a \in Int, NEW b \in Int, b >= 0, b < q,
         NEW i \in Int, i = b + q * a
  PROVE  i \div q = a /\ i % q = b
<1> DEFINE d == i \div q
           m == i % q
<1>1. d \in Int /\ m \in Int /\ m >= 0 /\ m < q /\ i = q * d + m
  BY DivMod
<1> HIDE DEF d, m
<1>2. q * (d - a) = b - m
  BY <1>1
<1>3. CASE d - a >= 1
  <2>1. q * (d - a) >= q
    BY <1>1, <1>3
  <2> QED
    BY <1>1, <1>2, <2>1
<1>4. CASE d - a <= -1
  <2>1. q * (d - a) <= - q
    BY <1>1, <1>4
  <2> QED
    BY <1>1, <1>2, <2>1
<1>5. CASE d = a
  BY <1>1, <1>2, <1>5 DEF d, m
<1> QED
  BY <1>1, <1>3, <1>4, <1>5

\* Remainders may be taken before an addition or after it.
LEMMA ModAdd ==
  ASSUME NEW q \in Nat \ {0}, NEW a \in Int, NEW b \in Int
  PROVE  ((a % q) + (b % q)) % q = (a + b) % q
<1> DEFINE da == a \div q
           db == b \div q
           ma == a % q
           mb == b % q
           ds == (a + b) \div q
           ms == (a + b) % q
<1>1. /\ da \in Int /\ ma \in Int /\ a = q * da + ma
      /\ db \in Int /\ mb \in Int /\ b = q * db + mb
      /\ ds \in Int /\ ms \in Int /\ a + b = q * ds + ms /\ ms >= 0 /\ ms < q
  BY DivMod
<1> HIDE DEF da, db, ma, mb, ds, ms
<1>2. ma + mb = ms + q * (ds - da - db)
  <2>1. q * (ds - da - db) = q * ds - q * da - q * db
    BY <1>1
  <2> QED
    BY <1>1, <2>1
<1> DEFINE k == ds - da - db
           i == ma + mb
<1>3. k \in Int /\ i \in Int /\ i = ms + q * k
  BY <1>1, <1>2
<1> HIDE DEF k, i
<1>4. i % q = ms
  BY <1>1, <1>3, DivModUnique
<1> QED
  BY <1>4 DEF i, ma, mb, ms

LEMMA ModSmall ==
  ASSUME NEW q \in Nat \ {0}, NEW i \in 0 .. q - 1
  PROVE  i % q = i
<1>1. i = i + q * 0
  OBVIOUS
<1> QED
  BY <1>1, DivModUnique

\* A number made of a low and a high part.
LEMMA TwoParts ==
  ASSUME NEW q \in Nat \ {0}, NEW p \in Nat \ {0},
         NEW b \in Nat, b < q, NEW a \in Nat, a < p
  PROVE  b + q * a \in Nat /\ b + q * a < q * p /\ q * p \in Nat \ {0}
<1>1. q * a <= q * (p - 1)
  OBVIOUS
<1>2. q * (p - 1) = q * p - q /\ q * p \in Int /\ q * a \in Nat /\ q * p >= 1
  OBVIOUS
<1> QED
  BY <1>1, <1>2

\* What was packed into an entry comes out of it.
LEMMA EntryParts ==
  ASSUME NEW v \in Nat, NEW ti \in Int, NEW d \in Nat, NEW dt \in Int,
         NEW e, e = rtc_fifo_construct_entry(v, ti, d, dt)
  PROVE  /\ rtc_fifo_get_value(e) = v % ValueMod
         /\ rtc_fifo_get_deltat(e) = dt % DeltaMod
         /\ rtc_fifo_get_decimals(e) = d % DecimalsMod
         /\ rtc_fifo_get_tagindex(e) = ti % TagMod
<1> DEFINE v0 == v % ValueMod
           d0 == dt % DeltaMod
           c0 == d % DecimalsMod
           t0 == ti % TagMod
           m2 == c0 + DecimalsMod * t0
           m1 == d0 + DeltaMod * m2
           low == v0 + ValueMod * d0
           lower == low + (ValueMod * DeltaMod) * c0
<1>1. /\ ValueMod \in Nat \ {0} /\ DeltaMod \in Nat \ {0}
      /\ DecimalsMod \in Nat \ {0} /\ TagMod \in Nat \ {0}
  BY FieldsAssumption DEF Fields
<1>2. /\ v0 \in Nat /\ v0 < ValueMod /\ d0 \in Nat /\ d0 < DeltaMod
      /\ c0 \in Nat /\ c0 < DecimalsMod /\ t0 \in Nat /\ t0 < TagMod
  BY <1>1, DivMod
<1>3. e = v0 + ValueMod * m1
  BY DEF rtc_fifo_construct_entry
<1> HIDE DEF v0, d0, c0, t0
<1>4. m2 \in Nat
  <2>1. DecimalsMod * t0 \in Nat
    BY <1>1, <1>2
  <2> QED
    BY <1>2, <2>1
<1>5. m2 \div DecimalsMod = t0 /\ m2 % DecimalsMod = c0
  BY <1>1, <1>2, <1>4, DivModUnique
<1>6. m1 \in Nat
  <2> HIDE DEF m2
  <2>1. DeltaMod * m2 \in Nat
    BY <1>1, <1>4
  <2> QED
    BY <1>2, <2>1
<1>7. m1 \div DeltaMod = m2 /\ m1 % DeltaMod = d0
  <2> HIDE DEF m2
  <2> QED
    BY <1>1, <1>2, <1>4, <1>6, DivModUnique
<1>8. e \in Nat
  <2> HIDE DEF m1
  <2>1. ValueMod * m1 \in Nat
    BY <1>1, <1>6
  <2> QED
    BY <1>2, <1>3, <2>1
<1>9. e \div ValueMod = m1 /\ e % ValueMod = v0
  <2> HIDE DEF m1
  <2> QED
    BY <1>1, <1>2, <1>3, <1>6, <1>8, DivModUnique
<1>10. low \in Nat /\ low < ValueMod * DeltaMod /\ ValueMod * DeltaMod \in Nat \ {0}
  BY <1>1, <1>2, TwoParts
<1> DEFINE VD == ValueMod * DeltaMod
<1>11. e = low + VD * m2
  <2> HIDE DEF m2
  <2>1. ValueMod * m1 = ValueMod * d0 + ValueMod * (DeltaMod * m2)
    BY <1>1, <1>2, <1>4
  <2>2. ValueMod * (DeltaMod * m2) = VD * m2
    BY <1>1, <1>4
  <2>3. ValueMod * d0 \in Int /\ VD * m2 \in Int
    BY <1>1, <1>2, <1>4
  <2> HIDE DEF m1, VD
  <2> QED
    BY <1>2, <1>3, <2>1, <2>2, <2>3
<1>12. VD \in Nat \ {0} /\ low < VD
  BY <1>10
<1> HIDE DEF VD, low, m1
<1>13. e \div VD = m2
  <2> HIDE DEF m2
  <2> QED
    BY <1>4, <1>8, <1>10, <1>11, <1>12, DivModUnique
<1> DEFINE VDC == VD * DecimalsMod
<1>14. lower \in Nat /\ lower < VDC /\ VDC \in Nat \ {0} /\ lower = low + VD * c0
  <2>1. lower = low + VD * c0
    BY DEF VD
  <2> HIDE DEF lower
  <2>2. low + VD * c0 \in Nat /\ low + VD * c0 < VD * DecimalsMod /\ VD * DecimalsMod \in Nat \ {0}
    BY <1>1, <1>2, <1>10, <1>12, TwoParts
  <2> QED
    BY <2>1, <2>2
<1> HIDE DEF lower
<1>15. e = lower + VDC * t0
  <2>1. VD * m2 = VD * c0 + VD * (DecimalsMod * t0)
    BY <1>1, <1>2, <1>12
  <2>2. VD * (DecimalsMod * t0) = VDC * t0
    BY <1>1, <1>2, <1>12
  <2>3. VD * c0 \in Int /\ VDC * t0 \in Int
    BY <1>1, <1>2, <1>12
  <2> HIDE DEF VDC, m2
  <2> QED
    BY <1>10, <1>11, <1>14, <2>1, <2>2, <2>3
<1> HIDE DEF VDC
<1>16. e \div VDC = t0
  BY <1>2, <1>8, <1>14, <1>15, DivModUnique
<1>17. t0 % TagMod = t0
  BY <1>1, <1>2, ModSmall
<1>18. rtc_fifo_get_value(e) = v0
  BY <1>9 DEF rtc_fifo_get_value
<1>19. rtc_fifo_get_deltat(e) = d0
  BY <1>7, <1>9 DEF rtc_fifo_get_deltat
<1>20. rtc_fifo_get_decimals(e) = c0
  BY <1>5, <1>13 DEF rtc_fifo_get_decimals, VD
<1>21. rtc_fifo_get_tagindex(e) = t0
  BY <1>16, <1>17 DEF rtc_fifo_get_tagindex, VD, VDC
<1> QED
  BY <1>18, <1>19, <1>20, <1>21 DEF v0, d0, c0, t0

----------------------------------------------------------------------------
(* The ring.                                                               *)

\* How many samples there is room for, and the slot k places behind h.
Size(l) == l[2] - (l[1] + l[3])
Pos(l, h, k) == IF h + k < l[2] THEN h + k ELSE h + k - Size(l)

LEMMA PosFacts ==
  ASSUME NEW l \in Locs, NEW h \in Room(l)
  PROVE  /\ Size(l) \in Nat /\ Size(l) >= 1
         /\ Pos(l, h, 0) = h /\ Pos(l, h, Size(l)) = h
         /\ \A k \in 0 .. Size(l) : Pos(l, h, k) \in Room(l)
         /\ \A j, k \in 0 .. Size(l) - 1 : Pos(l, h, j) = Pos(l, h, k) => j = k
         /\ \A n, k \in 0 .. Size(l) :
              n + k <= Size(l) => Pos(l, Pos(l, h, n), k) = Pos(l, h, n + k)
         /\ \A k \in 1 .. Size(l) : Pos(l, h, k) = h => k = Size(l)
<1>1. l[1] \in Nat /\ l[2] \in Nat /\ l[3] \in Nat /\ l[1] + l[3] < l[2]
  BY LocFacts
<1>2. h \in Int /\ l[1] + l[3] <= h /\ h < l[2]
  BY <1>1 DEF Room
<1>3. Size(l) \in Nat /\ Size(l) >= 1
  BY <1>1 DEF Size
<1>4. Pos(l, h, 0) = h /\ Pos(l, h, Size(l)) = h
  BY <1>1, <1>2 DEF Pos, Size
<1>5. \A k \in 0 .. Size(l) : Pos(l, h, k) \in Room(l)
  BY <1>1, <1>2 DEF Pos, Size, Room
<1>6. \A j, k \in 0 .. Size(l) - 1 : Pos(l, h, j) = Pos(l, h, k) => j = k
  BY <1>1, <1>2 DEF Pos, Size
<1>7. \A n, k \in 0 .. Size(l) :
        n + k <= Size(l) => Pos(l, Pos(l, h, n), k) = Pos(l, h, n + k)
  BY <1>1, <1>2 DEF Pos, Size
<1>8. \A k \in 1 .. Size(l) : Pos(l, h, k) = h => k = Size(l)
  BY <1>1, <1>2 DEF Pos, Size
<1> QED
  BY <1>3, <1>4, <1>5, <1>6, <1>7, <1>8

LEMMA PosNext ==
  ASSUME NEW r, r.loc \in Locs, NEW h \in Room(r.loc), NEW k \in 0 .. Size(r.loc) - 1
  PROVE  rtc_fifo_normalise_index(r, Pos(r.loc, h, k) + 1) = Pos(r.loc, h, k + 1)
<1> DEFINE l == r.loc
<1>1. l[1] \in Nat /\ l[2] \in Nat /\ l[3] \in Nat /\ l[1] + l[3] < l[2]
  BY LocFacts
<1>2. h \in Int /\ l[1] + l[3] <= h /\ h < l[2]
  BY <1>1 DEF Room
<1>3. k \in Int /\ 0 <= k /\ k <= l[2] - (l[1] + l[3]) - 1
  BY <1>1 DEF Size
<1>4. \A i : rtc_fifo_normalise_index(r, i) = IF i >= l[2] THEN l[1] + l[3] ELSE i
  BY DEF rtc_fifo_normalise_index, rtc_fifo_get_first, rtc_fifo_get_last,
         rtc_fifo_get_tagpos, rtc_fifo_get_tagcount
<1> HIDE DEF l
<1>5. rtc_fifo_normalise_index(r, Pos(l, h, k) + 1) =
        IF Pos(l, h, k) + 1 >= l[2] THEN l[1] + l[3] ELSE Pos(l, h, k) + 1
  BY <1>4
<1>6. (IF Pos(l, h, k) + 1 >= l[2] THEN l[1] + l[3] ELSE Pos(l, h, k) + 1) = Pos(l, h, k + 1)
  BY <1>1, <1>2, <1>3 DEF Pos, Size
<1> QED
  BY <1>5, <1>6 DEF l

\* The slots samples are found in.
LEMMA SlotOfPos ==
  ASSUME NEW r, r.loc \in Locs, r.head \in Room(r.loc), r.count \in 0 .. Size(r.loc)
  PROVE  \A k \in 0 .. r.count : SlotOf(r)[k] = Pos(r.loc, r.head, k)
<1> DEFINE f == SlotOf(r)
           T == { k \in 0 .. r.count : f[k] # Pos(r.loc, r.head, k) }
<1>0. Size(r.loc) \in Nat /\ Pos(r.loc, r.head, 0) = r.head
  BY PosFacts
<1>1. /\ f[0] = r.head
      /\ \A k \in 1 .. r.count : f[k] = rtc_fifo_normalise_index(r, f[k - 1] + 1)
  BY <1>0, SlotOfIs
<1> HIDE DEF f
<1>2. ASSUME T # {} PROVE FALSE
  <2>1. T \in SUBSET Nat
    OBVIOUS
  <2>2. PICK x \in T : \A y \in T : x <= y
    BY <1>2, <2>1, LeastNat
  <2>3. x # 0 /\ x \in 0 .. r.count
    BY <1>0, <1>1, <2>2
  <2>4. x - 1 \in 0 .. r.count /\ x - 1 \notin T /\ x \in 1 .. r.count
    BY <2>2, <2>3
  <2>5. x - 1 \in 0 .. Size(r.loc) - 1 /\ (x - 1) + 1 = x
    BY <1>0, <2>4
  <2>6. f[x] = rtc_fifo_normalise_index(r, Pos(r.loc, r.head, x - 1) + 1)
    BY <1>1, <2>4
  <2>7. f[x] = Pos(r.loc, r.head, x)
    BY <2>5, <2>6, PosNext
  <2> QED
    BY <2>2, <2>7
<1> QED
  BY <1>2 DEF f

----------------------------------------------------------------------------
(* The times of the samples.                                               *)

\* f are the times of the first n samples and what stands behind them.
AreTimes(r, n, f) ==
  f = [k \in 0 .. n |-> ((IF k = 0 THEN r.head_t ELSE f[k - 1])
                           + rtc_fifo_get_deltat(r.mem[SlotOf(r)[k]])) % TimeMod]

TimeAfter(r, t, k) == (t + rtc_fifo_get_deltat(r.mem[SlotOf(r)[k]])) % TimeMod

LEMMA TimesExist ==
  ASSUME NEW r, NEW n \in Nat
  PROVE  \E f : AreTimes(r, n, f)
<1> DEFINE T == { m \in Nat : ~ \E f : AreTimes(r, m, f) }
<1>0. \A m, f : AreTimes(r, m, f) <=>
        f = [k \in 0 .. m |-> TimeAfter(r, IF k = 0 THEN r.head_t ELSE f[k - 1], k)]
  BY DEF AreTimes, TimeAfter
<1>1. ASSUME T # {} PROVE FALSE
  <2>1. T \in SUBSET Nat
    OBVIOUS
  <2>2. PICK x \in T : \A y \in T : x <= y
    BY <1>1, <2>1, LeastNat
  <2>3. x # 0
    <3> SUFFICES ASSUME x = 0 PROVE FALSE
      OBVIOUS
    <3> DEFINE g == [k \in 0 .. 0 |-> TimeAfter(r, r.head_t, k)]
    <3>1. g = [k \in 0 .. 0 |-> TimeAfter(r, IF k = 0 THEN r.head_t ELSE g[k - 1], k)]
      OBVIOUS
    <3> HIDE DEF g
    <3>2. AreTimes(r, 0, g)
      BY <1>0, <3>1
    <3> QED
      BY <2>2, <3>2
  <2>4. x - 1 \in Nat /\ x - 1 \notin T
    BY <2>1, <2>2, <2>3
  <2>5. PICK f : AreTimes(r, x - 1, f)
    BY <2>4
  <2> DEFINE g == [k \in 0 .. x |-> IF k = x THEN TimeAfter(r, f[x - 1], x) ELSE f[k]]
  <2>6. AreTimes(r, x, g)
    <3>1. x \in Nat
      BY <2>1, <2>2
    <3>2. /\ g[x] = TimeAfter(r, f[x - 1], x)
          /\ \A k \in 0 .. x - 1 : g[k] = f[k]
      BY <3>1
    <3>3. \A k \in 0 .. x - 1 :
            f[k] = TimeAfter(r, IF k = 0 THEN r.head_t ELSE f[k - 1], k)
      BY <1>0, <2>5
    <3>4. \A k \in 0 .. x :
            g[k] = TimeAfter(r, IF k = 0 THEN r.head_t ELSE g[k - 1], k)
      <4> TAKE k \in 0 .. x
      <4>1. CASE k = 0
        BY <2>3, <3>1, <3>2, <3>3, <4>1
      <4>2. CASE k # 0 /\ k < x
        <5>1. k \in 0 .. x - 1 /\ k - 1 \in 0 .. x - 1
          BY <3>1, <4>2
        <5> QED
          BY <3>2, <3>3, <4>2, <5>1
      <4>3. CASE k = x
        <5>1. x - 1 \in 0 .. x - 1
          BY <2>3, <3>1
        <5> QED
          BY <2>3, <3>2, <4>3, <5>1
      <4> QED
        BY <3>1, <4>1, <4>2, <4>3
    <3>5. g = [k \in 0 .. x |-> g[k]]
      OBVIOUS
    <3> HIDE DEF g
    <3> QED
      BY <1>0, <3>4, <3>5
  <2> QED
    BY <2>2, <2>6
<1> QED
  BY <1>1

LEMMA TimeOfIs ==
  ASSUME NEW r, r.count \in Nat
  PROVE  /\ TimeOf(r)[0] = TimeAfter(r, r.head_t, 0)
         /\ \A k \in 1 .. r.count : TimeOf(r)[k] = TimeAfter(r, TimeOf(r)[k - 1], k)
<1>1. PICK g : AreTimes(r, r.count, g)
  BY TimesExist
<1>2. TimeOf(r) = CHOOSE f : AreTimes(r, r.count, f)
  BY DEF TimeOf, AreTimes
<1>3. AreTimes(r, r.count, TimeOf(r))
  BY <1>1, <1>2
<1>4. TimeOf(r) = [k \in 0 .. r.count |->
                     TimeAfter(r, IF k = 0 THEN r.head_t ELSE TimeOf(r)[k - 1], k)]
  BY <1>3 DEF AreTimes, TimeAfter
<1> DEFINE f == TimeOf(r)
<1> HIDE DEF f
<1>5. f = [k \in 0 .. r.count |->
                     TimeAfter(r, IF k = 0 THEN r.head_t ELSE f[k - 1], k)]
  BY <1>4 DEF f
<1>6. f[0] = TimeAfter(r, r.head_t, 0)
  BY <1>5
<1>7. \A k \in 1 .. r.count : f[k] = TimeAfter(r, f[k - 1], k)
  BY <1>5
<1> QED
  BY <1>6, <1>7 DEF f

\* The samples stand in the ring from head to tail.
Ring(r) ==
  /\ r.loc \in Locs
  /\ r.head \in Room(r.loc)
  /\ r.count \in 0 .. Size(r.loc)
  /\ r.tail = Pos(r.loc, r.head, r.count)

\* The difference in time stored with the sample k places behind the oldest.
Dt(r, k) == rtc_fifo_get_deltat(r.mem[Pos(r.loc, r.head, k)])

\* The samples of r were put in at the times ts, and come out later by late.
Timed(r, ts, late) ==
  /\ ts \in Seq(Times) /\ Len(ts) = r.count
  /\ r.head_t \in Int
  /\ \A k \in 1 .. r.count - 1 : Dt(r, k) = (ts[k + 1] - ts[k]) % TimeMod
  /\ r.count > 0 => /\ r.tail_t = ts[r.count]
                    /\ (r.head_t + Dt(r, 0)) % TimeMod = (ts[1] + late) % TimeMod

LEMMA TimeArith ==
  ASSUME NEW a \in Int, NEW b \in Int, NEW late \in Int
  PROVE  /\ TimeMod \in Nat \ {0}
         /\ (((a + late) % TimeMod) + ((b - a) % TimeMod)) % TimeMod = (b + late) % TimeMod
<1>1. TimeMod \in Nat \ {0}
  BY FieldsAssumption
<1> DEFINE x == a + late
           y == b - a
<1>2. x \in Int /\ y \in Int /\ x + y = b + late
  OBVIOUS
<1> HIDE DEF x, y
<1>3. ((x % TimeMod) + (y % TimeMod)) % TimeMod = (x + y) % TimeMod
  BY <1>1, <1>2, ModAdd
<1> QED
  BY <1>1, <1>2, <1>3 DEF x, y

LEMMA TimedTimes ==
  ASSUME NEW r, NEW ts, NEW late, Timed(r, ts, late), r.count \in Nat
  PROVE  \A k \in 1 .. r.count : ts[k] \in Times /\ ts[k] \in Int
<1>1. ts \in Seq(Times) /\ Len(ts) = r.count
  BY DEF Timed
<1>2. \A k \in 1 .. r.count : ts[k] \in Times
  BY <1>1
<1>3. Times \subseteq Int
  BY SamplesAssumption
<1> QED
  BY <1>2, <1>3

\* What comes out when the differences are added up.
LEMMA TimesTrue ==
  ASSUME NEW r, Ring(r), NEW ts, NEW late \in Int, Timed(r, ts, late)
  PROVE  \A k \in 1 .. r.count : TimeOf(r)[k - 1] = (ts[k] + late) % TimeMod
<1> DEFINE f == TimeOf(r)
           T == { k \in 1 .. r.count : f[k - 1] # (ts[k] + late) % TimeMod }
<1>0. r.count \in Nat /\ r.count <= Size(r.loc) /\ Size(r.loc) \in Nat
  BY PosFacts DEF Ring
<1>1. /\ f[0] = TimeAfter(r, r.head_t, 0)
      /\ \A k \in 1 .. r.count : f[k] = TimeAfter(r, f[k - 1], k)
  BY <1>0, TimeOfIs
<1>2. \A t : \A k \in 0 .. r.count : TimeAfter(r, t, k) = (t + Dt(r, k)) % TimeMod
  BY SlotOfPos DEF Ring, TimeAfter, Dt
<1> HIDE DEF f
<1>3. ASSUME T # {} PROVE FALSE
  <2>1. T \in SUBSET Nat
    OBVIOUS
  <2>2. PICK x \in T : \A y \in T : x <= y
    BY <1>3, <2>1, LeastNat
  <2>3. x \in 1 .. r.count /\ f[x - 1] # (ts[x] + late) % TimeMod
    BY <2>2
  <2>4. x # 1
    <3> SUFFICES ASSUME x = 1 PROVE FALSE
      OBVIOUS
    <3>1. r.count > 0 /\ 0 \in 0 .. r.count
      BY <1>0, <2>3
    <3>2. (r.head_t + Dt(r, 0)) % TimeMod = (ts[1] + late) % TimeMod
      BY <3>1 DEF Timed
    <3>3. f[0] = (r.head_t + Dt(r, 0)) % TimeMod
      BY <1>1, <1>2, <3>1
    <3> QED
      BY <2>3, <3>2, <3>3
  <2>5. x - 1 \in 1 .. r.count /\ x - 1 \notin T /\ x - 1 \in 1 .. r.count - 1
    BY <1>0, <2>2, <2>3, <2>4
  <2> DEFINE w == x - 1
  <2>6. w \in 1 .. r.count /\ w \in 0 .. r.count /\ w \in 1 .. r.count - 1 /\ x = w + 1
    BY <2>3, <2>5
  <2>7. f[w - 1] = (ts[w] + late) % TimeMod
    BY <2>5
  <2> HIDE DEF w
  <2>8. Dt(r, w) = (ts[w + 1] - ts[w]) % TimeMod
    BY <2>6 DEF Timed
  <2>9. f[w] = (((ts[w] + late) % TimeMod) + ((ts[w + 1] - ts[w]) % TimeMod)) % TimeMod
    BY <1>1, <1>2, <2>6, <2>7, <2>8
  <2>10. ts[w] \in Int /\ ts[w + 1] \in Int
    BY <1>0, <2>3, <2>6, TimedTimes
  <2>11. f[w] = (ts[w + 1] + late) % TimeMod
    BY <2>9, <2>10, TimeArith
  <2> QED
    BY <2>3, <2>11 DEF w
<1> QED
  BY <1>3 DEF f

----------------------------------------------------------------------------
(* What the operations do to the ring and to the times in it.              *)

\* The n oldest samples leave.
LEMMA RingDrop ==
  ASSUME NEW r, Ring(r), NEW n \in 0 .. r.count, NEW s, s.loc = r.loc, s.tail = r.tail,
         s.head = Pos(r.loc, r.head, n), s.count = r.count - n
  PROVE  /\ Ring(s)
         /\ \A k \in 0 .. s.count : /\ n + k \in 0 .. r.count
                                    /\ Pos(s.loc, s.head, k) = Pos(r.loc, r.head, n + k)
<1>1. /\ r.loc \in Locs /\ r.head \in Room(r.loc) /\ r.count \in 0 .. Size(r.loc)
      /\ r.tail = Pos(r.loc, r.head, r.count)
  BY DEF Ring
<1>2. Size(r.loc) \in Nat /\ n \in 0 .. Size(r.loc)
  BY <1>1, PosFacts
<1>3. s.head \in Room(s.loc)
  BY <1>1, <1>2, PosFacts
<1>4. s.count \in 0 .. Size(s.loc)
  BY <1>1, <1>2
<1>5. ASSUME NEW k \in 0 .. s.count
      PROVE  n + k \in 0 .. r.count /\ Pos(s.loc, s.head, k) = Pos(r.loc, r.head, n + k)
  <2>1. k \in 0 .. Size(r.loc) /\ n + k \in 0 .. r.count /\ n + k <= Size(r.loc)
    BY <1>1, <1>2
  <2>2. \A x, y \in 0 .. Size(r.loc) :
          x + y <= Size(r.loc) => Pos(r.loc, Pos(r.loc, r.head, x), y) = Pos(r.loc, r.head, x + y)
    BY <1>1, PosFacts
  <2> QED
    BY <1>2, <2>1, <2>2
<1>6. s.tail = Pos(s.loc, s.head, s.count)
  <2>1. s.count \in 0 .. s.count /\ n + s.count = r.count
    BY <1>1, <1>4
  <2> QED
    BY <1>1, <1>5, <2>1
<1> QED
  BY <1>1, <1>3, <1>4, <1>5, <1>6 DEF Ring

LEMMA TimedDrop ==
  ASSUME NEW r, Ring(r), NEW ts, NEW late \in Int, Timed(r, ts, late),
         NEW n \in 1 .. r.count, NEW s, s.loc = r.loc, s.tail = r.tail,
         s.head = Pos(r.loc, r.head, n), s.count = r.count - n,
         s.tail_t = r.tail_t, SameSlots(r, s), s.head_t = TimeOf(r)[n - 1]
  PROVE  Timed(s, SubSeq(ts, n + 1, Len(ts)), late)
<1> DEFINE us == SubSeq(ts, n + 1, Len(ts))
<1>0. /\ r.loc \in Locs /\ r.count \in Nat /\ r.count \in 0 .. Size(r.loc) /\ r.head \in Room(r.loc)
  BY PosFacts DEF Ring
<1>1. /\ ts \in Seq(Times) /\ Len(ts) = r.count
      /\ \A k \in 1 .. r.count - 1 : Dt(r, k) = (ts[k + 1] - ts[k]) % TimeMod
      /\ r.count > 0 => r.tail_t = ts[r.count]
  BY DEF Timed
<1>2. us \in Seq(Times) /\ Len(us) = s.count /\ \A k \in 1 .. s.count : us[k] = ts[n + k]
  <2>1. n + 1 \in 1 .. Len(ts) + 1 /\ Len(ts) \in Nat /\ n \in Nat
    BY <1>0, <1>1
  <2>2. us \in Seq(Times)
    BY <1>1, <2>1, SubSeqProperties
  <2>3. Len(us) = Len(ts) - n
    BY <1>1, <2>1, SubSeqProperties
  <2>4. \A k \in 1 .. Len(ts) - n : us[k] = ts[n + k]
    BY <1>1, <2>1, SubSeqProperties
  <2> QED
    BY <1>1, <2>2, <2>3, <2>4
<1> HIDE DEF us
<1>3. \A k \in 0 .. s.count : /\ n + k \in 0 .. r.count
                              /\ Pos(s.loc, s.head, k) = Pos(r.loc, r.head, n + k)
  BY <1>0, RingDrop
<1>4. \A k \in 0 .. s.count : Dt(s, k) = Dt(r, n + k)
  <2> TAKE k \in 0 .. s.count
  <2>1. n + k \in 0 .. Size(r.loc)
    BY <1>0, <1>3, PosFacts
  <2>2. Pos(r.loc, r.head, n + k) \in Slots
    BY <1>0, <2>1, PosFacts, RoomFacts
  <2> QED
    BY <1>3, <2>2 DEF Dt, SameSlots
<1>5. \A k \in 1 .. s.count - 1 : Dt(s, k) = (us[k + 1] - us[k]) % TimeMod
  <2> TAKE k \in 1 .. s.count - 1
  <2>1. k \in 0 .. s.count /\ n + k \in 1 .. r.count - 1 /\ k \in 1 .. s.count
        /\ k + 1 \in 1 .. s.count /\ n + (k + 1) = (n + k) + 1
    BY <1>0
  <2>2. us[k] = ts[n + k] /\ us[k + 1] = ts[(n + k) + 1]
    BY <1>2, <2>1
  <2> QED
    BY <1>1, <1>4, <2>1, <2>2
<1>6. s.head_t = (ts[n] + late) % TimeMod
  BY TimesTrue
<1>7. \A k \in 1 .. r.count : ts[k] \in Int
  BY <1>0, TimedTimes
<1>8. TimeMod \in Nat \ {0}
  BY FieldsAssumption
<1>9. s.head_t \in Int
  BY <1>6, <1>7, <1>8
<1>10. ASSUME s.count > 0
       PROVE  /\ s.tail_t = us[s.count]
              /\ (s.head_t + Dt(s, 0)) % TimeMod = (us[1] + late) % TimeMod
  <2>1. /\ n \in 1 .. r.count - 1 /\ n + 1 \in 1 .. r.count /\ n \in 1 .. r.count
        /\ n + s.count = r.count /\ s.count \in 1 .. s.count /\ 1 \in 1 .. s.count
        /\ 0 \in 0 .. s.count /\ n + 0 = n
    BY <1>0, <1>10
  <2>2. us[s.count] = ts[r.count] /\ us[1] = ts[n + 1]
    BY <1>2, <2>1
  <2>3. Dt(s, 0) = (ts[n + 1] - ts[n]) % TimeMod
    BY <1>1, <1>4, <2>1
  <2>4. (s.head_t + Dt(s, 0)) % TimeMod = (ts[n + 1] + late) % TimeMod
    <3>1. ts[n] \in Int /\ ts[n + 1] \in Int
      BY <1>7, <2>1
    <3> QED
      BY <1>6, <2>3, <3>1, TimeArith
  <2> QED
    BY <1>0, <1>1, <2>2, <2>4
<1> QED
  BY <1>2, <1>5, <1>9, <1>10 DEF Timed, us

\* A sample is added behind the others.
LEMMA RingStore ==
  ASSUME NEW q, Ring(q), q.count < Size(q.loc), NEW s, s.loc = q.loc, s.head = q.head,
         s.tail = rtc_fifo_normalise_index(q, q.tail + 1), s.count = q.count + 1
  PROVE  /\ Ring(s) /\ s.count \in Nat /\ s.count > 0
         /\ \A k \in 0 .. q.count : Pos(s.loc, s.head, k) \in Room(q.loc)
         /\ Pos(s.loc, s.head, q.count) = q.tail
         /\ \A k \in 0 .. q.count - 1 : Pos(s.loc, s.head, k) # q.tail
<1>1. /\ q.loc \in Locs /\ q.head \in Room(q.loc) /\ q.count \in 0 .. Size(q.loc)
      /\ q.tail = Pos(q.loc, q.head, q.count)
  BY DEF Ring
<1>2. Size(q.loc) \in Nat
  BY <1>1, PosFacts
<1>3. q.count \in 0 .. Size(q.loc) - 1 /\ s.count \in 0 .. Size(q.loc) /\ s.count > 0
  BY <1>1, <1>2
<1>4. s.tail = Pos(s.loc, s.head, s.count)
  BY <1>1, <1>3, PosNext
<1>5. \A k \in 0 .. q.count : Pos(s.loc, s.head, k) \in Room(q.loc)
  BY <1>1, <1>2, PosFacts
<1>6. \A k \in 0 .. q.count - 1 : Pos(s.loc, s.head, k) # q.tail
  <2> TAKE k \in 0 .. q.count - 1
  <2>1. k \in 0 .. Size(q.loc) - 1 /\ k # q.count
    BY <1>2, <1>3
  <2>2. \A i, j \in 0 .. Size(q.loc) - 1 : Pos(q.loc, q.head, i) = Pos(q.loc, q.head, j) => i = j
    BY <1>1, PosFacts
  <2> QED
    BY <1>1, <1>3, <2>1, <2>2
<1> QED
  BY <1>1, <1>3, <1>4, <1>5, <1>6 DEF Ring

LEMMA SampleParts ==
  ASSUME NEW smp \in Samples
  PROVE  /\ smp.value \in Nat /\ smp.decimals \in Nat /\ smp.tag \in Nat /\ smp.tag # 0
         /\ smp = [value |-> smp.value, decimals |-> smp.decimals, tag |-> smp.tag]
  BY SamplesAssumption DEF Samples

\* The parts of a sample's entry.
LEMMA EntryOf ==
  ASSUME NEW smp \in Samples, NEW ti \in Int, NEW dt \in 0 .. DeltaMod - 1,
         NEW e, e = rtc_fifo_construct_entry(smp.value, ti, smp.decimals, dt)
  PROVE  /\ rtc_fifo_get_value(e) = smp.value % ValueMod
         /\ rtc_fifo_get_decimals(e) = smp.decimals % DecimalsMod
         /\ rtc_fifo_get_tagindex(e) = ti % TagMod
         /\ rtc_fifo_get_deltat(e) = dt
<1>1. DeltaMod \in Nat \ {0} /\ dt \in Int
  BY FieldsAssumption DEF Fields
<1>2. dt % DeltaMod = dt
  BY <1>1, ModSmall
<1> QED
  BY <1>1, <1>2, SampleParts, EntryParts

\* smp, put in at time t, is the entry at the tail of q.
Entered(q, s, smp, ti, dt) ==
  \A a \in Room(q.loc) :
    s.mem[a] = IF a = q.tail THEN rtc_fifo_construct_entry(smp.value, ti, smp.decimals, dt)
                             ELSE q.mem[a]

LEMMA TimedStore ==
  ASSUME NEW q, Ring(q), q.count < Size(q.loc), NEW ts, NEW late, Timed(q, ts, late),
         NEW s, s.loc = q.loc, s.head = q.head,
         s.tail = rtc_fifo_normalise_index(q, q.tail + 1), s.count = q.count + 1,
         NEW smp \in Samples, NEW t \in Times, NEW ti \in Int, NEW dt \in 0 .. DeltaMod - 1,
         Entered(q, s, smp, ti, dt), s.tail_t = t, s.head_t \in Int,
         q.count = 0 => (s.head_t + dt) % TimeMod = (t + late) % TimeMod,
         q.count > 0 => s.head_t = q.head_t /\ dt = (t - ts[q.count]) % TimeMod
  PROVE  Timed(s, Append(ts, t), late)
<1> DEFINE us == Append(ts, t)
<1>1. /\ ts \in Seq(Times) /\ Len(ts) = q.count /\ q.count \in Nat
      /\ \A k \in 1 .. q.count - 1 : Dt(q, k) = (ts[k + 1] - ts[k]) % TimeMod
      /\ q.count > 0 => (q.head_t + Dt(q, 0)) % TimeMod = (ts[1] + late) % TimeMod
  BY PosFacts DEF Timed, Ring
<1>2. /\ us \in Seq(Times) /\ Len(us) = s.count /\ us[s.count] = t
      /\ \A k \in 1 .. q.count : us[k] = ts[k]
  BY <1>1, AppendProperties
<1> HIDE DEF us
<1>3. /\ \A k \in 0 .. q.count : Pos(s.loc, s.head, k) \in Room(q.loc)
      /\ Pos(s.loc, s.head, q.count) = q.tail
      /\ \A k \in 0 .. q.count - 1 : Pos(s.loc, s.head, k) # q.tail
      /\ s.count \in Nat /\ s.count > 0
  BY RingStore
<1>4. Dt(s, q.count) = dt
  <2>2. q.count \in 0 .. q.count
    BY <1>1
  <2>3. s.mem[q.tail] = rtc_fifo_construct_entry(smp.value, ti, smp.decimals, dt)
    BY <1>3, <2>2 DEF Entered
  <2>4. rtc_fifo_get_deltat(s.mem[q.tail]) = dt
    BY <2>3, EntryOf
  <2> QED
    BY <1>3, <2>4 DEF Dt
<1>5. \A k \in 0 .. q.count - 1 : Dt(s, k) = Dt(q, k)
  <2> TAKE k \in 0 .. q.count - 1
  <2>1. k \in 0 .. q.count
    BY <1>1
  <2> QED
    BY <1>3, <2>1 DEF Entered, Dt
<1>6. \A k \in 1 .. s.count - 1 : Dt(s, k) = (us[k + 1] - us[k]) % TimeMod
  <2> TAKE k \in 1 .. s.count - 1
  <2>0. k \in Int /\ k >= 1 /\ k <= q.count
    BY <1>1
  <2>1. CASE k = q.count
    <3>1. q.count > 0 /\ k \in 1 .. q.count /\ k + 1 = s.count
      BY <1>1, <2>1
    <3> QED
      BY <1>2, <1>4, <2>1, <3>1
  <2>2. CASE k # q.count
    <3>1. k \in 1 .. q.count - 1 /\ k \in 0 .. q.count - 1 /\ k \in 1 .. q.count
          /\ k + 1 \in 1 .. q.count
      <4>1. k <= q.count - 1 /\ q.count \in Int
        BY <1>1, <2>0, <2>2
      <4> QED
        BY <2>0, <4>1
    <3> QED
      BY <1>1, <1>2, <1>5, <3>1
  <2> QED
    BY <2>1, <2>2
<1>7. (s.head_t + Dt(s, 0)) % TimeMod = (us[1] + late) % TimeMod
  <2>1. CASE q.count = 0
    <3>1. s.count = 1 /\ us[1] = t /\ Dt(s, 0) = dt
      BY <1>2, <1>4, <2>1
    <3> QED
      BY <2>1, <3>1
  <2>2. CASE q.count > 0
    <3>1. 0 \in 0 .. q.count - 1 /\ 1 \in 1 .. q.count
      BY <1>1, <2>2
    <3>2. Dt(s, 0) = Dt(q, 0) /\ us[1] = ts[1]
      BY <1>2, <1>5, <3>1
    <3> QED
      BY <1>1, <2>2, <3>2
  <2> QED
    BY <1>1, <2>1, <2>2
<1> QED
  BY <1>2, <1>3, <1>6, <1>7 DEF Timed, us

\* A store with one sample in it.
LEMMA TimedOne ==
  ASSUME NEW r, r.loc \in Locs, r.tail_t \in Int, NEW smp \in Samples, NEW t \in Times,
         NEW s, s.loc = r.loc, s.head = rtc_fifo_get_first(r), s.head_t = t,
         s.tail = rtc_fifo_normalise_index(r, rtc_fifo_get_first(r) + 1), s.tail_t = t,
         s.count = 1,
         s.mem[rtc_fifo_get_first(r)]
           = rtc_fifo_construct_entry(smp.value, 0, smp.decimals, Deltat(r, t))
  PROVE  Ring(s) /\ \E late \in 0 .. DeltaMod - 1 : Timed(s, <<t>>, late)
<1>1. s.head \in Room(s.loc)
  BY RoomFacts
<1>2. Size(r.loc) \in Nat /\ Size(r.loc) >= 1 /\ Pos(s.loc, s.head, 0) = s.head
  BY <1>1, PosFacts
<1>3. s.tail = Pos(s.loc, s.head, s.count)
  <2>1. 0 \in 0 .. Size(r.loc) - 1 /\ 0 + 1 = 1
    BY <1>2
  <2> QED
    BY <1>1, <1>2, <2>1, PosNext
<1>4. Ring(s)
  BY <1>1, <1>2, <1>3 DEF Ring
<1>5. TimeMod \in Nat \ {0} /\ DeltaMod \in Nat \ {0} /\ t \in Int /\ t \in 0 .. TimeMod - 1
  BY FieldsAssumption, SamplesAssumption DEF Fields
<1> DEFINE late == Dt(s, 0)
<1>6. late \in 0 .. DeltaMod - 1
  <2>1. Deltat(r, t) \in Int
    BY DeltatInt
  <2>2. smp.value \in Nat /\ smp.decimals \in Nat
    BY SampleParts
  <2>3. rtc_fifo_get_deltat(s.mem[s.head]) = Deltat(r, t) % DeltaMod
    BY <2>1, <2>2, EntryParts
  <2> QED
    BY <1>2, <1>5, <2>1, <2>3 DEF Dt
<1> DEFINE ts == <<t>>
<1>9. ts \in Seq(Times) /\ Len(ts) = 1 /\ ts[1] = t
  OBVIOUS
<1> HIDE DEF ts
<1>10. Timed(s, ts, late)
  BY <1>5, <1>9 DEF Timed
<1> QED
  BY <1>4, <1>6, <1>10 DEF ts

\* The oldest sample makes room if and only if there is none.
LEMMA RingFull ==
  ASSUME NEW r, Ring(r)
  PROVE  /\ Evicts(r) <=> r.count = Size(r.loc)
         /\ r.count \in Nat /\ Size(r.loc) \in Nat /\ Size(r.loc) >= 1
         /\ r.count <= Size(r.loc)
<1>1. /\ r.loc \in Locs /\ r.head \in Room(r.loc) /\ r.count \in 0 .. Size(r.loc)
      /\ r.tail = Pos(r.loc, r.head, r.count)
  BY DEF Ring
<1>2. /\ Size(r.loc) \in Nat /\ Size(r.loc) >= 1 /\ Pos(r.loc, r.head, Size(r.loc)) = r.head
      /\ \A k \in 1 .. Size(r.loc) : Pos(r.loc, r.head, k) = r.head => k = Size(r.loc)
  BY <1>1, PosFacts
<1> QED
  BY <1>1, <1>2 DEF Evicts

\* The store without its oldest sample, as rtc_fifo_pop_sample leaves it.
LEMMA PopIsDrop ==
  ASSUME NEW r, Ring(r), r.count > 0, NEW q, q = After(r, rtc_fifo_pop_sample(r))
  PROVE  /\ 1 \in 1 .. r.count /\ 1 \in 0 .. r.count
         /\ q.loc = r.loc /\ q.magic = r.magic /\ q.tail = r.tail /\ q.tail_t = r.tail_t
         /\ SameSlots(r, q)
         /\ q.head = rtc_fifo_normalise_index(r, r.head + 1)
         /\ q.head = Pos(r.loc, r.head, 1) /\ q.count = r.count - 1
         /\ q.head_t = (r.head_t + rtc_fifo_get_deltat(r.mem[r.head])) % TimeMod
         /\ q.head_t = TimeOf(r)[1 - 1]
<1>1. /\ r.loc \in Locs /\ r.head \in Room(r.loc) /\ r.count \in Nat
      /\ r.count <= Size(r.loc) /\ Size(r.loc) \in Nat
  BY RingFull DEF Ring
<1>2. /\ SameControl(r, q) /\ SameSlots(r, q) /\ q.tail = r.tail /\ q.tail_t = r.tail_t
      /\ q.head = rtc_fifo_normalise_index(r, r.head + 1)
      /\ q.head_t = (r.head_t + rtc_fifo_get_deltat(r.mem[r.head])) % TimeMod
      /\ q.count = r.count - 1
  BY AfterPop
<1>3. Pos(r.loc, r.head, 0) = r.head
  BY <1>1, PosFacts
<1>4. q.head = Pos(r.loc, r.head, 1)
  <2>1. 0 \in 0 .. Size(r.loc) - 1 /\ 0 + 1 = 1
    BY <1>1
  <2> QED
    BY <1>1, <1>2, <1>3, <2>1, PosNext
<1>5. q.head_t = TimeOf(r)[0]
  <2>1. TimeOf(r)[0] = TimeAfter(r, r.head_t, 0)
    BY <1>1, TimeOfIs
  <2>2. SlotOf(r)[0] = r.head
    BY <1>1, SlotOfIs
  <2> QED
    BY <1>2, <2>1, <2>2 DEF TimeAfter
<1>6. 1 \in 1 .. r.count /\ 1 \in 0 .. r.count /\ 1 - 1 = 0
  BY <1>1
<1> QED
  BY <1>2, <1>4, <1>5, <1>6 DEF SameControl

\* What a sample that fits leaves of a store q with room for it.
LEMMA FitEntered ==
  ASSUME NEW r, r.loc \in Locs, NEW smp \in Samples, NEW t \in Times, ~ Misfit(r, smp, t),
         r.count \in Int,
         NEW q, q.loc = r.loc, q.tail = r.tail, SameSlots(r, q),
         NEW s, s = After(r, rtc_fifo_store_sample(r, smp, t))
  PROVE  Entered(q, s, smp, rtc_fifo_find_tag_index(r, smp.tag), Deltat(r, t))
<1> DEFINE ti == rtc_fifo_find_tag_index(r, smp.tag)
<1>1. ti \in 0 .. r.loc[3] - 1
  <2>1. ti >= 0 /\ ti \in Int
    BY TagIndex DEF Misfit
  <2> QED
    BY <2>1, TagIndex
<1> HIDE DEF ti
<1>2. \A a \in Slots :
        s.mem[a] = IF a = r.tail
                     THEN rtc_fifo_construct_entry(smp.value, ti, smp.decimals, Deltat(r, t))
                   ELSE IF a = r.loc[1] + ti /\ ti >= 0 /\ r.mem[a] = 0 THEN smp.tag
                   ELSE r.mem[a]
  BY AfterFit DEF ti
<1>3. Room(r.loc) \subseteq Slots
  BY RoomFacts
<1>4. \A a \in Room(r.loc) : a # r.loc[1] + ti
  BY <1>1, LocFacts DEF Room
<1>5. \A a \in Room(r.loc) : q.mem[a] = r.mem[a]
  BY <1>3 DEF SameSlots
<1> DEFINE e == rtc_fifo_construct_entry(smp.value, ti, smp.decimals, Deltat(r, t))
<1>6. \A a \in Slots :
        s.mem[a] = IF a = r.tail THEN e
                   ELSE IF a = r.loc[1] + ti /\ ti >= 0 /\ r.mem[a] = 0 THEN smp.tag
                   ELSE r.mem[a]
  BY <1>2
<1> HIDE DEF e
<1>7. \A a \in Room(q.loc) : s.mem[a] = IF a = q.tail THEN e ELSE q.mem[a]
  BY <1>3, <1>4, <1>5, <1>6
<1> QED
  BY <1>7 DEF Entered, e, ti

\* A sample that fits, with the time it was put in.
LEMMA TimedFit ==
  ASSUME NEW r, Ring(r), r.tail_t \in Int, NEW ts, NEW late \in Int, Timed(r, ts, late),
         NEW smp \in Samples, NEW t \in Times, ~ Misfit(r, smp, t),
         NEW s, s = After(r, rtc_fifo_store_sample(r, smp, t))
  PROVE  /\ Ring(s)
         /\ Timed(s, Append(IF s.count = r.count THEN Tail(ts) ELSE ts, t),
                  IF r.count = 0 THEN 0 ELSE late)
<1> DEFINE ti == rtc_fifo_find_tag_index(r, smp.tag)
           dt == Deltat(r, t)
<1>1. /\ r.loc \in Locs /\ r.count \in Nat /\ r.count <= Size(r.loc) /\ Size(r.loc) \in Nat
      /\ Size(r.loc) >= 1 /\ (Evicts(r) <=> r.count = Size(r.loc))
  BY RingFull DEF Ring
<1>2. /\ SameControl(r, s)
      /\ s.head = IF Evicts(r) THEN rtc_fifo_normalise_index(r, r.head + 1) ELSE r.head
      /\ s.head_t = IF Evicts(r)
                      THEN (r.head_t + rtc_fifo_get_deltat(r.mem[r.head])) % TimeMod
                    ELSE IF r.count = 0 THEN t ELSE r.head_t
      /\ s.tail = rtc_fifo_normalise_index(r, r.tail + 1)
      /\ s.tail_t = t
      /\ s.count = IF Evicts(r) THEN r.count ELSE r.count + 1
  BY <1>1, AfterFit
<1>3. s.loc = r.loc
  BY <1>2 DEF SameControl
<1>4. ti \in Int /\ t \in Int /\ TimeMod \in Nat \ {0}
  BY <1>1, TagIndex, DeltatInt, FieldsAssumption
<1>5. /\ dt \in 0 .. DeltaMod - 1
      /\ r.count = 0 => dt = 0
      /\ r.count > 0 => dt = (t - r.tail_t) % TimeMod
  <2>1. CASE r.count = 0
    <3>1. dt = 0
      BY <2>1 DEF Deltat
    <3>2. DeltaMod \in Nat \ {0}
      BY FieldsAssumption DEF Fields
    <3>3. 0 \in 0 .. DeltaMod - 1
      BY <3>2
    <3> HIDE DEF dt
    <3> QED
      BY <2>1, <3>1, <3>3
  <2>2. CASE r.count > 0
    <3>1. dt = rtc_fifo_delta_t(t, r.tail_t)
      BY <2>2 DEF Deltat
    <3>2. ~ (rtc_fifo_delta_t(t, r.tail_t) < 0) /\ rtc_fifo_delta_t(t, r.tail_t) \in Int
      <4>1. Deltat(r, t) \in Int
        BY DeltatInt
      <4> QED
        BY <2>2, <3>1, <4>1 DEF Misfit
    <3>3. rtc_fifo_delta_t(t, r.tail_t) >= 0
      BY <3>2
    <3>4. /\ rtc_fifo_delta_t(t, r.tail_t) = (t - r.tail_t) % TimeMod
          /\ rtc_fifo_delta_t(t, r.tail_t) \in 0 .. DeltaMod - 1
      BY <3>3, DeltatInt
    <3> HIDE DEF dt
    <3> QED
      BY <2>2, <3>1, <3>4
  <2> QED
    BY <1>1, <2>1, <2>2
<1>6. /\ ts \in Seq(Times) /\ Len(ts) = r.count /\ r.head_t \in Int
      /\ r.count > 0 => r.tail_t = ts[r.count]
  BY DEF Timed
<1>7. CASE Evicts(r)
  <2> DEFINE q == After(r, rtc_fifo_pop_sample(r))
             us == SubSeq(ts, 1 + 1, Len(ts))
  <2>0. r.count > 0 /\ r.count = Size(r.loc)
    BY <1>1, <1>7
  <2>1. /\ 1 \in 1 .. r.count /\ 1 \in 0 .. r.count
        /\ q.loc = r.loc /\ q.tail = r.tail /\ q.tail_t = r.tail_t
        /\ SameSlots(r, q)
        /\ q.head = rtc_fifo_normalise_index(r, r.head + 1)
        /\ q.head = Pos(r.loc, r.head, 1) /\ q.count = r.count - 1
        /\ q.head_t = (r.head_t + rtc_fifo_get_deltat(r.mem[r.head])) % TimeMod
        /\ q.head_t = TimeOf(r)[1 - 1]
    BY <2>0, PopIsDrop
  <2>2. Entered(q, s, smp, ti, dt)
    BY <1>1, <2>1, FitEntered
  <2> HIDE DEF q
  <2>3. Ring(q)
    BY <2>1, RingDrop
  <2>4. Timed(q, us, late)
    BY <2>1, TimedDrop
  <2>5. us = Tail(ts)
    <3>1. ts # << >> /\ 1 + 1 = 2
      BY <1>6, <2>0
    <3> QED
      BY <1>6, <3>1, TailIsSubSeq
  <2> HIDE DEF us, dt, ti
  <2>6. /\ q.count < Size(q.loc) /\ s.loc = q.loc /\ s.head = q.head /\ s.head_t = q.head_t
        /\ s.tail = rtc_fifo_normalise_index(q, q.tail + 1) /\ s.count = q.count + 1
    <3>1. rtc_fifo_normalise_index(q, q.tail + 1) = rtc_fifo_normalise_index(r, q.tail + 1)
      BY <2>1, SameNormalise
    <3>2. s.count = q.count + 1 /\ q.count < Size(q.loc)
      BY <1>1, <1>2, <1>7, <2>0, <2>1
    <3> QED
      BY <1>2, <1>3, <1>7, <2>1, <3>1, <3>2
  <2>7. /\ q.head_t \in Int
        /\ q.count > 0 => q.tail_t = us[q.count]
    BY <2>4 DEF Timed
  <2>8. q.count > 0 => dt = (t - us[q.count]) % TimeMod
    BY <1>5, <2>0, <2>1, <2>7
  <2>9. ASSUME q.count = 0 PROVE (s.head_t + dt) % TimeMod = (t + late) % TimeMod
    <3>1. r.count = 1 /\ 1 \in 1 .. r.count
      BY <1>1, <2>1, <2>9
    <3>2. TimeOf(r)[1 - 1] = (ts[1] + late) % TimeMod
      BY <3>1, TimesTrue
    <3>3. ts[1] \in Int /\ dt = (t - ts[1]) % TimeMod
      BY <1>1, <1>5, <1>6, <2>0, <3>1, TimedTimes
    <3>4. s.head_t = (ts[1] + late) % TimeMod
      BY <2>1, <2>6, <3>2
    <3> DEFINE a == ts[1]
    <3> HIDE DEF a
    <3>5. a \in Int
      BY <3>3 DEF a
    <3>6. (((a + late) % TimeMod) + ((t - a) % TimeMod)) % TimeMod = (t + late) % TimeMod
      BY <1>4, <3>5, TimeArith
    <3> QED
      BY <3>3, <3>4, <3>6 DEF a
  <2>10. Timed(s, Append(us, t), late)
    BY <1>2, <1>4, <1>5, <2>2, <2>3, <2>4, <2>6, <2>7, <2>8, <2>9, TimedStore
  <2>11. Ring(s)
    BY <2>3, <2>6, RingStore
  <2>12. s.count = r.count /\ ~ (r.count = 0)
    BY <1>1, <1>2, <1>7, <2>0
  <2> QED
    BY <2>5, <2>10, <2>11, <2>12
<1>8. CASE ~ Evicts(r)
  <2> DEFINE l == IF r.count = 0 THEN 0 ELSE late
  <2>1. SameSlots(r, r)
    BY DEF SameSlots
  <2>2. Entered(r, s, smp, ti, dt)
    BY <1>1, <2>1, FitEntered
  <2> HIDE DEF dt, ti
  <2>3. /\ r.count < Size(r.loc) /\ s.count = r.count + 1 /\ s.count # r.count
        /\ s.head = r.head /\ s.head_t = (IF r.count = 0 THEN t ELSE r.head_t)
    BY <1>1, <1>2, <1>8
  <2>4. Ring(s)
    BY <1>2, <1>3, <2>3, RingStore
  <2>5. Timed(r, ts, l)
    <3>1. CASE r.count = 0
      BY <3>1 DEF Timed
    <3>2. CASE r.count # 0
      BY <3>2
    <3> QED
      BY <3>1, <3>2
  <2>6. s.head_t \in Int
    BY <1>4, <1>6, <2>3
  <2>7. ASSUME r.count = 0 PROVE (s.head_t + dt) % TimeMod = (t + l) % TimeMod
    BY <1>5, <2>3, <2>7
  <2>8. r.count > 0 => s.head_t = r.head_t /\ dt = (t - ts[r.count]) % TimeMod
    BY <1>1, <1>5, <1>6, <2>3
  <2> HIDE DEF l
  <2>9. Timed(s, Append(ts, t), l)
    BY <1>2, <1>3, <1>4, <1>5, <2>2, <2>3, <2>5, <2>6, <2>7, <2>8, TimedStore
  <2> QED
    BY <2>3, <2>4, <2>9 DEF l
<1> QED
  BY <1>7, <1>8

\* The store is empty once it is prepared.
LEMMA PreparedRing ==
  ASSUME NEW r, NEW n \in SensorCounts, NEW other \in OtherStorage(n),
         NEW s, s = After(r, rtcfifo_prepare(r, n, other))
  PROVE  Ring(s) /\ s.magic = TRUE /\ s.count = 0 /\ s.head_t = 0 /\ s.tail_t = 0
<1>1. /\ s.loc = Final(n, other) /\ s.count = 0
      /\ s.head = DefaultBegin + n /\ s.tail = DefaultBegin + n
      /\ s.head_t = 0 /\ s.tail_t = 0
  <2>1. s.loc = Final(n, other) /\ s.count = 0
    BY AfterPrepare, Zenon
  <2>2. s.head = DefaultBegin + n /\ s.tail = DefaultBegin + n
    BY AfterPrepare, Zenon
  <2>3. s.head_t = 0 /\ s.tail_t = 0
    BY AfterPrepare, Zenon
  <2> QED
    BY <2>1, <2>2, <2>3
<1>2. s.magic = TRUE
  BY AfterPrepare, Zenon
<1>3. Final(n, other) \in Locs /\ Final(n, other)[3] = n
  BY OtherWrites
<1>4. DefaultBegin + n \in Room(Final(n, other))
  BY <1>3, LocFacts, SlotsAssumption DEF Room
<1>5. Ring(s)
  BY <1>1, <1>3, <1>4, PosFacts DEF Ring
<1> QED
  BY <1>1, <1>2, <1>5

----------------------------------------------------------------------------
(* The times come out as they were put in.                                 *)

\* stamps are the times of the samples in the ring.
TimesKept ==
  ~Damaged =>
    /\ Ring(rtc)
    /\ \E late \in 0 .. DeltaMod - 1 :
         /\ ~restarted => late = 0
         /\ Timed(rtc, stamps, late)

\* The time keeps its meaning while the store does not change.
LEMMA TimesKeptNext ==
  ASSUME Ring(rtc'),
         NEW late \in 0 .. DeltaMod - 1, ~restarted' => late = 0,
         Timed(rtc', stamps', late)
  PROVE  TimesKept'
<1>1. TimesKept' <=>
        (~Damaged' => /\ Ring(rtc')
                      /\ \E u \in 0 .. DeltaMod - 1 :
                           (~restarted' => u = 0) /\ Timed(rtc', stamps', u))
  BY DEF TimesKept, Damaged, Ring, Timed, Dt, Pos, Size, Room, Locs
<1> QED
  BY <1>1

LEMMA DamagedNext ==
  ASSUME torn' # "no"
  PROVE  TimesKept'
  BY DEF TimesKept, Damaged

LEMMA TimesKeptStep == Placed /\ TimesKept /\ [Next]_vars => TimesKept'
<1> SUFFICES ASSUME Placed, TimesKept, [Next]_vars PROVE TimesKept'
  OBVIOUS
<1>0. /\ Typed(rtc) /\ (rtc.magic => rtc.loc \in Locs) /\ rtc.count \in Int /\ rtc.tail_t \in Int
      /\ {TimeMod, DeltaMod} \subseteq Nat \ {0} /\ 0 \in 0 .. DeltaMod - 1
  BY FieldsAssumption DEF Placed, Typed, Fields
<1>1. CASE prepare
  <2>0. PICK n \in SensorCounts : \E other \in OtherStorage(n) :
          /\ rtc' = After(rtc, rtcfifo_prepare(rtc, n, other))
          /\ stamps' = << >>
    BY <1>1 DEF prepare
  <2>1. PICK other \in OtherStorage(n) :
          /\ rtc' = After(rtc, rtcfifo_prepare(rtc, n, other))
          /\ stamps' = << >>
    BY <2>0
  <2>2. Ring(rtc') /\ rtc'.count = 0 /\ rtc'.head_t = 0
    BY <2>1, PreparedRing, Zenon
  <2>6. << >> \in Seq(Times) /\ Len(<< >>) = 0
    OBVIOUS
  <2>7. Timed(rtc', stamps', 0)
    BY <2>1, <2>2, <2>6 DEF Timed
  <2> QED
    BY <1>0, <2>2, <2>7, TimesKeptNext
<1>2. CASE put
  <2>1. PICK s \in Samples, t \in Times :
          /\ rtc.magic
          /\ rtc' = After(rtc, rtc_fifo_store_sample(rtc, s, t))
          /\ IF Misfit(rtc, s, t)
               THEN stamps' = <<t>> /\ restarted' = TRUE
               ELSE /\ stamps' = IF torn # "no" THEN << >>
                                 ELSE Append(IF rtc'.count = rtc.count THEN Tail(stamps)
                                                                       ELSE stamps, t)
                    /\ restarted' = (restarted /\ rtc.count > 0)
                    /\ torn' = torn
    BY <1>2 DEF put
  <2>2. CASE Misfit(rtc, s, t)
    <3>1. /\ SameControl(rtc, rtc')
          /\ rtc'.head = rtc_fifo_get_first(rtc) /\ rtc'.head_t = t
          /\ rtc'.tail = rtc_fifo_normalise_index(rtc, rtc_fifo_get_first(rtc) + 1)
          /\ rtc'.tail_t = t /\ rtc'.count = 1
      BY <1>0, <2>1, <2>2, AfterMisfit
    <3>2. rtc_fifo_get_first(rtc) \in Slots
      BY <1>0, <2>1, RoomFacts
    <3>3. rtc'.mem[rtc_fifo_get_first(rtc)]
            = rtc_fifo_construct_entry(s.value, 0, s.decimals, Deltat(rtc, t))
      BY <1>0, <2>1, <2>2, <3>2, AfterMisfit
    <3>4. rtc'.loc = rtc.loc
      BY <3>1 DEF SameControl
    <3>5. Ring(rtc') /\ \E late \in 0 .. DeltaMod - 1 : Timed(rtc', <<t>>, late)
      BY <1>0, <2>1, <3>1, <3>3, <3>4, TimedOne
    <3>6. PICK late \in 0 .. DeltaMod - 1 : Timed(rtc', <<t>>, late)
      BY <3>5
    <3> QED
      BY <2>1, <2>2, <3>5, <3>6, TimesKeptNext
  <2>3. CASE ~ Misfit(rtc, s, t) /\ torn = "no"
    <3>1. PICK late \in 0 .. DeltaMod - 1 :
            Ring(rtc) /\ (~restarted => late = 0) /\ Timed(rtc, stamps, late)
      BY <2>1, <2>3 DEF TimesKept, Damaged
    <3> DEFINE l == IF rtc.count = 0 THEN 0 ELSE late
               us == Append(IF rtc'.count = rtc.count THEN Tail(stamps) ELSE stamps, t)
    <3>2. Ring(rtc') /\ Timed(rtc', us, l)
      <4>1. late \in Int
        BY <1>0
      <4> QED
        BY <1>0, <2>1, <2>3, <3>1, <4>1, TimedFit
    <3>3. stamps' = us /\ restarted' = (restarted /\ rtc.count > 0)
      BY <2>1, <2>3
    <3> HIDE DEF us
    <3>4. rtc.count \in Nat
      BY <3>1, RingFull
    <3>5. l \in 0 .. DeltaMod - 1 /\ (~restarted' => l = 0)
      <4>1. CASE rtc.count = 0
        BY <1>0, <4>1
      <4>2. CASE rtc.count > 0
        <5>1. restarted' = restarted \/ (~restarted' /\ ~restarted) \/ (restarted /\ restarted')
          BY <3>3, <4>2
        <5>2. ~restarted' => ~restarted
          BY <3>3, <4>2
        <5> QED
          BY <3>1, <4>2, <5>2
      <4> QED
        BY <3>4, <4>1, <4>2
    <3> HIDE DEF l
    <3> QED
      BY <3>2, <3>3, <3>5, TimesKeptNext
  <2>4. CASE ~ Misfit(rtc, s, t) /\ torn # "no"
    BY <2>1, <2>4, DamagedNext
  <2> QED
    BY <2>2, <2>3, <2>4
<1>3. CASE pop
  <2>1. /\ rtc.magic /\ rtc.count > 0 /\ rtc' = After(rtc, rtc_fifo_pop_sample(rtc))
        /\ stamps' = Rest(1) /\ torn' = torn /\ restarted' = restarted
    BY <1>3 DEF pop
  <2>2. CASE torn = "no"
    <3>1. PICK late \in 0 .. DeltaMod - 1 :
            Ring(rtc) /\ (~restarted => late = 0) /\ Timed(rtc, stamps, late)
      BY <2>1, <2>2 DEF TimesKept, Damaged
    <3>2. /\ 1 \in 1 .. rtc.count /\ 1 \in 0 .. rtc.count
          /\ rtc'.loc = rtc.loc /\ rtc'.tail = rtc.tail /\ rtc'.tail_t = rtc.tail_t
          /\ SameSlots(rtc, rtc')
          /\ rtc'.head = Pos(rtc.loc, rtc.head, 1) /\ rtc'.count = rtc.count - 1
          /\ rtc'.head_t = TimeOf(rtc)[1 - 1]
      BY <2>1, <3>1, PopIsDrop
    <3>3. Ring(rtc')
      BY <3>1, <3>2, RingDrop
    <3>4. late \in Int
      BY <1>0
    <3>5. Timed(rtc', SubSeq(stamps, 1 + 1, Len(stamps)), late)
      BY <3>1, <3>2, <3>4, TimedDrop
    <3> QED
      BY <2>1, <2>2, <3>1, <3>3, <3>5, TimesKeptNext DEF Rest
  <2> QED
    BY <2>1, <2>2, DamagedNext
<1>4. CASE drop
  <2>1. PICK n \in 1 .. rtc.count :
          /\ rtc.magic /\ rtc' = After(rtc, rtc_fifo_drop_samples(rtc, n))
          /\ stamps' = Rest(n) /\ torn' = torn /\ restarted' = restarted
    BY <1>4 DEF drop
  <2>2. CASE torn = "no"
    <3>1. PICK late \in 0 .. DeltaMod - 1 :
            Ring(rtc) /\ (~restarted => late = 0) /\ Timed(rtc, stamps, late)
      BY <2>1, <2>2 DEF TimesKept, Damaged
    <3>2. n \in Nat /\ n > 0 /\ n \in 0 .. rtc.count
      BY <1>0
    <3>3. /\ SameControl(rtc, rtc') /\ SameSlots(rtc, rtc')
          /\ rtc'.tail = rtc.tail /\ rtc'.tail_t = rtc.tail_t
          /\ rtc'.head = SlotOf(rtc)[n] /\ rtc'.head_t = TimeOf(rtc)[n - 1]
          /\ rtc'.count = rtc.count - n
      BY <2>1, <3>2, AfterDrop
    <3>4. rtc'.loc = rtc.loc /\ rtc'.head = Pos(rtc.loc, rtc.head, n)
      BY <3>1, <3>2, <3>3, SlotOfPos DEF SameControl, Ring
    <3>5. Ring(rtc')
      BY <3>1, <3>2, <3>3, <3>4, RingDrop
    <3>6. late \in Int
      BY <1>0
    <3>7. Timed(rtc', SubSeq(stamps, n + 1, Len(stamps)), late)
      BY <3>1, <3>3, <3>4, <3>6, TimedDrop
    <3> QED
      BY <2>1, <2>2, <3>1, <3>5, <3>7, TimesKeptNext DEF Rest
  <2> QED
    BY <2>1, <2>2, DamagedNext
<1>5. CASE reset_in_prepare
  <2>1. torn' = "prepare"
    BY <1>5 DEF reset_in_prepare, CutShort
  <2> QED
    BY <2>1, DamagedNext
<1>6. CASE reset_in_operation
  <2>1. torn' = "samples"
    BY <1>6 DEF reset_in_operation, CutShort
  <2> QED
    BY <2>1, DamagedNext
<1>7. CASE UNCHANGED vars
  <2>1. rtc' = rtc /\ torn' = torn /\ stamps' = stamps /\ restarted' = restarted
    BY <1>7 DEF vars
  <2>2. CASE Damaged
    BY <2>1, <2>2 DEF TimesKept, Damaged
  <2>3. CASE ~Damaged
    <3>1. PICK late \in 0 .. DeltaMod - 1 :
            Ring(rtc) /\ (~restarted => late = 0) /\ Timed(rtc, stamps, late)
      BY <2>3 DEF TimesKept
    <3> QED
      BY <2>1, <3>1, TimesKeptNext
  <2> QED
    BY <2>2, <2>3
<1> QED
  BY <1>1, <1>2, <1>3, <1>4, <1>5, <1>6, <1>7 DEF Next

\* The timestamps peek and pop work out from the differences in the ring are
\* the ones put was given, later by the same amount for all samples, less than
\* the size of the time field, and not later at all unless the store was
\* restarted by the oldest.
THEOREM TimesComeOut == Spec => []TimestampsKept
<1>1. Init => TimesKept
  BY DEF Init, TimesKept, Damaged
<1>2. Placed /\ TimesKept => TimestampsKept
  <2> SUFFICES ASSUME TimesKept, ~Damaged PROVE
        /\ Len(stamps) = rtc.count
        /\ \E late \in 0 .. DeltaMod - 1 :
             /\ ~restarted => late = 0
             /\ \A k \in 1 .. rtc.count :
                  TimeOf(rtc)[k - 1] = (stamps[k] + late) % TimeMod
    BY DEF TimestampsKept
  <2>1. PICK late \in 0 .. DeltaMod - 1 :
          Ring(rtc) /\ (~restarted => late = 0) /\ Timed(rtc, stamps, late)
    BY DEF TimesKept
  <2>2. late \in Int
    BY FieldsAssumption
  <2>3. \A k \in 1 .. rtc.count : TimeOf(rtc)[k - 1] = (stamps[k] + late) % TimeMod
    BY <2>1, <2>2, TimesTrue
  <2>4. Len(stamps) = rtc.count
    BY <2>1 DEF Timed
  <2> QED
    BY <2>1, <2>3, <2>4
<1> QED
  BY <1>1, <1>2, PlacedInit, PlacedStep, TimesKeptStep, PTL DEF Spec

----------------------------------------------------------------------------
(* The store is a queue.                                                   *)

\* The entry k places behind the oldest, where its sensor's name is, and the
\* sample read from both.
Entry(r, k) == r.mem[Pos(r.loc, r.head, k)]
NameOf(r, e) == r.mem[r.loc[1] + rtc_fifo_get_tagindex(e)]
PeekAt(r, k) ==
  [value |-> rtc_fifo_get_value(Entry(r, k)),
   decimals |-> rtc_fifo_get_decimals(Entry(r, k)),
   tag |-> NameOf(r, Entry(r, k))]

\* Every sample has the name of its sensor.
HasName(r, e) ==
  /\ rtc_fifo_get_tagindex(e) \in 0 .. r.loc[3] - 1
  /\ NameOf(r, e) # 0
Named(r) == \A k \in 0 .. r.count - 1 : HasName(r, Entry(r, k))

LEMMA PeekedIs ==
  ASSUME NEW r, Ring(r)
  PROVE  /\ Peeked(r) = [k \in 1 .. r.count |-> PeekAt(r, k - 1)]
         /\ IsSeq(Peeked(r)) /\ Len(Peeked(r)) = r.count /\ r.count \in Nat
         /\ \A k \in 1 .. r.count : Peeked(r)[k] = PeekAt(r, k - 1)
<1>1. r.count \in Nat /\ r.loc \in Locs /\ r.head \in Room(r.loc) /\ r.count \in 0 .. Size(r.loc)
  BY RingFull DEF Ring
<1>2. ASSUME NEW k \in 1 .. r.count
      PROVE  rtc_fifo_peek_sample(r, k - 1) = PeekAt(r, k - 1)
  <2>1. k - 1 \in 0 .. r.count
    BY <1>1
  <2>2. SlotOf(r)[k - 1] = Pos(r.loc, r.head, k - 1)
    BY <1>1, <2>1, SlotOfPos
  <2> QED
    BY <2>2 DEF rtc_fifo_peek_sample, PeekAt, Entry, NameOf, rtc_fifo_get_tagpos
<1>3. Peeked(r) = [k \in 1 .. r.count |-> PeekAt(r, k - 1)]
  BY <1>2 DEF Peeked
<1> DEFINE ps == Peeked(r)
<1>4. ps = [k \in 1 .. r.count |-> ps[k]] /\ \A k \in 1 .. r.count : ps[k] = PeekAt(r, k - 1)
  BY <1>3
<1> HIDE DEF ps
<1>5. IsSeq(ps) /\ Len(ps) = r.count
  BY <1>1, <1>4, FunctionIsSeq
<1> QED
  BY <1>1, <1>3, <1>4, <1>5 DEF ps

\* Sequences with the same elements are the same.
LEMMA SameSeq ==
  ASSUME NEW us, IsSeq(us), NEW vs, IsSeq(vs), Len(us) = Len(vs),
         \A k \in 1 .. Len(us) : us[k] = vs[k]
  PROVE  us = vs
  BY DEF IsSeq

\* The n oldest samples leave.
LEMMA PeekDrop ==
  ASSUME NEW r, Ring(r), Named(r), NEW n \in 0 .. r.count, NEW s, s.loc = r.loc, s.tail = r.tail,
         s.head = Pos(r.loc, r.head, n), s.count = r.count - n, SameSlots(r, s)
  PROVE  /\ Named(s)
         /\ \A k \in 0 .. s.count - 1 : PeekAt(s, k) = PeekAt(r, n + k)
<1>1. r.count \in Nat /\ r.loc \in Locs /\ r.head \in Room(r.loc) /\ r.count \in 0 .. Size(r.loc)
  BY RingFull DEF Ring
<1>2. \A k \in 0 .. s.count : /\ n + k \in 0 .. r.count
                              /\ Pos(s.loc, s.head, k) = Pos(r.loc, r.head, n + k)
  BY RingDrop
<1>3. ASSUME NEW k \in 0 .. s.count - 1
      PROVE  Entry(s, k) = Entry(r, n + k) /\ n + k \in 0 .. r.count - 1
  <2>1. k \in 0 .. s.count /\ n + k \in 0 .. r.count - 1 /\ n + k \in 0 .. Size(r.loc)
    BY <1>1, PosFacts
  <2>2. Pos(r.loc, r.head, n + k) \in Slots
    BY <1>1, <2>1, PosFacts, RoomFacts
  <2> QED
    BY <1>2, <2>1, <2>2 DEF Entry, SameSlots
<1>4. ASSUME NEW e, HasName(r, e)
      PROVE  NameOf(s, e) = NameOf(r, e) /\ HasName(s, e)
  <2>1. r.loc[1] + rtc_fifo_get_tagindex(e) \in Slots
    <3> DEFINE ti == rtc_fifo_get_tagindex(e)
    <3>1. ti \in 0 .. r.loc[3] - 1
      BY <1>4 DEF HasName
    <3> HIDE DEF ti
    <3> QED
      BY <1>1, <3>1, LocFacts DEF ti
  <2> QED
    BY <1>4, <2>1 DEF NameOf, HasName, SameSlots
<1>5. ASSUME NEW k \in 0 .. s.count - 1
      PROVE  HasName(s, Entry(s, k)) /\ PeekAt(s, k) = PeekAt(r, n + k)
  <2>1. HasName(r, Entry(r, n + k))
    BY <1>3 DEF Named
  <2> QED
    BY <1>3, <1>4, <2>1 DEF PeekAt
<1> QED
  BY <1>5 DEF Named

LEMMA TakeIs ==
  ASSUME NEW r, Ring(r), Named(r), NEW n \in 0 .. r.count, NEW s, s.loc = r.loc, s.tail = r.tail,
         s.head = Pos(r.loc, r.head, n), s.count = r.count - n, SameSlots(r, s)
  PROVE  Peeked(s) = SubSeq(Peeked(r), n + 1, Len(Peeked(r)))
<1> DEFINE ps == Peeked(r)
           vs == SubSeq(ps, n + 1, Len(ps))
<1>1. Ring(s) /\ \A k \in 0 .. s.count - 1 : PeekAt(s, k) = PeekAt(r, n + k)
  BY RingDrop, PeekDrop
<1>2. /\ IsSeq(Peeked(s)) /\ Len(Peeked(s)) = s.count /\ s.count \in Nat
      /\ \A k \in 1 .. s.count : Peeked(s)[k] = PeekAt(s, k - 1)
  BY <1>1, PeekedIs
<1>3. /\ IsSeq(ps) /\ Len(ps) = r.count /\ r.count \in Nat
      /\ \A k \in 1 .. r.count : ps[k] = PeekAt(r, k - 1)
  BY PeekedIs
<1> HIDE DEF ps
<1>4. \A i \in n + 1 .. Len(ps) : ps[i] \in Elems(ps)
  BY <1>3 DEF Elems
<1>5. n + 1 \in Int /\ Len(ps) \in Int
  BY <1>3
<1>6. /\ vs \in Seq(Elems(ps))
      /\ Len(vs) = IF n + 1 <= Len(ps) THEN Len(ps) - (n + 1) + 1 ELSE 0
      /\ \A i \in 1 .. Len(ps) - (n + 1) + 1 : vs[i] = ps[n + 1 + i - 1]
  BY <1>4, <1>5, SubSeqProperties
<1> HIDE DEF vs
<1>7. /\ IsSeq(vs) /\ Len(vs) = s.count
      /\ \A i \in 1 .. s.count : vs[i] = ps[n + i]
  <2>1. IsSeq(vs)
    BY <1>6, SeqIsSeq
  <2>2. Len(vs) = s.count
    BY <1>3, <1>6
  <2>3. \A i \in 1 .. s.count : i \in 1 .. Len(ps) - (n + 1) + 1 /\ n + 1 + i - 1 = n + i
    BY <1>3
  <2> QED
    BY <1>6, <2>1, <2>2, <2>3
<1>8. ASSUME NEW k \in 1 .. s.count PROVE Peeked(s)[k] = vs[k]
  <2>1. k - 1 \in 0 .. s.count - 1 /\ n + k \in 1 .. r.count /\ n + (k - 1) = (n + k) - 1
    BY <1>2, <1>3
  <2> QED
    BY <1>1, <1>2, <1>3, <1>7, <2>1
<1> QED
  BY <1>2, <1>7, <1>8, SameSeq DEF vs, ps

\* A sample as it is read from its entry.
LEMMA PeekEntry ==
  ASSUME NEW smp \in Samples, NEW ti \in Int, ti >= 0, ti < TagMod, NEW dt \in Int,
         NEW e, e = rtc_fifo_construct_entry(smp.value, ti, smp.decimals, dt)
  PROVE  /\ rtc_fifo_get_tagindex(e) = ti
         /\ Stored(smp) = [value |-> rtc_fifo_get_value(e),
                           decimals |-> rtc_fifo_get_decimals(e), tag |-> smp.tag]
<1>1. TagMod \in Nat \ {0}
  BY FieldsAssumption DEF Fields
<1>2. ti % TagMod = ti
  BY <1>1, ModSmall
<1>3. /\ rtc_fifo_get_value(e) = smp.value % ValueMod
      /\ rtc_fifo_get_decimals(e) = smp.decimals % DecimalsMod
      /\ rtc_fifo_get_tagindex(e) = ti % TagMod
  BY SampleParts, EntryParts
<1> DEFINE v == smp.value % ValueMod
           d == smp.decimals % DecimalsMod
<1>4. Stored(smp) = [smp EXCEPT !.value = v, !.decimals = d]
  BY DEF Stored
<1> HIDE DEF v, d
<1>5. [smp EXCEPT !.value = v, !.decimals = d] = [value |-> v, decimals |-> d, tag |-> smp.tag]
  <2>1. smp \in [value : Values, decimals : Decimals, tag : Tags]
    BY DEF Samples
  <2> DEFINE y == [smp EXCEPT !.value = v, !.decimals = d]
  <2>2. y \in [value : Values \cup {v}, decimals : Decimals \cup {d}, tag : Tags]
    BY <2>1
  <2>3. y.value = v /\ y.decimals = d /\ y.tag = smp.tag
    BY <2>1
  <2> HIDE DEF y
  <2>4. y = [value |-> y.value, decimals |-> y.decimals, tag |-> y.tag]
    BY <2>2
  <2> QED
    BY <2>3, <2>4 DEF y
<1> QED
  BY <1>2, <1>3, <1>4, <1>5 DEF v, d

\* The table of names: name ti is tag now.
Renamed(q, s, tag, ti) ==
  /\ ti \in 0 .. q.loc[3] - 1
  /\ q.mem[q.loc[1] + ti] \in {tag, 0}
  /\ \A i \in 0 .. q.loc[3] - 1 :
       s.mem[q.loc[1] + i] = IF i = ti THEN tag ELSE q.mem[q.loc[1] + i]

\* A sample behind the others does not change them.
LEMMA PeekStore ==
  ASSUME NEW q, Ring(q), Named(q), q.count < Size(q.loc),
         NEW s, s.loc = q.loc, s.head = q.head,
         s.tail = rtc_fifo_normalise_index(q, q.tail + 1), s.count = q.count + 1,
         NEW smp \in Samples, NEW ti, NEW dt \in Int,
         Entered(q, s, smp, ti, dt), Renamed(q, s, smp.tag, ti)
  PROVE  /\ Named(s)
         /\ \A k \in 0 .. q.count - 1 : PeekAt(s, k) = PeekAt(q, k)
         /\ PeekAt(s, q.count) = Stored(smp)
<1>1. q.loc \in Locs /\ q.count \in Nat
  BY RingFull DEF Ring
<1>2. /\ \A k \in 0 .. q.count : Pos(s.loc, s.head, k) \in Room(q.loc)
      /\ Pos(s.loc, s.head, q.count) = q.tail
      /\ \A k \in 0 .. q.count - 1 : Pos(s.loc, s.head, k) # q.tail
  BY RingStore
<1>3. ti \in Int /\ ti >= 0 /\ ti < TagMod /\ ti \in 0 .. q.loc[3] - 1
  BY <1>1, LocFacts, FieldsAssumption DEF Renamed, Fields
<1>4. ASSUME NEW k \in 0 .. q.count - 1
      PROVE  HasName(s, Entry(s, k)) /\ PeekAt(s, k) = PeekAt(q, k)
  <2> DEFINE e == Entry(q, k)
             j == rtc_fifo_get_tagindex(e)
  <2>1. Entry(s, k) = e
    <3>1. k \in 0 .. q.count
      BY <1>1
    <3> QED
      BY <1>2, <3>1 DEF Entered, Entry
  <2>2. HasName(q, e)
    BY DEF Named
  <2> HIDE DEF e
  <2>3. j \in 0 .. q.loc[3] - 1 /\ q.mem[q.loc[1] + j] # 0
    BY <2>2 DEF HasName, NameOf
  <2> HIDE DEF j
  <2>4. s.mem[q.loc[1] + j] = q.mem[q.loc[1] + j]
    BY <2>3 DEF Renamed
  <2>5. NameOf(s, e) = NameOf(q, e)
    BY <2>4 DEF NameOf, j
  <2>6. HasName(s, e)
    BY <2>2, <2>5 DEF HasName
  <2> QED
    BY <2>1, <2>5, <2>6 DEF PeekAt, e
<1>5. PeekAt(s, q.count) = Stored(smp) /\ HasName(s, Entry(s, q.count))
  <2> DEFINE e == Entry(s, q.count)
  <2>1. e = rtc_fifo_construct_entry(smp.value, ti, smp.decimals, dt)
    <3>1. q.count \in 0 .. q.count
      BY <1>1
    <3> QED
      BY <1>2, <3>1 DEF Entered, Entry
  <2> HIDE DEF e
  <2>2. /\ rtc_fifo_get_tagindex(e) = ti
        /\ Stored(smp) = [value |-> rtc_fifo_get_value(e),
                          decimals |-> rtc_fifo_get_decimals(e), tag |-> smp.tag]
    BY <1>3, <2>1, PeekEntry
  <2>3. NameOf(s, e) = smp.tag
    BY <1>3, <2>2 DEF NameOf, Renamed
  <2>4. HasName(s, e)
    BY <1>3, <2>2, <2>3, SampleParts DEF HasName
  <2> QED
    BY <2>2, <2>3, <2>4 DEF PeekAt, e
<1>6. Named(s)
  <2> SUFFICES ASSUME NEW k \in 0 .. s.count - 1 PROVE HasName(s, Entry(s, k))
    BY DEF Named
  <2>1. k \in 0 .. q.count - 1 \/ k = q.count
    BY <1>1
  <2> QED
    BY <1>4, <1>5, <2>1
<1> QED
  BY <1>4, <1>5, <1>6

LEMMA AddIs ==
  ASSUME NEW q, Ring(q), Named(q), q.count < Size(q.loc),
         NEW s, s.loc = q.loc, s.head = q.head,
         s.tail = rtc_fifo_normalise_index(q, q.tail + 1), s.count = q.count + 1,
         NEW smp \in Samples, NEW ti, NEW dt \in Int,
         Entered(q, s, smp, ti, dt), Renamed(q, s, smp.tag, ti)
  PROVE  Peeked(s) = Append(Peeked(q), Stored(smp))
<1> DEFINE ps == Peeked(q)
           x == Stored(smp)
           vs == Append(ps, x)
           S == Elems(ps) \cup {x}
<1>1. Ring(s)
  BY RingStore
<1>2. /\ \A k \in 0 .. q.count - 1 : PeekAt(s, k) = PeekAt(q, k)
      /\ PeekAt(s, q.count) = x
  BY PeekStore
<1>3. /\ IsSeq(Peeked(s)) /\ Len(Peeked(s)) = s.count /\ s.count \in Nat
      /\ \A k \in 1 .. s.count : Peeked(s)[k] = PeekAt(s, k - 1)
  BY <1>1, PeekedIs
<1>4. /\ IsSeq(ps) /\ Len(ps) = q.count /\ q.count \in Nat
      /\ \A k \in 1 .. q.count : ps[k] = PeekAt(q, k - 1)
  BY PeekedIs
<1> HIDE DEF ps, x
<1>5. ps \in Seq(S) /\ x \in S
  BY <1>4 DEF IsSeq
<1> HIDE DEF S
<1>6. /\ vs \in Seq(S) /\ Len(vs) = q.count + 1
      /\ \A i \in 1 .. q.count : vs[i] = ps[i]
      /\ vs[q.count + 1] = x
  BY <1>4, <1>5, AppendProperties
<1> HIDE DEF vs
<1>7. IsSeq(vs)
  BY <1>6, SeqIsSeq
<1>8. ASSUME NEW k \in 1 .. s.count PROVE Peeked(s)[k] = vs[k]
  <2>1. CASE k = q.count + 1
    <3>1. k - 1 = q.count
      BY <1>4, <2>1
    <3> QED
      BY <1>2, <1>3, <1>6, <2>1, <3>1
  <2>2. CASE k # q.count + 1
    <3>1. k \in 1 .. q.count /\ k - 1 \in 0 .. q.count - 1
      BY <1>4, <2>2
    <3> QED
      BY <1>2, <1>3, <1>4, <1>6, <3>1
  <2> QED
    BY <2>1, <2>2
<1> QED
  BY <1>3, <1>6, <1>7, <1>8, SameSeq DEF vs, ps, x

\* What a sample that fits does to the names.
LEMMA FitRenamed ==
  ASSUME NEW r, r.loc \in Locs, r.tail \in Room(r.loc), NEW smp \in Samples, NEW t \in Times,
         ~ Misfit(r, smp, t), r.count \in Int,
         NEW q, q.loc = r.loc, SameSlots(r, q),
         NEW s, s = After(r, rtc_fifo_store_sample(r, smp, t))
  PROVE  Renamed(q, s, smp.tag, rtc_fifo_find_tag_index(r, smp.tag))
<1> DEFINE ti == rtc_fifo_find_tag_index(r, smp.tag)
           e == rtc_fifo_construct_entry(smp.value, ti, smp.decimals, Deltat(r, t))
           tag == smp.tag
<1>1. ti \in 0 .. r.loc[3] - 1 /\ r.mem[r.loc[1] + ti] \in {tag, 0}
  <2>1. ti >= 0 /\ ti \in Int
    BY TagIndex DEF Misfit
  <2> QED
    BY <2>1, TagIndex
<1>2. \A a \in Slots :
        s.mem[a] = IF a = r.tail THEN e
                   ELSE IF a = r.loc[1] + ti /\ ti >= 0 /\ r.mem[a] = 0 THEN tag
                   ELSE r.mem[a]
  BY AfterFit
<1> HIDE DEF ti, e, tag
<1>3. /\ r.loc[1] \in Nat /\ r.loc[2] \in Nat /\ r.loc[3] \in Nat /\ r.loc[1] + r.loc[3] < r.loc[2]
      /\ \A a \in Int : r.loc[1] <= a /\ a < r.loc[2] => a \in Slots
  BY LocFacts
<1>4. ASSUME NEW i \in 0 .. r.loc[3] - 1
      PROVE  /\ r.loc[1] + i \in Slots /\ r.loc[1] + i # r.tail
             /\ r.loc[1] + i = r.loc[1] + ti <=> i = ti
  BY <1>1, <1>3 DEF Room
<1>5. ASSUME NEW i \in 0 .. r.loc[3] - 1
      PROVE  s.mem[r.loc[1] + i] = IF i = ti THEN tag ELSE r.mem[r.loc[1] + i]
  <2> DEFINE a == r.loc[1] + i
  <2>1. a \in Slots /\ a # r.tail /\ (a = r.loc[1] + ti <=> i = ti)
    BY <1>4
  <2>2. ti >= 0
    BY <1>1, <1>3
  <2>3. s.mem[a] = IF a = r.loc[1] + ti /\ ti >= 0 /\ r.mem[a] = 0 THEN tag ELSE r.mem[a]
    BY <1>2, <2>1
  <2>4. CASE i = ti
    BY <1>1, <2>1, <2>2, <2>3, <2>4
  <2>5. CASE i # ti
    BY <2>1, <2>3, <2>5
  <2> QED
    BY <2>4, <2>5
<1>6. \A i \in 0 .. r.loc[3] - 1 : q.mem[q.loc[1] + i] = r.mem[r.loc[1] + i]
  BY <1>4 DEF SameSlots
<1>7. /\ ti \in 0 .. q.loc[3] - 1 /\ q.mem[q.loc[1] + ti] \in {tag, 0}
      /\ \A i \in 0 .. q.loc[3] - 1 :
           s.mem[q.loc[1] + i] = IF i = ti THEN tag ELSE q.mem[q.loc[1] + i]
  BY <1>1, <1>5, <1>6
<1> QED
  BY <1>7 DEF Renamed, ti, tag

\* The names.
LEMMA TableIs ==
  ASSUME NEW r, r.loc \in Locs, Typed(r)
  PROVE  /\ TagTable(r) = [i \in 1 .. r.loc[3] |-> TagTable(r)[i]]
         /\ TagTable(r) \in Seq(Nat) /\ Len(TagTable(r)) = r.loc[3]
         /\ r.loc[3] \in Nat /\ r.loc[3] >= 1
         /\ \A i \in 1 .. r.loc[3] : TagTable(r)[i] = r.mem[r.loc[1] + (i - 1)]
<1> DEFINE f == TagTable(r)
<1>1. /\ r.loc[1] \in Nat /\ r.loc[2] \in Nat /\ r.loc[3] \in Nat /\ r.loc[3] >= 1
      /\ r.loc[1] + r.loc[3] < r.loc[2]
      /\ \A a \in Int : r.loc[1] <= a /\ a < r.loc[2] => a \in Slots
  BY LocFacts
<1>2. f = [i \in 1 .. r.loc[3] |-> r.mem[r.loc[1] + i - 1]]
  BY DEF TagTable, rtc_fifo_get_tagpos, rtc_fifo_get_tagcount
<1> HIDE DEF f
<1>3. \A i \in 1 .. r.loc[3] : /\ r.loc[1] + i - 1 = r.loc[1] + (i - 1)
                               /\ r.loc[1] + (i - 1) \in Slots
  BY <1>1
<1>4. \A i \in 1 .. r.loc[3] : f[i] = r.mem[r.loc[1] + (i - 1)] /\ f[i] \in Nat
  BY <1>2, <1>3 DEF Typed
<1>5. f = [i \in 1 .. r.loc[3] |-> f[i]]
  BY <1>2
<1>6. f \in Seq(Nat) /\ Len(f) = r.loc[3]
  <2> DEFINE n == r.loc[3]
  <2>1. n \in Nat /\ f = [i \in 1 .. n |-> f[i]] /\ \A i \in 1 .. n : f[i] \in Nat
    BY <1>1, <1>4, <1>5
  <2> HIDE DEF n
  <2>2. f \in [1 .. n -> Nat]
    BY <2>1
  <2>3. f \in Seq(Nat) /\ Len(f) = n
    BY <2>1, <2>2
  <2> QED
    BY <2>3 DEF n
<1> QED
  BY <1>1, <1>4, <1>5, <1>6 DEF f

\* What SampleFifo sees of the store.
LEMMA Seen ==
  /\ (Peeked(rtc))' = Peeked(rtc')
  /\ (TagTable(rtc))' = TagTable(rtc')
  /\ rtc_fifo_get_last(rtc) - rtc_fifo_get_first(rtc) = Size(rtc.loc)
  /\ (rtc_fifo_get_last(rtc) - rtc_fifo_get_first(rtc))' = Size(rtc'.loc)
<1>1. (Peeked(rtc))' = Peeked(rtc')
  BY DEF Peeked, rtc_fifo_peek_sample, SlotOf, rtc_fifo_normalise_index, rtc_fifo_get_first,
         rtc_fifo_get_last, rtc_fifo_get_tagpos, rtc_fifo_get_tagcount,
         rtc_fifo_get_value, rtc_fifo_get_decimals, rtc_fifo_get_tagindex
<1>2. (TagTable(rtc))' = TagTable(rtc')
  BY DEF TagTable, rtc_fifo_get_tagpos, rtc_fifo_get_tagcount
<1>3. /\ rtc_fifo_get_last(rtc) - rtc_fifo_get_first(rtc) = Size(rtc.loc)
      /\ (rtc_fifo_get_last(rtc) - rtc_fifo_get_first(rtc))' = Size(rtc'.loc)
  BY DEF Size, rtc_fifo_get_first, rtc_fifo_get_last, rtc_fifo_get_tagpos,
         rtc_fifo_get_tagcount
<1> QED
  BY <1>1, <1>2, <1>3

LEMMA SeenNow ==
  ASSUME ~ Damaged
  PROVE  /\ (IF Damaged THEN << >> ELSE Peeked(rtc)) = Peeked(rtc)
         /\ (IF Damaged THEN << >> ELSE TagTable(rtc)) = TagTable(rtc)
         /\ (IF Damaged THEN 0 ELSE rtc.tail_t) = rtc.tail_t
         /\ (IF Damaged THEN 0 ELSE rtc_fifo_get_last(rtc) - rtc_fifo_get_first(rtc))
              = Size(rtc.loc)
  BY Seen

LEMMA SeenNext ==
  ASSUME ~ Damaged'
  PROVE  /\ (IF Damaged THEN << >> ELSE Peeked(rtc))' = Peeked(rtc')
         /\ (IF Damaged THEN << >> ELSE TagTable(rtc))' = TagTable(rtc')
         /\ (IF Damaged THEN 0 ELSE rtc.tail_t)' = rtc'.tail_t
         /\ (IF Damaged THEN 0 ELSE rtc_fifo_get_last(rtc) - rtc_fifo_get_first(rtc))'
              = Size(rtc'.loc)
  BY Seen

LEMMA SeenInit ==
  ASSUME Damaged
  PROVE  Fifo!Init
  BY DEF Fifo!Init

LEMMA SeenInterrupt ==
  ASSUME Damaged'
  PROVE  Fifo!Interrupt
  BY DEF Fifo!Interrupt, Fifo!Init

LEMMA SeenPrepare ==
  ASSUME ~ Damaged', Peeked(rtc') = << >>, TagTable(rtc') \in Seq(Nat), rtc'.tail_t = 0,
         Size(rtc'.loc) \in Nat \ {0}
  PROVE  Fifo!Prepare
  BY Seen DEF Fifo!Prepare

LEMMA SeenTake ==
  ASSUME ~ Damaged, ~ Damaged', NEW n \in 1 .. Len(Peeked(rtc)),
         Peeked(rtc') = SubSeq(Peeked(rtc), n + 1, Len(Peeked(rtc))),
         TagTable(rtc') = TagTable(rtc), rtc'.tail_t = rtc.tail_t, rtc'.loc = rtc.loc
  PROVE  Fifo!Take(n)
<1>1. Damaged' = Damaged
  BY DEF Damaged
<1> QED
  BY <1>1, SeenNow, SeenNext DEF Fifo!Take

LEMMA SeenAdd ==
  ASSUME ~ Damaged, ~ Damaged', NEW x, NEW t,
         Peeked(rtc) = << >> \/ rtc_fifo_delta_t(t, rtc.tail_t) >= 0,
         NEW i \in 1 .. Len(TagTable(rtc)), TagTable(rtc)[i] \in {x.tag, 0},
         \A j \in 1 .. i - 1 : TagTable(rtc)[j] \notin {x.tag, 0},
         TagTable(rtc') = [TagTable(rtc) EXCEPT ![i] = x.tag],
         Peeked(rtc') = Append(IF Len(Peeked(rtc)) = Size(rtc.loc) THEN Tail(Peeked(rtc))
                                                                   ELSE Peeked(rtc), x),
         rtc'.tail_t = t, rtc'.loc = rtc.loc
  PROVE  Fifo!Add(x, t)
<1>1. Damaged' = Damaged
  BY DEF Damaged
<1>2. Fifo!SlotFor(x.tag, i)
  BY SeenNow DEF Fifo!SlotFor
<1> QED
  BY <1>1, <1>2, SeenNow, SeenNext DEF Fifo!Add

LEMMA SeenRestart ==
  ASSUME ~ Damaged', NEW x, NEW t,
         \/ /\ Damaged
            /\ TagTable(rtc') \in Seq(Nat) \ {<< >>} /\ Size(rtc'.loc) \in Nat \ {0}
         \/ /\ ~ Damaged
            /\ \/ Peeked(rtc) # << >> /\ ~ (rtc_fifo_delta_t(t, rtc.tail_t) >= 0)
               \/ \A i \in 1 .. Len(TagTable(rtc)) : TagTable(rtc)[i] \notin {x.tag, 0}
            /\ Len(TagTable(rtc')) = Len(TagTable(rtc)) /\ rtc'.loc = rtc.loc,
         TagTable(rtc') = [i \in 1 .. Len(TagTable(rtc')) |-> IF i = 1 THEN x.tag ELSE 0],
         Peeked(rtc') = <<x>>, rtc'.tail_t = t
  PROVE  Fifo!Restart(x, t)
  BY Seen DEF Fifo!Restart, Fifo!SlotFor

\* A sample that fits.
LEMMA FitIs ==
  ASSUME NEW r, Ring(r), Named(r), r.tail_t \in Int, NEW smp \in Samples, NEW t \in Times,
         ~ Misfit(r, smp, t), NEW s, s = After(r, rtc_fifo_store_sample(r, smp, t))
  PROVE  /\ Ring(s) /\ Named(s) /\ s.loc = r.loc /\ s.tail_t = t
         /\ Peeked(s) = Append(IF Len(Peeked(r)) = Size(r.loc) THEN Tail(Peeked(r))
                                                               ELSE Peeked(r), Stored(smp))
<1> DEFINE ti == rtc_fifo_find_tag_index(r, smp.tag)
           dt == Deltat(r, t)
<1>1. /\ r.loc \in Locs /\ r.count \in Nat /\ r.count <= Size(r.loc) /\ Size(r.loc) \in Nat
      /\ Size(r.loc) >= 1 /\ (Evicts(r) <=> r.count = Size(r.loc))
      /\ r.head \in Room(r.loc) /\ r.count \in 0 .. Size(r.loc)
      /\ r.tail = Pos(r.loc, r.head, r.count)
  BY RingFull DEF Ring
<1>2. /\ SameControl(r, s)
      /\ s.head = IF Evicts(r) THEN rtc_fifo_normalise_index(r, r.head + 1) ELSE r.head
      /\ s.tail = rtc_fifo_normalise_index(r, r.tail + 1)
      /\ s.tail_t = t
      /\ s.count = IF Evicts(r) THEN r.count ELSE r.count + 1
  BY <1>1, AfterFit
<1>3. s.loc = r.loc
  BY <1>2 DEF SameControl
<1>4. dt \in Int
  BY DeltatInt
<1>5. r.tail \in Room(r.loc)
  BY <1>1, PosFacts
<1>6. Len(Peeked(r)) = r.count
  BY PeekedIs
<1>7. CASE Evicts(r)
  <2> DEFINE q == After(r, rtc_fifo_pop_sample(r))
  <2>0. r.count > 0 /\ r.count = Size(r.loc)
    BY <1>1, <1>7
  <2>1. /\ 1 \in 1 .. r.count /\ 1 \in 0 .. r.count
        /\ q.loc = r.loc /\ q.tail = r.tail
        /\ SameSlots(r, q)
        /\ q.head = rtc_fifo_normalise_index(r, r.head + 1)
        /\ q.head = Pos(r.loc, r.head, 1) /\ q.count = r.count - 1
    BY <2>0, PopIsDrop
  <2>2. Entered(q, s, smp, ti, dt)
    BY <1>1, <2>1, FitEntered
  <2>3. Renamed(q, s, smp.tag, ti)
    BY <1>1, <1>5, <2>1, FitRenamed
  <2> HIDE DEF q, dt, ti
  <2>4. Ring(q) /\ Named(q) /\ Peeked(q) = SubSeq(Peeked(r), 1 + 1, Len(Peeked(r)))
    BY <2>1, RingDrop, PeekDrop, TakeIs
  <2>5. SubSeq(Peeked(r), 1 + 1, Len(Peeked(r))) = Tail(Peeked(r))
    <3> DEFINE ps == Peeked(r)
    <3>1. ps \in Seq(Elems(ps)) /\ Len(ps) > 0
      BY <1>6, <2>0, PeekedIs DEF IsSeq
    <3> HIDE DEF ps
    <3>2. ps # << >> /\ 1 + 1 = 2
      BY <3>1
    <3>3. Tail(ps) = SubSeq(ps, 2, Len(ps))
      BY <3>1, <3>2, TailIsSubSeq
    <3> QED
      BY <3>2, <3>3 DEF ps
  <2>6. /\ q.count < Size(q.loc) /\ s.loc = q.loc /\ s.head = q.head
        /\ s.tail = rtc_fifo_normalise_index(q, q.tail + 1) /\ s.count = q.count + 1
    <3>1. rtc_fifo_normalise_index(q, q.tail + 1) = rtc_fifo_normalise_index(r, q.tail + 1)
      BY <2>1, SameNormalise
    <3>2. s.count = q.count + 1 /\ q.count < Size(q.loc)
      BY <1>1, <1>2, <1>7, <2>0, <2>1
    <3> QED
      BY <1>2, <1>3, <1>7, <2>1, <3>1, <3>2
  <2>7. Ring(s)
    BY <2>4, <2>6, RingStore
  <2>8. Named(s)
    BY <1>4, <2>2, <2>3, <2>4, <2>6, PeekStore
  <2>9. Peeked(s) = Append(Peeked(q), Stored(smp))
    BY <1>4, <2>2, <2>3, <2>4, <2>6, AddIs
  <2> QED
    BY <1>2, <1>3, <1>6, <2>0, <2>4, <2>5, <2>7, <2>8, <2>9
<1>8. CASE ~ Evicts(r)
  <2>1. SameSlots(r, r)
    BY DEF SameSlots
  <2>2. Entered(r, s, smp, ti, dt)
    BY <1>1, <2>1, FitEntered
  <2>3. Renamed(r, s, smp.tag, ti)
    BY <1>1, <1>5, <2>1, FitRenamed
  <2> HIDE DEF dt, ti
  <2>4. r.count < Size(r.loc) /\ s.count = r.count + 1 /\ s.head = r.head
    BY <1>1, <1>2, <1>8
  <2>5. Ring(s)
    BY <1>2, <1>3, <2>4, RingStore
  <2>6. Named(s)
    BY <1>2, <1>3, <1>4, <2>2, <2>3, <2>4, PeekStore
  <2>7. Peeked(s) = Append(Peeked(r), Stored(smp))
    BY <1>2, <1>3, <1>4, <2>2, <2>3, <2>4, AddIs
  <2>8. Len(Peeked(r)) # Size(r.loc)
    BY <1>1, <1>6, <2>4
  <2> QED
    BY <1>2, <1>3, <2>5, <2>6, <2>7, <2>8
<1> QED
  BY <1>7, <1>8

\* A sample that does not fit, and is the only one then.
LEMMA MisfitIs ==
  ASSUME NEW r, r.loc \in Locs, r.tail_t \in Int, NEW smp \in Samples, NEW t \in Times,
         Misfit(r, smp, t), NEW s, s = After(r, rtc_fifo_store_sample(r, smp, t)), Typed(s)
  PROVE  /\ Ring(s) /\ Named(s) /\ s.loc = r.loc /\ s.tail_t = t
         /\ Peeked(s) = <<Stored(smp)>>
         /\ TagTable(s) = [i \in 1 .. Len(TagTable(s)) |-> IF i = 1 THEN smp.tag ELSE 0]
<1> DEFINE e == rtc_fifo_construct_entry(smp.value, 0, smp.decimals, Deltat(r, t))
           first == rtc_fifo_get_first(r)
<1>1. /\ SameControl(r, s)
      /\ s.head = first /\ s.head_t = t
      /\ s.tail = rtc_fifo_normalise_index(r, first + 1) /\ s.tail_t = t
      /\ s.count = 1
      /\ \A a \in Slots :
           s.mem[a] = IF a = first THEN e
                      ELSE IF a = r.loc[1] THEN smp.tag
                      ELSE IF a \in r.loc[1] .. r.loc[1] + r.loc[3] - 1 THEN 0
                      ELSE r.mem[a]
  BY AfterMisfit
<1>2. s.loc = r.loc
  BY <1>1 DEF SameControl
<1>3. /\ r.loc[1] \in Nat /\ r.loc[2] \in Nat /\ r.loc[3] \in Nat /\ r.loc[3] >= 1
      /\ r.loc[3] <= TagMod /\ r.loc[1] + r.loc[3] < r.loc[2]
      /\ \A a \in Int : r.loc[1] <= a /\ a < r.loc[2] => a \in Slots
  BY LocFacts
<1>4. first = r.loc[1] + r.loc[3] /\ first \in Slots /\ first \in Room(r.loc)
  BY RoomFacts
<1>5. s.mem[first] = e
  BY <1>1, <1>4
<1>6. Ring(s)
  BY <1>1, <1>2, <1>5, TimedOne
<1>7. Deltat(r, t) \in Int
  BY DeltatInt
<1>8. 0 \in Int /\ 0 >= 0 /\ 0 < TagMod
  BY <1>3, FieldsAssumption DEF Fields
<1>9. /\ rtc_fifo_get_tagindex(e) = 0
      /\ Stored(smp) = [value |-> rtc_fifo_get_value(e),
                        decimals |-> rtc_fifo_get_decimals(e), tag |-> smp.tag]
  BY <1>7, <1>8, PeekEntry
<1> HIDE DEF e, first
<1>10. Entry(s, 0) = e
  <2>1. Pos(s.loc, s.head, 0) = s.head
    BY <1>1, <1>2, <1>4, PosFacts
  <2> QED
    BY <1>1, <1>5, <2>1 DEF Entry
<1>11. s.mem[r.loc[1]] = smp.tag /\ r.loc[1] + 0 = r.loc[1]
  <2>1. r.loc[1] \in Slots /\ r.loc[1] # first
    BY <1>3, <1>4
  <2> QED
    BY <1>1, <1>3, <2>1
<1>12. NameOf(s, e) = smp.tag
  BY <1>2, <1>9, <1>11 DEF NameOf
<1>13. PeekAt(s, 0) = Stored(smp)
  BY <1>9, <1>10, <1>12 DEF PeekAt
<1>14. Named(s)
  <2>1. HasName(s, e)
    BY <1>2, <1>3, <1>9, <1>12, SampleParts DEF HasName
  <2> SUFFICES ASSUME NEW k \in 0 .. s.count - 1 PROVE HasName(s, Entry(s, k))
    BY DEF Named
  <2>2. k = 0
    BY <1>1
  <2> QED
    BY <1>10, <2>1, <2>2
<1>15. Peeked(s) = <<Stored(smp)>>
  <2>0. Peeked(s) = [k \in 1 .. s.count |-> PeekAt(s, k - 1)] /\ s.count = 1
    <3>1. s.count = 1
      BY <1>1
    <3> QED
      BY <1>6, <3>1, PeekedIs
  <2>1. Peeked(s) = [k \in 1 .. 1 |-> PeekAt(s, k - 1)]
    BY <2>0
  <2>2. \A k \in 1 .. 1 : k - 1 = 0
    OBVIOUS
  <2>3. [k \in 1 .. 1 |-> PeekAt(s, k - 1)] = [k \in 1 .. 1 |-> Stored(smp)]
    BY <1>13, <2>2
  <2> QED
    BY <2>1, <2>3
<1>16. TagTable(s) = [i \in 1 .. Len(TagTable(s)) |-> IF i = 1 THEN smp.tag ELSE 0]
  <2> DEFINE f == TagTable(s)
  <2>1. /\ f = [i \in 1 .. r.loc[3] |-> f[i]] /\ Len(f) = r.loc[3]
        /\ \A i \in 1 .. r.loc[3] : f[i] = s.mem[r.loc[1] + (i - 1)]
    BY <1>2, TableIs
  <2> HIDE DEF f
  <2>2. ASSUME NEW i \in 1 .. r.loc[3] PROVE f[i] = IF i = 1 THEN smp.tag ELSE 0
    <3> DEFINE a == r.loc[1] + (i - 1)
    <3>1. /\ a \in Slots /\ a # first /\ a \in r.loc[1] .. r.loc[1] + r.loc[3] - 1
          /\ (a = r.loc[1] <=> i = 1)
      BY <1>3, <1>4
    <3>2. f[i] = s.mem[a]
      BY <2>1
    <3> HIDE DEF a
    <3> QED
      BY <1>1, <3>1, <3>2
  <2>3. f = [i \in 1 .. Len(f) |-> IF i = 1 THEN smp.tag ELSE 0]
    BY <2>1, <2>2
  <2> QED
    BY <2>3 DEF f
<1> QED
  BY <1>1, <1>2, <1>6, <1>14, <1>15, <1>16

\* Names of all samples in the store.
NamesKept == ~Damaged => Named(rtc)

LEMMA NamesKeptNext ==
  ASSUME Named(rtc')
  PROVE  NamesKept'
  BY DEF NamesKept, Named, HasName, Entry, NameOf, Pos, Size, Damaged, rtc_fifo_get_tagindex

LEMMA NamesDamagedNext ==
  ASSUME torn' # "no"
  PROVE  NamesKept' /\ Damaged'
  BY DEF NamesKept, Damaged

\* Slots that keep what they hold keep the names.
LEMMA SameTable ==
  ASSUME NEW r, r.loc \in Locs, Typed(r), NEW s, s.loc = r.loc, Typed(s), SameSlots(r, s)
  PROVE  TagTable(s) = TagTable(r)
<1> DEFINE f == TagTable(r)
           g == TagTable(s)
<1>1. /\ f = [i \in 1 .. r.loc[3] |-> f[i]]
      /\ \A i \in 1 .. r.loc[3] : f[i] = r.mem[r.loc[1] + (i - 1)]
  BY TableIs
<1>2. /\ g = [i \in 1 .. r.loc[3] |-> g[i]]
      /\ \A i \in 1 .. r.loc[3] : g[i] = s.mem[r.loc[1] + (i - 1)]
  BY TableIs
<1> HIDE DEF f, g
<1>3. \A i \in 1 .. r.loc[3] : r.loc[1] + (i - 1) \in Slots
  BY LocFacts
<1>4. \A i \in 1 .. r.loc[3] : f[i] = g[i]
  BY <1>1, <1>2, <1>3 DEF SameSlots
<1> QED
  BY <1>1, <1>2, <1>4 DEF f, g

\* Take of the n oldest.
LEMMA TakeStep ==
  ASSUME ~ Damaged, torn' = torn, Typed(rtc), Typed(rtc'), Ring(rtc), Named(rtc),
         NEW n \in 1 .. rtc.count, SameControl(rtc, rtc'), SameSlots(rtc, rtc'),
         rtc'.tail = rtc.tail, rtc'.tail_t = rtc.tail_t,
         rtc'.head = Pos(rtc.loc, rtc.head, n), rtc'.count = rtc.count - n
  PROVE  NamesKept' /\ Fifo!Next
<1>1. rtc'.loc = rtc.loc /\ rtc'.magic = rtc.magic
  BY DEF SameControl
<1>2. rtc.count \in Nat /\ n \in 0 .. rtc.count /\ rtc.loc \in Locs
  BY RingFull DEF Ring
<1>3. Named(rtc')
  BY <1>1, <1>2, PeekDrop
<1>4. Peeked(rtc') = SubSeq(Peeked(rtc), n + 1, Len(Peeked(rtc)))
  BY <1>1, <1>2, TakeIs
<1>5. n \in 1 .. Len(Peeked(rtc))
  BY PeekedIs
<1>6. TagTable(rtc') = TagTable(rtc)
  BY <1>1, <1>2, SameTable
<1>7. ~ Damaged'
  BY <1>1 DEF Damaged
<1>8. Fifo!Take(n)
  BY <1>1, <1>4, <1>5, <1>6, <1>7, SeenTake
<1>9. n \in 1 .. Len(IF Damaged THEN << >> ELSE Peeked(rtc))
  BY <1>5, SeenNow
<1>10. Fifo!Next
  BY <1>8, <1>9 DEF Fifo!Next
<1> QED
  BY <1>3, <1>10, NamesKeptNext

\* put of a sample that fits.
LEMMA AddStep ==
  ASSUME ~ Damaged, torn' = torn, Typed(rtc), Typed(rtc'), Ring(rtc), Named(rtc),
         NEW s \in Samples, NEW t \in Times, ~ Misfit(rtc, s, t),
         rtc' = After(rtc, rtc_fifo_store_sample(rtc, s, t))
  PROVE  NamesKept' /\ Fifo!Next
<1> DEFINE ti == rtc_fifo_find_tag_index(rtc, s.tag)
           x == Stored(s)
           i == ti + 1
<1>0. rtc.loc \in Locs /\ rtc.count \in Nat /\ rtc.tail_t \in Int /\ rtc.tail \in Room(rtc.loc)
  <2>1. /\ rtc.loc \in Locs /\ rtc.head \in Room(rtc.loc) /\ rtc.count \in 0 .. Size(rtc.loc)
        /\ rtc.tail = Pos(rtc.loc, rtc.head, rtc.count)
    BY DEF Ring
  <2> QED
    BY <2>1, PosFacts DEF Typed
<1>1. /\ Ring(rtc') /\ Named(rtc') /\ rtc'.loc = rtc.loc /\ rtc'.tail_t = t
      /\ Peeked(rtc') = Append(IF Len(Peeked(rtc)) = Size(rtc.loc) THEN Tail(Peeked(rtc))
                                                                   ELSE Peeked(rtc), x)
  BY <1>0, FitIs
<1>2. rtc'.magic = rtc.magic
  BY <1>0, AfterFit DEF SameControl
<1>3. ~ Damaged'
  BY <1>2 DEF Damaged
<1>4. x.tag = s.tag
  BY DEF Stored, Samples
<1>5. SameSlots(rtc, rtc)
  BY DEF SameSlots
<1>6. Renamed(rtc, rtc', s.tag, ti)
  BY <1>0, <1>5, FitRenamed
<1>7. \A j \in 0 .. ti - 1 : rtc.mem[rtc.loc[1] + j] \notin {s.tag, 0}
  <2>1. ti >= 0
    BY <1>0, TagIndex DEF Misfit
  <2> QED
    BY <1>0, <2>1, TagIndex
<1> HIDE DEF ti, x
<1> DEFINE f == TagTable(rtc)
           g == TagTable(rtc')
<1>8. /\ f = [j \in 1 .. rtc.loc[3] |-> f[j]] /\ Len(f) = rtc.loc[3] /\ rtc.loc[3] \in Nat
      /\ \A j \in 1 .. rtc.loc[3] : f[j] = rtc.mem[rtc.loc[1] + (j - 1)]
  BY <1>0, TableIs
<1>9. /\ g = [j \in 1 .. rtc.loc[3] |-> g[j]]
      /\ \A j \in 1 .. rtc.loc[3] : g[j] = rtc'.mem[rtc.loc[1] + (j - 1)]
  <2>1. rtc'.loc \in Locs
    BY <1>0, <1>1
  <2>2. /\ g = [j \in 1 .. rtc'.loc[3] |-> g[j]]
        /\ \A j \in 1 .. rtc'.loc[3] : g[j] = rtc'.mem[rtc'.loc[1] + (j - 1)]
    BY <2>1, TableIs
  <2> HIDE DEF g
  <2> QED
    BY <1>1, <2>2
<1> HIDE DEF f, g
<1>10. /\ ti \in 0 .. rtc.loc[3] - 1 /\ rtc.mem[rtc.loc[1] + ti] \in {s.tag, 0}
       /\ \A j \in 0 .. rtc.loc[3] - 1 :
            rtc'.mem[rtc.loc[1] + j] = IF j = ti THEN s.tag ELSE rtc.mem[rtc.loc[1] + j]
  BY <1>6 DEF Renamed
<1>11. i \in 1 .. rtc.loc[3] /\ i - 1 = ti
  BY <1>8, <1>10
<1>12. f[i] \in {s.tag, 0}
  BY <1>8, <1>10, <1>11
<1>13. \A j \in 1 .. i - 1 : f[j] \notin {s.tag, 0}
  <2> TAKE j \in 1 .. i - 1
  <2>1. j - 1 \in 0 .. ti - 1 /\ j \in 1 .. rtc.loc[3]
    BY <1>8, <1>10, <1>11
  <2> QED
    BY <1>7, <1>8, <2>1
<1>14. g = [f EXCEPT ![i] = s.tag]
  <2>1. ASSUME NEW j \in 1 .. rtc.loc[3] PROVE g[j] = IF j = i THEN s.tag ELSE f[j]
    <3>1. j - 1 \in 0 .. rtc.loc[3] - 1 /\ (j - 1 = ti <=> j = i)
      BY <1>8, <1>11
    <3> QED
      BY <1>8, <1>9, <1>10, <3>1
  <2> HIDE DEF i
  <2>2. [f EXCEPT ![i] = s.tag] = [j \in 1 .. rtc.loc[3] |-> IF j = i THEN s.tag ELSE f[j]]
    BY <1>8, <1>11
  <2>3. g = [j \in 1 .. rtc.loc[3] |-> IF j = i THEN s.tag ELSE f[j]]
    BY <1>9, <2>1
  <2> QED
    BY <2>2, <2>3
<1>15. Peeked(rtc) = << >> \/ rtc_fifo_delta_t(t, rtc.tail_t) >= 0
  <2>1. CASE rtc.count = 0
    <3>1. Peeked(rtc) = [k \in 1 .. rtc.count |-> PeekAt(rtc, k - 1)]
      BY PeekedIs
    <3>2. IsSeq(Peeked(rtc)) /\ Len(Peeked(rtc)) = 0
      BY <2>1, PeekedIs
    <3> QED
      BY <3>2 DEF IsSeq
  <2>2. CASE rtc.count > 0
    <3>1. ~ (rtc_fifo_delta_t(t, rtc.tail_t) < 0)
      BY <2>2 DEF Misfit
    <3>2. rtc_fifo_delta_t(t, rtc.tail_t) \in Int
      BY <1>0, <2>2, DeltatInt DEF Deltat
    <3> QED
      BY <3>1, <3>2
  <2> QED
    BY <1>0, <2>1, <2>2
<1>16. i \in 1 .. Len(f)
  BY <1>8, <1>11
<1> HIDE DEF i
<1>17. Fifo!Add(x, t)
  BY <1>1, <1>3, <1>4, <1>12, <1>13, <1>14, <1>15, <1>16, SeenAdd DEF f, g
<1>18. x \in { Stored(smp) : smp \in Samples }
  BY DEF x
<1>19. Fifo!Next
  BY <1>17, <1>18 DEF Fifo!Next
<1> QED
  BY <1>1, <1>19, NamesKeptNext

\* put of a sample that does not fit.
LEMMA RestartStep ==
  ASSUME rtc.magic, torn' = "no", Typed(rtc), Typed(rtc'), rtc.loc \in Locs,
         ~ Damaged => Ring(rtc),
         NEW s \in Samples, NEW t \in Times, Misfit(rtc, s, t),
         rtc' = After(rtc, rtc_fifo_store_sample(rtc, s, t))
  PROVE  NamesKept' /\ Fifo!Next
<1> DEFINE x == Stored(s)
<1>0. rtc.tail_t \in Int /\ rtc.count \in Int
  BY DEF Typed
<1>1. /\ Ring(rtc') /\ Named(rtc') /\ rtc'.loc = rtc.loc /\ rtc'.tail_t = t
      /\ Peeked(rtc') = <<x>>
      /\ TagTable(rtc') = [i \in 1 .. Len(TagTable(rtc')) |-> IF i = 1 THEN s.tag ELSE 0]
  BY <1>0, MisfitIs
<1>2. rtc'.magic = rtc.magic
  BY AfterMisfit DEF SameControl
<1>3. ~ Damaged'
  BY <1>2 DEF Damaged
<1>4. x.tag = s.tag
  BY DEF Stored, Samples
<1>5. /\ TagTable(rtc') \in Seq(Nat) /\ Len(TagTable(rtc')) = rtc.loc[3]
      /\ rtc.loc[3] \in Nat /\ rtc.loc[3] >= 1
  <2>1. rtc'.loc \in Locs
    BY <1>1
  <2> QED
    BY <1>1, <2>1, TableIs
<1>6. Len(TagTable(rtc)) = rtc.loc[3]
      /\ \A i \in 1 .. rtc.loc[3] : TagTable(rtc)[i] = rtc.mem[rtc.loc[1] + (i - 1)]
  BY TableIs
<1>7. Size(rtc'.loc) \in Nat \ {0} /\ TagTable(rtc') # << >>
  <2>1. Size(rtc'.loc) \in Nat /\ Size(rtc'.loc) >= 1
    BY <1>1, RingFull
  <2> QED
    BY <1>5, <2>1
<1>8. ASSUME ~ Damaged
      PROVE  \/ Peeked(rtc) # << >> /\ ~ (rtc_fifo_delta_t(t, rtc.tail_t) >= 0)
             \/ \A i \in 1 .. Len(TagTable(rtc)) : TagTable(rtc)[i] \notin {s.tag, 0}
  <2>1. CASE rtc_fifo_find_tag_index(rtc, s.tag) < 0
    <3>1. \A j \in 0 .. rtc.loc[3] - 1 : rtc.mem[rtc.loc[1] + j] \notin {s.tag, 0}
      BY <2>1, TagIndex
    <3>2. \A i \in 1 .. rtc.loc[3] : i - 1 \in 0 .. rtc.loc[3] - 1
      BY <1>5
    <3> QED
      BY <1>6, <3>1, <3>2
  <2>2. CASE rtc.count > 0 /\ rtc_fifo_delta_t(t, rtc.tail_t) < 0
    <3>1. Len(Peeked(rtc)) = rtc.count
      BY <1>8, PeekedIs
    <3>2. Peeked(rtc) # << >>
      BY <2>2, <3>1
    <3>3. rtc_fifo_delta_t(t, rtc.tail_t) \in Int
      BY <1>0, <2>2, DeltatInt DEF Deltat
    <3> QED
      BY <2>2, <3>2, <3>3
  <2> QED
    BY <2>1, <2>2 DEF Misfit
<1> HIDE DEF x
<1>9. \/ /\ Damaged
         /\ TagTable(rtc') \in Seq(Nat) \ {<< >>} /\ Size(rtc'.loc) \in Nat \ {0}
      \/ /\ ~ Damaged
         /\ \/ Peeked(rtc) # << >> /\ ~ (rtc_fifo_delta_t(t, rtc.tail_t) >= 0)
            \/ \A i \in 1 .. Len(TagTable(rtc)) : TagTable(rtc)[i] \notin {x.tag, 0}
         /\ Len(TagTable(rtc')) = Len(TagTable(rtc)) /\ rtc'.loc = rtc.loc
  BY <1>1, <1>4, <1>5, <1>6, <1>7, <1>8
<1>10. TagTable(rtc') = [i \in 1 .. Len(TagTable(rtc')) |-> IF i = 1 THEN x.tag ELSE 0]
  BY <1>1, <1>4
<1>11. Fifo!Restart(x, t)
  BY <1>1, <1>3, <1>9, <1>10, SeenRestart
<1>12. x \in { Stored(smp) : smp \in Samples }
  BY DEF x
<1>13. Fifo!Next
  BY <1>11, <1>12 DEF Fifo!Next
<1> QED
  BY <1>1, <1>13, NamesKeptNext

\* Every step is one of the queue, or changes nothing about it.
LEMMA QueueStep ==
  Placed /\ Placed' /\ TimesKept /\ TimesKept' /\ NamesKept /\ [Next]_vars
    => NamesKept' /\ [Fifo!Next]_(Fifo!vars)
<1> SUFFICES ASSUME Placed, Placed', TimesKept, TimesKept', NamesKept, [Next]_vars
             PROVE  NamesKept' /\ [Fifo!Next]_(Fifo!vars)
  OBVIOUS
<1>0. /\ Typed(rtc) /\ (rtc.magic => rtc.loc \in Locs) /\ Typed(rtc')
      /\ ~ Damaged => Ring(rtc) /\ Named(rtc)
  BY DEF Placed, TimesKept, NamesKept, Typed
<1>1. ASSUME torn' # "no" PROVE NamesKept' /\ Fifo!Next
  <2>1. NamesKept' /\ Damaged'
    BY <1>1, NamesDamagedNext
  <2>2. Fifo!Next
    BY <2>1, SeenInterrupt DEF Fifo!Next
  <2> QED
    BY <2>1, <2>2
<1>2. CASE prepare
  <2>1. PICK n \in SensorCounts : \E other \in OtherStorage(n) :
          rtc' = After(rtc, rtcfifo_prepare(rtc, n, other)) /\ torn' = "no"
    BY <1>2 DEF prepare
  <2>2. PICK other \in OtherStorage(n) :
          rtc' = After(rtc, rtcfifo_prepare(rtc, n, other)) /\ torn' = "no"
    BY <2>1
  <2>3. Ring(rtc') /\ rtc'.magic = TRUE /\ rtc'.count = 0 /\ rtc'.tail_t = 0
    BY <2>2, PreparedRing, Zenon
  <2>4. rtc'.loc \in Locs
    BY <2>3 DEF Ring
  <2>7. Named(rtc')
    BY <2>3 DEF Named
  <2>8. Peeked(rtc') = << >>
    <3>1. IsSeq(Peeked(rtc')) /\ Len(Peeked(rtc')) = 0
      BY <2>3, PeekedIs
    <3> QED
      BY <3>1 DEF IsSeq
  <2>9. TagTable(rtc') \in Seq(Nat)
    BY <1>0, <2>4, TableIs
  <2>10. Size(rtc'.loc) \in Nat \ {0}
    BY <2>3, RingFull
  <2>11. ~ Damaged'
    BY <2>2, <2>3 DEF Damaged
  <2>12. Fifo!Prepare
    BY <2>3, <2>8, <2>9, <2>10, <2>11, SeenPrepare
  <2>13. NamesKept'
    BY <2>7, NamesKeptNext
  <2> QED
    BY <2>12, <2>13 DEF Fifo!Next
<1>3. CASE put
  <2>1. PICK s \in Samples, t \in Times :
          /\ rtc.magic
          /\ rtc' = After(rtc, rtc_fifo_store_sample(rtc, s, t))
          /\ IF Misfit(rtc, s, t) THEN torn' = "no" ELSE torn' = torn
    BY <1>3 DEF put
  <2>2. CASE Misfit(rtc, s, t)
    BY <1>0, <2>1, <2>2, RestartStep
  <2>3. CASE ~ Misfit(rtc, s, t) /\ torn = "no"
    <3>1. ~ Damaged
      BY <2>1, <2>3 DEF Damaged
    <3> QED
      BY <1>0, <2>1, <2>3, <3>1, AddStep
  <2>4. CASE ~ Misfit(rtc, s, t) /\ torn # "no"
    BY <1>1, <2>1, <2>4
  <2> QED
    BY <2>2, <2>3, <2>4
<1>4. CASE pop
  <2>1. rtc.magic /\ rtc.count > 0 /\ rtc' = After(rtc, rtc_fifo_pop_sample(rtc)) /\ torn' = torn
    BY <1>4 DEF pop
  <2>2. CASE torn = "no"
    <3>1. ~ Damaged
      BY <2>1, <2>2 DEF Damaged
    <3>2. /\ 1 \in 1 .. rtc.count /\ SameControl(rtc, rtc')
          /\ rtc'.tail = rtc.tail /\ rtc'.tail_t = rtc.tail_t
          /\ SameSlots(rtc, rtc')
          /\ rtc'.head = Pos(rtc.loc, rtc.head, 1) /\ rtc'.count = rtc.count - 1
      BY <1>0, <2>1, <3>1, PopIsDrop DEF SameControl
    <3> QED
      BY <1>0, <2>1, <3>1, <3>2, TakeStep
  <2> QED
    BY <1>1, <2>1, <2>2
<1>5. CASE drop
  <2>1. PICK n \in 1 .. rtc.count :
          rtc.magic /\ rtc' = After(rtc, rtc_fifo_drop_samples(rtc, n)) /\ torn' = torn
    BY <1>5 DEF drop
  <2>2. CASE torn = "no"
    <3>1. ~ Damaged
      BY <2>1, <2>2 DEF Damaged
    <3>2. Ring(rtc) /\ rtc.count \in Nat
      BY <1>0, <3>1, RingFull
    <3>3. n \in Nat /\ n > 0 /\ n \in 0 .. rtc.count
      BY <3>2
    <3>4. /\ SameControl(rtc, rtc') /\ SameSlots(rtc, rtc')
          /\ rtc'.tail = rtc.tail /\ rtc'.tail_t = rtc.tail_t
          /\ rtc'.head = SlotOf(rtc)[n]
          /\ rtc'.count = rtc.count - n
      BY <2>1, <3>3, AfterDrop
    <3>5. rtc'.head = Pos(rtc.loc, rtc.head, n)
      BY <3>2, <3>3, <3>4, SlotOfPos DEF Ring
    <3> QED
      BY <1>0, <2>1, <3>1, <3>4, <3>5, TakeStep
  <2> QED
    BY <1>1, <2>1, <2>2
<1>6. CASE reset_in_prepare
  <2>1. torn' = "prepare"
    BY <1>6 DEF reset_in_prepare, CutShort
  <2> QED
    BY <1>1, <2>1
<1>7. CASE reset_in_operation
  <2>1. torn' = "samples"
    BY <1>7 DEF reset_in_operation, CutShort
  <2> QED
    BY <1>1, <2>1
<1>8. CASE UNCHANGED vars
  <2>1. rtc' = rtc /\ torn' = torn
    BY <1>8 DEF vars
  <2>2. CASE torn # "no"
    BY <1>1, <2>1, <2>2
  <2>3. CASE torn = "no"
    <3>1. Damaged' = Damaged
      BY <2>1 DEF Damaged
    <3>2. UNCHANGED Fifo!vars
      BY <2>1, <3>1, Seen DEF Fifo!vars
    <3>3. NamesKept'
      <4>1. CASE Damaged
        BY <3>1, <4>1 DEF NamesKept
      <4>2. CASE ~ Damaged
        BY <1>0, <2>1, <4>2, NamesKeptNext
      <4> QED
        BY <4>1, <4>2
    <3> QED
      BY <3>2, <3>3
  <2> QED
    BY <2>2, <2>3
<1> QED
  BY <1>2, <1>3, <1>4, <1>5, <1>6, <1>7, <1>8 DEF Next

\* Ring, tag table and packed entries are the queue of SampleFifo: samples come
\* out in the order they went in, with value, scale and sensor name, whatever
\* wraps around, is evicted, starts anew or is interrupted in between.
THEOREM QueueImplemented == Spec => ImplementsFifo
<1>1. Init => NamesKept /\ Fifo!Init /\ TimesKept
  <2>1. Init => Damaged
    BY DEF Init, Damaged
  <2> QED
    BY <2>1, SeenInit DEF NamesKept, TimesKept
<1> QED
  BY <1>1, PlacedInit, PlacedStep, TimesKeptStep, QueueStep, PTL
     DEF Spec, ImplementsFifo, Fifo!Spec
============================================================================
