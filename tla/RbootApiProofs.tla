--------------------------- MODULE RbootApiProofs --------------------------
(***************************************************************************)
(* Proofs about the flash writer RbootApi, for every size of sectors, of   *)
(* chunks and of images, and for any number of downloads.  The invariant   *)
(* adds to the properties how far the writer has erased: everything        *)
(* behind its position up to the last sector it erased is empty, so that   *)
(* the next chunk is stored as it came.                                    *)
(***************************************************************************)
EXTENDS RbootApi, SequenceTheorems, TLAPS

DataByte == 0 .. Byte(MaxSessions, MaxLen)
FlashByte == {Erased, Old, Garbled} \cup DataByte

\* The fields of rboot_write_status.
StatusOK ==
  status \in [start_addr : Int, last_sector_erased : Int, extra : Seq(DataByte)]

\* What is written and held back was received.
Progress ==
  /\ got <= most
  /\ status.start_addr - Start + Len(status.extra) <= got

\* What is written lies in sectors that were erased, or were meant to be.
Reached == status.start_addr <= (status.last_sector_erased + 1) * SECTOR_SIZE

\* Behind the position the erased sectors are empty, if no call failed.
EmptyAhead ==
  ~failed =>
    \A a \in Cell : /\ a >= status.start_addr
                    /\ a \div SECTOR_SIZE <= status.last_sector_erased
                    => flash[a] = Erased

\* The inductive invariant.
IInv ==
  /\ TypeOK
  /\ StatusOK
  /\ Progress
  /\ Reached
  /\ EmptyAhead
  /\ StreamStored
  /\ NeighboursIntact

----------------------------------------------------------------------------
(* Division by a size that is not fixed.                                   *)

\* The quotient's defining bounds.
LEMMA DivBounds ==
  ASSUME NEW a \in Int, NEW n \in Nat \ {0}
  PROVE  /\ a \div n \in Int
         /\ (a \div n) * n <= a
         /\ a < (a \div n) * n + n
OBVIOUS

\* Comparing with a quotient is comparing with a multiple.
LEMMA DivMeaning ==
  ASSUME NEW a \in Int, NEW n \in Nat \ {0}, NEW x \in Int
  PROVE  x <= a \div n <=> x * n <= a
<1>1. /\ a \div n \in Int
      /\ (a \div n) * n <= a
      /\ a < (a \div n) * n + n
  BY DivBounds
<1>2. \A q \in Int : q * n <= a /\ a < q * n + n => (x <= q <=> x * n <= a)
  <2> TAKE q \in Int
  <2>1. x <= q => x * n <= q * n
    OBVIOUS
  <2>2. x > q => x * n >= q * n + n
    OBVIOUS
  <2>3. x * n \in Int /\ q * n \in Int /\ n \in Int
    OBVIOUS
  <2> QED
    BY <2>1, <2>2, <2>3
<1> QED
  BY <1>1, <1>2

\* The slot lies in flash, at a multiple of the word size.
LEMMA Layout ==
  /\ SECTOR_SIZE \in Nat \ {0}
  /\ Start \in Nat /\ Start % 4 = 0
  /\ Start = StartSector * SECTOR_SIZE
  /\ Sectors * SECTOR_SIZE \in Nat
  /\ Start + MaxLen <= Sectors * SECTOR_SIZE
  /\ MaxLen \in Nat /\ MaxSessions \in Nat
  /\ StartSector \in Nat \ {0} /\ Sectors \in Nat
  /\ Lengths \subseteq 1 .. MaxLen
<1>1. Start % 4 = 0
  <2> DEFINE q == SECTOR_SIZE \div 4
  <2>1. q \in Nat /\ SECTOR_SIZE = 4 * q
    BY SectorAssumption
  <2> HIDE DEF q
  <2>2. Start = 4 * (StartSector * q)
    BY <2>1, LayoutAssumption DEF Start
  <2>3. StartSector * q \in Nat
    BY <2>1, LayoutAssumption
  <2>4. \A p \in Nat : (4 * p) % 4 = 0
    OBVIOUS
  <2> QED
    BY <2>2, <2>3, <2>4
<1> QED
  BY <1>1, SectorAssumption, LayoutAssumption, BoundsAssumption DEF Start

\* The sector of an address in the slot.
LEMMA SectorOf ==
  ASSUME NEW a \in Int, NEW x \in Int
  PROVE  /\ a \div SECTOR_SIZE \in Int
         /\ x <= a \div SECTOR_SIZE <=> x * SECTOR_SIZE <= a
         /\ a \div SECTOR_SIZE <= x <=> a < (x + 1) * SECTOR_SIZE
<1>1. a \div SECTOR_SIZE \in Int
  BY Layout, DivBounds
<1>2. x <= a \div SECTOR_SIZE <=> x * SECTOR_SIZE <= a
  BY Layout, DivMeaning
<1>3. x + 1 <= a \div SECTOR_SIZE <=> (x + 1) * SECTOR_SIZE <= a
  BY Layout, DivMeaning
<1>4. (x + 1) * SECTOR_SIZE \in Int
  BY Layout
<1> QED
  BY <1>1, <1>2, <1>3, <1>4

\* What lies behind the sectors of y bytes lies behind those of fewer.
LEMMA ReachGrows ==
  ASSUME NEW x \in Int, NEW y \in Int, x <= y, NEW a \in Int,
         (a - Start) \div SECTOR_SIZE > (y - 1) \div SECTOR_SIZE
  PROVE  (a - Start) \div SECTOR_SIZE > (x - 1) \div SECTOR_SIZE
<1>1. x - 1 \in Int /\ y - 1 \in Int /\ a - Start \in Int
  BY Layout
<1> DEFINE p == (x - 1) \div SECTOR_SIZE
           q == (y - 1) \div SECTOR_SIZE
           r == (a - Start) \div SECTOR_SIZE
<1>2. p \in Int /\ q \in Int /\ r \in Int
  BY <1>1, SectorOf
<1>3. p * SECTOR_SIZE <= x - 1
  <2>1. p <= (x - 1) \div SECTOR_SIZE
    BY <1>2
  <2> HIDE DEF p
  <2> QED
    BY <1>1, <1>2, <2>1, SectorOf, Zenon
<1>4. p <= q
  <2>1. p * SECTOR_SIZE \in Int
    BY <1>2, Layout
  <2> HIDE DEF p
  <2>2. p * SECTOR_SIZE <= y - 1
    BY <1>3, <2>1
  <2> QED
    BY <1>1, <1>2, <2>2, SectorOf, Zenon
<1> HIDE DEF p, q, r
<1>5. r > q
  BY DEF r, q
<1>6. r > p
  BY <1>2, <1>4, <1>5
<1> QED
  BY <1>6 DEF r, p

\* The bytes of a download have values of their own.
LEMMA ByteType ==
  ASSUME NEW n \in 0 .. MaxSessions, NEW i \in 0 .. MaxLen
  PROVE  Byte(n, i) \in DataByte
<1>1. n * MaxLen \in Nat /\ n * MaxLen <= MaxSessions * MaxLen
  BY Layout
<1>2. MaxSessions * MaxLen \in Nat
  BY Layout
<1> QED
  BY <1>1, <1>2, Layout DEF Byte, DataByte

----------------------------------------------------------------------------
(* The operators of the flash chip.                                        *)

\* Erasing and writing change what they are told to.
LEMMA EraseMeaning ==
  ASSUME NEW f \in [Cell -> FlashByte], NEW ss
  PROVE  /\ spi_flash_erase_sector(f, ss) \in [Cell -> FlashByte]
         /\ \A a \in Cell : spi_flash_erase_sector(f, ss)[a] =
              IF a \div SECTOR_SIZE \in ss THEN Erased ELSE f[a]
BY DEF spi_flash_erase_sector, FlashByte

LEMMA WriteMeaning ==
  ASSUME NEW f \in [Cell -> FlashByte], NEW addr \in Int, NEW data \in Seq(DataByte)
  PROVE  /\ spi_flash_write(f, addr, data) \in [Cell -> FlashByte]
         /\ \A a \in Cell :
              /\ a < addr \/ a >= addr + Len(data)
                   => spi_flash_write(f, addr, data)[a] = f[a]
              /\ a >= addr /\ a < addr + Len(data) /\ f[a] = Erased
                   => spi_flash_write(f, addr, data)[a] = data[a - addr + 1]
<1>1. Len(data) \in Nat
  OBVIOUS
<1>2. \A a \in Cell : a \in Int
  BY Layout DEF Cell
<1>3. ASSUME NEW a \in Cell, a \in addr .. addr + Len(data) - 1
      PROVE  data[a - addr + 1] \in DataByte
  <2>1. a - addr + 1 \in 1 .. Len(data)
    BY <1>1, <1>2, <1>3
  <2> QED
    BY <2>1, ElementOfSeq
<1>4. spi_flash_write(f, addr, data) \in [Cell -> FlashByte]
  BY <1>3 DEF spi_flash_write, FlashByte
<1>5. ASSUME NEW a \in Cell
      PROVE  /\ a < addr \/ a >= addr + Len(data)
                  => spi_flash_write(f, addr, data)[a] = f[a]
             /\ a >= addr /\ a < addr + Len(data) /\ f[a] = Erased
                  => spi_flash_write(f, addr, data)[a] = data[a - addr + 1]
  BY <1>1, <1>2 DEF spi_flash_write
<1> QED
  BY <1>4, <1>5

----------------------------------------------------------------------------
(* One call of the writer.                                                 *)

\* A function on 1 .. n is a sequence.
LEMMA FunctionIsSeq ==
  ASSUME NEW T, NEW n \in Nat, NEW f \in [1 .. n -> T]
  PROVE  f \in Seq(T) /\ Len(f) = n
<1>1. f \in Seq(T)
  BY SeqDef
<1>2. DOMAIN f = 1 .. Len(f) /\ Len(f) \in Nat
  BY <1>1, LenProperties
<1> QED
  BY <1>1, <1>2

\* The bytes a call works on: whole words of them are written.
LEMMA BufferMeaning ==
  ASSUME IInv, NEW k \in 1 .. MaxChunk, session > 0, got + k <= MaxLen
  PROVE  /\ Buffer(k) \in Seq(DataByte)
         /\ Len(Buffer(k)) = Len(status.extra) + k
         /\ WordLen(k) \in 0 .. Len(Buffer(k))
         /\ WordLen(k) % 4 = 0
         /\ Len(Buffer(k)) - WordLen(k) \in 0 .. 3
         /\ ~failed => \A i \in 1 .. Len(Buffer(k)) :
              Buffer(k)[i] = Byte(session, status.start_addr - Start + i - 1)
<1> DEFINE new == [i \in 1 .. k |-> Byte(session, got + i - 1)]
<1>1. /\ status.extra \in Seq(DataByte) /\ Len(status.extra) \in Nat
      /\ status.start_addr \in Int
      /\ session \in 0 .. MaxSessions /\ got \in 0 .. MaxLen /\ len \in 0 .. MaxLen
      /\ k \in Nat
  BY BoundsAssumption DEF IInv, StatusOK, TypeOK
<1>2. \A i \in 1 .. k : Byte(session, got + i - 1) \in DataByte
  <2> TAKE i \in 1 .. k
  <2>1. got + i - 1 \in 0 .. MaxLen
    BY <1>1, Layout
  <2> QED
    BY <1>1, <2>1, ByteType
<1>3. new \in Seq(DataByte) /\ Len(new) = k
  <2>1. new \in [1 .. k -> DataByte]
    BY <1>2
  <2> QED
    BY <1>1, <2>1, FunctionIsSeq
<1>4. /\ Buffer(k) \in Seq(DataByte)
      /\ Len(Buffer(k)) = Len(status.extra) + k
      /\ \A i \in 1 .. Len(status.extra) + k : Buffer(k)[i] =
           IF i <= Len(status.extra) THEN status.extra[i] ELSE new[i - Len(status.extra)]
  <2> HIDE DEF new
  <2> QED
    BY <1>1, <1>3, ConcatProperties DEF Buffer, new
<1> HIDE DEF new
<1>5. \A n \in Nat : /\ n - (n % 4) \in 0 .. n
                     /\ (n - (n % 4)) % 4 = 0
                     /\ n - (n - (n % 4)) \in 0 .. 3
  OBVIOUS
<1>6. /\ WordLen(k) \in 0 .. Len(Buffer(k))
      /\ WordLen(k) % 4 = 0
      /\ Len(Buffer(k)) - WordLen(k) \in 0 .. 3
  <2>1. Len(Buffer(k)) \in Nat
    BY <1>4
  <2> QED
    BY <2>1, <1>5 DEF WordLen
<1>7. ASSUME ~failed, NEW i \in 1 .. Len(Buffer(k))
      PROVE  Buffer(k)[i] = Byte(session, status.start_addr - Start + i - 1)
  <2>1. status.start_addr - Start + Len(status.extra) = got
    BY <1>7 DEF IInv, StreamStored
  <2>2. \A j \in 1 .. Len(status.extra) :
          status.extra[j] = Byte(session, status.start_addr - Start + j - 1)
    BY <1>7 DEF IInv, StreamStored
  <2>3. CASE i <= Len(status.extra)
    BY <1>1, <1>4, <2>2, <2>3
  <2>4. CASE i > Len(status.extra)
    <3>1. i - Len(status.extra) \in 1 .. k
      BY <1>1, <1>4, <2>4
    <3>2. \A p, e \in Int : p + e = got => got + (i - e) - 1 = p + i - 1
      BY <1>1
    <3>3. status.start_addr - Start \in Int /\ Len(status.extra) \in Int
      BY <1>1, Layout
    <3>4. Buffer(k)[i] = new[i - Len(status.extra)]
      BY <1>1, <1>4, <2>4
    <3>5. new[i - Len(status.extra)] = Byte(session, got + (i - Len(status.extra)) - 1)
      BY <3>1 DEF new
    <3>6. got + (i - Len(status.extra)) - 1 = status.start_addr - Start + i - 1
      BY <2>1, <3>2, <3>3, Zenon
    <3> QED
      BY <3>4, <3>5, <3>6
  <2> QED
    BY <1>1, <1>4, <2>3, <2>4
<1> QED
  BY <1>4, <1>6, <1>7

\* What a call leaves behind.  Erasing the sectors of bad and writing all but
\* the first m bytes fail.
WriterStep(k, bad, m) ==
  /\ bad \subseteq ToErase(k)
  /\ m \in 0 .. WordLen(k)
  /\ (bad = {} /\ m = WordLen(k)) \/ (~failed /\ m % 4 = 0)
  /\ failed' = (failed \/ bad # {} \/ m < WordLen(k))
  /\ flash' = spi_flash_write(spi_flash_erase_sector(flash, ToErase(k) \ bad),
                              status.start_addr, SubSeq(Buffer(k), 1, m))
  /\ status' = [start_addr |-> status.start_addr + (IF m < WordLen(k) THEN 0 ELSE m),
                last_sector_erased |-> IF ToErase(k) = {} THEN status.last_sector_erased
                                                          ELSE lastsect(k),
                extra |-> SubSeq(Buffer(k), WordLen(k) + 1, Len(Buffer(k)))]

LEMMA WriterStepExists ==
  ASSUME NEW k \in 1 .. MaxChunk, rboot_write_flash(k)
  PROVE  /\ \E bad, m : WriterStep(k, bad, m)
         /\ session > 0 /\ got + k <= MaxLen /\ got' = got + k
         /\ session' = session /\ len' = len
         /\ most' = IF got + k > most THEN got + k ELSE most
BY DEF rboot_write_flash, WriterStep, Receive

LEMMA WriterStepMeaning ==
  ASSUME IInv, NEW k \in 1 .. MaxChunk, session > 0, got + k <= MaxLen,
         NEW bad, NEW m, WriterStep(k, bad, m)
  PROVE  LET pos  == status.start_addr
             last == status.last_sector_erased
             w    == WordLen(k)
         IN  /\ pos \in Int /\ pos >= Start /\ pos % 4 = 0 /\ last \in Int
             /\ w \in Nat /\ w % 4 = 0 /\ m \in 0 .. w
             /\ status' \in [start_addr : Int, last_sector_erased : Int,
                             extra : Seq(DataByte)]
             /\ status'.start_addr = pos + (IF m < w THEN 0 ELSE m)
             /\ Len(status'.extra) = Len(status.extra) + k - w
             /\ Len(status'.extra) \in 0 .. 3
             /\ \A i \in 1 .. Len(status'.extra) : status'.extra[i] = Buffer(k)[w + i]
             /\ last <= status'.last_sector_erased
             /\ pos + w <= (status'.last_sector_erased + 1) * SECTOR_SIZE
             /\ \/ status'.last_sector_erased = last
                \/ status'.last_sector_erased * SECTOR_SIZE <= pos + w - 1
             /\ pos + w - Start <= got + k
             /\ lastsect(k) \in Int
<1> DEFINE pos  == status.start_addr
           last == status.last_sector_erased
           w    == WordLen(k)
           buf  == Buffer(k)
<1>1. /\ pos \in Int /\ last \in Int /\ pos >= Start /\ pos % 4 = 0
      /\ status.extra \in Seq(DataByte) /\ Len(status.extra) \in Nat
      /\ k \in Nat /\ got \in Nat
      /\ pos - Start + Len(status.extra) <= got
      /\ pos <= (last + 1) * SECTOR_SIZE
  BY BoundsAssumption, Layout DEF IInv, StatusOK, TypeOK, Progress, Reached
<1>2. /\ buf \in Seq(DataByte)
      /\ Len(buf) = Len(status.extra) + k
      /\ w \in 0 .. Len(buf) /\ w \in Nat /\ w % 4 = 0
      /\ Len(buf) - w \in 0 .. 3
  BY <1>1, BufferMeaning
<1>3. /\ m \in 0 .. w
      /\ status' = [start_addr |-> pos + (IF m < w THEN 0 ELSE m),
                    last_sector_erased |-> IF ToErase(k) = {} THEN last
                                                              ELSE lastsect(k),
                    extra |-> SubSeq(buf, w + 1, Len(buf))]
  BY DEF WriterStep
<1> HIDE DEF pos, last, w, buf
<1>4. /\ lastsect(k) \in Int
      /\ lastsect(k) * SECTOR_SIZE <= pos + w - 1
      /\ pos + w - 1 < (lastsect(k) + 1) * SECTOR_SIZE
      /\ lastsect(k) <= last => pos + w - 1 < (last + 1) * SECTOR_SIZE
  <2> DEFINE a == pos + w - 1
  <2>1. a \in Int
    BY <1>1, <1>2
  <2>2. lastsect(k) = a \div SECTOR_SIZE
    BY DEF lastsect, pos, w
  <2> HIDE DEF a
  <2>3. lastsect(k) \in Int
    BY <2>1, <2>2, SectorOf
  <2>4. /\ lastsect(k) * SECTOR_SIZE <= a
        /\ a < (lastsect(k) + 1) * SECTOR_SIZE
        /\ lastsect(k) <= last => a < (last + 1) * SECTOR_SIZE
    <3>1. lastsect(k) <= a \div SECTOR_SIZE /\ a \div SECTOR_SIZE <= lastsect(k)
      BY <2>2, <2>3
    <3>2. /\ lastsect(k) * SECTOR_SIZE <= a
          /\ a < (lastsect(k) + 1) * SECTOR_SIZE
      BY <2>1, <2>3, <3>1, SectorOf, Zenon
    <3>3. lastsect(k) <= last => a < (last + 1) * SECTOR_SIZE
      BY <1>1, <2>1, <2>2, SectorOf, Zenon
    <3> QED
      BY <3>2, <3>3
  <2> QED
    BY <2>3, <2>4 DEF a
<1>5. ToErase(k) = {} <=> lastsect(k) <= last
  BY <1>1, <1>4 DEF ToErase, last
<1>6. /\ SubSeq(buf, w + 1, Len(buf)) \in Seq(DataByte)
      /\ Len(SubSeq(buf, w + 1, Len(buf))) = Len(buf) - w
      /\ \A i \in 1 .. Len(buf) - w : SubSeq(buf, w + 1, Len(buf))[i] = buf[w + i]
  <2>1. \A i \in w + 1 .. Len(buf) : buf[i] \in DataByte
    BY <1>1, <1>2, ElementOfSeq
  <2> QED
    BY <1>1, <1>2, <2>1, SubSeqProperties
<1>7. /\ status'.start_addr = pos + (IF m < w THEN 0 ELSE m)
      /\ status'.last_sector_erased = IF ToErase(k) = {} THEN last ELSE lastsect(k)
      /\ status'.extra = SubSeq(buf, w + 1, Len(buf))
  BY <1>3
<1>8. status'.start_addr \in Int
  BY <1>1, <1>2, <1>3, <1>7
<1>9. status' \in [start_addr : Int, last_sector_erased : Int, extra : Seq(DataByte)]
  BY <1>1, <1>3, <1>4, <1>6, <1>7, <1>8
<1>10. /\ last <= status'.last_sector_erased
       /\ pos + w <= (status'.last_sector_erased + 1) * SECTOR_SIZE
       /\ \/ status'.last_sector_erased = last
          \/ status'.last_sector_erased * SECTOR_SIZE <= pos + w - 1
  <2>1. /\ (lastsect(k) + 1) * SECTOR_SIZE \in Int
        /\ (last + 1) * SECTOR_SIZE \in Int
    BY <1>1, <1>4, Layout
  <2>2. CASE lastsect(k) <= last
    <3>1. status'.last_sector_erased = last
      BY <1>5, <1>7, <2>2
    <3>2. pos + w - 1 < (last + 1) * SECTOR_SIZE
      BY <1>4, <2>2
    <3>3. \A x \in Int : pos + w - 1 < x => pos + w <= x
      BY <1>1, <1>2
    <3>4. pos + w <= (last + 1) * SECTOR_SIZE
      BY <2>1, <3>2, <3>3, Zenon
    <3>5. last <= last
      BY <1>1
    <3> QED
      BY <3>1, <3>4, <3>5, Zenon
  <2>3. CASE ~(lastsect(k) <= last)
    <3>1. status'.last_sector_erased = lastsect(k)
      BY <1>5, <1>7, <2>3
    <3>2. pos + w - 1 < (lastsect(k) + 1) * SECTOR_SIZE
      BY <1>4
    <3>3. \A x \in Int : pos + w - 1 < x => pos + w <= x
      BY <1>1, <1>2
    <3>4. pos + w <= (lastsect(k) + 1) * SECTOR_SIZE
      BY <2>1, <3>2, <3>3, Zenon
    <3>5. last <= lastsect(k)
      <4>1. last \in Int /\ lastsect(k) \in Int
        BY <1>1, <1>4
      <4> QED
        BY <2>3, <4>1
    <3> QED
      BY <1>4, <3>1, <3>4, <3>5, Zenon
  <2> QED
    BY <2>2, <2>3
<1>11. /\ Len(status'.extra) = Len(status.extra) + k - w
       /\ Len(status'.extra) \in 0 .. 3
       /\ \A i \in 1 .. Len(status'.extra) : status'.extra[i] = buf[w + i]
  <2>1. Len(status'.extra) = Len(buf) - w
    BY <1>6, <1>7
  <2>2. \A i \in 1 .. Len(buf) - w : status'.extra[i] = buf[w + i]
    BY <1>6, <1>7
  <2>3. \A n, b \in Int : b = n + k => b - w = n + k - w
    BY <1>1, <1>2
  <2>4. Len(buf) \in Int /\ Len(status.extra) \in Int
    BY <1>1, <1>2
  <2>5. Len(buf) - w = Len(status.extra) + k - w
    BY <1>2, <2>3, <2>4, Zenon
  <2> QED
    BY <1>2, <2>1, <2>2, <2>5, Zenon
<1>12. pos + w - Start <= got + k
  <2>1. Start \in Int /\ Len(status.extra) \in Int /\ Len(buf) \in Int
    BY <1>1, <1>2, Layout
  <2>2. \A n, b \in Int : pos - Start + n <= got /\ b = n + k /\ w <= b
                           => pos + w - Start <= got + k
    BY <1>1, <1>2, <2>1
  <2>3. w <= Len(buf)
    BY <1>2, <2>1
  <2> QED
    BY <1>1, <1>2, <2>1, <2>2, <2>3, Zenon
<1> QED
  BY <1>1, <1>2, <1>3, <1>4, <1>7, <1>9, <1>10, <1>11, <1>12 DEF pos, last, w, buf

\* Multiples compare as their factors.
LEMMA MultipleOrder ==
  ASSUME NEW x \in Int, NEW y \in Int, x * SECTOR_SIZE < y * SECTOR_SIZE
  PROVE  x < y
<1>1. y <= x => y * SECTOR_SIZE <= x * SECTOR_SIZE
  BY Layout
<1>2. x * SECTOR_SIZE \in Int /\ y * SECTOR_SIZE \in Int
  BY Layout
<1> QED
  BY <1>1, <1>2

\* The sectors a call erases lie behind those that are erased.
LEMMA ToEraseMeaning ==
  ASSUME IInv, NEW k \in 1 .. MaxChunk, session > 0, got + k <= MaxLen,
         NEW bad, NEW m, WriterStep(k, bad, m), NEW a \in Cell
  PROVE  /\ a \in Int /\ a \div SECTOR_SIZE \in Int
         /\ a \div SECTOR_SIZE \in ToErase(k) <=>
              /\ status.last_sector_erased < a \div SECTOR_SIZE
              /\ a \div SECTOR_SIZE <= status'.last_sector_erased
         /\ a < status.start_addr + WordLen(k)
              => a \div SECTOR_SIZE <= status'.last_sector_erased
         /\ a < status.start_addr
              => a \div SECTOR_SIZE <= status.last_sector_erased
<1> DEFINE last == status.last_sector_erased
           next == status'.last_sector_erased
           stop  == status.start_addr + WordLen(k)
<1>1. a \in Int /\ a \div SECTOR_SIZE \in Int
  BY Layout, SectorOf DEF Cell
<1>2. /\ last \in Int /\ next \in Int /\ stop \in Int /\ last <= next
      /\ stop <= (next + 1) * SECTOR_SIZE
  BY WriterStepMeaning
<1>3. next = IF ToErase(k) = {} THEN last ELSE lastsect(k)
  BY DEF WriterStep
<1>4. lastsect(k) \in Int
  BY WriterStepMeaning
<1>5. status.start_addr \in Int /\ status.start_addr <= (last + 1) * SECTOR_SIZE
  BY DEF IInv, Reached, StatusOK
<1>6. ToErase(k) = last + 1 .. lastsect(k)
  BY DEF ToErase
<1> HIDE DEF last, next, stop
<1>7. \A s \in Int : s \in ToErase(k) <=> last < s /\ s <= next
  BY <1>2, <1>3, <1>4, <1>6
<1>8. (next + 1) * SECTOR_SIZE \in Int /\ (last + 1) * SECTOR_SIZE \in Int
  BY <1>2, Layout
<1>9. /\ a < (next + 1) * SECTOR_SIZE => a \div SECTOR_SIZE <= next
      /\ a < (last + 1) * SECTOR_SIZE => a \div SECTOR_SIZE <= last
  BY <1>1, <1>2, SectorOf, Zenon
<1>10. a < stop => a < (next + 1) * SECTOR_SIZE
  BY <1>1, <1>2, <1>8
<1>11. a < status.start_addr => a < (last + 1) * SECTOR_SIZE
  BY <1>1, <1>5, <1>8
<1> QED
  BY <1>1, <1>7, <1>9, <1>10, <1>11 DEF last, next, stop

\* The flash after a call.
LEMMA WriterFlash ==
  ASSUME IInv, NEW k \in 1 .. MaxChunk, session > 0, got + k <= MaxLen,
         NEW bad, NEW m, WriterStep(k, bad, m)
  PROVE  LET pos == status.start_addr
         IN  /\ flash' \in [Cell -> FlashByte]
             /\ \A a \in Cell :
                  /\ a \div SECTOR_SIZE \notin ToErase(k) /\ (a < pos \/ a >= pos + m)
                       => flash'[a] = flash[a]
                  /\ a \div SECTOR_SIZE \in ToErase(k) \ bad /\ a >= pos + m
                       => flash'[a] = Erased
                  /\ ~failed /\ bad = {} /\ pos <= a /\ a < pos + m
                       => flash'[a] = Buffer(k)[a - pos + 1]
<1> DEFINE pos   == status.start_addr
           empty == spi_flash_erase_sector(flash, ToErase(k) \ bad)
           data  == SubSeq(Buffer(k), 1, m)
<1>1. pos \in Int /\ m \in Int /\ m >= 0 /\ m <= WordLen(k) /\ WordLen(k) \in Int
  BY WriterStepMeaning
<1>2. flash \in [Cell -> FlashByte]
  BY DEF IInv, TypeOK, FlashByte, DataByte
<1>3. /\ empty \in [Cell -> FlashByte]
      /\ \A a \in Cell : empty[a] =
           IF a \div SECTOR_SIZE \in ToErase(k) \ bad THEN Erased ELSE flash[a]
  BY <1>2, EraseMeaning
<1>4. /\ data \in Seq(DataByte) /\ Len(data) = m
      /\ \A i \in 1 .. m : data[i] = Buffer(k)[i]
  <2>1. Buffer(k) \in Seq(DataByte) /\ m <= Len(Buffer(k)) /\ Len(Buffer(k)) \in Nat
    BY <1>1, BufferMeaning
  <2>2. \A i \in 1 .. m : Buffer(k)[i] \in DataByte
    BY <1>1, <2>1, ElementOfSeq
  <2> QED
    BY <1>1, <2>2, SubSeqProperties
<1>5. flash' = spi_flash_write(empty, pos, data)
  BY DEF WriterStep
<1> HIDE DEF pos, empty, data
<1>6. /\ flash' \in [Cell -> FlashByte]
      /\ \A a \in Cell :
           /\ a < pos \/ a >= pos + m => flash'[a] = empty[a]
           /\ a >= pos /\ a < pos + m /\ empty[a] = Erased
                => flash'[a] = data[a - pos + 1]
  BY <1>1, <1>3, <1>4, <1>5, WriteMeaning
<1>7. ASSUME NEW a \in Cell
      PROVE  /\ a \div SECTOR_SIZE \notin ToErase(k) /\ (a < pos \/ a >= pos + m)
                  => flash'[a] = flash[a]
             /\ a \div SECTOR_SIZE \in ToErase(k) \ bad /\ a >= pos + m
                  => flash'[a] = Erased
             /\ ~failed /\ bad = {} /\ pos <= a /\ a < pos + m
                  => flash'[a] = Buffer(k)[a - pos + 1]
  <2>1. a \in Int
    BY ToEraseMeaning
  <2>2. a \div SECTOR_SIZE \notin ToErase(k) /\ (a < pos \/ a >= pos + m)
          => flash'[a] = flash[a]
    BY <1>3, <1>6
  <2>3. a \div SECTOR_SIZE \in ToErase(k) \ bad /\ a >= pos + m
          => flash'[a] = Erased
    BY <1>3, <1>6
  <2>4. ASSUME ~failed, bad = {}, pos <= a, a < pos + m
        PROVE  flash'[a] = Buffer(k)[a - pos + 1]
    <3>1. a < status.start_addr + WordLen(k)
      BY <1>1, <2>1, <2>4 DEF pos
    <3>2. a \div SECTOR_SIZE \in ToErase(k) => empty[a] = Erased
      BY <1>3, <2>4
    <3>3. ASSUME a \div SECTOR_SIZE \notin ToErase(k)
          PROVE  empty[a] = Erased
      <4>1. a \div SECTOR_SIZE <= status.last_sector_erased
        <5>1. status.last_sector_erased \in Int
          BY DEF IInv, StatusOK
        <5> QED
          BY <3>1, <3>3, <5>1, ToEraseMeaning
      <4>2. flash[a] = Erased
        BY <2>1, <2>4, <4>1 DEF IInv, EmptyAhead, pos
      <4> QED
        BY <1>3, <3>3, <4>2
    <3>4. empty[a] = Erased
      BY <3>2, <3>3
    <3>5. a - pos + 1 \in 1 .. m
      BY <1>1, <2>1, <2>4
    <3> QED
      BY <1>4, <1>6, <2>1, <2>4, <3>4, <3>5
  <2> QED
    BY <2>2, <2>3, <2>4
<1> QED
  BY <1>6, <1>7 DEF pos

\* What is written stays: a call erases no sector that holds some of it.
LEMMA WriterKeeps ==
  ASSUME IInv, NEW k \in 1 .. MaxChunk, session > 0, got + k <= MaxLen,
         NEW bad, NEW m, WriterStep(k, bad, m),
         NEW a \in Cell, a < status.start_addr
  PROVE  flash'[a] = flash[a]
<1>1. status.last_sector_erased \in Int
  BY DEF IInv, StatusOK
<1>2. a \div SECTOR_SIZE \notin ToErase(k)
  BY <1>1, ToEraseMeaning
<1> QED
  BY <1>2, WriterFlash

----------------------------------------------------------------------------
(* The invariant.                                                          *)

\* What rboot_write_init returns for the slot.
LEMMA InitStatus ==
  LET st == rboot_write_init(Start)
  IN  /\ st \in [start_addr : Int, last_sector_erased : Int, extra : Seq(DataByte)]
      /\ st.start_addr = Start
      /\ st.last_sector_erased = StartSector - 1
      /\ st.extra = << >> /\ Len(st.extra) = 0
<1>1. Start \div SECTOR_SIZE = StartSector
  <2>1. /\ Start \div SECTOR_SIZE \in Int
        /\ StartSector <= Start \div SECTOR_SIZE
        /\ Start < (StartSector + 1) * SECTOR_SIZE
    BY Layout, SectorOf
  <2>2. Start \div SECTOR_SIZE <= StartSector
    BY <2>1, Layout, SectorOf
  <2> QED
    BY <2>1, <2>2, Layout
<1>2. StartSector - 1 \in Int /\ Start \in Int
  BY Layout
<1>3. << >> \in Seq(DataByte) /\ Len(<< >>) = 0
  OBVIOUS
<1> QED
  BY <1>1, <1>2, <1>3 DEF rboot_write_init

\* A download that has not received anything yet.
Fresh ==
  /\ status = rboot_write_init(Start)
  /\ got = 0
  /\ len \in 0 .. MaxLen
  /\ most \in 0 .. MaxLen
  /\ session \in 0 .. MaxSessions
  /\ failed \in BOOLEAN
  /\ flash \in [Cell -> FlashByte]
  /\ NeighboursIntact

\* It has the invariant.
LEMMA FreshSession == Fresh => IInv
<1> SUFFICES ASSUME Fresh
             PROVE  IInv
  OBVIOUS
<1> USE DEF Fresh
<1>1. /\ status \in [start_addr : Int, last_sector_erased : Int, extra : Seq(DataByte)]
      /\ status.start_addr = Start
      /\ status.last_sector_erased = StartSector - 1
      /\ status.extra = << >> /\ Len(status.extra) = 0
  BY InitStatus
<1>2. TypeOK
  <2>1. StartSector - 1 \in StartSector - 1 .. Sectors - 1
    <3>1. StartSector * SECTOR_SIZE <= Sectors * SECTOR_SIZE
      BY Layout
    <3>2. ~(Sectors < StartSector)
      <4>1. Sectors < StartSector => Sectors * SECTOR_SIZE < StartSector * SECTOR_SIZE
        BY Layout
      <4> QED
        BY <3>1, <4>1, Layout
    <3> QED
      BY <3>2, Layout
  <2> QED
    BY <1>1, <2>1, Layout DEF TypeOK, FlashByte, DataByte
<1>3. Progress
  BY <1>1, Layout DEF Progress
<1>4. Reached
  BY <1>1, Layout DEF Reached
<1>5. EmptyAhead
  <2> SUFFICES ASSUME NEW a \in Cell, a >= Start,
                      a \div SECTOR_SIZE <= StartSector - 1
               PROVE  FALSE
    BY <1>1 DEF EmptyAhead
  <2>1. a \in Int
    BY Layout DEF Cell
  <2>2. StartSector <= a \div SECTOR_SIZE /\ a \div SECTOR_SIZE \in Int
    BY <2>1, Layout, SectorOf
  <2> QED
    BY <2>2, Layout
<1>6. StreamStored
  BY <1>1, Layout DEF StreamStored
<1> QED
  BY <1>1, <1>2, <1>3, <1>4, <1>5, <1>6 DEF IInv, StatusOK

\* Init gives the invariant.
LEMMA IInvInit == Init => IInv
<1> SUFFICES ASSUME Init
             PROVE  IInv
  OBVIOUS
<1>1. flash \in [Cell -> FlashByte] /\ NeighboursIntact
  BY DEF Init, FlashByte, NeighboursIntact
<1>2. /\ len \in 0 .. MaxLen /\ session \in 0 .. MaxSessions
      /\ got = 0 /\ most \in 0 .. MaxLen
  BY Layout DEF Init
<1>3. failed \in BOOLEAN /\ status = rboot_write_init(Start)
  BY Zenon DEF Init
<1> QED
  BY <1>1, <1>2, <1>3, FreshSession DEF Fresh

\* A new download keeps it.
LEMMA IInvNewSession == IInv /\ NewSession => IInv'
<1> SUFFICES ASSUME IInv, NewSession
             PROVE  IInv'
  OBVIOUS
<1>1. flash' \in [Cell -> FlashByte] /\ NeighboursIntact'
  BY DEF IInv, TypeOK, NewSession, FlashByte, DataByte, NeighboursIntact
<1>2. session' \in 0 .. MaxSessions
  BY Layout DEF IInv, TypeOK, NewSession
<1>3. len' \in 0 .. MaxLen /\ most' \in 0 .. MaxLen
  BY Layout DEF IInv, TypeOK, NewSession
<1>4. status' = rboot_write_init(Start) /\ got' = 0 /\ failed' \in BOOLEAN
  BY DEF NewSession
<1>5. Fresh'
  BY <1>1, <1>2, <1>3, <1>4 DEF Fresh
<1>6. Fresh' => IInv'
  BY FreshSession, PTL
<1> QED
  BY <1>5, <1>6

\* A chunk that is lost for want of memory keeps it.
LEMMA IInvNoMem ==
  ASSUME IInv, NEW k \in 1 .. MaxChunk, rboot_write_flash_NoMem(k)
  PROVE  IInv'
<1>1. /\ failed' = TRUE /\ got' = got + k /\ got' <= MaxLen /\ session > 0
      /\ most' = IF got + k > most THEN got + k ELSE most
      /\ UNCHANGED <<flash, status, session, len>>
  BY DEF rboot_write_flash_NoMem, Receive
<1>2. got' \in 0 .. MaxLen /\ most' \in 0 .. MaxLen /\ most <= most' /\ most \in Int
  BY <1>1, BoundsAssumption, Layout DEF IInv, TypeOK
<1>3. TypeOK'
  BY <1>1, <1>2 DEF IInv, TypeOK
<1>4. Progress'
  <2>1. got \in Int /\ k \in Nat /\ status.start_addr - Start + Len(status.extra) \in Int
    BY BoundsAssumption, Layout DEF IInv, TypeOK, StatusOK
  <2> QED
    BY <1>1, <1>2, <2>1 DEF IInv, Progress
<1>5. StatusOK' /\ Reached'
  BY <1>1 DEF IInv, StatusOK, Reached
<1>7. NeighboursIntact'
  <2> SUFFICES ASSUME NEW a \in Cell,
                      a < Start \/ (a - Start) \div SECTOR_SIZE > (most' - 1) \div SECTOR_SIZE
               PROVE  flash[a] = Old
    BY <1>1 DEF NeighboursIntact
  <2>1. a \in Int
    BY Layout DEF Cell
  <2> QED
    BY <1>2, <2>1, ReachGrows DEF IInv, NeighboursIntact
<1>6. EmptyAhead' /\ StreamStored'
  BY <1>1 DEF EmptyAhead, StreamStored
<1> QED
  BY <1>3, <1>4, <1>5, <1>6, <1>7 DEF IInv

\* A call that gets its memory keeps it, wherever erasing and writing fail.
LEMMA IInvWrite ==
  ASSUME IInv, NEW k \in 1 .. MaxChunk, rboot_write_flash(k)
  PROVE  IInv'
<1>1. PICK bad, m : WriterStep(k, bad, m)
  BY WriterStepExists
<1>2. /\ session > 0 /\ got + k <= MaxLen /\ got' = got + k
      /\ session' = session /\ len' = len
      /\ most' = IF got + k > most THEN got + k ELSE most
  BY WriterStepExists
<1> DEFINE pos  == status.start_addr
           last == status.last_sector_erased
           next == status'.last_sector_erased
           w    == WordLen(k)
<1>3. /\ pos \in Int /\ pos >= Start /\ pos % 4 = 0 /\ last \in Int /\ next \in Int
      /\ w \in Nat /\ w % 4 = 0 /\ m \in 0 .. w
      /\ status' \in [start_addr : Int, last_sector_erased : Int, extra : Seq(DataByte)]
      /\ status'.start_addr = pos + (IF m < w THEN 0 ELSE m)
      /\ Len(status'.extra) = Len(status.extra) + k - w
      /\ Len(status'.extra) \in 0 .. 3
      /\ \A i \in 1 .. Len(status'.extra) : status'.extra[i] = Buffer(k)[w + i]
      /\ last <= next
      /\ pos + w <= (next + 1) * SECTOR_SIZE
      /\ next = last \/ next * SECTOR_SIZE <= pos + w - 1
      /\ pos + w - Start <= got + k
  BY <1>1, <1>2, WriterStepMeaning
<1>4. /\ got \in Nat /\ k \in Nat /\ most \in 0 .. MaxLen
      /\ last >= StartSector - 1 /\ last <= Sectors - 1
      /\ Len(status.extra) \in Nat
      /\ pos - Start + Len(status.extra) <= got
  BY <1>2, BoundsAssumption, Layout DEF IInv, TypeOK, Progress, StatusOK
<1>5. /\ failed' = (failed \/ bad # {} \/ m < w)
      /\ failed \in BOOLEAN
  BY <1>1 DEF WriterStep, IInv, TypeOK
<1>6. flash' \in [Cell -> FlashByte]
  BY <1>1, <1>2, WriterFlash
<1> HIDE DEF pos, last, next, w
<1>7. status'.start_addr \in pos .. pos + w
  BY <1>3
<1>8. TypeOK'
  <2>1. status'.start_addr \in Start .. Start + MaxLen
    BY <1>2, <1>3, <1>4, <1>7, Layout
  <2>2. status'.start_addr % 4 = 0
    <3>1. \A x, y \in Int : x % 4 = 0 /\ y % 4 = 0 => (x + y) % 4 = 0
      OBVIOUS
    <3>2. status'.start_addr = pos \/ status'.start_addr = pos + w
      BY <1>3
    <3>3. pos \in Int /\ pos % 4 = 0 /\ w \in Int /\ w % 4 = 0
      BY <1>3
    <3>4. (pos + w) % 4 = 0
      BY <3>1, <3>3, Zenon
    <3> QED
      BY <3>2, <3>3, <3>4, Zenon
  <2>3. next \in StartSector - 1 .. Sectors - 1
    <3>1. ASSUME next * SECTOR_SIZE <= pos + w - 1
          PROVE  next < Sectors
      <4>1. next * SECTOR_SIZE < Sectors * SECTOR_SIZE
        <5>1. next * SECTOR_SIZE \in Int
          BY <1>3, Layout
        <5>2. pos + w - 1 < Start + MaxLen
          BY <1>2, <1>3, <1>4, Layout
        <5>3. \A x, y, z, v \in Int : x <= y /\ y < z /\ z <= v => x < v
          OBVIOUS
        <5>4. /\ pos + w - 1 \in Int /\ Start + MaxLen \in Int
              /\ Sectors * SECTOR_SIZE \in Int
              /\ Start + MaxLen <= Sectors * SECTOR_SIZE
          BY <1>3, Layout
        <5> QED
          BY <3>1, <5>1, <5>2, <5>3, <5>4, Zenon
      <4> QED
        BY <1>3, <4>1, MultipleOrder, Layout
    <3> QED
      BY <1>3, <1>4, <3>1, Layout
  <2>4. got' \in 0 .. MaxLen
    BY <1>2, <1>4, Layout
  <2>5. failed' \in BOOLEAN /\ most' \in 0 .. MaxLen
    BY <1>2, <1>4, <1>5, Layout
  <2>6. /\ session' \in 0 .. MaxSessions /\ len' \in 0 .. MaxLen
        /\ Len(status'.extra) \in 0 .. 3
    BY <1>2, <1>3 DEF IInv, TypeOK
  <2> QED
    BY <1>6, <2>1, <2>2, <2>3, <2>4, <2>5, <2>6 DEF TypeOK, FlashByte, DataByte, next
<1>9. StatusOK'
  BY <1>3 DEF StatusOK
<1>10. Progress'
  <2>1. status'.start_addr - Start + Len(status'.extra) <= got'
    <3>1. Start \in Int /\ Len(status.extra) \in Int
      BY <1>4, Layout
    <3>2. \A x \in pos .. pos + w, n \in Int :
            pos - Start + n <= got => x - Start + (n + k - w) <= got + k
      BY <1>3, <1>4, <3>1
    <3>3. Len(status'.extra) = Len(status.extra) + k - w
      BY <1>3
    <3> QED
      BY <1>2, <1>4, <1>7, <3>1, <3>2, <3>3
  <2> QED
    BY <1>2, <1>4, <2>1 DEF Progress
<1>11. Reached'
  <2>1. (next + 1) * SECTOR_SIZE \in Int
    BY <1>3, Layout
  <2> QED
    BY <1>3, <1>7, <2>1 DEF Reached, next
<1>12. /\ pos \in Int /\ w \in Int /\ w >= 0 /\ pos >= Start
       /\ Start \in Int /\ Start >= 0 /\ MaxLen \in Int
       /\ pos + w - Start <= MaxLen
  <2>1. got + k <= MaxLen
    BY <1>2, <1>4, Layout
  <2>2. got + k \in Int /\ MaxLen \in Int /\ Start \in Int /\ Start >= 0
    BY <1>4, Layout
  <2>3. /\ pos \in Int /\ w \in Int /\ w >= 0 /\ pos >= Start
        /\ pos + w - Start <= got + k
    BY <1>3
  <2> QED
    BY <2>1, <2>2, <2>3
<1>13. ASSUME ~failed'
       PROVE  /\ ~failed /\ bad = {} /\ m = w
              /\ status'.start_addr = pos + w
  <2>1. ~failed /\ bad = {} /\ ~(m < w)
    BY <1>5, <1>13
  <2>2. m \in 0 .. w /\ status'.start_addr = pos + (IF m < w THEN 0 ELSE m)
    BY <1>3
  <2>3. m = w
    BY <1>12, <2>1, <2>2
  <2> QED
    BY <2>1, <2>2, <2>3
<1>14. EmptyAhead'
  <2> SUFFICES ASSUME ~failed', NEW a \in Cell, a >= status'.start_addr,
                      a \div SECTOR_SIZE <= next
               PROVE  flash'[a] = Erased
    BY DEF EmptyAhead, next
  <2>1. ~failed /\ bad = {} /\ m = w /\ a >= pos + w
    BY <1>13
  <2>2. /\ a \in Int /\ a \div SECTOR_SIZE \in Int
        /\ a \div SECTOR_SIZE \in ToErase(k)
             <=> last < a \div SECTOR_SIZE /\ a \div SECTOR_SIZE <= next
    BY <1>1, <1>2, ToEraseMeaning DEF last, next
  <2>3. CASE a \div SECTOR_SIZE <= last
    <3>1. a >= pos
      BY <1>3, <2>1, <2>2
    <3>2. flash[a] = Erased
      BY <2>1, <2>3, <3>1 DEF IInv, EmptyAhead, pos, last
    <3>3. a \div SECTOR_SIZE \notin ToErase(k)
      BY <1>3, <2>2, <2>3
    <3> QED
      BY <1>1, <1>2, <2>1, <3>2, <3>3, WriterFlash DEF pos, w
  <2>4. CASE last < a \div SECTOR_SIZE
    <3>1. a \div SECTOR_SIZE \in ToErase(k) \ bad
      BY <2>1, <2>2, <2>4
    <3> QED
      BY <1>1, <1>2, <2>1, <3>1, WriterFlash DEF pos, w
  <2> QED
    BY <1>3, <2>2, <2>3, <2>4
<1>15. StreamStored'
  <2> SUFFICES ASSUME ~failed'
               PROVE  /\ status'.start_addr - Start + Len(status'.extra) = got'
                      /\ \A i \in 0 .. status'.start_addr - Start - 1 :
                           flash'[Start + i] = Byte(session, i)
                      /\ \A i \in 1 .. Len(status'.extra) :
                           status'.extra[i] = Byte(session, status'.start_addr - Start + i - 1)
    BY <1>2 DEF StreamStored
  <2>1. ~failed /\ bad = {} /\ m = w /\ status'.start_addr = pos + w
    BY <1>13
  <2>2. /\ pos - Start + Len(status.extra) = got
        /\ \A i \in 0 .. pos - Start - 1 : flash[Start + i] = Byte(session, i)
    BY <1>2, <2>1 DEF IInv, StreamStored, pos
  <2>3. \A i \in 1 .. Len(Buffer(k)) : Buffer(k)[i] = Byte(session, pos - Start + i - 1)
    BY <1>2, <2>1, BufferMeaning DEF pos
  <2>4. Len(Buffer(k)) = Len(status.extra) + k /\ w \in 0 .. Len(Buffer(k))
    BY <1>2, BufferMeaning DEF w
  <2>5. status'.start_addr - Start + Len(status'.extra) = got'
    <3>1. \A n, x \in Int : pos - Start + n = got /\ x = n + k - w
                             => (pos + w) - Start + x = got + k
      BY <1>4, <1>12
    <3>2. Len(status.extra) \in Int /\ Len(status'.extra) \in Int
      BY <1>3, <1>4
    <3>3. Len(status'.extra) = Len(status.extra) + k - w
      BY <1>3
    <3> QED
      BY <1>2, <2>1, <2>2, <3>1, <3>2, <3>3, Zenon
  <2>6. ASSUME NEW i \in 0 .. status'.start_addr - Start - 1
        PROVE  flash'[Start + i] = Byte(session, i)
    <3>1. /\ i \in Int /\ i >= 0 /\ i < pos + w - Start
          /\ Start + i \in Cell
      <4>1. i \in Int /\ i >= 0 /\ i < pos + w - Start
        BY <1>12, <2>1
      <4>2. Start + i \in 0 .. Start + MaxLen - 1
        BY <1>12, <4>1
      <4> QED
        BY <4>1, <4>2, Layout DEF Cell
    <3>2. CASE Start + i < pos
      <4>1. flash'[Start + i] = flash[Start + i]
        BY <1>1, <1>2, <3>1, <3>2, WriterKeeps DEF pos
      <4>2. i \in 0 .. pos - Start - 1
        BY <1>12, <3>1, <3>2
      <4> QED
        BY <2>2, <4>1, <4>2
    <3>3. CASE Start + i >= pos
      <4> DEFINE j == (Start + i) - pos + 1
      <4>1. flash'[Start + i] = Buffer(k)[j]
        <5>1. pos <= Start + i /\ Start + i < pos + m
          BY <1>12, <2>1, <3>1, <3>3
        <5>2. \A a \in Cell : pos <= a /\ a < pos + m => flash'[a] = Buffer(k)[a - pos + 1]
          BY <1>1, <1>2, <2>1, WriterFlash DEF pos
        <5> QED
          BY <3>1, <5>1, <5>2, Zenon
      <4>2. j \in 1 .. w /\ pos - Start + j - 1 = i
        BY <1>12, <3>1, <3>3
      <4>3. j \in 1 .. Len(Buffer(k))
        <5>1. Len(Buffer(k)) \in Int
          BY <1>4, <2>4
        <5> QED
          BY <1>12, <2>4, <4>2, <5>1
      <4> QED
        BY <2>3, <4>1, <4>2, <4>3
    <3> QED
      BY <1>12, <3>1, <3>2, <3>3
  <2>7. ASSUME NEW i \in 1 .. Len(status'.extra)
        PROVE  status'.extra[i] = Byte(session, status'.start_addr - Start + i - 1)
    <3>1. w + i \in 1 .. Len(Buffer(k))
      <4>1. Len(status'.extra) = Len(status.extra) + k - w /\ Len(status'.extra) \in Int
        BY <1>3
      <4>2. Len(status.extra) \in Int /\ k \in Int
        BY <1>4
      <4>3. Len(Buffer(k)) = Len(status.extra) + k
        BY <2>4
      <4> QED
        BY <1>12, <4>1, <4>2, <4>3
    <3>2. status'.extra[i] = Buffer(k)[w + i]
      BY <1>3
    <3>3. pos - Start + (w + i) - 1 = status'.start_addr - Start + i - 1
      BY <1>12, <2>1
    <3> QED
      BY <2>3, <3>1, <3>2, <3>3
  <2> QED
    BY <2>5, <2>6, <2>7
<1>16. NeighboursIntact'
  <2> DEFINE n == got + k
  <2>0. /\ n \in Int /\ most \in Int /\ most' \in Int
        /\ n <= most' /\ most <= most'
    BY <1>2, <1>4
  <2> HIDE DEF n
  <2> SUFFICES ASSUME NEW a \in Cell,
                      a < Start \/ (a - Start) \div SECTOR_SIZE > (n - 1) \div SECTOR_SIZE
               PROVE  flash'[a] = flash[a]
    <3> SUFFICES ASSUME NEW a \in Cell,
                        a < Start \/ (a - Start) \div SECTOR_SIZE > (most' - 1) \div SECTOR_SIZE
                 PROVE  flash'[a] = Old
      BY DEF NeighboursIntact
    <3>1. a \in Int
      BY Layout DEF Cell
    <3>2. a < Start \/ (a - Start) \div SECTOR_SIZE > (n - 1) \div SECTOR_SIZE
      BY <2>0, <3>1, ReachGrows
    <3>3. a < Start \/ (a - Start) \div SECTOR_SIZE > (most - 1) \div SECTOR_SIZE
      BY <2>0, <3>1, ReachGrows
    <3>4. flash[a] = Old
      BY <3>3 DEF IInv, NeighboursIntact
    <3> QED
      BY <3>2, <3>4
  <2>1. /\ a \in Int /\ a \div SECTOR_SIZE \in Int
        /\ a \div SECTOR_SIZE \in ToErase(k)
             <=> last < a \div SECTOR_SIZE /\ a \div SECTOR_SIZE <= next
    BY <1>1, <1>2, ToEraseMeaning DEF last, next
  <2>2. CASE a < Start
    <3>1. a < pos
      BY <1>12, <2>1, <2>2
    <3> QED
      BY <1>1, <1>2, <3>1, WriterKeeps DEF pos
  <2>3. CASE (a - Start) \div SECTOR_SIZE > (n - 1) \div SECTOR_SIZE
    <3> DEFINE q == (n - 1) \div SECTOR_SIZE
    <3>1. n - 1 \in Int /\ a - Start \in Int
      BY <1>12, <2>0, <2>1
    <3>2. q \in Int /\ (a - Start) \div SECTOR_SIZE \in Int
      BY <3>1, Layout, DivBounds
    <3>3. q + 1 <= (a - Start) \div SECTOR_SIZE
      BY <2>3, <3>2
    <3> HIDE DEF q
    <3>4. (q + 1) * SECTOR_SIZE <= a - Start
      <4>1. q + 1 \in Int
        BY <3>2
      <4> QED
        BY <3>1, <3>3, <4>1, SectorOf
    <3>5. n - 1 < (q + 1) * SECTOR_SIZE
      <4>1. (n - 1) \div SECTOR_SIZE <= q
        BY <3>2 DEF q
      <4> QED
        BY <3>1, <3>2, <4>1, SectorOf
    <3>6. (q + 1) * SECTOR_SIZE \in Int
      BY <3>2, Layout
    <3>7. pos + w - Start <= n
      BY <1>3 DEF n
    <3>8. a >= pos + w
      <4>1. pos + w - Start <= n
        BY <3>7
      <4>2. n \in Int
        BY <2>0
      <4> QED
        BY <1>12, <2>1, <3>4, <3>5, <3>6, <4>1, <4>2
    <3>9. a >= pos + m
      BY <1>3, <1>12, <2>1, <3>8
    <3>10. next < a \div SECTOR_SIZE \/ next = last
      <4> SUFFICES ASSUME next * SECTOR_SIZE <= pos + w - 1
                   PROVE  next < a \div SECTOR_SIZE
        BY <1>3
      <4>1. (next - StartSector) * SECTOR_SIZE <= n - 1
        <5>1. (next - StartSector) * SECTOR_SIZE = next * SECTOR_SIZE - Start
          BY <1>3, Layout
        <5>2. next * SECTOR_SIZE \in Int
          BY <1>3, Layout
        <5> QED
          BY <1>12, <2>0, <3>7, <5>1, <5>2
      <4>2. next - StartSector \in Int
        BY <1>3, Layout
      <4>3. next - StartSector <= q
        BY <3>1, <4>1, <4>2, SectorOf DEF q
      <4>4. (StartSector + q + 1) * SECTOR_SIZE <= a
        <5>1. (StartSector + q + 1) * SECTOR_SIZE = Start + (q + 1) * SECTOR_SIZE
          BY <3>2, Layout
        <5> QED
          BY <1>12, <2>1, <3>4, <3>6, <5>1
      <4>5. StartSector + q + 1 \in Int
        BY <3>2, Layout
      <4>6. StartSector + q + 1 <= a \div SECTOR_SIZE
        BY <2>1, <4>4, <4>5, SectorOf
      <4>7. StartSector \in Int /\ next \in Int
        BY <1>3, Layout
      <4> QED
        BY <2>1, <3>2, <4>3, <4>6, <4>7
    <3>11. a \div SECTOR_SIZE \notin ToErase(k)
      BY <1>3, <2>1, <3>10
    <3> QED
      BY <1>1, <1>2, <3>9, <3>11, WriterFlash DEF pos
  <2> QED
    BY <2>2, <2>3
<1> QED
  BY <1>8, <1>9, <1>10, <1>11, <1>14, <1>15, <1>16 DEF IInv

\* Every step keeps the invariant.
LEMMA IInvStep == IInv /\ [Next]_vars => IInv'
<1> SUFFICES ASSUME IInv, [Next]_vars
             PROVE  IInv'
  OBVIOUS
<1>1. CASE NewSession
  BY <1>1, IInvNewSession
<1>2. CASE \E k \in 1 .. MaxChunk : rboot_write_flash_NoMem(k)
  BY <1>2, IInvNoMem
<1>3. CASE \E k \in 1 .. MaxChunk : rboot_write_flash(k)
  BY <1>3, IInvWrite
<1>4. CASE UNCHANGED vars
  BY <1>4 DEF vars, IInv, TypeOK, StatusOK, Progress, Reached, EmptyAhead,
              StreamStored, NeighboursIntact
<1> QED
  BY <1>1, <1>2, <1>3, <1>4 DEF Next

----------------------------------------------------------------------------
(* The theorems.                                                           *)

\* The invariant holds throughout: what rboot_write_flash has reached is
\* erased or written, whichever of its calls fail.
THEOREM WriterInvariance == Spec => []IInv
BY IInvInit, IInvStep, PTL DEF Spec

\* The writer keeps its types: it holds back at most three bytes and writes
\* whole words inside of the modelled flash.
THEOREM WriterTypeCorrect == Spec => []TypeOK
<1>1. IInv => TypeOK
  BY DEF IInv
<1> QED
  BY <1>1, WriterInvariance, PTL

\* However a download is cut into chunks, and whatever earlier downloads left
\* behind: as long as no call of rboot_write_flash fails, the slot and then
\* the bytes held back are the stream received so far.
THEOREM StreamIsStored == Spec => []StreamStored
<1>1. IInv => StreamStored
  BY DEF IInv
<1> QED
  BY <1>1, WriterInvariance, PTL

\* Whatever fails, and however much a server sends beyond its announcement,
\* rboot_write_flash touches no sector that the bytes received do not reach.
THEOREM NeighboursAreIntact == Spec => []NeighboursIntact
<1>1. IInv => NeighboursIntact
  BY DEF IInv
<1> QED
  BY <1>1, WriterInvariance, PTL

\* Whatever fails, no call of rboot_write_flash changes bytes that an earlier
\* call of the same download has written.
THEOREM BytesWrittenOnce == Spec => WrittenOnce
<1>1. ASSUME IInv, [Next]_vars, session' = session,
             NEW a \in Start .. status.start_addr - 1
      PROVE  flash'[a] = flash[a]
  <2>1. status.start_addr \in Start .. Start + MaxLen
    BY <1>1 DEF IInv, TypeOK
  <2>2. a \in Cell /\ a < status.start_addr
    <3>1. a \in Int /\ 0 <= a /\ a < Start + MaxLen /\ a < status.start_addr
      BY <2>1, Layout
    <3> QED
      BY <3>1, Layout DEF Cell
  <2>3. CASE \E k \in 1 .. MaxChunk : rboot_write_flash(k)
    <3>1. PICK k \in 1 .. MaxChunk : rboot_write_flash(k)
      BY <2>3
    <3>2. PICK bad, m : WriterStep(k, bad, m)
      BY <3>1, WriterStepExists
    <3>3. session > 0 /\ got + k <= MaxLen
      BY <3>1, WriterStepExists
    <3> QED
      BY <1>1, <2>2, <3>2, <3>3, WriterKeeps
  <2>4. CASE NewSession
    <3>1. session \in Int /\ session' = session + 1
      BY <1>1, <2>4 DEF IInv, TypeOK, NewSession
    <3> QED
      BY <1>1, <3>1
  <2>5. CASE \E k \in 1 .. MaxChunk : rboot_write_flash_NoMem(k)
    BY <2>5 DEF rboot_write_flash_NoMem
  <2>6. CASE UNCHANGED vars
    BY <2>6 DEF vars
  <2> QED
    BY <1>1, <2>3, <2>4, <2>5, <2>6 DEF Next
<1>2. IInv /\ [Next]_vars =>
        [session' = session =>
           \A a \in Start .. status.start_addr - 1 : flash'[a] = flash[a]]_vars
  BY <1>1
<1> QED
  BY <1>2, WriterInvariance, PTL DEF Spec, WrittenOnce
============================================================================
