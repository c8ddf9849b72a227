------------------------------ MODULE RbootApi -----------------------------
(***************************************************************************)
(* The streaming flash writer of src/app/rboot/rboot-api.c, which an       *)
(* update feeds with the chunks it receives: it erases the sectors it      *)
(* reaches, keeps bytes back so that it writes whole words, and tracks     *)
(* where to go on.  Its callers (upgradeRecvCb in compMsgOta.c and in      *)
(* rboot-ota.c) ignore its result and go on with the next chunk.           *)
(*                                                                         *)
(* A cell of flash is one byte; a byte of a download is named by its       *)
(* session and its place in the stream.  Programming a byte that is not    *)
(* erased garbles it.                                                      *)
(***************************************************************************)
EXTENDS Integers, Sequences

CONSTANTS
  SECTOR_SIZE,   \* bytes of a sector; 4096 on the chip
  Sectors,       \* sectors of the modelled piece of flash
  StartSector,   \* where the slot begins; the sector below is not its own
  Lengths,       \* the Content-Lengths a server may announce
  MaxLen,        \* bound on the bytes of one download, announced or not
  MaxChunk,      \* bound on the bytes of one call
  MaxSessions    \* bound on the downloads, one after the other

ASSUME SectorAssumption ==
  /\ SECTOR_SIZE \in Nat \ {0}
  /\ SECTOR_SIZE % 4 = 0
ASSUME LayoutAssumption ==
  /\ Sectors \in Nat
  /\ StartSector \in Nat \ {0}
  /\ MaxLen \in Nat
  /\ Lengths \subseteq 1 .. MaxLen
  /\ StartSector * SECTOR_SIZE + MaxLen <= Sectors * SECTOR_SIZE
ASSUME BoundsAssumption == MaxChunk \in Nat /\ MaxSessions \in Nat

VARIABLES
  flash,     \* what each byte of flash holds
  status,    \* rboot_write_status
  session,   \* the download under way; 0 before the first
  got, len,  \* uud->total_len, uud->content_len
  failed,    \* did a call fail in this session?
  most       \* the most bytes that came in one download so far

vars == <<flash, status, session, got, len, failed, most>>

----------------------------------------------------------------------------
Cell    == 0 .. Sectors * SECTOR_SIZE - 1
Erased  == -1
Old     == -2     \* what was there before any update
Garbled == -3

\* Byte i of the download of session n.
Byte(n, i) == n * MaxLen + i

\* The address of the slot: sector aligned, as readme.txt demands.
Start == StartSector * SECTOR_SIZE

\* Mutant: the first sector counts as erased.
rboot_write_init_Erased(addr) ==
  [start_addr |-> addr, last_sector_erased |-> addr \div SECTOR_SIZE,
   extra |-> << >>]

\* extra_count and extra_bytes are one sequence here.
rboot_write_init(addr) ==
  [start_addr |-> addr, last_sector_erased |-> (addr \div SECTOR_SIZE) - 1,
   extra |-> << >>]

spi_flash_erase_sector(f, ss) ==
  [a \in Cell |-> IF a \div SECTOR_SIZE \in ss THEN Erased ELSE f[a]]

spi_flash_write(f, addr, data) ==
  [a \in Cell |->
     IF a \notin addr .. addr + Len(data) - 1 THEN f[a]
     ELSE IF f[a] = Erased THEN data[a - addr + 1]
     ELSE Garbled]

\* Mutant: the bytes held back are those of this chunk only.
Buffer_DropsExtra(k) == [i \in 1 .. k |-> Byte(session, got + i - 1)]

\* The bytes kept from the last call and the k new ones.
Buffer(k) == status.extra \o [i \in 1 .. k |-> Byte(session, got + i - 1)]

\* Mutant: nothing is held back.
WordLen_All(k) == Len(Buffer(k))

\* As much of it as makes whole words.
WordLen(k) == Len(Buffer(k)) - (Len(Buffer(k)) % 4)

\* Mutant: the sector behind the last byte, not the last byte's.
lastsect_Beyond(k) == (status.start_addr + WordLen(k)) \div SECTOR_SIZE

lastsect(k) == (status.start_addr + WordLen(k) - 1) \div SECTOR_SIZE

\* Mutant: every sector of this chunk is erased, the first one again.
ToErase_Again(k) == status.start_addr \div SECTOR_SIZE .. lastsect(k)

\* The sectors this call erases.
ToErase(k) == status.last_sector_erased + 1 .. lastsect(k)

----------------------------------------------------------------------------
(* One download.                                                           *)

\* otaStart, and the length from the reply's header.
NewSession ==
  /\ session < MaxSessions
  /\ session' = session + 1
  /\ status' = rboot_write_init(Start)
  /\ got' = 0
  /\ len' \in Lengths
  /\ failed' = FALSE
  /\ UNCHANGED <<flash, most>>

\* upgradeRecvCb hands over the next chunk, until the sum of the chunks is
\* the announced length; a server that oversteps it is not stopped.
Receive(k) ==
  /\ session > 0
  /\ got # len
  /\ got + k <= MaxLen
  /\ got' = got + k
  /\ most' = IF got + k > most THEN got + k ELSE most
  /\ UNCHANGED <<session, len>>

\* No memory for the buffer: the chunk is lost.
rboot_write_flash_NoMem(k) ==
  /\ Receive(k)
  /\ ~failed
  /\ failed' = TRUE
  /\ UNCHANGED <<flash, status>>

\* Erasing the sectors of bad fails, which goes unnoticed; writing fails
\* after m bytes, whole words, and then the address stays where it is.
rboot_write_flash(k) ==
  LET keep == SubSeq(Buffer(k), WordLen(k) + 1, Len(Buffer(k)))
      last == IF ToErase(k) = {} THEN status.last_sector_erased ELSE lastsect(k)
  IN  /\ Receive(k)
      /\ \E bad \in SUBSET ToErase(k), m \in 0 .. WordLen(k) :
           /\ (bad = {} /\ m = WordLen(k)) \/ (~failed /\ m % 4 = 0)
           /\ failed' = (failed \/ bad # {} \/ m < WordLen(k))
           /\ flash' = spi_flash_write(
                         spi_flash_erase_sector(flash, ToErase(k) \ bad),
                         status.start_addr, SubSeq(Buffer(k), 1, m))
           /\ status' = [start_addr |-> status.start_addr +
                                        (IF m < WordLen(k) THEN 0 ELSE m),
                         last_sector_erased |-> last,
                         extra |-> keep]

Init ==
  /\ flash = [a \in Cell |-> Old]
  /\ status = rboot_write_init(Start)
  /\ session = 0
  /\ got = 0
  /\ len = 0
  /\ failed = FALSE
  /\ most = 0

Next ==
  \/ NewSession
  \/ \E k \in 1 .. MaxChunk : rboot_write_flash_NoMem(k) \/ rboot_write_flash(k)

Spec == Init /\ [][Next]_vars

----------------------------------------------------------------------------
(* Properties.                                                             *)

\* Types; never more than three bytes are held back and writes are aligned.
TypeOK ==
  /\ flash \in [Cell -> {Erased, Old, Garbled} \cup
                        (0 .. Byte(MaxSessions, MaxLen))]
  /\ status.start_addr \in Start .. Start + MaxLen
  /\ status.start_addr % 4 = 0
  /\ status.last_sector_erased \in StartSector - 1 .. Sectors - 1
  /\ Len(status.extra) \in 0 .. 3
  /\ session \in 0 .. MaxSessions
  /\ got \in 0 .. MaxLen
  /\ len \in 0 .. MaxLen
  /\ failed \in BOOLEAN
  /\ most \in 0 .. MaxLen

\* As long as no call failed, the flash from the slot's address on and then
\* the bytes held back are what was received so far: in order, complete, and
\* not mixed with what an earlier download or image left there.
StreamStored ==
  LET stored == status.start_addr - Start
  IN  ~failed /\ session > 0 =>
        /\ stored + Len(status.extra) = got
        /\ \A i \in 0 .. stored - 1 : flash[Start + i] = Byte(session, i)
        /\ \A i \in 1 .. Len(status.extra) :
             status.extra[i] = Byte(session, stored + i - 1)

\* Whatever fails, no sector is erased or written that none of the downloads
\* reached with the bytes it brought: neither the sector below the slot nor,
\* after a download that ended on a sector boundary, the one behind it.  How
\* far a download reaches is up to its server: nothing here knows the size
\* of the slot.
NeighboursIntact ==
  \A a \in Cell :
    a < Start \/ (a - Start) \div SECTOR_SIZE > (most - 1) \div SECTOR_SIZE
      => flash[a] = Old

\* Bytes below the write position are left alone for the rest of the
\* session, whatever fails: the sector in which a chunk ends is not erased
\* again for the next one.
WrittenOnce ==
  [][session' = session =>
       \A a \in Start .. status.start_addr - 1 : flash'[a] = flash[a]]_vars
============================================================================
