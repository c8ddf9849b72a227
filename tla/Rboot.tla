------------------------------- MODULE Rboot -------------------------------
(***************************************************************************)
(* The boot loader (src/rboot/rboot.c) and the part of its application     *)
(* interface that rewrites the configuration sector                        *)
(* (src/app/rboot/rboot-api.c, src/app/modules/rboot-lua.c).               *)
(*                                                                         *)
(* Flash survives a power failure: the configuration sector and the rom    *)
(* images.  Everything else is RAM and is lost.  A sector is rewritten in  *)
(* two steps, erase then write, and the power may fail before, between and *)
(* during the write.                                                       *)
(*                                                                         *)
(* The build options are the ones rboot.h enables: BOOT_IROM_CHKSUM is on, *)
(* BOOT_CONFIG_CHKSUM, BOOT_GPIO_ENABLED and BOOT_RTC_ENABLED are off.     *)
(***************************************************************************)
EXTENDS Integers

CONSTANT
  Count         \* rom slots of the configuration the device was set up with

ASSUME CountAssumption == Count \in Nat /\ Count >= 2 /\ Count < 255

VARIABLES
  conf,          \* flash: the configuration sector
  rom,           \* flash: does the image in slot s pass check_image?
  pc,            \* where the processor is; "off" is reset or without power
  romconf,       \* RAM: find_image's buffer, or rboot_set_config's argument
  romToBoot,     \* RAM: find_image's candidate
  updateConfig,  \* RAM: find_image must rewrite the configuration
  running,       \* RAM: the slot whose image is executing, or NoRom
  after          \* RAM: what follows rboot_set_config, "app" or a restart

flashVars == <<conf, rom>>
bootVars  == <<conf, rom, pc, romconf, romToBoot, updateConfig, running, after>>

----------------------------------------------------------------------------
(* The configuration sector.                                               *)

Slot  == 0 .. Count - 1
NoRom == -1

\* An erased byte reads as 0xff.
FF == 255

\* 0xe1; a sector has it with the right version byte, or it does not count.
BOOT_CONFIG_MAGIC == 225

\* user_rom_save_data_flag: the values the code sets or acts upon.
SaveFlag == {"NO_DATA_SET", "DO_SAVE_DATA", "DATA_SAVED", "RESET_DATA"}

\* magic: the magic and version bytes; count, current_rom: bytes;
\* addrs: that many entries of roms are set (the others read 0xffffffff).
rboot_config ==
  [magic : {BOOT_CONFIG_MAGIC, FF}, current_rom : Slot \cup {FF},
   count : (2 .. Count) \cup {FF}, addrs : 0 .. Count,
   flag : SaveFlag \cup {"ERASED"}]

\* The sector after SPIEraseSector.
ErasedConfig == [magic |-> FF, current_rom |-> FF, count |-> FF,
                 addrs |-> 0, flag |-> "ERASED"]

\* default_config, for the standard two roms.
default_config == [magic |-> BOOT_CONFIG_MAGIC, current_rom |-> 0, count |-> 2,
                   addrs |-> 2, flag |-> "NO_DATA_SET"]

\* The sector when only a prefix of c's bytes was programmed: the fields
\* follow each other in the order of struct rboot_config.
Torn(c) ==
  { ErasedConfig,
    [ErasedConfig EXCEPT !.magic = c.magic],
    [ErasedConfig EXCEPT !.magic = c.magic, !.current_rom = c.current_rom] }
  \cup
  { [c EXCEPT !.addrs = n, !.flag = "ERASED"] : n \in 0 .. c.addrs }

\* check_image(romconf->roms[s]): an address of 0xffffffff, a wrong magic or
\* a bad checksum give 0.  With a count of 0xff, s may lie past the array.
check_image(s) == s < romconf.addrs /\ rom[s] = "good"

----------------------------------------------------------------------------
(* find_image, one action per flash access that power may interrupt.       *)

\* Reset vector: call_user_start, find_image reads the sector; without the
\* magic a default configuration is made.
FindImage_Read ==
  /\ pc = "off"
  /\ IF conf.magic = BOOT_CONFIG_MAGIC
       THEN romconf' = conf /\ pc' = "select"
       ELSE romconf' = default_config /\ pc' = "defaultErase"
  /\ UNCHANGED <<conf, rom, romToBoot, updateConfig, running, after>>

FindImage_DefaultErase ==
  /\ pc = "defaultErase"
  /\ conf' = ErasedConfig
  /\ pc' = "defaultWrite"
  /\ UNCHANGED <<rom, romconf, romToBoot, updateConfig, running, after>>

FindImage_DefaultWrite ==
  /\ pc = "defaultWrite"
  /\ conf' = romconf
  /\ pc' = "select"
  /\ UNCHANGED <<rom, romconf, romToBoot, updateConfig, running, after>>

\* Mutant: the loader starts from rom 0, not from the selected one.
FindImage_Select_Rom0 ==
  /\ pc = "select"
  /\ romToBoot' = 0
  /\ updateConfig' = 0
  /\ pc' = "check"
  /\ UNCHANGED <<conf, rom, romconf, running, after>>

\* The rom selected in the config; user data to be reset is cleared, an
\* invalid rom number becomes 0.
FindImage_Select ==
  /\ pc = "select"
  /\ LET reset   == romconf.flag = "RESET_DATA"
         invalid == romconf.current_rom >= romconf.count
         cur     == IF invalid THEN 0 ELSE romconf.current_rom
     IN  /\ romToBoot' = cur
         /\ romconf' = [romconf EXCEPT
                          !.current_rom = cur,
                          !.flag = IF reset THEN "NO_DATA_SET" ELSE @]
         /\ updateConfig' = IF reset \/ invalid THEN 1 ELSE 0
  /\ pc' = "check"
  /\ UNCHANGED <<conf, rom, running, after>>

\* Mutant: after a fallback the configuration keeps naming the bad rom.
FindImage_Good_KeepsCurrent ==
  /\ pc = "check"
  /\ check_image(romToBoot)
  /\ pc' = IF updateConfig = 1 THEN "updateErase" ELSE "app"
  /\ running' = IF updateConfig = 1 THEN running ELSE romToBoot
  /\ UNCHANGED <<conf, rom, romconf, romToBoot, updateConfig, after>>

FindImage_Good ==
  /\ pc = "check"
  /\ check_image(romToBoot)
  /\ IF updateConfig = 1
       THEN /\ romconf' = [romconf EXCEPT !.current_rom = romToBoot]
            /\ pc' = "updateErase"
            /\ UNCHANGED running
       ELSE /\ pc' = "app"
            /\ running' = romToBoot
            /\ UNCHANGED romconf
  /\ UNCHANGED <<conf, rom, romToBoot, updateConfig, after>>

\* Mutant: below rom 0 the search gives up instead of wrapping around.
FindImage_Bad_NoWrap ==
  /\ pc = "check"
  /\ ~check_image(romToBoot)
  /\ updateConfig' = 1
  /\ romToBoot' = romToBoot - 1
  /\ pc' = IF romToBoot = 0 THEN "halt" ELSE "check"
  /\ UNCHANGED <<conf, rom, romconf, running, after>>

\* Mutant: the candidate is never stepped.
FindImage_Bad_NoStep ==
  /\ pc = "check"
  /\ ~check_image(romToBoot)
  /\ updateConfig' = 1
  /\ UNCHANGED <<conf, rom, pc, romconf, romToBoot, running, after>>

\* Try each previous rom until a good one is found or all were tried.
FindImage_Bad ==
  /\ pc = "check"
  /\ ~check_image(romToBoot)
  /\ updateConfig' = 1
  /\ romToBoot' = IF romToBoot = 0 THEN romconf.count - 1 ELSE romToBoot - 1
  /\ pc' = IF romToBoot' = romconf.current_rom THEN "halt" ELSE "check"
  /\ UNCHANGED <<conf, rom, romconf, running, after>>

FindImage_UpdateErase ==
  /\ pc = "updateErase"
  /\ conf' = ErasedConfig
  /\ pc' = "updateWrite"
  /\ UNCHANGED <<rom, romconf, romToBoot, updateConfig, running, after>>

FindImage_UpdateWrite ==
  /\ pc = "updateWrite"
  /\ conf' = romconf
  /\ pc' = "app"
  /\ running' = romToBoot
  /\ UNCHANGED <<rom, romconf, romToBoot, updateConfig, after>>

find_image ==
  \/ FindImage_Read
  \/ FindImage_DefaultErase
  \/ FindImage_DefaultWrite
  \/ FindImage_Select
  \/ FindImage_Good
  \/ FindImage_Bad
  \/ FindImage_UpdateErase
  \/ FindImage_UpdateWrite

----------------------------------------------------------------------------
(* rboot_set_config: read the sector, copy c over its head, erase, write.  *)

\* What remains of RAM after a reset.
ResetRAM ==
  /\ pc' = "off"
  /\ romconf' = ErasedConfig
  /\ romToBoot' = NoRom
  /\ updateConfig' = 0
  /\ running' = NoRom
  /\ after' = "app"

\* The call, up to the erase.  Without memory for the buffer nothing is
\* written; no caller looks at the result.  next = "off" is system_restart.
rboot_set_config(c, next) ==
  \/ /\ romconf' = c
     /\ pc' = "erase"
     /\ after' = next
     /\ UNCHANGED <<romToBoot, updateConfig, running>>
  \/ IF next = "off"
       THEN ResetRAM
       ELSE UNCHANGED <<pc, romconf, romToBoot, updateConfig, running, after>>

SetConfig_Erase ==
  /\ pc = "erase"
  /\ conf' = ErasedConfig
  /\ pc' = "write"
  /\ UNCHANGED <<rom, romconf, romToBoot, updateConfig, running, after>>

SetConfig_Write ==
  /\ pc = "write"
  /\ conf' = romconf
  /\ IF after = "off"
       THEN ResetRAM
       ELSE /\ pc' = "app"
            /\ UNCHANGED <<romconf, romToBoot, updateConfig, running, after>>
  /\ UNCHANGED rom

\* A number past the configured roms is refused; both callers restart.
rboot_set_current_rom(s) ==
  IF s < conf.count
    THEN rboot_set_config([conf EXCEPT !.current_rom = s], "off")
    ELSE ResetRAM

\* Lua rboot.swap(): the other rom, then system_restart.
rboot_swap ==
  /\ pc = "app"
  /\ rboot_set_current_rom(IF conf.current_rom # 0 THEN 0 ELSE 1)
  /\ UNCHANGED flashVars

----------------------------------------------------------------------------
\* The power fails, or the chip resets.  A write that was under way has done
\* nothing yet or programmed a prefix of the sector.
PowerFail ==
  /\ pc # "off"
  /\ ResetRAM
  /\ \/ UNCHANGED conf
     \/ /\ pc \in {"defaultWrite", "updateWrite", "write"}
        /\ conf' \in Torn(romconf)
  /\ UNCHANGED rom

\* A device as it is set up: no configuration yet, or one that selects rom 0
\* or 1, and an image that passes check_image in at least one of these.
BootInit ==
  /\ \/ conf = ErasedConfig
     \/ \E r \in {0, 1}, n \in 2 .. Count, f \in {"NO_DATA_SET", "RESET_DATA"} :
          conf = [magic |-> BOOT_CONFIG_MAGIC, current_rom |-> r, count |-> n,
                  addrs |-> n, flag |-> f]
  /\ rom \in [Slot -> {"good", "bad"}]
  /\ \E s \in {0, 1} : rom[s] = "good"
  /\ pc = "off"
  /\ romconf = ErasedConfig
  /\ romToBoot = NoRom
  /\ updateConfig = 0
  /\ running = NoRom
  /\ after = "app"
============================================================================
