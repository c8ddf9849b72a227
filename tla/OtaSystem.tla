----------------------------- MODULE OtaSystem -----------------------------
(***************************************************************************)
(* Firmware update over the air, seen from the flash: what the update      *)
(* session of src/app/compMsg/compMsgOta.c does to the rom slots and to    *)
(* the configuration sector, composed with the boot loader (Rboot) and     *)
(* with power failures at any step.                                        *)
(*                                                                         *)
(* The network side of a session is reduced to its outcomes here: it       *)
(* delivers chunks, completes, fails or hangs.  Module CompMsgOta models   *)
(* that side in detail.  src/app/rboot/rboot-ota.c, which the Lua module   *)
(* rboot uses, has the same effect on flash, except that it does not save  *)
(* user data.                                                              *)
(***************************************************************************)
EXTENDS Rboot

VARIABLES
  flag,   \* RAM of the SDK: system_upgrade_flag
  slot,   \* RAM: uud->rom_slot, FlashByAddr, or NoRom when there is no uud
  torn    \* history: a power failure has left the configuration partly written

otaVars == <<flag, slot>>
vars    == <<bootVars, otaVars, torn>>

\* FLASH_BY_ADDR (0xff): the update writes the file system, not a rom.
FlashByAddr == FF

----------------------------------------------------------------------------
\* Mutants: the next slot, without wrap-around; the slot that runs.
OtherSlot_Next(r) == r + 1
OtherSlot_Same(r) == r

\* The slot that otaStart updates.
OtherSlot(r) == IF r = 0 THEN 1 ELSE 0

\* otaStart with the saveUserData it calls: the configuration is rewritten
\* to ask for a save of the user data; the session then starts, fails
\* (saveUserData, memory) or fails in the name lookup, which leaves the
\* flag at START with no session behind it.
otaStart ==
  /\ pc = "app"
  /\ flag # "START"
  /\ rboot_set_config([conf EXCEPT !.flag = "DO_SAVE_DATA"], "app")
  /\ \/ UNCHANGED otaVars
     \/ flag' = "START" /\ slot' = NoRom
     \/ flag' = "START" /\ slot' \in {OtherSlot(conf.current_rom), FlashByAddr}
  /\ UNCHANGED <<flashVars, torn>>

\* upgradeRecvCb, not the last chunk: the sectors it reaches are erased and
\* written.  The image in the slot is no longer, and not yet, complete.
upgradeRecvCb_Chunk ==
  /\ pc = "app"
  /\ slot # NoRom
  /\ rom' = [s \in Slot |-> IF s = slot THEN "bad" ELSE rom[s]]
  /\ UNCHANGED <<conf, pc, romconf, romToBoot, updateConfig, running, after,
                 flag, slot, torn>>

\* upgradeRecvCb, last chunk: FINISH, compMsgOtaDeinit, otaUpdateCallback,
\* which selects the new rom and restarts.  The image may be bad: results of
\* rboot_write_flash are ignored and nothing verifies what was received.
upgradeRecvCb_Finish ==
  /\ pc = "app"
  /\ slot \in Slot
  /\ \E image \in {"good", "bad"} : rom' = [rom EXCEPT ![slot] = image]
  /\ rboot_set_current_rom(slot)
  /\ flag' = IF pc' = "off" THEN "IDLE" ELSE "FINISH"
  /\ slot' = NoRom
  /\ UNCHANGED <<conf, torn>>

\* The same for the file system: no rom changes, no restart.
upgradeRecvCb_FinishFs ==
  /\ pc = "app"
  /\ slot = FlashByAddr
  /\ flag' = "FINISH"
  /\ slot' = NoRom
  /\ UNCHANGED <<bootVars, torn>>

\* compMsgOtaDeinit without FINISH: timeout, lost connection, bad reply.
compMsgOtaDeinit_Fail ==
  /\ pc = "app"
  /\ slot # NoRom
  /\ flag' = "IDLE"
  /\ slot' = NoRom
  /\ UNCHANGED <<bootVars, torn>>

\* storeUserData: the answer of the module the user data belong to.
storeUserData ==
  /\ pc = "app"
  /\ rboot_set_config([conf EXCEPT !.flag = "DATA_SAVED"], "app")
  /\ UNCHANGED <<flashVars, otaVars, torn>>

\* A restart loses the session and clears the SDK's flag.
SessionAfterBootStep ==
  /\ IF pc' = "off" THEN flag' = "IDLE" /\ slot' = NoRom ELSE UNCHANGED otaVars
  /\ UNCHANGED torn

Loader == find_image /\ SessionAfterBootStep
EraseConfig == SetConfig_Erase /\ SessionAfterBootStep
WriteConfig == SetConfig_Write /\ SessionAfterBootStep
Swap == rboot_swap /\ SessionAfterBootStep
Fail ==
  /\ PowerFail
  /\ flag' = "IDLE"
  /\ slot' = NoRom
  /\ torn' = (torn \/ conf' # conf)

Init ==
  /\ BootInit
  /\ flag = "IDLE"
  /\ slot = NoRom
  /\ torn = FALSE

Next ==
  \/ Loader
  \/ EraseConfig
  \/ WriteConfig
  \/ Swap
  \/ otaStart
  \/ upgradeRecvCb_Chunk
  \/ upgradeRecvCb_Finish
  \/ upgradeRecvCb_FinishFs
  \/ compMsgOtaDeinit_Fail
  \/ storeUserData
  \/ Fail

\* Straight-line code runs to its next step: the loader, and the rest of
\* rboot_set_config.  Nothing obliges the network or the user to act.
Fairness == WF_vars(Loader) /\ WF_vars(EraseConfig) /\ WF_vars(WriteConfig)

Spec == Init /\ [][Next]_vars /\ Fairness

----------------------------------------------------------------------------
(* Properties.                                                             *)

\* Every variable stays in its type; the loader's candidate is a byte.
TypeOK ==
  /\ conf \in rboot_config
  /\ rom \in [Slot -> {"good", "bad"}]
  /\ pc \in {"off", "defaultErase", "defaultWrite", "select", "check", "halt",
             "updateErase", "updateWrite", "app", "erase", "write"}
  /\ romconf \in rboot_config
  /\ romToBoot \in NoRom .. FF
  /\ updateConfig \in {0, 1}
  /\ running \in Slot \cup {NoRom}
  /\ after \in {"app", "off"}
  /\ flag \in {"IDLE", "START", "FINISH"}
  /\ slot \in {0, 1, NoRom, FlashByAddr}
  /\ torn \in BOOLEAN

\* find_image never gives up with "No good rom available": whatever updates
\* were started, interrupted, swapped to or received damaged, and wherever
\* the power failed without leaving the configuration partly written, an
\* image that passes check_image is left to boot.
AlwaysBootable == ~torn => pc # "halt"

\* The image that executes is intact: an update never erases the rom it
\* runs from (the ESP8266 executes code directly from flash), although the
\* slot to write is derived from the configuration and not from what runs.
RunningRomIntact == running # NoRom => rom[running] = "good"

\* find_image boots the rom selected in the configuration sector if its
\* image is good: it moves on to another one only when that one is bad.
SelectedRomFirst ==
  pc = "check" /\ conf.current_rom \in Slot /\ check_image(conf.current_rom)
    => romToBoot = conf.current_rom

\* While the application runs the configuration names the executing rom:
\* rboot_get_current_rom tells the truth even after a fallback, an
\* interrupted rewrite or a default configuration.
CurrentRomIsRunning == pc = "app" => conf.current_rom = running

\* Once the power stays on, every boot, including the one after a restart
\* into a damaged image, comes up in an application, unless a torn write has
\* damaged the configuration before.
EventuallyBoots == <>[][~Fail]_vars => []<>(pc = "app" \/ torn)

\* readme.txt, "Default config": a default config is created on boot "if an
\* existing config is corrupted".  When the loader goes on to pick a rom, the
\* configuration it works with is whole.
CorruptedConfigReplaced ==
  pc = "select" => /\ romconf.count # FF
                   /\ romconf.addrs = romconf.count

----------------------------------------------------------------------------
(* The inductive invariant behind the safety properties.                   *)

\* A configuration the loader can work with.  Slots above 1 are reached by
\* fallback only, and then rom 1 is good.
Whole(c) ==
  /\ c.magic = BOOT_CONFIG_MAGIC
  /\ c.addrs = c.count
  /\ c.count # FF
  /\ c.current_rom < c.count
  /\ c.current_rom > 1 => rom[1] = "good"

\* The roms find_image has tried on its way down from current_rom.
Tried(s) ==
  IF romToBoot <= romconf.current_rom
    THEN romToBoot < s /\ s <= romconf.current_rom
    ELSE s <= romconf.current_rom \/ (romToBoot < s /\ s < romconf.count)

\* An update never takes both of the roms it alternates between.
OneOfTwoGood == rom[0] = "good" \/ rom[1] = "good"

ConfigInv == conf = ErasedConfig \/ Whole(conf)

LoaderInv ==
  /\ pc \in {"defaultErase", "defaultWrite", "select", "check",
             "updateErase", "updateWrite", "erase", "write"} => Whole(romconf)
  /\ pc \in {"select", "check"} => conf.current_rom = romconf.current_rom
  /\ pc = "check" => /\ romToBoot \in 0 .. romconf.count - 1
                     /\ \A s \in Slot : Tried(s) => rom[s] = "bad"
                     /\ updateConfig = 0 => romToBoot = romconf.current_rom
  /\ pc \in {"updateErase", "updateWrite"} =>
       romToBoot = romconf.current_rom /\ rom[romToBoot] = "good"

AppInv ==
  /\ running # NoRom <=> pc \in {"app", "erase", "write"}
  /\ running # NoRom => rom[running] = "good"
  /\ running > 1 => rom[1] = "good"
  /\ pc = "app" => Whole(conf) /\ conf.current_rom = running
  /\ pc \in {"erase", "write"} /\ after = "app" => romconf.current_rom = running
  /\ slot \in {0, 1} => slot = OtherSlot(running)
  /\ slot # NoRom => running # NoRom

\* Inductive as long as no write was torn: the loader has not given up, one
\* of two roms is good, the configuration sector is erased or whole, what the
\* loader has found out so far, and how the session's slot relates to the rom
\* that runs.
SafeInv ==
  /\ pc # "halt"
  /\ OneOfTwoGood
  /\ ConfigInv
  /\ LoaderInv
  /\ AppInv

IInv == TypeOK /\ (torn \/ SafeInv)
============================================================================
