-------------------------- MODULE OtaSystemProofs --------------------------
(***************************************************************************)
(* Proofs about OtaSystem, for every number of rom slots.                  *)
(***************************************************************************)
EXTENDS OtaSystem, TLAPS

\* default_config is a configuration, and so is an erased sector.
LEMMA ConfigConstants ==
  /\ ErasedConfig \in rboot_config
  /\ default_config \in rboot_config
BY CountAssumption
DEF ErasedConfig, default_config, rboot_config, SaveFlag, Slot, FF

\* Assigning a field of a configuration gives a configuration.
LEMMA ConfigUpdate ==
  ASSUME NEW c \in rboot_config
  PROVE  /\ \A r \in Slot \cup {FF} : [c EXCEPT !.current_rom = r] \in rboot_config
         /\ \A f \in SaveFlag \cup {"ERASED"} : [c EXCEPT !.flag = f] \in rboot_config
         /\ \A r \in Slot \cup {FF}, f \in SaveFlag \cup {"ERASED"} :
              [c EXCEPT !.current_rom = r, !.flag = f] \in rboot_config
BY DEF rboot_config

\* What a torn write leaves has the type of a configuration.
LEMMA TornType ==
  ASSUME NEW c \in rboot_config, NEW t \in Torn(c)
  PROVE  t \in rboot_config
<1>1. ASSUME NEW n \in 0 .. c.addrs
      PROVE  [c EXCEPT !.addrs = n, !.flag = "ERASED"] \in rboot_config
  <2>1. n \in 0 .. Count
    BY <1>1, CountAssumption DEF rboot_config
  <2> QED
    BY <2>1 DEF rboot_config
<1>2. [ErasedConfig EXCEPT !.magic = c.magic] \in rboot_config
  BY ConfigConstants DEF rboot_config
<1>3. [ErasedConfig EXCEPT !.magic = c.magic, !.current_rom = c.current_rom]
        \in rboot_config
  BY ConfigConstants DEF rboot_config
<1>4. CASE \E n \in 0 .. c.addrs : t = [c EXCEPT !.addrs = n, !.flag = "ERASED"]
  BY <1>1, <1>4
<1> QED
  BY <1>2, <1>3, <1>4, ConfigConstants, Zenon DEF Torn

\* The candidate of find_image is a slot once its image was found good.
TypeInv ==
  /\ TypeOK
  /\ pc = "check" => romToBoot >= 0
  /\ pc \in {"updateErase", "updateWrite"} => romToBoot \in Slot

\* The RAM that a reset leaves has its type.
LEMMA ResetType ==
  ASSUME ResetRAM
  PROVE  /\ pc' = "off"
         /\ romconf' \in rboot_config
         /\ romToBoot' \in NoRom .. FF
         /\ updateConfig' \in {0, 1}
         /\ running' \in Slot \cup {NoRom}
         /\ after' \in {"app", "off"}
BY ConfigConstants DEF ResetRAM, NoRom, FF

\* rboot_set_config keeps the types of what it assigns.
LEMMA SetConfigType ==
  ASSUME TypeOK, NEW c \in rboot_config, NEW next \in {"app", "off"},
         rboot_set_config(c, next)
  PROVE  /\ pc' \in {"off", "erase", pc}
         /\ romconf' \in rboot_config
         /\ romToBoot' \in NoRom .. FF
         /\ updateConfig' \in {0, 1}
         /\ running' \in Slot \cup {NoRom}
         /\ after' \in {"app", "off"}
<1>1. CASE ResetRAM
  BY <1>1, ResetType
<1>2. CASE romconf' = c /\ pc' = "erase" /\ after' = next
             /\ UNCHANGED <<romToBoot, updateConfig, running>>
  BY <1>2 DEF TypeOK
<1>3. CASE UNCHANGED <<pc, romconf, romToBoot, updateConfig, running, after>>
  BY <1>3 DEF TypeOK
<1> QED
  BY <1>1, <1>2, <1>3 DEF rboot_set_config

\* Selecting a rom keeps the types.
LEMMA SetCurrentRomType ==
  ASSUME TypeOK, NEW s \in {0, 1}, rboot_set_current_rom(s)
  PROVE  /\ pc' \in {"off", "erase", pc}
         /\ romconf' \in rboot_config
         /\ romToBoot' \in NoRom .. FF
         /\ updateConfig' \in {0, 1}
         /\ running' \in Slot \cup {NoRom}
         /\ after' \in {"app", "off"}
<1>1. [conf EXCEPT !.current_rom = s] \in rboot_config
  <2>1. s \in Slot
    BY CountAssumption DEF Slot
  <2> QED
    BY <2>1, ConfigUpdate DEF TypeOK
<1>2. CASE ResetRAM
  BY <1>2, ResetType
<1>3. CASE rboot_set_config([conf EXCEPT !.current_rom = s], "off")
  BY <1>1, <1>3, SetConfigType
<1> QED
  BY <1>2, <1>3 DEF rboot_set_current_rom

\* The device as it is set up has the types.
LEMMA TypeInit == Init => TypeInv
<1> SUFFICES ASSUME Init
             PROVE  TypeInv
  OBVIOUS
<1>1. conf \in rboot_config
  <2>1. ASSUME NEW r \in {0, 1}, NEW n \in 2 .. Count,
               NEW f \in {"NO_DATA_SET", "RESET_DATA"}
        PROVE  [magic |-> BOOT_CONFIG_MAGIC, current_rom |-> r, count |-> n,
                addrs |-> n, flag |-> f] \in rboot_config
    BY <2>1, CountAssumption DEF rboot_config, SaveFlag, Slot
  <2> QED
    BY <2>1, ConfigConstants DEF Init, BootInit
<1>2. torn = FALSE /\ torn \in BOOLEAN
  BY DEF Init
<1>3. /\ romToBoot \in NoRom .. FF /\ romToBoot = NoRom /\ pc = "off"
      /\ slot = NoRom /\ flag = "IDLE"
  BY DEF Init, BootInit, NoRom, FF
<1> QED
  BY <1>1, <1>2, <1>3, ConfigConstants DEF Init, BootInit, TypeInv, TypeOK

\* The steps of find_image keep the types.
LEMMA TypeLoader ==
  ASSUME TypeInv, Loader
  PROVE  TypeInv'
<1> USE DEF SessionAfterBootStep, otaVars, TypeInv, TypeOK, NoRom, FF, FlashByAddr
<1>0. /\ flag' \in {"IDLE", "START", "FINISH"}
      /\ slot' \in {0, 1, NoRom, FlashByAddr}
      /\ torn' \in BOOLEAN
  BY DEF Loader
<1>1. CASE FindImage_Read
  BY <1>0, <1>1, ConfigConstants DEF FindImage_Read
<1>2. CASE FindImage_DefaultErase
  BY <1>0, <1>2, ConfigConstants DEF FindImage_DefaultErase
<1>3. CASE FindImage_DefaultWrite
  BY <1>0, <1>3 DEF FindImage_DefaultWrite
<1>4. CASE FindImage_Select
  <2> DEFINE cur == IF romconf.current_rom >= romconf.count
                      THEN 0 ELSE romconf.current_rom
             new == IF romconf.flag = "RESET_DATA"
                      THEN "NO_DATA_SET" ELSE romconf.flag
  <2>1. cur \in Slot
    BY CountAssumption DEF rboot_config, Slot
  <2>2. new \in SaveFlag \cup {"ERASED"}
    BY DEF rboot_config, SaveFlag
  <2>3. /\ romToBoot' = cur
        /\ romconf' = [romconf EXCEPT !.current_rom = cur, !.flag = new]
        /\ updateConfig' \in {0, 1}
    BY <1>4 DEF FindImage_Select
  <2> HIDE DEF cur, new
  <2>4. romconf' \in rboot_config
    BY <2>1, <2>2, <2>3, ConfigUpdate
  <2>5. romToBoot' \in 0 .. 254
    <3>1. Slot \subseteq 0 .. 254
      BY CountAssumption DEF Slot
    <3> QED
      BY <2>1, <2>3, <3>1
  <2> QED
    BY <1>0, <1>4, <2>3, <2>4, <2>5 DEF FindImage_Select
<1>5. CASE FindImage_Good
  <2>1. romToBoot \in Slot
    <3>1. romToBoot \in Int /\ romToBoot >= 0 /\ romToBoot < romconf.addrs
      BY <1>5 DEF FindImage_Good, check_image
    <3>2. romconf.addrs \in 0 .. Count
      BY DEF rboot_config
    <3> QED
      BY <3>1, <3>2, CountAssumption DEF Slot
  <2>2. [romconf EXCEPT !.current_rom = romToBoot] \in rboot_config
    BY <2>1, ConfigUpdate
  <2> QED
    BY <1>0, <1>5, <2>1, <2>2 DEF FindImage_Good
<1>6. CASE FindImage_Bad
  <2>1. romconf.count \in 2 .. 255
    BY CountAssumption DEF rboot_config
  <2>2. romToBoot' \in 0 .. 255
    BY <1>6, <2>1 DEF FindImage_Bad
  <2> QED
    BY <1>0, <1>6, <2>2 DEF FindImage_Bad
<1>7. CASE FindImage_UpdateErase
  BY <1>0, <1>7, ConfigConstants DEF FindImage_UpdateErase
<1>8. CASE FindImage_UpdateWrite
  BY <1>0, <1>8 DEF FindImage_UpdateWrite
<1> QED
  BY <1>1, <1>2, <1>3, <1>4, <1>5, <1>6, <1>7, <1>8 DEF Loader, find_image

\* Every step keeps the types.
LEMMA TypeStep ==
  ASSUME TypeInv, [Next]_vars
  PROVE  TypeInv'
<1> USE DEF TypeInv, TypeOK
<1>1. CASE Loader
  BY <1>1, TypeLoader
<1>2. CASE EraseConfig
  BY <1>2, ConfigConstants
  DEF EraseConfig, SetConfig_Erase, SessionAfterBootStep, otaVars
<1>3. CASE WriteConfig
  BY <1>3, ResetType
  DEF WriteConfig, SetConfig_Write, SessionAfterBootStep, otaVars
<1>4. CASE Swap
  BY <1>4, SetCurrentRomType
  DEF Swap, rboot_swap, SessionAfterBootStep, otaVars, flashVars
<1>5. CASE otaStart
  <2>1. [conf EXCEPT !.flag = "DO_SAVE_DATA"] \in rboot_config
    BY ConfigUpdate DEF SaveFlag
  <2> QED
    BY <1>5, <2>1, SetConfigType DEF otaStart, OtherSlot, otaVars, flashVars
<1>6. CASE upgradeRecvCb_Chunk
  BY <1>6 DEF upgradeRecvCb_Chunk
<1>7. CASE upgradeRecvCb_Finish
  <2>1. slot \in {0, 1}
    BY <1>7, CountAssumption
    DEF upgradeRecvCb_Finish, Slot, NoRom, FlashByAddr, FF
  <2>2. rboot_set_current_rom(slot)
    BY <1>7 DEF upgradeRecvCb_Finish
  <2> QED
    BY <1>7, <2>1, <2>2, SetCurrentRomType DEF upgradeRecvCb_Finish
<1>8. CASE upgradeRecvCb_FinishFs
  BY <1>8 DEF upgradeRecvCb_FinishFs, bootVars
<1>9. CASE compMsgOtaDeinit_Fail
  BY <1>9 DEF compMsgOtaDeinit_Fail, bootVars
<1>10. CASE storeUserData
  <2>1. [conf EXCEPT !.flag = "DATA_SAVED"] \in rboot_config
    BY ConfigUpdate DEF SaveFlag
  <2> QED
    BY <1>10, <2>1, SetConfigType DEF storeUserData, otaVars, flashVars
<1>11. CASE Fail
  BY <1>11, ResetType, TornType DEF Fail, PowerFail
<1>12. CASE UNCHANGED vars
  BY <1>12 DEF vars, bootVars, otaVars
<1> QED
  BY <1>1, <1>2, <1>3, <1>4, <1>5, <1>6, <1>7, <1>8, <1>9, <1>10, <1>11, <1>12
  DEF Next

\* The variables keep their types: the configuration sector never holds
\* anything but an erased, a whole or a torn configuration, find_image's
\* candidate stays a byte and the rom it runs is a slot, torn writes included.
THEOREM TypeCorrect == Spec => []TypeOK
<1>1. TypeInv => TypeOK
  BY DEF TypeInv
<1> QED
  BY TypeInit, TypeStep, <1>1, PTL DEF Spec

----------------------------------------------------------------------------
(* Safety, until a write is torn.                                          *)

\* The numbers in a configuration.
LEMMA ConfigFields ==
  ASSUME NEW c \in rboot_config
  PROVE  /\ c.current_rom \in 0 .. 255
         /\ c.count \in 2 .. 255
         /\ c.count # FF => c.count <= Count
         /\ c.addrs \in 0 .. Count
BY CountAssumption DEF rboot_config, Slot, FF

\* The bounds of the fields of a whole configuration.
LEMMA WholeFields ==
  ASSUME NEW c \in rboot_config, Whole(c)
  PROVE  /\ c.current_rom \in 0 .. c.count - 1
         /\ c.count \in 2 .. Count
         /\ c.addrs = c.count
<1>1. c.current_rom \in 0 .. 255 /\ c.count \in 2 .. 255
  BY ConfigFields
<1>2. c.current_rom < c.count /\ c.addrs = c.count
  BY DEF Whole
<1>3. c.count <= Count
  BY ConfigFields DEF Whole
<1>4. c.count \in 2 .. Count
  BY <1>1, <1>3, CountAssumption
<1>5. c.current_rom \in 0 .. c.count - 1
  <2>1. \A a \in 0 .. 255, b \in 2 .. 255 : a < b => a \in 0 .. b - 1
    OBVIOUS
  <2> QED
    BY <1>1, <1>2, <2>1, Zenon
<1> QED
  BY <1>2, <1>4, <1>5

\* A whole configuration selects a slot.
LEMMA WholeSlot ==
  ASSUME NEW c \in rboot_config, Whole(c)
  PROVE  c.current_rom \in Slot
BY ConfigFields, CountAssumption DEF Whole, Slot

\* The assignments of saveUserData, storeUserData and rboot_set_current_rom
\* leave a whole configuration whole.
LEMMA WholeUpdate ==
  ASSUME NEW c \in rboot_config, Whole(c)
  PROVE  /\ \A f \in SaveFlag : /\ Whole([c EXCEPT !.flag = f])
                               /\ [c EXCEPT !.flag = f].current_rom = c.current_rom
         /\ \A r \in {0, 1} : Whole([c EXCEPT !.current_rom = r])
<1>1. ASSUME NEW f \in SaveFlag
      PROVE  /\ Whole([c EXCEPT !.flag = f])
             /\ [c EXCEPT !.flag = f].current_rom = c.current_rom
  BY DEF Whole, rboot_config
<1>2. ASSUME NEW r \in {0, 1}
      PROVE  Whole([c EXCEPT !.current_rom = r])
  <2>1. c.count \in 2 .. 255
    BY ConfigFields
  <2> QED
    BY <2>1 DEF Whole, rboot_config
<1> QED
  BY <1>1, <1>2

\* A reset keeps the invariant if flash is in order.
LEMMA SafeReset ==
  ASSUME ResetRAM, slot' = NoRom, OneOfTwoGood', ConfigInv'
  PROVE  SafeInv'
BY DEF ResetRAM, SafeInv, LoaderInv, AppInv, NoRom

\* Init gives the invariant.
LEMMA SafeInit == Init => SafeInv
<1> SUFFICES ASSUME Init
             PROVE  SafeInv
  OBVIOUS
<1>1. OneOfTwoGood
  BY DEF Init, BootInit, OneOfTwoGood
<1>2. ConfigInv
  BY CountAssumption DEF Init, BootInit, ConfigInv, Whole, FF
<1> QED
  BY <1>1, <1>2 DEF Init, BootInit, SafeInv, LoaderInv, AppInv, NoRom

\* rboot_set_config called by the application with a whole configuration.
LEMMA SafeSetConfig ==
  ASSUME TypeInv, SafeInv, pc = "app", UNCHANGED conf,
         OneOfTwoGood', rom'[running] = "good",
         running > 1 => rom'[1] = "good",
         NEW c \in rboot_config, NEW next \in {"app", "off"},
         Whole(c), c.current_rom > 1 => rom'[1] = "good",
         next = "app" => c.current_rom = running,
         rboot_set_config(c, next),
         pc' = "off" => slot' = NoRom,
         slot' \in {0, 1} => slot' = OtherSlot(running)
  PROVE  SafeInv'
<1>1. running # NoRom /\ Whole(conf) /\ conf.current_rom = running
  BY DEF SafeInv, AppInv
<1>2. Whole(conf)'
  BY <1>1 DEF Whole
<1>3. ConfigInv'
  BY <1>2 DEF ConfigInv
<1>4. CASE ResetRAM
  BY <1>3, <1>4, SafeReset DEF ResetRAM
<1>5. CASE /\ romconf' = c /\ pc' = "erase" /\ after' = next
           /\ UNCHANGED <<romToBoot, updateConfig, running>>
  BY <1>1, <1>3, <1>5
  DEF SafeInv, LoaderInv, AppInv, Whole
<1>6. CASE UNCHANGED <<pc, romconf, romToBoot, updateConfig, running, after>>
  BY <1>1, <1>2, <1>3, <1>6
  DEF SafeInv, LoaderInv, AppInv
<1> QED
  BY <1>4, <1>5, <1>6 DEF rboot_set_config

\* rboot_set_current_rom(s), for the two slots an update alternates between.
LEMMA SafeSetCurrentRom ==
  ASSUME TypeInv, SafeInv, pc = "app", UNCHANGED conf,
         OneOfTwoGood', rom'[running] = "good",
         running > 1 => rom'[1] = "good",
         NEW s \in {0, 1}, rboot_set_current_rom(s),
         pc' = "off" => slot' = NoRom,
         slot' \in {0, 1} => slot' = OtherSlot(running)
  PROVE  SafeInv'
<1> DEFINE c == [conf EXCEPT !.current_rom = s]
<1>1. Whole(conf) /\ conf.current_rom = running /\ conf \in rboot_config
  BY DEF SafeInv, AppInv, TypeInv, TypeOK
<1>2. c \in rboot_config
  <2>1. s \in Slot
    BY CountAssumption DEF Slot
  <2> QED
    BY <1>1, <2>1, ConfigUpdate
<1>3. Whole(c) /\ c.current_rom = s
  <2>1. c.current_rom = s
    BY <1>1 DEF rboot_config
  <2> QED
    BY <1>1, <2>1, WholeUpdate
<1>4. conf.count > s
  BY <1>1, ConfigFields
<1>5. rboot_set_config(c, "off")
  BY <1>4 DEF rboot_set_current_rom
<1> HIDE DEF c
<1> QED
  BY <1>2, <1>3, <1>5, SafeSetConfig

\* The steps of find_image.
LEMMA SafeLoader ==
  ASSUME TypeInv, TypeInv', SafeInv, Loader
  PROVE  SafeInv'
<1>1. romconf \in rboot_config /\ conf \in rboot_config
  BY DEF TypeInv, TypeOK
<1>2. find_image /\ UNCHANGED rom /\ UNCHANGED after
  BY DEF Loader, find_image, FindImage_Read, FindImage_DefaultErase,
     FindImage_DefaultWrite, FindImage_Select, FindImage_Good, FindImage_Bad,
     FindImage_UpdateErase, FindImage_UpdateWrite
<1>3. OneOfTwoGood'
  BY <1>2 DEF SafeInv, OneOfTwoGood
<1>4. CASE FindImage_Read
  <2>1. Whole(romconf')
    BY <1>4 DEF FindImage_Read, SafeInv, ConfigInv, Whole, ErasedConfig,
       default_config, BOOT_CONFIG_MAGIC, FF
  <2>2. Whole(romconf)'
    BY <1>2, <2>1 DEF Whole
  <2>3. pc' = "select" => conf.current_rom = romconf'.current_rom
    BY <1>4 DEF FindImage_Read
  <2> QED
    BY <1>2, <1>3, <1>4, <2>2, <2>3
    DEF FindImage_Read, Loader, SessionAfterBootStep, otaVars, SafeInv,
        ConfigInv, LoaderInv, AppInv, Whole
<1>5. CASE FindImage_DefaultErase
  BY <1>1, <1>2, <1>3, <1>5, ConfigConstants
  DEF FindImage_DefaultErase, Loader, SessionAfterBootStep, otaVars, SafeInv,
      ConfigInv, LoaderInv, AppInv, Whole
<1>6. CASE FindImage_DefaultWrite
  BY <1>1, <1>2, <1>3, <1>6, ConfigConstants
  DEF FindImage_DefaultWrite, Loader, SessionAfterBootStep, otaVars, SafeInv,
      ConfigInv, LoaderInv, AppInv, Whole
<1>7. CASE FindImage_Select
  <2>1. Whole(romconf) /\ romconf.current_rom = conf.current_rom
    BY <1>7 DEF FindImage_Select, SafeInv, LoaderInv
  <2>2. romconf.current_rom \in 0 .. romconf.count - 1 /\ romconf.count \in 2 .. Count
    BY <1>1, <2>1, WholeFields
  <2>3. ~(romconf.current_rom >= romconf.count)
    BY <2>2, CountAssumption
  <2>4. /\ romconf'.current_rom = romconf.current_rom
        /\ romconf'.count = romconf.count
        /\ romconf'.magic = romconf.magic
        /\ romconf'.addrs = romconf.addrs
        /\ romToBoot' = romconf.current_rom
    <3>1. PICK f : romconf' = [romconf EXCEPT
                                 !.current_rom = romconf.current_rom, !.flag = f]
      BY <1>7, <2>3 DEF FindImage_Select
    <3>2. romToBoot' = romconf.current_rom
      BY <1>7, <2>3 DEF FindImage_Select
    <3> QED
      BY <1>1, <3>1, <3>2 DEF rboot_config
  <2>5. Whole(romconf)'
    BY <1>2, <2>1, <2>4 DEF Whole
  <2>6. \A s \in Slot : ~Tried(s)'
    BY <2>2, <2>4, CountAssumption DEF Tried, Slot
  <2>7. romToBoot' \in 0 .. romconf'.count - 1
    BY <2>2, <2>4
  <2> QED
    BY <1>2, <1>3, <1>7, <2>1, <2>4, <2>5, <2>6, <2>7
    DEF FindImage_Select, Loader, SessionAfterBootStep, otaVars, SafeInv,
        ConfigInv, LoaderInv, AppInv, Whole
<1>8. CASE FindImage_Good
  <2>1. /\ Whole(romconf)
        /\ romconf.current_rom = conf.current_rom
        /\ romToBoot \in 0 .. romconf.count - 1
        /\ \A s \in Slot : Tried(s) => rom[s] = "bad"
        /\ updateConfig = 0 => romToBoot = romconf.current_rom
        /\ rom[romToBoot] = "good"
    BY <1>8 DEF FindImage_Good, check_image, SafeInv, LoaderInv
  <2>2. /\ romconf.current_rom \in 0 .. 255
        /\ romconf.count \in 2 .. Count
    BY <1>1, <2>1, ConfigFields, WholeFields
  <2>3. romToBoot \in Slot
    BY <2>1, <2>2, CountAssumption DEF Slot
  <2>4. romToBoot > 1 => rom[1] = "good"
    <3>1. CASE romToBoot <= romconf.current_rom
      BY <2>1, <2>2, <3>1 DEF Whole
    <3>2. CASE romToBoot > romconf.current_rom
      <4>1. Tried(0) /\ 0 \in Slot
        BY <2>1, <2>2, <3>2, CountAssumption DEF Tried, Slot
      <4> QED
        BY <2>1, <4>1 DEF SafeInv, OneOfTwoGood
    <3> QED
      BY <2>1, <2>2, <3>1, <3>2
  <2>5. CASE updateConfig = 1
    <3>1. /\ romconf'.current_rom = romToBoot
          /\ romconf'.count = romconf.count
          /\ romconf'.magic = romconf.magic
          /\ romconf'.addrs = romconf.addrs
      BY <1>1, <1>8, <2>5 DEF FindImage_Good, rboot_config
    <3>2. Whole(romconf)'
      BY <1>2, <2>1, <2>2, <2>4, <3>1 DEF Whole
    <3> QED
      BY <1>2, <1>3, <1>8, <2>1, <2>5, <3>1, <3>2
      DEF FindImage_Good, Loader, SessionAfterBootStep, otaVars, SafeInv,
          ConfigInv, LoaderInv, AppInv, Whole
  <2>6. CASE updateConfig = 0
    <3>1. conf # ErasedConfig
      BY <2>1, <2>2, CountAssumption DEF ErasedConfig, Whole, FF
    <3>2. Whole(conf)'
      BY <1>2, <1>8, <3>1 DEF FindImage_Good, SafeInv, ConfigInv, Whole
    <3> QED
      BY <1>2, <1>3, <1>8, <2>1, <2>3, <2>4, <2>6, <3>2
      DEF FindImage_Good, Loader, SessionAfterBootStep, otaVars, SafeInv,
          ConfigInv, LoaderInv, AppInv, NoRom, Slot
  <2> QED
    BY <2>5, <2>6 DEF TypeInv, TypeOK
<1>9. CASE FindImage_Bad
  <2>1. /\ Whole(romconf)
        /\ romconf.current_rom = conf.current_rom
        /\ romToBoot \in 0 .. romconf.count - 1
        /\ \A s \in Slot : Tried(s) => rom[s] = "bad"
    BY <1>9 DEF FindImage_Bad, SafeInv, LoaderInv
  <2>2. /\ romconf.current_rom \in 0 .. romconf.count - 1
        /\ romconf.count \in 2 .. Count
        /\ romconf.addrs = romconf.count
    BY <1>1, <2>1, WholeFields
  <2>3. romToBoot \in Slot /\ rom[romToBoot] = "bad"
    BY <1>9, <2>1, <2>2, CountAssumption
    DEF FindImage_Bad, check_image, Slot, TypeInv, TypeOK
  <2>4. /\ romToBoot' \in 0 .. romconf.count - 1
        /\ romToBoot' = IF romToBoot = 0 THEN romconf.count - 1 ELSE romToBoot - 1
        /\ romconf' = romconf /\ rom' = rom /\ updateConfig' = 1
    BY <1>9, <2>1, <2>2 DEF FindImage_Bad
  <2>5. ASSUME NEW s \in Slot, s < romconf.count, ~(Tried(s) \/ s = romToBoot)
        PROVE  romToBoot' # romconf.current_rom /\ ~Tried(s)'
    BY <2>1, <2>2, <2>4, <2>5 DEF Tried, Slot
  <2>6. romToBoot' # romconf.current_rom
    <3>1. /\ Tried(0) \/ 0 = romToBoot => rom[0] = "bad"
          /\ Tried(1) \/ 1 = romToBoot => rom[1] = "bad"
      BY <2>1, <2>3, CountAssumption DEF Slot
    <3>2. \E s \in {0, 1} : ~(Tried(s) \/ s = romToBoot)
      BY <3>1 DEF SafeInv, OneOfTwoGood
    <3>3. \A s \in {0, 1} : s \in Slot /\ s < romconf.count
      BY <2>2, CountAssumption DEF Slot
    <3> QED
      BY <2>5, <3>2, <3>3
  <2>7. \A s \in Slot : Tried(s)' => rom'[s] = "bad"
    <3> SUFFICES ASSUME NEW s \in Slot, Tried(s)'
                 PROVE  rom[s] = "bad"
      BY <2>4
    <3>1. s < romconf.count
      BY <2>2, <2>4 DEF Tried, Slot
    <3>2. Tried(s) \/ s = romToBoot
      BY <2>5, <3>1
    <3> QED
      BY <2>1, <2>3, <3>2
  <2> QED
    BY <1>2, <1>3, <1>9, <2>1, <2>4, <2>6, <2>7
    DEF FindImage_Bad, Loader, SessionAfterBootStep, otaVars, SafeInv,
        ConfigInv, LoaderInv, AppInv, Whole
<1>10. CASE FindImage_UpdateErase
  BY <1>1, <1>2, <1>3, <1>10, ConfigConstants
  DEF FindImage_UpdateErase, Loader, SessionAfterBootStep, otaVars, SafeInv,
      ConfigInv, LoaderInv, AppInv, Whole
<1>11. CASE FindImage_UpdateWrite
  <2>1. Whole(romconf) /\ romToBoot = romconf.current_rom /\ rom[romToBoot] = "good"
    BY <1>11 DEF FindImage_UpdateWrite, SafeInv, LoaderInv
  <2>2. Whole(conf)' /\ conf'.current_rom = romToBoot
    BY <1>2, <1>11, <2>1 DEF FindImage_UpdateWrite, Whole
  <2>3. romToBoot \in Slot /\ (romToBoot > 1 => rom[1] = "good")
    BY <1>1, <2>1, WholeSlot DEF Whole
  <2> QED
    BY <1>2, <1>3, <1>11, <2>1, <2>2, <2>3
    DEF FindImage_UpdateWrite, Loader, SessionAfterBootStep, otaVars, SafeInv,
        ConfigInv, LoaderInv, AppInv, NoRom, Slot
<1> QED
  BY <1>2, <1>4, <1>5, <1>6, <1>7, <1>8, <1>9, <1>10, <1>11 DEF find_image

\* The application runs: its configuration is whole and names its rom.
LEMMA AppFacts ==
  ASSUME TypeInv, SafeInv, pc = "app"
  PROVE  /\ conf \in rboot_config
         /\ Whole(conf)
         /\ conf.current_rom = running
         /\ running \in Slot
         /\ rom[running] = "good"
         /\ running > 1 => rom[1] = "good"
BY DEF SafeInv, AppInv, TypeInv, TypeOK

\* A session writes to its slot only, which is not the one that runs, and
\* not rom 1 when the running rom is one above.
LEMMA SlotWrite ==
  ASSUME TypeInv, SafeInv, pc = "app", slot # NoRom,
         \A s \in Slot : s # slot => rom'[s] = rom[s]
  PROVE  /\ rom'[running] = "good"
         /\ running > 1 => rom'[1] = "good"
         /\ OneOfTwoGood'
<1>1. running \in Slot
  BY AppFacts
<1>2. slot \in {0, 1} \/ slot = FlashByAddr
  BY DEF TypeInv, TypeOK
<1>3. slot \in {0, 1} => slot = IF running = 0 THEN 1 ELSE 0
  BY DEF SafeInv, AppInv, OtherSlot
<1>4. running # slot
  BY <1>1, <1>2, <1>3, CountAssumption DEF Slot, FlashByAddr, FF
<1>5. running > 1 => slot # 1
  BY <1>1, <1>2, <1>3, CountAssumption DEF Slot, FlashByAddr, FF
<1>6. rom'[running] = "good"
  BY <1>1, <1>4, AppFacts
<1>7. 1 \in Slot
  BY CountAssumption DEF Slot
<1>8. running > 1 => rom'[1] = "good"
  BY <1>5, <1>7, AppFacts
<1>9. running = 0 \/ running = 1 \/ running > 1
  BY <1>1, CountAssumption DEF Slot
<1> QED
  BY <1>6, <1>8, <1>9 DEF OneOfTwoGood

\* rboot_set_config for new user data, which selects no rom.
LEMMA SafeSetFlag ==
  ASSUME TypeInv, SafeInv, pc = "app", conf' = conf, rom' = rom,
         NEW f \in SaveFlag, rboot_set_config([conf EXCEPT !.flag = f], "app"),
         slot' \in {0, 1} => slot' = OtherSlot(running)
  PROVE  SafeInv'
<1> DEFINE c == [conf EXCEPT !.flag = f]
<1>1. c \in rboot_config
  BY AppFacts, ConfigUpdate
<1>2. Whole(c) /\ c.current_rom = running
  BY AppFacts, WholeUpdate
<1>3. rboot_set_config(c, "app")
  OBVIOUS
<1>4. pc' # "off"
  BY DEF rboot_set_config
<1> HIDE DEF c
<1>5. c.current_rom > 1 => rom'[1] = "good"
  BY <1>2, AppFacts
<1>6. OneOfTwoGood' /\ rom'[running] = "good" /\ (running > 1 => rom'[1] = "good")
  BY AppFacts DEF SafeInv, OneOfTwoGood
<1> QED
  BY <1>1, <1>2, <1>3, <1>4, <1>5, <1>6, SafeSetConfig

\* A step that does not tear a write keeps the invariant.
LEMMA SafeStep ==
  ASSUME ~torn', TypeInv, TypeInv', SafeInv, [Next]_vars
  PROVE  SafeInv'
<1>1. CASE Loader
  BY <1>1, SafeLoader
<1>2. CASE EraseConfig
  BY <1>2
  DEF EraseConfig, SetConfig_Erase, SessionAfterBootStep, otaVars, SafeInv,
      OneOfTwoGood, ConfigInv, LoaderInv, AppInv, Whole
<1>3. CASE WriteConfig
  <2>1. Whole(romconf) /\ conf' = romconf /\ rom' = rom
    BY <1>3 DEF WriteConfig, SetConfig_Write, SafeInv, LoaderInv
  <2>2. Whole(conf)'
    BY <2>1 DEF Whole
  <2>3. OneOfTwoGood' /\ ConfigInv'
    BY <2>1, <2>2 DEF SafeInv, OneOfTwoGood, ConfigInv
  <2>4. CASE after = "off"
    <3>1. ResetRAM /\ slot' = NoRom
      BY <1>3, <2>4
      DEF ResetRAM, WriteConfig, SetConfig_Write, SessionAfterBootStep
    <3> QED
      BY <2>3, <3>1, SafeReset
  <2>5. CASE after # "off"
    <3>1. /\ pc = "write" /\ pc' = "app" /\ after = "app"
          /\ UNCHANGED <<running, otaVars>>
      BY <1>3, <2>5
      DEF WriteConfig, SetConfig_Write, SessionAfterBootStep, TypeInv, TypeOK
    <3>2. romconf.current_rom = running /\ running # NoRom
      BY <3>1 DEF SafeInv, AppInv
    <3> QED
      BY <2>1, <2>2, <2>3, <3>1, <3>2
      DEF otaVars, SafeInv, LoaderInv, AppInv
  <2> QED
    BY <2>4, <2>5
<1>4. CASE Swap
  <2>1. PICK s \in {0, 1} : rboot_set_current_rom(s)
    BY <1>4 DEF Swap, rboot_swap
  <2>2. pc = "app" /\ conf' = conf /\ rom' = rom
    BY <1>4 DEF Swap, rboot_swap, flashVars
  <2>3. pc' = "off" => slot' = NoRom
    BY <1>4 DEF Swap, SessionAfterBootStep
  <2>4. slot' \in {0, 1} => slot' = OtherSlot(running)
    BY <1>4 DEF Swap, SessionAfterBootStep, SafeInv, AppInv, otaVars, NoRom
  <2>5. OneOfTwoGood' /\ rom'[running] = "good" /\ (running > 1 => rom'[1] = "good")
    BY <2>2, AppFacts DEF SafeInv, OneOfTwoGood
  <2> QED
    BY <2>1, <2>2, <2>3, <2>4, <2>5, SafeSetCurrentRom
<1>5. CASE otaStart
  <2>1. pc = "app" /\ conf' = conf /\ rom' = rom
    BY <1>5 DEF otaStart, flashVars
  <2>2. conf.current_rom = running
    BY <2>1, AppFacts
  <2>3. slot' \in {0, 1} => slot' = OtherSlot(running)
    BY <1>5, <2>2
    DEF otaStart, otaVars, SafeInv, AppInv, NoRom, FlashByAddr, FF
  <2> QED
    BY <1>5, <2>1, <2>3, SafeSetFlag DEF otaStart, SaveFlag
<1>6. CASE upgradeRecvCb_Chunk
  <2>1. /\ pc = "app" /\ slot # NoRom
        /\ \A s \in Slot : s # slot => rom'[s] = rom[s]
    BY <1>6 DEF upgradeRecvCb_Chunk
  <2>2. /\ rom'[running] = "good"
        /\ running > 1 => rom'[1] = "good"
        /\ OneOfTwoGood'
    BY <2>1, SlotWrite
  <2>3. conf' = conf /\ Whole(conf)'
    BY <1>6, <2>1, <2>2, AppFacts DEF upgradeRecvCb_Chunk, Whole
  <2> QED
    BY <1>6, <2>1, <2>2, <2>3
    DEF upgradeRecvCb_Chunk, SafeInv, ConfigInv, LoaderInv, AppInv
<1>7. CASE upgradeRecvCb_Finish
  <2>1. /\ pc = "app" /\ conf' = conf /\ slot' = NoRom
        /\ rboot_set_current_rom(slot)
    BY <1>7 DEF upgradeRecvCb_Finish
  <2>2. slot \in {0, 1} /\ slot # NoRom
    BY <1>7, CountAssumption
    DEF upgradeRecvCb_Finish, TypeInv, TypeOK, Slot, FlashByAddr, FF, NoRom
  <2>3. \A s \in Slot : s # slot => rom'[s] = rom[s]
    BY <1>7 DEF upgradeRecvCb_Finish, TypeInv, TypeOK
  <2>4. /\ rom'[running] = "good"
        /\ running > 1 => rom'[1] = "good"
        /\ OneOfTwoGood'
    BY <2>1, <2>2, <2>3, SlotWrite
  <2> QED
    BY <2>1, <2>2, <2>4, SafeSetCurrentRom DEF NoRom
<1>8. CASE upgradeRecvCb_FinishFs
  BY <1>8
  DEF upgradeRecvCb_FinishFs, bootVars, SafeInv, OneOfTwoGood,
      ConfigInv, LoaderInv, AppInv, Whole, Tried, NoRom
<1>9. CASE compMsgOtaDeinit_Fail
  BY <1>9
  DEF compMsgOtaDeinit_Fail, bootVars, SafeInv, OneOfTwoGood,
      ConfigInv, LoaderInv, AppInv, Whole, Tried, NoRom
<1>10. CASE storeUserData
  <2>1. pc = "app" /\ conf' = conf /\ rom' = rom /\ slot' = slot
    BY <1>10 DEF storeUserData, flashVars, otaVars
  <2>2. slot' \in {0, 1} => slot' = OtherSlot(running)
    BY <2>1 DEF SafeInv, AppInv
  <2> QED
    BY <1>10, <2>1, <2>2, SafeSetFlag DEF storeUserData, SaveFlag
<1>11. CASE Fail
  <2>1. ResetRAM /\ conf' = conf /\ rom' = rom /\ slot' = NoRom
    BY <1>11 DEF Fail, PowerFail
  <2>2. OneOfTwoGood' /\ ConfigInv'
    BY <2>1 DEF SafeInv, OneOfTwoGood, ConfigInv, Whole
  <2> QED
    BY <2>1, <2>2, SafeReset
<1>12. CASE UNCHANGED vars
  BY <1>12
  DEF vars, bootVars, otaVars, SafeInv, OneOfTwoGood,
      ConfigInv, LoaderInv, AppInv, Whole, Tried
<1> QED
  BY <1>1, <1>2, <1>3, <1>4, <1>5, <1>6, <1>7, <1>8, <1>9, <1>10, <1>11, <1>12
  DEF Next

\* What was torn stays torn.
LEMMA TornStays ==
  ASSUME TypeInv, [Next]_vars, torn
  PROVE  torn'
BY DEF Next, vars, Loader, EraseConfig, WriteConfig, Swap, otaStart,
   upgradeRecvCb_Chunk, upgradeRecvCb_Finish, upgradeRecvCb_FinishFs,
   compMsgOtaDeinit_Fail, storeUserData, SessionAfterBootStep, Fail

\* IInv holds throughout: until a write of the configuration is torn, flash
\* holds a good image in rom 0 or 1 and an erased or a whole configuration.
THEOREM Invariance == Spec => []IInv
<1>1. Init => TypeInv /\ (torn \/ SafeInv)
  BY TypeInit, SafeInit
<1>2. TypeInv /\ (torn \/ SafeInv) /\ [Next]_vars => (TypeInv /\ (torn \/ SafeInv))'
  <2> SUFFICES ASSUME TypeInv, torn \/ SafeInv, [Next]_vars
               PROVE  TypeInv' /\ (torn' \/ SafeInv')
    OBVIOUS
  <2>1. TypeInv'
    BY TypeStep
  <2>2. CASE torn
    BY <2>1, <2>2, TornStays
  <2>3. CASE SafeInv
    BY <2>1, <2>3, SafeStep
  <2> QED
    BY <2>2, <2>3
<1>3. TypeInv /\ (torn \/ SafeInv) => IInv
  BY DEF TypeInv, IInv
<1> QED
  BY <1>1, <1>2, <1>3, PTL DEF Spec

\* The device boots until a write of its configuration is torn: from any
\* setup with a good image in rom 0 or 1, no sequence of updates (complete,
\* interrupted or damaged), swaps, user data writes and power failures before
\* and after a write leads find_image to its "No good rom available".
THEOREM Bootable == Spec => []AlwaysBootable
<1>1. IInv => AlwaysBootable
  BY DEF IInv, SafeInv, AlwaysBootable
<1> QED
  BY <1>1, Invariance, PTL

----------------------------------------------------------------------------
(* What holds with torn writes as well: the configuration may be damaged,   *)
(* and find_image may fail, but an application that runs knows what runs.   *)

NamedRomExists(c) == c.current_rom \in Slot => c.current_rom < c.count

TruthInv ==
  /\ NamedRomExists(conf) /\ NamedRomExists(romconf)
  /\ pc = "select" => conf.current_rom = romconf.current_rom
  /\ pc = "check" =>
       /\ romToBoot < romconf.count
       /\ conf.current_rom \in Slot => conf.current_rom = romconf.current_rom
       /\ updateConfig = 0 => /\ conf.current_rom = romconf.current_rom
                              /\ romToBoot = romconf.current_rom
       /\ check_image(romconf.current_rom) => romToBoot = romconf.current_rom
  /\ pc \in {"updateErase", "updateWrite"} =>
       romToBoot = romconf.current_rom /\ rom[romToBoot] = "good"
  /\ running # NoRom <=> pc \in {"app", "erase", "write"}
  /\ running # NoRom => rom[running] = "good"
  /\ pc = "app" => conf.current_rom = running
  /\ pc \in {"erase", "write"} /\ after = "app" => romconf.current_rom = running
  /\ slot \in {0, 1} => slot = OtherSlot(running)
  /\ slot # NoRom => running # NoRom

\* What a torn write leaves names an existing rom, or none.
LEMMA TornNames ==
  ASSUME NEW c \in rboot_config, NamedRomExists(c), NEW t \in Torn(c)
  PROVE  NamedRomExists(t)
<1>1. CASE t = ErasedConfig
  BY <1>1, CountAssumption DEF ErasedConfig, NamedRomExists, Slot, FF
<1>2. CASE t = [ErasedConfig EXCEPT !.magic = c.magic]
  BY <1>2, CountAssumption DEF ErasedConfig, NamedRomExists, Slot, FF
<1>3. CASE t = [ErasedConfig EXCEPT !.magic = c.magic, !.current_rom = c.current_rom]
  <2>1. t.count = FF
    BY <1>3 DEF ErasedConfig
  <2> QED
    BY <2>1, CountAssumption DEF NamedRomExists, Slot, FF
<1>4. ASSUME NEW n \in 0 .. c.addrs, t = [c EXCEPT !.addrs = n, !.flag = "ERASED"]
      PROVE  NamedRomExists(t)
  <2>1. t.current_rom = c.current_rom /\ t.count = c.count
    BY <1>4 DEF rboot_config
  <2> QED
    BY <2>1 DEF NamedRomExists
<1> QED
  BY <1>1, <1>2, <1>3, <1>4, Zenon DEF Torn

LEMMA TruthInit == Init => TruthInv
<1> SUFFICES ASSUME Init
             PROVE  TruthInv
  OBVIOUS
<1>1. NamedRomExists(ErasedConfig)
  BY CountAssumption DEF ErasedConfig, NamedRomExists, Slot, FF
<1>2. NamedRomExists(conf)
  BY <1>1 DEF Init, BootInit, NamedRomExists
<1> QED
  BY <1>1, <1>2 DEF Init, BootInit, TruthInv, NoRom

\* A reset leaves no session and nothing that runs.
LEMMA TruthReset ==
  ASSUME ResetRAM, slot' = NoRom, NamedRomExists(conf')
  PROVE  TruthInv'
<1>1. NamedRomExists(romconf')
  BY CountAssumption DEF ResetRAM, ErasedConfig, NamedRomExists, Slot, FF
<1> QED
  BY <1>1 DEF ResetRAM, TruthInv, NamedRomExists, NoRom

\* rboot_set_config called by the application.
LEMMA TruthSetConfig ==
  ASSUME TruthInv, pc = "app", UNCHANGED conf, rom'[running] = "good",
         NEW c, NamedRomExists(c), NEW next \in {"app", "off"},
         next = "app" => c.current_rom = running,
         rboot_set_config(c, next),
         pc' = "off" => slot' = NoRom,
         slot' \in {0, 1} => slot' = OtherSlot(running)
  PROVE  TruthInv'
<1>1. /\ NamedRomExists(conf) /\ NamedRomExists(romconf)
      /\ running # NoRom /\ conf.current_rom = running
  BY DEF TruthInv
<1>2. CASE ResetRAM
  BY <1>1, <1>2, TruthReset DEF ResetRAM
<1>3. CASE /\ romconf' = c /\ pc' = "erase" /\ after' = next
           /\ UNCHANGED <<romToBoot, updateConfig, running>>
  BY <1>1, <1>3 DEF TruthInv, NamedRomExists
<1>4. CASE UNCHANGED <<pc, romconf, romToBoot, updateConfig, running, after>>
  BY <1>1, <1>4 DEF TruthInv, NamedRomExists
<1> QED
  BY <1>2, <1>3, <1>4 DEF rboot_set_config

LEMMA TruthSetCurrentRom ==
  ASSUME TypeInv, TruthInv, pc = "app", UNCHANGED conf, rom'[running] = "good",
         NEW s \in {0, 1}, rboot_set_current_rom(s),
         pc' = "off" => slot' = NoRom,
         slot' \in {0, 1} => slot' = OtherSlot(running)
  PROVE  TruthInv'
<1> DEFINE c == [conf EXCEPT !.current_rom = s]
<1>1. CASE s < conf.count
  <2>1. c.current_rom = s /\ c.count = conf.count
    BY DEF TypeInv, TypeOK, rboot_config
  <2>2. NamedRomExists(c)
    BY <1>1, <2>1 DEF NamedRomExists
  <2>3. rboot_set_config(c, "off")
    BY <1>1 DEF rboot_set_current_rom
  <2> HIDE DEF c
  <2> QED
    BY <2>2, <2>3, TruthSetConfig
<1>2. CASE ~(s < conf.count)
  <2>1. ResetRAM
    BY <1>2 DEF rboot_set_current_rom
  <2>2. NamedRomExists(conf')
    BY DEF TruthInv
  <2> QED
    BY <2>1, <2>2, TruthReset DEF ResetRAM
<1> QED
  BY <1>1, <1>2

\* A session writes to another rom than the one that runs.
LEMMA TruthSlotWrite ==
  ASSUME TypeInv, TruthInv, pc = "app", slot # NoRom,
         \A s \in Slot : s # slot => rom'[s] = rom[s]
  PROVE  rom'[running] = "good"
<1>1. running \in Slot /\ rom[running] = "good"
  BY DEF TypeInv, TypeOK, TruthInv
<1>2. slot \in {0, 1} \/ slot = FlashByAddr
  BY DEF TypeInv, TypeOK
<1>3. slot \in {0, 1} => slot = IF running = 0 THEN 1 ELSE 0
  BY DEF TruthInv, OtherSlot
<1>4. running # slot
  BY <1>1, <1>2, <1>3, CountAssumption DEF Slot, FlashByAddr, FF
<1> QED
  BY <1>1, <1>4

\* The steps of find_image.
LEMMA TruthLoader ==
  ASSUME TypeInv, TypeInv', TruthInv, Loader
  PROVE  TruthInv'
<1>1. /\ romconf \in rboot_config /\ conf \in rboot_config
      /\ NamedRomExists(conf) /\ NamedRomExists(romconf)
  BY DEF TypeInv, TypeOK, TruthInv
<1>2. find_image /\ UNCHANGED rom /\ UNCHANGED after /\ UNCHANGED otaVars /\ pc' # "off"
  BY DEF Loader, find_image, FindImage_Read, FindImage_DefaultErase,
     FindImage_DefaultWrite, FindImage_Select, FindImage_Good, FindImage_Bad,
     FindImage_UpdateErase, FindImage_UpdateWrite, SessionAfterBootStep
<1>3. NamedRomExists(ErasedConfig) /\ NamedRomExists(default_config)
  BY CountAssumption DEF ErasedConfig, default_config, NamedRomExists, Slot, FF
<1>4. CASE FindImage_Read
  BY <1>1, <1>2, <1>3, <1>4 DEF FindImage_Read, TruthInv, otaVars
<1>5. CASE FindImage_DefaultErase
  BY <1>1, <1>2, <1>3, <1>5 DEF FindImage_DefaultErase, TruthInv, otaVars
<1>6. CASE FindImage_DefaultWrite
  BY <1>1, <1>2, <1>6 DEF FindImage_DefaultWrite, TruthInv, otaVars
<1>7. CASE FindImage_Select
  <2> DEFINE invalid == romconf.current_rom >= romconf.count
             cur == IF invalid THEN 0 ELSE romconf.current_rom
  <2>1. /\ romconf.current_rom \in 0 .. 255 /\ romconf.count \in 2 .. 255
        /\ romconf.current_rom = conf.current_rom
    BY <1>1, <1>7, ConfigFields DEF FindImage_Select, TruthInv
  <2>2. /\ romToBoot' = cur /\ romconf'.current_rom = cur
        /\ romconf'.count = romconf.count
        /\ pc' = "check" /\ conf' = conf /\ running' = running
        /\ invalid => updateConfig' = 1
    <3>1. PICK f : romconf' = [romconf EXCEPT !.current_rom = cur, !.flag = f]
      BY <1>7 DEF FindImage_Select
    <3>2. romconf'.current_rom = cur /\ romconf'.count = romconf.count
      BY <1>1, <3>1 DEF rboot_config
    <3> QED
      BY <1>7, <3>2 DEF FindImage_Select
  <2>3. cur < romconf.count
    <3>1. \A x, n \in Int : 0 < n => (IF x >= n THEN 0 ELSE x) < n
      OBVIOUS
    <3>2. romconf.current_rom \in Int /\ romconf.count \in Int /\ 0 < romconf.count
      BY <2>1
    <3> QED
      BY ONLY <3>1, <3>2 DEF cur, invalid
  <2>4. conf.current_rom \in Slot => ~invalid
    BY <1>1, <2>1, CountAssumption DEF NamedRomExists, Slot
  <2>5. NamedRomExists(romconf')
    BY <2>2, <2>3 DEF NamedRomExists
  <2> QED
    BY <1>1, <1>2, <1>7, <2>1, <2>2, <2>3, <2>4, <2>5
    DEF FindImage_Select, TruthInv, otaVars
<1>8. CASE FindImage_Good
  <2>1. /\ romToBoot \in Slot /\ rom[romToBoot] = "good"
        /\ romToBoot < romconf.count
        /\ romconf.addrs \in 0 .. Count
    <3>1. romToBoot \in Int /\ romToBoot >= 0 /\ romconf.addrs \in 0 .. Count
      BY <1>1, <1>8, CountAssumption
      DEF FindImage_Good, TypeInv, TypeOK, NoRom, FF, rboot_config
    <3>2. romToBoot < romconf.addrs /\ rom[romToBoot] = "good"
      BY <1>8 DEF FindImage_Good, check_image
    <3> QED
      BY <1>8, <3>1, <3>2, CountAssumption DEF FindImage_Good, TruthInv, Slot
  <2>2. romToBoot # NoRom /\ slot' = NoRom /\ NoRom \notin {0, 1}
    BY <1>2, <1>8, <2>1, CountAssumption
    DEF FindImage_Good, TruthInv, otaVars, Slot, NoRom, FF
  <2>3. CASE updateConfig = 1
    <3>1. romconf'.current_rom = romToBoot /\ romconf'.count = romconf.count
      BY <1>1, <1>8, <2>3 DEF FindImage_Good, rboot_config
    <3>2. NamedRomExists(romconf')
      BY <2>1, <3>1 DEF NamedRomExists
    <3> QED
      BY <1>1, <1>2, <1>8, <2>1, <2>3, <3>1, <3>2
      DEF FindImage_Good, TruthInv, otaVars
  <2>4. CASE updateConfig = 0
    BY <1>1, <1>2, <1>8, <2>1, <2>2, <2>4
    DEF FindImage_Good, TruthInv, otaVars
  <2> QED
    BY <2>3, <2>4 DEF TypeInv, TypeOK
<1>9. CASE FindImage_Bad
  <2>1. romconf.count \in 2 .. 255 /\ romToBoot \in Int /\ romToBoot < romconf.count
    BY <1>1, <1>9, ConfigFields DEF FindImage_Bad, TypeInv, TypeOK, TruthInv, NoRom, FF
  <2>2. romToBoot' < romconf.count
    BY <1>9, <2>1 DEF FindImage_Bad
  <2>3. pc = "check" /\ UNCHANGED <<conf, romconf, running>> /\ updateConfig' = 1
    BY <1>9 DEF FindImage_Bad
  <2>4. ~check_image(romconf.current_rom)
    BY <1>9, <2>3 DEF FindImage_Bad, TruthInv
  <2>5. ~check_image(romconf.current_rom)'
    BY <1>2, <2>3, <2>4 DEF check_image
  <2> QED
    BY <1>1, <1>2, <1>9, <2>2, <2>3, <2>5 DEF FindImage_Bad, TruthInv, otaVars
<1>10. CASE FindImage_UpdateErase
  BY <1>1, <1>2, <1>3, <1>10 DEF FindImage_UpdateErase, TruthInv, otaVars
<1>11. CASE FindImage_UpdateWrite
  <2>1. romToBoot \in Slot /\ romToBoot # NoRom
    BY <1>11, CountAssumption DEF FindImage_UpdateWrite, TypeInv, Slot, NoRom
  <2>2. slot' = NoRom /\ NoRom \notin {0, 1}
    BY <1>2, <1>11 DEF FindImage_UpdateWrite, TruthInv, otaVars, NoRom, FF
  <2> QED
    BY <1>1, <1>2, <1>11, <2>1, <2>2 DEF FindImage_UpdateWrite, TruthInv, otaVars
<1> QED
  BY <1>2, <1>4, <1>5, <1>6, <1>7, <1>8, <1>9, <1>10, <1>11 DEF find_image

\* Every step, a torn write included, keeps the invariant.
LEMMA TruthStep ==
  ASSUME TypeInv, TypeInv', TruthInv, [Next]_vars
  PROVE  TruthInv'
<1>1. CASE Loader
  BY <1>1, TruthLoader
<1>2. CASE EraseConfig
  <2>1. NamedRomExists(ErasedConfig)
    BY CountAssumption DEF ErasedConfig, NamedRomExists, Slot, FF
  <2> QED
    BY <1>2, <2>1 DEF EraseConfig, SetConfig_Erase, SessionAfterBootStep, otaVars, TruthInv
<1>3. CASE WriteConfig
  <2>1. conf' = romconf /\ rom' = rom /\ pc = "write" /\ NamedRomExists(romconf)
    BY <1>3 DEF WriteConfig, SetConfig_Write, TruthInv
  <2>2. CASE after = "off"
    <3>1. ResetRAM /\ slot' = NoRom
      BY <1>3, <2>2
      DEF ResetRAM, WriteConfig, SetConfig_Write, SessionAfterBootStep
    <3> QED
      BY <2>1, <3>1, TruthReset
  <2>3. CASE after # "off"
    <3>1. /\ pc' = "app" /\ after = "app"
          /\ UNCHANGED <<romconf, running, otaVars>>
      BY <1>3, <2>3
      DEF WriteConfig, SetConfig_Write, SessionAfterBootStep, TypeInv, TypeOK
    <3> QED
      BY <2>1, <3>1 DEF otaVars, TruthInv
  <2> QED
    BY <2>2, <2>3
<1>4. CASE Swap
  <2>1. PICK s \in {0, 1} : rboot_set_current_rom(s)
    BY <1>4 DEF Swap, rboot_swap
  <2>2. pc = "app" /\ conf' = conf /\ rom' = rom
    BY <1>4 DEF Swap, rboot_swap, flashVars
  <2>3. pc' = "off" => slot' = NoRom
    BY <1>4 DEF Swap, SessionAfterBootStep
  <2>4. slot' \in {0, 1} => slot' = OtherSlot(running)
    BY <1>4 DEF Swap, SessionAfterBootStep, TruthInv, otaVars, NoRom
  <2>5. rom'[running] = "good"
    BY <2>2 DEF TruthInv
  <2> QED
    BY <2>1, <2>2, <2>3, <2>4, <2>5, TruthSetCurrentRom
<1>5. ASSUME NEW f \in SaveFlag, pc = "app", conf' = conf, rom' = rom,
             rboot_set_config([conf EXCEPT !.flag = f], "app"),
             slot' \in {0, 1} => slot' = OtherSlot(running)
      PROVE  TruthInv'
  <2> DEFINE c == [conf EXCEPT !.flag = f]
  <2>1. c.current_rom = conf.current_rom /\ c.count = conf.count
    BY DEF TypeInv, TypeOK, rboot_config
  <2>2. /\ NamedRomExists(c) /\ c.current_rom = running /\ rom'[running] = "good"
        /\ pc' # "off"
    BY <1>5, <2>1 DEF TruthInv, NamedRomExists, rboot_set_config
  <2>3. rboot_set_config(c, "app")
    BY <1>5
  <2> HIDE DEF c
  <2> QED
    BY <1>5, <2>2, <2>3, TruthSetConfig
<1>6. CASE otaStart
  <2>1. pc = "app" /\ conf' = conf /\ rom' = rom
    BY <1>6 DEF otaStart, flashVars
  <2>2. conf.current_rom = running
    BY <2>1 DEF TruthInv
  <2>3. slot' \in {0, 1} => slot' = OtherSlot(running)
    BY <1>6, <2>2
    DEF otaStart, otaVars, TruthInv, NoRom, FlashByAddr, FF
  <2> QED
    BY <1>5, <1>6, <2>1, <2>3 DEF otaStart, SaveFlag
<1>7. CASE upgradeRecvCb_Chunk
  <2>1. /\ pc = "app" /\ slot # NoRom
        /\ \A s \in Slot : s # slot => rom'[s] = rom[s]
    BY <1>7 DEF upgradeRecvCb_Chunk
  <2>2. rom'[running] = "good"
    BY <2>1, TruthSlotWrite
  <2> QED
    BY <1>7, <2>1, <2>2 DEF upgradeRecvCb_Chunk, TruthInv
<1>8. CASE upgradeRecvCb_Finish
  <2>1. /\ pc = "app" /\ conf' = conf /\ slot' = NoRom
        /\ rboot_set_current_rom(slot)
    BY <1>8 DEF upgradeRecvCb_Finish
  <2>2. slot \in {0, 1} /\ slot # NoRom
    BY <1>8, CountAssumption
    DEF upgradeRecvCb_Finish, TypeInv, TypeOK, Slot, FlashByAddr, FF, NoRom
  <2>3. \A s \in Slot : s # slot => rom'[s] = rom[s]
    BY <1>8 DEF upgradeRecvCb_Finish, TypeInv, TypeOK
  <2>4. rom'[running] = "good"
    BY <2>1, <2>2, <2>3, TruthSlotWrite
  <2> QED
    BY <2>1, <2>2, <2>4, TruthSetCurrentRom DEF NoRom
<1>9. CASE upgradeRecvCb_FinishFs
  BY <1>9 DEF upgradeRecvCb_FinishFs, bootVars, TruthInv, NoRom
<1>10. CASE compMsgOtaDeinit_Fail
  BY <1>10 DEF compMsgOtaDeinit_Fail, bootVars, TruthInv, NoRom
<1>11. CASE storeUserData
  <2>1. pc = "app" /\ conf' = conf /\ rom' = rom /\ slot' = slot
    BY <1>11 DEF storeUserData, flashVars, otaVars
  <2>2. slot' \in {0, 1} => slot' = OtherSlot(running)
    BY <2>1 DEF TruthInv
  <2> QED
    BY <1>5, <1>11, <2>1, <2>2 DEF storeUserData, SaveFlag
<1>12. CASE Fail
  <2>1. ResetRAM /\ slot' = NoRom
    BY <1>12 DEF Fail, PowerFail
  <2>2. conf' = conf \/ conf' \in Torn(romconf)
    BY <1>12 DEF Fail, PowerFail
  <2>3. NamedRomExists(conf')
    BY <2>2, TornNames DEF TruthInv, TypeInv, TypeOK
  <2> QED
    BY <2>1, <2>3, TruthReset
<1>13. CASE UNCHANGED vars
  BY <1>13 DEF vars, bootVars, otaVars, TruthInv, check_image
<1> QED
  BY <1>1, <1>2, <1>3, <1>4, <1>6, <1>7, <1>8, <1>9, <1>10, <1>11, <1>12, <1>13
  DEF Next

\* Torn writes included, what the loader and the application hold for the rom
\* that runs is true.
THEOREM Truth == Spec => []TruthInv
<1>1. Init => TypeInv /\ TruthInv
  BY TypeInit, TruthInit
<1>2. TypeInv /\ TruthInv /\ [Next]_vars => (TypeInv /\ TruthInv)'
  BY TypeStep, TruthStep
<1> QED
  BY <1>1, <1>2, PTL DEF Spec

\* An update never touches the image that executes, also when the power has
\* failed in the middle of writing the configuration.
THEOREM RunningRomSafe == Spec => []RunningRomIntact
<1>1. TruthInv => RunningRomIntact
  BY DEF TruthInv, RunningRomIntact
<1> QED
  BY <1>1, Truth, PTL

\* While the application runs the configuration names the rom whose image
\* executes, torn writes included: what rboot_get_current_rom returns is true.
THEOREM CurrentRomTrue == Spec => []CurrentRomIsRunning
<1>1. TruthInv => CurrentRomIsRunning
  BY DEF TruthInv, CurrentRomIsRunning
<1> QED
  BY <1>1, Truth, PTL

\* find_image leaves the selected rom only if it is bad, also when the
\* configuration it reads is the rest of a torn write.
THEOREM SelectedRomBoots == Spec => []SelectedRomFirst
<1>1. TruthInv => SelectedRomFirst
  BY DEF TruthInv, SelectedRomFirst
<1> QED
  BY <1>1, Truth, PTL
============================================================================
