CONSTANTS
  Slots <- MCSlots
  Storages <- MCStorages
  DefaultBegin = 2
  DefaultEnd = 5
  SensorCounts = {1, 2}
  ValueMod = 2
  DeltaMod = 2
  DecimalsMod = 1
  TagMod = 2
  TimeMod = 4
  Times = {0, 1, 2}
  Values = {1}
  Decimals = {0}
  Tags = {1, 2}
  MaxCount = 1
SPECIFICATION Spec
CHECK_DEADLOCK FALSE
INVARIANTS TimestampsKept IndexesInStorage
PROPERTY ImplementsFifo
