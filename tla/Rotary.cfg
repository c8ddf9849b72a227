CONSTANTS
  QUEUE_SIZE = 4
  TASK_QUEUE_LEN = 1
  Debounce = 0
  longpress_delay = 1
  click_delay = 2
  Missed = 40
  TimeMod = 16
  Start = 13
  MaxInput = 15
  MaxTime = 18
  MaxInputs = 4
  Positions = {4, 5, 6}
  MaxSetups = 2
SPECIFICATION Spec
CHECK_DEADLOCK FALSE
INVARIANTS TypeOK PressesKept PositionTracked KnowsLatest NoLostWakeUp
PROPERTIES LongPressIsLong ClickEnds
