\* A new update may start while the previous connection closes.
CONSTANTS
  Conns = {1, 2}
  MaxAttempts = 3
  MaxLen = 2
  Faults = {"noMem", "saveFails", "overlap", "dnsError"}
SPECIFICATION Spec
\* The number of attempts is bounded.
CHECK_DEADLOCK FALSE
INVARIANTS
  TypeOK
  SuccessIsComplete
  MemorySafe
  NoLeak
PROPERTY
  ImplementsSession
