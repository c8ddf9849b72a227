\* One update at a time, over an unreliable network.
CONSTANTS
  Conns = {1, 2}
  MaxAttempts = 3
  MaxLen = 2
  Faults = {"noMem", "saveFails", "dnsError", "connectTimeout", "tcpError",
            "closeFails"}
SPECIFICATION Spec
\* The number of attempts is bounded.
CHECK_DEADLOCK FALSE
INVARIANTS
  TimerGuardsSession
  SessionHoldsFlag
PROPERTY
  UpdateEnds
