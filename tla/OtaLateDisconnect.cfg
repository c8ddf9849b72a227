\* The disconnect callback of one update comes during the next.
CONSTANTS
  Conns = {1, 2}
  MaxAttempts = 3
  MaxLen = 2
  Faults = {"overlap"}
SPECIFICATION Spec
\* The number of attempts is bounded.
CHECK_DEADLOCK FALSE
INVARIANTS
  TimerGuardsSession
