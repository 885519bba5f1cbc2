\* Three sets, with saves asked for by others at any moment.
SPECIFICATION Spec
CONSTANTS
  NumContexts = 3
  Period <- MCPeriod
  MaxSleep = 30
  Late = 2
  Busy = 3
INVARIANTS
  TypeOK
  SavedInTime
  TimerInv
