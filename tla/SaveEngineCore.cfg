\* Two monitor sets with a record in common, one of them with two backends;
\* the periodic thread against a record that asks for saves.
SPECIFICATION Spec
CONSTANTS
  p1 = p1
  p2 = p2
  b1 = b1
  b2 = b2
  b3 = b3
  T = T
  R = R
  S = S
  LR = LR
  LP = LP
  Free = Free
  NoNumber = NoNumber
  NotANumber = NotANumber
  NumContexts = 2
  PVs = {p1, p2}
  IOs = {b1, b2, b3}
  WriteIOs = {b1, b2, b3}
  Unreadable = {p2}
  ChannelsOf <- ChannelsTwo
  IOsOf <- IOsTwo
  Period <- PeriodTwo
  Timers = {T}
  RecordThreads = {R}
  ShellThreads = {}
  RecordLock <- RecordLockR
  PVLock <- PVLockApart
  StatusRecs = {}
  Boot = 5
  MaxClock = 6
  MaxVersion = 1
INVARIANTS
  TypeOK
  OkMeansSaved
  BackendsAgree
  FreshForRequester
PROPERTIES
  LastProcMonotone
  WritesInTransactions
