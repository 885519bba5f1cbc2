\* The control record's lock set also holds a saved record, as it does when a saved
\* record forwards to PVS_SaveAll.
SPECIFICATION FairSpec
CHECK_DEADLOCK FALSE
CONSTANTS
  p1 = p1
  p2 = p2
  b1 = b1
  b2 = b2
  b3 = b3
  T = T
  R = R
  S = S
  LR = LR
  LP = LP
  Free = Free
  NoNumber = NoNumber
  NotANumber = NotANumber
  NumContexts = 2
  PVs = {p1}
  IOs = {b1, b2}
  WriteIOs = {b1, b2}
  Unreadable = {}
  ChannelsOf <- ChannelsUneven
  IOsOf <- IOsSmall
  Period <- PeriodTwo
  Timers = {T}
  RecordThreads = {R}
  ShellThreads = {}
  RecordLock <- RecordLockR
  PVLock <- PVLockTogether
  StatusRecs = {}
  Boot = 5
  MaxClock = 5
  MaxVersion = 0
PROPERTIES
  RequestServed
