\* Two monitor sets with a backend in common, which the first one lists twice, and
\* a read-only one, three threads that save, and status records; the lock set of the control record is apart from
\* those of the saved records.
SPECIFICATION FairSpec
CONSTANTS
  p1 = p1
  p2 = p2
  b1 = b1
  b2 = b2
  b3 = b3
  T = T
  R = R
  S = S
  LR = LR
  LP = LP
  Free = Free
  NoNumber = NoNumber
  NotANumber = NotANumber
  NumContexts = 2
  PVs = {p1}
  IOs = {b1, b2}
  WriteIOs = {b1}
  Unreadable = {}
  ChannelsOf <- ChannelsUneven
  IOsOf <- IOsLent
  Period <- PeriodTwo
  Timers = {T}
  RecordThreads = {R}
  ShellThreads = {S}
  RecordLock <- RecordLockR
  PVLock <- PVLockApart
  StatusRecs <- StatusRecsThree
  Boot = 5
  MaxClock = 6
  MaxVersion = 0
INVARIANTS
  StatusRecordCurrent
PROPERTIES
  WritesInTransactions
  RequestServed
  TransactionsEnd
