\* Two monitor sets, or one, of two records and a name without a record.
SPECIFICATION Spec
CHECK_DEADLOCK FALSE
CONSTANTS
  r1 = r1
  r2 = r2
  gone = gone
  s1 = s1
  s2 = s2
  b1 = b1
  b2 = b2
  None = None
  Absent = Absent
  NoPvs = NoPvs
  Unexpanded = gone
  TooLong = TooLong
  Names = {r1, r2, gone}
  Records = {r1, r2}
  Sets = {s1, s2}
  IOs = {b1}
  Rates = {5, 10}
  OnePvs = {r1}
  LateSets = {s2}
  PvLists <- Lists
  InfoPvs <- InfoOfR1
  Linked <- Processed
  Savers = {r2}
  MaxPvs = 2
  MaxIOs = 1
  MaxTimers = 2
INVARIANTS
  TypeOK
  LastSetOwnsAddresses
  OneSetKeepsValuesApart
PROPERTIES
  BootValuesKept
