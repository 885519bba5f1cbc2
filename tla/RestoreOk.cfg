\* A text file on a device that fills up.
SPECIFICATION Spec
CONSTANTS
  c1 = c1
  c2 = c2
  b1 = b1
  b2 = b2
  b3 = b3
  old = old
  new = new
  lines = lines
  speech = speech
  members = members
  Cut = Cut
  Absent = Absent
  Format <- FormatOf
  Kind <- KindOf
  Closed = {}
  Rest <- RestOf
  Initial <- AllOld
  Inputs <- AllChange
  Default <- AllOld
  Unreadable = {}
  PVs = {c1, c2}
  IOs = {b1}
  IOList <- ListText
  Lists <- TwoLists
  Values = {old, new, Cut}
  MayFill = {b1}
INVARIANTS
  OkMeansOnDisk
