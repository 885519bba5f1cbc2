\* A text and a JSON file; the first is always used.
SPECIFICATION Spec
CONSTANTS
  c1 = c1
  c2 = c2
  b1 = b1
  b2 = b2
  b3 = b3
  old = old
  new = new
  lines = lines
  speech = speech
  members = members
  Cut = Cut
  Absent = Absent
  Format <- FormatOf
  Kind <- KindOf
  Closed = {}
  Rest <- RestOf
  Initial <- AllOld
  Inputs <- AllChange
  Default <- AllOld
  Unreadable = {}
  PVs = {c1, c2}
  IOs = {b1, b2}
  IOList <- ListFiles
  Lists <- TwoLists
  Values = {old, new, Cut}
  MayFill = {}
PROPERTIES
  RestoresFromAll
