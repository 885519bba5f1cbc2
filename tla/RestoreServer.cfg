\* A server and a JSON file on a device that may fill up, and strings with
\* quotes.
SPECIFICATION Spec
CONSTANTS
  c1 = c1
  c2 = c2
  b1 = b1
  b2 = b2
  b3 = b3
  old = old
  new = new
  lines = lines
  speech = speech
  members = members
  Cut = Cut
  Absent = Absent
  Format <- FormatOf
  Kind <- KindOf
  Closed = {members}
  Rest <- RestOf
  Initial <- AllOld
  Inputs <- Quotes
  Default <- AllOld
  Unreadable = {c2}
  PVs = {c1, c2}
  IOs = {b2, b3}
  IOList <- ListServer
  Lists <- TwoLists
  Values = {old, new, speech, members, Cut}
  MayFill = {b2}
PROPERTIES
  RestoresWhatWasGiven
  FilesAreDurable
