\* A text and a JSON file on devices that do not fill up; the PV list is edited
\* between two runs of the IOC, and once lists a channel twice.
SPECIFICATION Spec
CONSTANTS
  c1 = c1
  c2 = c2
  b1 = b1
  b2 = b2
  b3 = b3
  old = old
  new = new
  lines = lines
  speech = speech
  members = members
  Cut = Cut
  Absent = Absent
  Format <- FormatOf
  Kind <- KindOf
  Closed = {}
  Rest <- RestOf
  Initial <- AllOld
  Inputs <- SecondLine
  Default <- AllOld
  Unreadable = {}
  PVs = {c1, c2}
  IOs = {b1, b2}
  IOList <- ListFiles
  Lists <- EditedLists
  Values = {old, new, lines, Cut}
  MayFill = {}
INVARIANTS
  TypeOK
  FileHoldsOneSave
  SavedIsReadBack
PROPERTIES
  RestoresWhatWasGiven
  FilesAreDurable
