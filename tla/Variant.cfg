\* Three variants, two values, two types with objects and one without.
SPECIFICATION Spec
CONSTANTS
  Vars = {v1, v2, v3}
  Trivials = {int32}
  NonTrivials = {string, vector}
  Values = {x0, x1}
  Default = x0
  Void = Void
  Null = Null
INVARIANTS
  TypeOK
  NothingBroken
  ObjectsOwned
PROPERTIES
  HoldsOneValue
