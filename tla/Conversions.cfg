\* Two entries of any of the types.
SPECIFICATION Spec
CHECK_DEADLOCK FALSE
CONSTANTS
  Sizes <- ScaledSizes
  Entries = 2
  Unset = Unset
INVARIANTS
  TypeOK
  SameTypeKeepsValue
  NarrowerKeepsLowBits
  WideLostOnlyAfterError
