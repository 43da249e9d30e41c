SPECIFICATION Spec
CONSTANTS
  Editors = {e1, e2}
  Kinds = {"identity"}
  Roots = {r1, r2}
  NoRoot = NoRoot
  MaxEdits = 3
  MaxStops = 1
PROPERTIES
  ConfirmationsAreKept
CHECK_DEADLOCK FALSE
