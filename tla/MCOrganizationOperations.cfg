SPECIFICATION Spec
CONSTANTS
  Operations = {o1, o2}
  Plans = {p1}
  Keys = {k1, k2}
  Clients = {c1, c2}
  NoOperation = NoOperation
  NoPlan = NoPlan
  NoKey = NoKey
  Nobody = Nobody
  LeaseDuration = 1
  MaxNow = 3
  MaxRevision = 5
  MaxPlanRevision = 2
SYMMETRY ClientSymmetry
INVARIANTS
  TypeOK
  OneWriter
  OneOperationPerScope
  DirtyIffOrganized
  QueuedPlanWasConfirmed
PROPERTIES
  TakeoverOnlyAfterExpiry
  ImplementsLeasedJob
CHECK_DEADLOCK FALSE
