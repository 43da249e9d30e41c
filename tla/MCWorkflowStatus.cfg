SPECIFICATION Spec
CONSTANTS
  Workflows = {f1}
  Stages = {"approval", "push"}
  Sessions = {s1, s2}
  Patched = {"approval"}
  PatchValues = {"waiting_confirmation"}
  MaxTasks = 1
  MaxRequests = 2
  MaxStops = 2
  Retriers = {r1}
  NoTask = NoTask
  NoWorkflow = NoWorkflow
INVARIANTS
  StatusIsDerived
CHECK_DEADLOCK FALSE
