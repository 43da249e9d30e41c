SPECIFICATION Spec
CONSTANTS
  Workflows = {f1}
  Stages = {"approval", "push"}
  Sessions = {}
  Patched = {"approval"}
  PatchValues = {"waiting_confirmation"}
  MaxTasks = 1
  MaxRequests = 2
  MaxStops = 2
  Retriers = {r1, r2}
  NoTask = NoTask
  NoWorkflow = NoWorkflow
INVARIANTS
  LinkedStageEnds
CHECK_DEADLOCK FALSE
