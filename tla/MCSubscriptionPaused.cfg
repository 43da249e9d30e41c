SPECIFICATION Spec
CONSTANTS
  Resources = {r1}
  Callers = {c1}
  Scheduler = scheduler
  Scoped = TRUE
  MaxRows = 1
  MaxChanges = 2
  MaxSearches = 2
  MaxStops = 1
  NoRow = NoRow
PROPERTIES
  PausedIsNotSearched
CHECK_DEADLOCK FALSE
