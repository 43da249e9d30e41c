SPECIFICATION FairSpec
CONSTANTS
  o1 = o1
  o2 = o2
  video = video
  subtitle = subtitle
  extra = extra
  rival = rival
  stranger = stranger
  inbox = inbox
  shelf = shelf
  n1 = n1
  n2 = n2
  n3 = n3
  n4 = n4
  Worker = Worker
  Nobody = Nobody
  Objects = {video, rival}
  Parents = {inbox, shelf}
  Names = {n1, n2, n3, n4}
  Unobserved = Unobserved
  Operations = {o1, o2}
  Queue <- TwoQueue
  Steps <- TwoSteps
  NoOperation = NoOperation
  Nowhere = Nowhere
  Budgets = {20}
  LocalFailures = FALSE
  Interruptions = TRUE
  LeaseDuration = 1
  MaxStarts = 2
  MaxNow = 1
  MaxAttempts = 2
  MaxTampers = 0
PROPERTIES
  RunningIsRecovered
CHECK_DEADLOCK FALSE
