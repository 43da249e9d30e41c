SPECIFICATION QueuesSpec
CONSTANTS
  o1 = o1
  o2 = o2
  video = video
  subtitle = subtitle
  extra = extra
  rival = rival
  stranger = stranger
  inbox = inbox
  shelf = shelf
  n1 = n1
  n2 = n2
  n3 = n3
  n4 = n4
  Worker = Worker
  Nobody = Nobody
  Objects = {video, rival}
  Parents = {inbox, shelf}
  Names = {n1, n2, n3, n4}
  Unobserved = Unobserved
  Operations = {o1, o2}
  Queue <- TwoQueue
  Steps <- TwoSteps
  NoOperation = NoOperation
  Nowhere = Nowhere
  Budgets = {20}
  LocalFailures = FALSE
  Interruptions = FALSE
  LeaseDuration = 1
  MaxStarts = 1
  MaxNow = 1
  MaxAttempts = 2
  MaxTampers = 0
  None = None
  Releases = {"r"}
  Callers = {"c"}
  Scheduler = "scheduler"
  Scoped = FALSE
  MaxRows = 2
  MaxChanges = 2
  MaxSearches = 2
  MaxRestarts = 1
  NoSubscription = None
  Visitors = {"guest"}
  ListingCalls = {1, 4}
INVARIANTS
  NewIsReportedOnce
  ProbeIsTidy
PROPERTIES
  NothingIsOverwritten
  QueuedIsTaken
  BegunEnds
CHECK_DEADLOCK FALSE
