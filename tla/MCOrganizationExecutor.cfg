SPECIFICATION Spec
CONSTANTS
  o1 = o1
  o2 = o2
  video = video
  subtitle = subtitle
  extra = extra
  rival = rival
  stranger = stranger
  inbox = inbox
  shelf = shelf
  n1 = n1
  n2 = n2
  n3 = n3
  n4 = n4
  Worker = Worker
  Nobody = Nobody
  Objects = {video, subtitle, extra, stranger}
  Parents = {inbox, shelf}
  Names = {n1, n2, n3, n4}
  Unobserved = Unobserved
  Operations = {o1}
  Queue <- OneQueue
  Steps <- OneStep
  NoOperation = NoOperation
  Nowhere = Nowhere
  Budgets = {7, 11, 20}
  LocalFailures = TRUE
  Interruptions = TRUE
  LeaseDuration = 1
  MaxStarts = 2
  MaxNow = 2
  MaxAttempts = 2
  MaxTampers = 1
INVARIANTS
  TypeOK
  SettledIsQuiescent
  GroupsAreWhole
  OrganizedIsTrue
PROPERTIES
  NoSecondWrite
  ImplementsLeasedJob
CHECK_DEADLOCK FALSE
