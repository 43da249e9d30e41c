SPECIFICATION ServicesSpec
CONSTANTS
  Scopes = {"whole"}
  WholeTitle = "whole"
  Findable = {"magnet", "share"}
  Shares = {"share"}
  Searchers = {"user"}
  Warmer = "warmer"
  MaxBegun = 3
  NoSearch = "nobody"
  Admins = {"a1", "a2"}
  Cookies = {"k"}
  FileCookie = "f"
  NoCookie = "none"
  MaxSettings = 2
  MaxLives = 1
  Editors = {"e1", "e2"}
  Kinds = {"identity", "profile", "preferences"}
  Roots = {"r1", "r2"}
  MaxRecordEdits = 3
  MaxStarts = 1
  NoRoot = "none"
  MaxRecords = 4
  MaxCrashes = 1
  Limits = {1, 2}
  Fetchers = {"c1", "c2"}
  Hashes = {"h"}
  Concurrency = 2
  MaxDeaths = 1
  Magnets = {"m1", "m2"}
  MaxBatches = 2
  MaxHalts = 1
  NoBatch = NoBatch
  Workflows = {f1}
  Stages = {"approval", "push"}
  Sessions = {s1}
  Patched = {"approval"}
  PatchValues = {"waiting_confirmation"}
  MaxTasks = 1
  MaxRequests = 2
  MaxStops = 1
  Retriers = {r1, r2}
  NoTask = NoTask
  NoWorkflow = NoWorkflow
  Callers = {c1, c2}
  MaxContents = 2
  MaxRevision = 4
  Owners = {w1, w2, w3}
  MaxTokens = 2
  MaxStamps = 3
  Keys = {k1, k2}
  Order <- MCOrder
  Versions = {1}
  Scanners = {scanner1, scanner2}
  Guards = {guard1}
  MaxEdits = 1
  MaxScans = 2
  MaxFaults = 1
  MaxChecks = 1
  NoKey = NoKey
  NotListed = NotListed
  NoTotal = NoTotal
  Endpoints = {e1, e2}
  Publishers = {background, route}
  Background = background
  KeyChanges = TRUE
  MaxAttempts = 2
  MaxEvents = 1
  MaxRetries = 1
  MaxChanges = 1
  MaxRestarts = 1
  NoDelivery = NoDelivery
  MaxBackups = 5
  MaxKills = 1
  Retention = 2
INVARIANTS
  ServicesTypeOK
  SubmissionsAreRequested
  StageFollowsTask
  CompleteSnapshotIsFaithful
  AllowedMeansAbsent
  DeliveredWasAccepted
  AuditTellsTheState
  PagesShowEverything
  EnoughRemain
PROPERTIES
  InvalidatedStaysOut
  RejectionKeepsRunning
  PartialLosesNothing
  BatchesAreTrue
  SettingsAreTrue
  OnlyOwnTorrentsGo
CHECK_DEADLOCK FALSE
