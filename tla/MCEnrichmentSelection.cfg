\* Two scans of one channel select, reserve, expire, upload and import.
SPECIFICATION EnrichmentSpec
CONSTANTS
  a1 = a1
  a2 = a2
  v1 = v1
  v2 = v2
  v3 = v3
  Videos = {v1, v2}
  Analyses = {a1, a2}
  Workers = {}
  NoVideo = NoVideo
  NoAnalysis = NoAnalysis
  Backend = "local"
  GateMode = "observe"
  MaxAttempts = 1
  MaxJobs = 2
  MaxAudio = 2
  BatchSize = 1
  SessionLoss = FALSE
  SkipCommitLoss = FALSE
  MaxClaims = 2
  MaxReports = 0
  MaxFaults = 0
  Observations <- Reversed
  Pages <- ByOneThenAll
  Feasible = {v1, v2}
  Id <- MCId
  MinViews = 1
  MinOutlier = 2
  MedianMultiplier = 1
  MinDiscovered = 2
  PriorityPercent = 25
  TargetPercent = 50
  MinNew = 1
  MaxNew = 2
  NoObservation = NoObservation
INVARIANTS
  EnrichmentTypeOK
  OnlyScanned
  RanksDense
PROPERTIES
  ImplementsPipeline
  AllowanceKept
\* The system may stop: everything resolved, nothing in flight.
CHECK_DEADLOCK FALSE
