\* A failure report delivered twice meets the next reservation of its scan.
SPECIFICATION Spec
CONSTANTS
  Videos = {v1}
  Analyses = {a1}
  Workers = {}
  NoVideo = NoVideo
  NoAnalysis = NoAnalysis
  Backend = "local"
  GateMode = "enforce"
  MaxAttempts = 2
  MaxJobs = 1
  MaxAudio = 3
  BatchSize = 1
  SessionLoss = FALSE
  SkipCommitLoss = FALSE
  MaxClaims = 2
  MaxReports = 1
  MaxFaults = 0
PROPERTIES
  ReleaseIsCurrent
\* The system may stop: every job resolved or given back, nothing in flight.
CHECK_DEADLOCK FALSE
