\* Two scans compete for two videos and one place; no worker takes jobs away.
SPECIFICATION Spec
CONSTANTS
  Videos = {v1, v2}
  Analyses = {a1, a2}
  Workers = {}
  NoVideo = NoVideo
  NoAnalysis = NoAnalysis
  Backend = "local"
  GateMode = "observe"
  MaxAttempts = 1
  MaxJobs = 1
  MaxAudio = 2
  BatchSize = 1
  SessionLoss = FALSE
  SkipCommitLoss = FALSE
  MaxClaims = 2
  MaxReports = 1
  MaxFaults = 1
SYMMETRY Symmetry
INVARIANTS
  ActiveWithinLimit
  InboxBounded
\* The system may stop: every job resolved or given back, nothing in flight.
CHECK_DEADLOCK FALSE
