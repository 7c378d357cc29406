\* A skipped job whose audio could not be deleted.
SPECIFICATION FairSpec
CONSTANTS
  Videos = {v1}
  Analyses = {a1}
  Workers = {w1}
  NoVideo = NoVideo
  NoAnalysis = NoAnalysis
  Backend = "local"
  GateMode = "enforce"
  MaxAttempts = 2
  MaxJobs = 1
  MaxAudio = 3
  BatchSize = 1
  SessionLoss = FALSE
  SkipCommitLoss = FALSE
  MaxClaims = 1
  MaxReports = 0
  MaxFaults = 1
PROPERTIES
  AudioReclaimed
\* The system may stop: every job resolved or given back, nothing in flight.
CHECK_DEADLOCK FALSE
