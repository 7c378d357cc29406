\* Liveness of one job on MinIO, as deployed, with two workers and two faults.
SPECIFICATION FairSpec
CONSTANTS
  Videos = {v1}
  Analyses = {a1}
  Workers = {w1, w2}
  NoVideo = NoVideo
  NoAnalysis = NoAnalysis
  Backend = "minio"
  GateMode = "enforce"
  MaxAttempts = 2
  MaxJobs = 1
  MaxAudio = 3
  BatchSize = 1
  SessionLoss = TRUE
  SkipCommitLoss = TRUE
  MaxClaims = 1
  MaxReports = 0
  MaxFaults = 2
INVARIANTS
  InferencesBounded
PROPERTIES
  AcceptedResolved
  ReservationEnds
  FinishedAudioReclaimed
\* The system may stop: every job resolved or given back, nothing in flight.
CHECK_DEADLOCK FALSE
