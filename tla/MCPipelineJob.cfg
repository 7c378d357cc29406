\* One job, two workers, MinIO: crashes, lost connections, redelivery.
SPECIFICATION Spec
CONSTANTS
  Videos = {v1}
  Analyses = {a1}
  Workers = {w1, w2}
  NoVideo = NoVideo
  NoAnalysis = NoAnalysis
  Backend = "minio"
  GateMode = "enforce"
  MaxAttempts = 2
  MaxJobs = 1
  MaxAudio = 3
  BatchSize = 1
  SessionLoss = FALSE
  SkipCommitLoss = FALSE
  MaxClaims = 2
  MaxReports = 1
  MaxFaults = 2
SYMMETRY Symmetry
INVARIANTS
  TypeOK
  NoLostJob
  AudioDurable
  FreshStart
  OneInferencePerVideo
  CompletedHasTranscript
PROPERTIES
  ImplementsLifecycle
\* The system may stop: every job resolved or given back, nothing in flight.
CHECK_DEADLOCK FALSE
