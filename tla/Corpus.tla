------------------------------- MODULE Corpus -------------------------------
(***************************************************************************)
(* The state the API, the maintenance loop and the workers share: the      *)
(* PostgreSQL rows of one video (videos, transcription_jobs, transcripts,  *)
(* analysis_acquisitions), the durable audio of its job and the RabbitMQ   *)
(* queue transcription.v1.  backend/app/models.py makes                    *)
(* transcription_jobs.video_id UNIQUE, so a job is identified with its     *)
(* video: the job columns are functions of the video.                      *)
(*                                                                         *)
(* Clock readings are abstracted to what the code compares them with: a    *)
(* lease is none, active or lapsed, and a video is cooling until its 24 h  *)
(* have passed.  A WAV has size one, so byte limits are counted in WAVs.   *)
(***************************************************************************)
EXTENDS Naturals, FiniteSets

CONSTANTS
  Videos,         \* videos of the corpus
  Analyses,       \* browser scans that reserve and upload
  Workers,        \* containers running app.workers.whisper
  NoVideo,        \* "no video": an idle worker, an idle maintenance pass
  NoAnalysis,     \* NULL in videos.enrichment_analysis_id
  Backend,        \* AUDIO_STORAGE_BACKEND
  GateMode,       \* AUDIO_GATE_MODE
  MaxAttempts,    \* TRANSCRIPTION_MAX_ATTEMPTS
  MaxJobs,        \* AUDIO_QUEUE_MAX_JOBS
  MaxAudio,       \* AUDIO_QUEUE_MAX_BYTES, in WAVs
  BatchSize,      \* ACQUISITION_BATCH_SIZE
  SessionLoss,    \* may PostgreSQL drop an advisory lock's session
  SkipCommitLoss, \* may the commit after a skip's cleanup be lost on its own
  MaxClaims,      \* bound: reservations of one video
  MaxReports,     \* bound: failure reports in flight
  MaxFaults       \* bound: crashes, lost connections and lost commits

ASSUME CorpusAssumption ==
  /\ IsFiniteSet(Videos) /\ NoVideo \notin Videos
  /\ IsFiniteSet(Workers)
  /\ NoAnalysis \notin Analyses
  /\ Backend \in {"local", "minio"}
  /\ GateMode \in {"observe", "enforce"}
  /\ MaxAttempts \in Nat \ {0}
  /\ MaxJobs \in Nat \ {0} /\ MaxAudio \in Nat \ {0} /\ BatchSize \in Nat \ {0}
  /\ SessionLoss \in BOOLEAN /\ SkipCommitLoss \in BOOLEAN
  /\ MaxClaims \in Nat /\ MaxReports \in Nat /\ MaxFaults \in Nat

VARIABLES
  \* transcription_jobs
  status,         \* job.status, or "none" before the row exists
  attempts,       \* job.attempts
  path,           \* job.audio_path is set
  queuedAt,       \* job.queued_at is set
  err,            \* job.last_error_code, as far as the code reads it
  cooling,        \* videos whose job.updated_at is within the 24 h cooldown
  \* videos, analysis_acquisitions, transcripts
  enrichment,     \* video.enrichment_status
  owner,          \* video.enrichment_analysis_id
  lease,          \* video.enrichment_lease_until, compared with now()
  acquired,       \* rows of analysis_acquisitions
  transcript,     \* videos with a row in transcripts
  \* audio storage and broker
  wav,            \* videos whose <job_uuid>.wav exists
  part,           \* videos whose <job_uuid>.part was left behind
  ready,          \* messages of each video waiting in transcription.v1
  \* bounds
  claims,         \* reservations made of each video
  faults          \* faults that may still happen

jobVars == <<status, attempts, path, queuedAt, err, cooling>>
videoVars == <<enrichment, owner, lease>>
rowVars == <<acquired, transcript>>
audioVars == <<wav, part>>
corpusVars == <<jobVars, videoVars, rowVars, audioVars, ready, claims, faults>>
-----------------------------------------------------------------------------
ActiveStatuses == {"reserved", "audio_received", "queued", "processing"}
AcceptedStatuses == {"audio_received", "queued", "processing"}
TerminalStatuses == {"completed", "failed", "skipped"}
Statuses == {"none", "expired"} \cup ActiveStatuses \cup TerminalStatuses

(* last_error_code: only the unavailable-video code and cleanup_pending are
   ever read back; the other codes are one value. *)
Errors == {"none", "video_not_available", "cleanup_pending", "other"}

EnrichmentStatuses ==
  {"missing", "requested", "expired", "audio_received", "queued", "processing"}
    \cup TerminalStatuses

CorpusTypeOK ==
  /\ status \in [Videos -> Statuses]
  /\ attempts \in [Videos -> Nat]
  /\ path \in [Videos -> BOOLEAN]
  /\ queuedAt \in [Videos -> BOOLEAN]
  /\ err \in [Videos -> Errors]
  /\ cooling \subseteq Videos
  /\ enrichment \in [Videos -> EnrichmentStatuses]
  /\ owner \in [Videos -> Analyses \cup {NoAnalysis}]
  /\ lease \in [Videos -> {"none", "active", "lapsed"}]
  /\ acquired \subseteq Analyses \X Videos
  /\ transcript \subseteq Videos
  /\ wav \subseteq Videos
  /\ part \subseteq Videos
  /\ ready \in [Videos -> Nat]
  /\ claims \in [Videos -> Nat]
  /\ faults \in Nat

CorpusInit ==
  /\ status = [v \in Videos |-> "none"]
  /\ attempts = [v \in Videos |-> 0]
  /\ path = [v \in Videos |-> FALSE]
  /\ queuedAt = [v \in Videos |-> FALSE]
  /\ err = [v \in Videos |-> "none"]
  /\ cooling = {}
  /\ enrichment = [v \in Videos |-> "missing"]
  /\ owner = [v \in Videos |-> NoAnalysis]
  /\ lease = [v \in Videos |-> "none"]
  /\ acquired = {}
  /\ transcript = {}
  /\ wav = {}
  /\ part = {}
  /\ ready = [v \in Videos |-> 0]
  /\ claims = [v \in Videos |-> 0]
  /\ faults = MaxFaults
-----------------------------------------------------------------------------
Active == {v \in Videos : status[v] \in ActiveStatuses}

FaultyAudioUsed == Cardinality(wav)

(* capacity(): the bytes in use are the files of the inbox, or for MinIO the
   sizes recorded on the active jobs. *)
AudioUsed ==
  IF Backend = "minio"
    THEN Cardinality({v \in Active : path[v]})
    ELSE Cardinality(wav) + Cardinality(part)

(* A fault may happen; each one is counted. *)
Fault == faults > 0 /\ faults' = faults - 1

=============================================================================
