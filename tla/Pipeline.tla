------------------------------ MODULE Pipeline ------------------------------
(***************************************************************************)
(* Acquisition, workers and transcript import over one corpus.             *)
(***************************************************************************)
EXTENDS Acquisition, Worker

vars == <<corpusVars, acquisitionVars, workerVars>>

(* import_confirm of backend/app/admin.py: under the video row's lock, a video
   of the uploaded file without a transcript gets one.  Its job stays. *)
Import(v) ==
  /\ v \notin transcript
  /\ transcript' = transcript \cup {v}
  /\ UNCHANGED <<jobVars, videoVars, acquired, audioVars, ready, claims, faults,
                 acquisitionVars, workerVars>>

Init == CorpusInit /\ AcquisitionInit /\ WorkerInit

Next ==
  \/ AcquisitionNext /\ UNCHANGED workerVars
  \/ WorkerNext /\ UNCHANGED acquisitionVars
  \/ \E v \in Videos : Import(v)

Spec == Init /\ [][Next]_vars

(* maintenance_loop runs every minute and the workers run for ever; a broker
   that refuses and a storage that fails come back.  Nothing makes a browser
   upload, report or reserve, nor an operator import. *)
Fairness ==
  /\ \A v \in Videos :
       /\ WF_vars(LeaseLapses(v) /\ UNCHANGED workerVars)
       /\ WF_vars(Maintain(v) /\ UNCHANGED workerVars)
  /\ \A w \in Workers : WF_vars(Work(w) /\ UNCHANGED acquisitionVars)

FairSpec == Spec /\ Fairness

TypeOK == CorpusTypeOK /\ AcquisitionTypeOK /\ WorkerTypeOK
-----------------------------------------------------------------------------
(* Safety *)

(* A delivery held by w will come back unless the task that is attached to it
   has already decided to settle it for good. *)
WillReturn(w) == ~(pc[w] = "done" /\ attached[w] /\ outcome[w] \in {"ack", "reject"})

Backed(v) == ready[v] > 0 \/ \E w \in Workers : unacked[w] = v /\ WillReturn(w)

(* Every queued or processing job is backed by a message that is waiting or
   will be redelivered: queued jobs are never published again
   (requeue_pending_jobs selects only audio_received), so a job without a
   message would be stuck for ever. *)
NoLostJob == \A v \in Videos : status[v] \in {"queued", "processing"} => Backed(v)

(* The audio of an accepted job exists and the row names it, through crashes,
   redeliveries and cleanup: a WAV is deleted only after a terminal status is
   durable. *)
AudioDurable ==
  \A v \in Videos : status[v] \in AcceptedStatuses => path[v] /\ v \in wav

(* Accepted audio that waits for publication is what requeue_pending_jobs
   selects (queued_at IS NULL), and a reservation starts with no audio path,
   no attempt and no message: nothing of an earlier life of the row leaks into
   a new reservation. *)
FreshStart ==
  \A v \in Videos :
    /\ status[v] = "audio_received" => ~queuedAt[v]
    /\ status[v] \in {"none", "reserved", "expired"} =>
         ~path[v] /\ ~queuedAt[v] /\ attempts[v] = 0 /\ ~Backed(v)

(* Whisper is started at most TRANSCRIPTION_MAX_ATTEMPTS times on a video, even
   when workers are killed or lose their lock: the attempt is committed first. *)
InferencesBounded == \A v \in Videos : inferences[v] <= MaxAttempts

(* The advisory lock: one video is never in two executors at once, counting
   the tasks whose broker connection died. *)
OneInferencePerVideo ==
  \A u, w \in Workers : u # w /\ Working(u) /\ Working(w) => task[u] # task[w]

(* The active jobs, and the one recovery is about to touch: it may have been
   given back since its id was read, and recovery may make it active again. *)
Held == Active \cup ({reconciling} \cap Videos)

(* AUDIO_QUEUE_MAX_JOBS bounds the active jobs, retries and late recoveries
   included. *)
ActiveWithinLimit == Cardinality(Held) <= MaxJobs

(* A completed job has a transcript: they are one transaction. *)
CompletedHasTranscript ==
  \A v \in Videos : status[v] = "completed" => v \in transcript

(* The local inbox stays below AUDIO_QUEUE_MAX_BYTES, what crashes left behind
   included. *)
InboxBounded == Cardinality(wav) + Cardinality(part) < MaxAudio

(* A job is given back only for the reservation its report is about: a report
   that is late or delivered twice must not undo the next one. *)
ReleaseIsCurrent ==
  [][\A r \in reports :
       Release(r.analysis, r.video, r.code) /\ status'[r.video] # status[r.video]
         => r.claim = claims[r.video]]_vars
-----------------------------------------------------------------------------
(* Refinement *)

PhaseOf(s) ==
  IF s \in {"none", "expired"} THEN "unclaimed"
  ELSE IF s \in AcceptedStatuses THEN "accepted" ELSE s

Lifecycle ==
  INSTANCE JobLifecycle
    WITH phase <- [v \in Videos |-> PhaseOf(status[v])], written <- transcript

(* Every step of API, maintenance and workers is one step of the promised job
   lifecycle, for every video, or leaves it alone. *)
ImplementsLifecycle == Lifecycle!Spec
-----------------------------------------------------------------------------
(* Liveness *)

Resolved(v) == status[v] \in TerminalStatuses

(* On MinIO a delivery of a job whose row names no object is rejected. *)
Stranded(v) == Backend = "minio" /\ ~path[v]

(* Accepted audio gets a result: no interleaving of publication, redelivery,
   lock contention and lost workers leaves it behind.  The exception is a job
   that the loss of the commit after a skip's cleanup put back into the queue
   without its object: its delivery is rejected (whisper.py:112-119) and it
   waits for ever.  Without that loss none is stranded (AudioDurable). *)
AcceptedResolved ==
  \A v \in Videos :
    (status[v] \in AcceptedStatuses /\ ~Stranded(v)) ~> (Resolved(v) \/ Stranded(v))

(* A reservation never keeps its place in the queue for ever. *)
ReservationEnds ==
  \A v \in Videos : (status[v] = "reserved") ~> (status[v] # "reserved")

(* The audio that the row of a completed or failed job names is deleted, by the
   worker or, when that failed or the worker died, by cleanup_audio.  (A late
   skip takes the job out of cleanup_audio's reach: see AudioReclaimed.  An
   object that no row names stays when its job completes: jobs.py:246, 291.) *)
FinishedAudioReclaimed ==
  \A v \in Videos :
    (status[v] \in {"completed", "failed"} /\ path[v])
      ~> (v \notin wav \/ status[v] = "skipped")

(* The audio of every resolved job is deleted. *)
AudioReclaimed == \A v \in Videos : Resolved(v) ~> (v \notin wav)

=============================================================================
