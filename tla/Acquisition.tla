---------------------------- MODULE Acquisition ----------------------------
(***************************************************************************)
(* The API side of the pipeline (backend/app/jobs.py, services.py): a      *)
(* browser scan reserves videos, uploads their audio or reports that it    *)
(* could not; the upload is stored, committed and published; maintenance   *)
(* recovers what a crash left behind, expires abandoned reservations,      *)
(* publishes what was not published and deletes audio that is not needed.  *)
(*                                                                         *)
(* The inbox flock serializes reservation, upload, recovery and cleanup.   *)
(* Each of them is one atomic step, except recovery: it reads the ids of   *)
(* reserved jobs first and locks the video row of each only later, and     *)
(* release_reserved_acquisition, which takes no flock, may run in between. *)
(* reconciling is the job whose id was read, and stands for the held flock.*)
(* Recovery handles up to 20 ids per pass; passes over one id each give    *)
(* the same interleavings, since only a release can come between.          *)
(***************************************************************************)
EXTENDS Corpus

VARIABLES
  reports,        \* acquisition-failure POSTs of the browser, in flight
  reconciling     \* the reserved job maintenance is about to recover or expire

acquisitionVars == <<reports, reconciling>>

ReportCodes == {"video_not_available", "other"}
Report == [analysis : Analyses, video : Videos, code : ReportCodes, claim : Nat]

AcquisitionTypeOK ==
  /\ reports \subseteq Report
  /\ reconciling \in Videos \cup {NoVideo}

AcquisitionInit == reports = {} /\ reconciling = NoVideo

FlockFree == reconciling = NoVideo
-----------------------------------------------------------------------------
(* Reservation *)

(* analysis_response: the requests a scan still has to upload. *)
Pending(a) ==
  {v \in Videos : /\ owner[v] = a /\ lease[v] = "active"
                  /\ status[v] = "reserved" /\ v \notin transcript}

FaultyReservable(a, v) ==
  /\ v \notin transcript
  /\ lease[v] # "active"
  /\ status[v] \in {"none", "reserved", "expired", "failed"}

(* claim_video and reserve_for_analysis: a scan may reserve a video nobody
   holds, has transcribed or has uploaded; one that it acquired before only
   when the job expired; and none within the 24 h after the browser found no
   MP4 for it. *)
Reservable(a, v) ==
  /\ v \notin transcript
  /\ lease[v] # "active"
  /\ status[v] \in {"none", "reserved", "expired"}
  /\ <<a, v>> \in acquired => status[v] = "expired"
  /\ ~(status[v] = "expired" /\ err[v] = "video_not_available" /\ v \in cooling)

FaultyHasRoom(S) == AudioUsed < MaxAudio /\ Cardinality(Active) <= MaxJobs

(* capacity(new_job=True), asked before every reservation of the batch: one
   refusal rolls the whole batch back. *)
HasRoom(S) ==
  /\ AudioUsed < MaxAudio
  /\ Cardinality(Active) < MaxJobs
  /\ Cardinality(Active \cup S) <= MaxJobs

(* What claim_video and reserve_for_analysis write for the videos S. *)
Reserve(a, S) ==
  /\ status' = [v \in Videos |-> IF v \in S THEN "reserved" ELSE status[v]]
  /\ err' = [v \in Videos |-> IF v \in S THEN "none" ELSE err[v]]
  /\ enrichment' = [v \in Videos |-> IF v \in S THEN "requested" ELSE enrichment[v]]
  /\ owner' = [v \in Videos |-> IF v \in S THEN a ELSE owner[v]]
  /\ lease' = [v \in Videos |-> IF v \in S THEN "active" ELSE lease[v]]
  /\ claims' = [v \in Videos |-> IF v \in S THEN claims[v] + 1 ELSE claims[v]]
  /\ cooling' = cooling \ S
  /\ acquired' = acquired \cup ({a} \X S)

(* acquisition_batch, and the reserving ingest of POST /analyses, whatever the
   candidates are: module Enrichment says which. *)
AcquisitionBatch(a) ==
  /\ FlockFree
  /\ \E S \in SUBSET Videos :
       /\ S # {}
       /\ \A v \in S : Reservable(a, v) /\ claims[v] < MaxClaims
       /\ Cardinality(Pending(a)) + Cardinality(S) <= BatchSize
       /\ HasRoom(S)
       /\ Reserve(a, S)
  /\ UNCHANGED <<attempts, path, queuedAt, transcript, audioVars, ready, faults,
                 acquisitionVars>>

(* enrichment_lease_until passes. *)
LeaseLapses(v) ==
  /\ lease[v] = "active"
  /\ lease' = [lease EXCEPT ![v] = "lapsed"]
  /\ UNCHANGED <<jobVars, enrichment, owner, rowVars, audioVars, ready, claims,
                 faults, acquisitionVars>>

(* 24 h pass since the unavailable report. *)
CooldownElapses(v) ==
  /\ v \in cooling
  /\ cooling' = cooling \ {v}
  /\ UNCHANGED <<status, attempts, path, queuedAt, err, videoVars, rowVars,
                 audioVars, ready, claims, faults, acquisitionVars>>
-----------------------------------------------------------------------------
(* Release *)

(* The browser gives up on a request it holds.  claim says which reservation
   it means; the message carries only the scan, the video and the code. *)
SendReport(a, v, code) ==
  /\ owner[v] = a /\ status[v] = "reserved"
  /\ Cardinality(reports) < MaxReports
  /\ reports' = reports \cup
       {[analysis |-> a, video |-> v, code |-> code, claim |-> claims[v]]}
  /\ UNCHANGED <<corpusVars, reconciling>>

FaultyReleasable(a, v) ==
  /\ <<a, v>> \in acquired /\ owner[v] = a
  /\ status[v] \in {"reserved", "queued"}

Releasable(a, v) ==
  <<a, v>> \in acquired /\ owner[v] = a /\ status[v] = "reserved"

(* release_reserved_acquisition: locks the video and job rows, not the
   inbox.  A report that releases nothing is answered and changes nothing. *)
Release(a, v, code) ==
  IF Releasable(a, v)
    THEN /\ status' = [status EXCEPT ![v] = "expired"]
         /\ err' = [err EXCEPT ![v] = code]
         /\ cooling' = IF code = "video_not_available" THEN cooling \cup {v}
                       ELSE cooling
         /\ enrichment' = [enrichment EXCEPT ![v] = "expired"]
         /\ owner' = [owner EXCEPT ![v] = NoAnalysis]
         /\ lease' = [lease EXCEPT ![v] = "none"]
    ELSE UNCHANGED <<status, err, cooling, videoVars>>

(* A report arrives.  HTTP may deliver it late, or again. *)
DeliverReport(r) ==
  /\ Release(r.analysis, r.video, r.code)
  /\ reports' \in {reports, reports \ {r}}
  /\ UNCHANGED <<attempts, path, queuedAt, rowVars, audioVars, ready, claims,
                 faults, reconciling>>

ReportLost(r) ==
  /\ reports' = reports \ {r}
  /\ UNCHANGED <<corpusVars, reconciling>>
-----------------------------------------------------------------------------
(* Upload *)

(* The conditions of receive_audio for storing a new WAV.  A .part left by a
   crash refuses the exclusive create until cleanup removes it. *)
Uploadable(a, v) ==
  /\ v \notin transcript
  /\ owner[v] = a /\ <<a, v>> \in acquired
  /\ status[v] = "reserved" /\ lease[v] = "active"
  /\ AudioUsed + 1 < MaxAudio
  /\ Cardinality(Active) <= MaxJobs
  /\ v \notin part

(* The WAV is renamed into place; with MinIO it is PUT over what is there and
   its size is asked for. *)
Put(v) == wav' = wav \cup {v}

(* Then the row names it. *)
Store(v) ==
  /\ status' = [status EXCEPT ![v] = "audio_received"]
  /\ path' = [path EXCEPT ![v] = TRUE]
  /\ queuedAt' = [queuedAt EXCEPT ![v] = FALSE]
  /\ enrichment' = [enrichment EXCEPT ![v] = "audio_received"]
  /\ Put(v)

(* The WAV is durable and the row says so; the answer is 202. *)
ReceiveAudio(a, v) ==
  /\ FlockFree /\ Uploadable(a, v)
  /\ Store(v)
  /\ UNCHANGED <<attempts, err, cooling, owner, lease, rowVars, part, ready,
                 claims, faults, acquisitionVars>>

(* The API dies after the rename or PUT and before the commit, or the size of
   the object cannot be read: the upload fails and the object stays. *)
ReceiveCrash(a, v) ==
  /\ FlockFree /\ Uploadable(a, v) /\ Fault
  /\ Put(v)
  /\ UNCHANGED <<jobVars, videoVars, rowVars, part, ready, claims, acquisitionVars>>

(* The API dies while it writes the .part file. *)
ReceiveTorn(a, v) ==
  /\ Backend = "local"
  /\ FlockFree /\ Uploadable(a, v) /\ Fault
  /\ part' = part \cup {v}
  /\ UNCHANGED <<jobVars, videoVars, rowVars, wav, ready, claims, acquisitionVars>>

(* An upload for a video that already has a transcript completes its job,
   whatever its state, before any check of the reservation. *)
ReceiveTranscribed(v) ==
  /\ FlockFree
  /\ v \in transcript /\ status[v] \notin {"none", "completed"}
  /\ status' = [status EXCEPT ![v] = "completed"]
  /\ UNCHANGED <<attempts, path, queuedAt, err, cooling, videoVars, rowVars,
                 audioVars, ready, claims, faults, acquisitionVars>>
-----------------------------------------------------------------------------
(* Publication: enqueue() holds the job row while it publishes, so a consumer
   cannot see the message and the old row.  It runs after the upload commit
   and, for audio_received jobs with no queued_at, in every maintenance pass;
   after an upload queued_at is NULL too. *)

Publishable(v) == status[v] = "audio_received" /\ ~queuedAt[v]

FaultyEnqueue(v) ==
  /\ Publishable(v)
  /\ ready' \in {ready, [ready EXCEPT ![v] = @ + 1]}
  /\ status' = [status EXCEPT ![v] = "queued"]
  /\ queuedAt' = [queuedAt EXCEPT ![v] = TRUE]
  /\ err' = [err EXCEPT ![v] = "none"]
  /\ UNCHANGED <<attempts, path, cooling, videoVars, rowVars, audioVars, claims,
                 faults, acquisitionVars>>

Enqueue(v) ==
  /\ Publishable(v)
  /\ ready' = [ready EXCEPT ![v] = @ + 1]
  /\ status' = [status EXCEPT ![v] = "queued"]
  /\ queuedAt' = [queuedAt EXCEPT ![v] = TRUE]
  /\ err' = [err EXCEPT ![v] = "none"]
  /\ UNCHANGED <<attempts, path, cooling, videoVars, rowVars, audioVars, claims,
                 faults, acquisitionVars>>

(* The broker is unreachable or refuses. *)
PublishRefused(v) ==
  /\ Publishable(v)
  /\ err' = [err EXCEPT ![v] = "other"]
  /\ UNCHANGED <<status, attempts, path, queuedAt, cooling, videoVars, rowVars,
                 audioVars, ready, claims, faults, acquisitionVars>>

(* The broker has the message, but the confirm or the commit is lost. *)
PublishUnconfirmed(v) ==
  /\ Publishable(v) /\ Fault
  /\ ready' = [ready EXCEPT ![v] = @ + 1]
  /\ err' \in {err, [err EXCEPT ![v] = "other"]}
  /\ UNCHANGED <<status, attempts, path, queuedAt, cooling, videoVars, rowVars,
                 audioVars, claims, acquisitionVars>>
-----------------------------------------------------------------------------
(* Maintenance *)

(* requeue_pending_jobs takes the flock and reads the ids of reserved jobs. *)
ReconcileStart(v) ==
  /\ FlockFree /\ status[v] = "reserved"
  /\ reconciling' = v
  /\ UNCHANGED <<corpusVars, reports>>

(* Its loop body for one id: the status is not read again. *)
ReconcileRecover(v) ==
  /\ reconciling = v /\ v \in wav
  /\ status' = [status EXCEPT ![v] = "audio_received"]
  /\ path' = [path EXCEPT ![v] = TRUE]
  /\ enrichment' = [enrichment EXCEPT ![v] = "audio_received"]
  /\ reconciling' = NoVideo
  /\ UNCHANGED <<attempts, queuedAt, err, cooling, owner, lease, rowVars,
                 audioVars, ready, claims, faults, reports>>

(* The stored WAV no longer validates; the video row is left alone. *)
ReconcileInvalid(v) ==
  /\ reconciling = v /\ v \in wav /\ Fault
  /\ status' = [status EXCEPT ![v] = "failed"]
  /\ path' = [path EXCEPT ![v] = TRUE]
  /\ err' = [err EXCEPT ![v] = "other"]
  /\ reconciling' = NoVideo
  /\ UNCHANGED <<attempts, queuedAt, cooling, videoVars, rowVars, audioVars,
                 ready, claims, reports>>

FaultyAbandoned(v) == lease[v] = "none"

Abandoned(v) == lease[v] # "active"

(* The reservation expires with its lease.  Owner and enrichment status of the
   video stay. *)
Expire(v) ==
  /\ status' = IF Abandoned(v) THEN [status EXCEPT ![v] = "expired"] ELSE status
  /\ reconciling' = NoVideo
  /\ UNCHANGED <<attempts, path, queuedAt, err, cooling, videoVars, rowVars,
                 audioVars, ready, claims, reports>>

(* No WAV. *)
ReconcileAbsent(v) ==
  /\ reconciling = v /\ v \notin wav
  /\ Expire(v) /\ UNCHANGED faults

(* MinIO does not answer the question for the object: recovery_location takes
   that for no object and looks for a local file, which does not exist. *)
ReconcileUnseen(v) ==
  /\ Backend = "minio"
  /\ reconciling = v /\ v \in wav /\ Fault
  /\ Expire(v)

(* Storage or database fails: the pass ends and rolls back. *)
ReconcileAbort ==
  /\ reconciling # NoVideo /\ Fault
  /\ reconciling' = NoVideo
  /\ UNCHANGED <<jobVars, videoVars, rowVars, audioVars, ready, claims, reports>>

FaultyRemovable(v) == path[v] /\ v \in wav

FaultyRetention(v) == status[v] = "completed" /\ v \in wav

(* cleanup_audio: the audio of a completed job, or of a failed one once its
   retention has passed.  For MinIO it goes by the rows, locally by the files. *)
Removable(v) ==
  /\ status[v] \in {"completed", "failed"}
  /\ IF Backend = "minio" THEN path[v] ELSE v \in wav

ClearCleanup(v) == IF err[v] = "cleanup_pending" THEN "none" ELSE err[v]

CleanupAudio(v) ==
  /\ FlockFree /\ Removable(v)
  /\ wav' = wav \ {v}
  /\ path' = [path EXCEPT ![v] = FALSE]
  /\ err' = [err EXCEPT ![v] = ClearCleanup(v)]
  /\ UNCHANGED <<status, attempts, queuedAt, cooling, videoVars, rowVars, part,
                 ready, claims, faults, acquisitionVars>>

CleanupFails(v) ==
  /\ FlockFree /\ Removable(v)
  /\ err' = [err EXCEPT ![v] = "cleanup_pending"]
  /\ UNCHANGED <<status, attempts, path, queuedAt, cooling, videoVars, rowVars,
                 audioVars, ready, claims, faults, acquisitionVars>>

(* The file is gone and the commit that ends the pass is lost. *)
CleanupUncommitted(v) ==
  /\ FlockFree /\ Removable(v) /\ Fault
  /\ wav' = wav \ {v}
  /\ UNCHANGED <<jobVars, videoVars, rowVars, part, ready, claims, acquisitionVars>>

(* A .part older than two hours. *)
CleanupPart(v) ==
  /\ FlockFree /\ v \in part
  /\ part' = part \ {v}
  /\ UNCHANGED <<jobVars, videoVars, rowVars, wav, ready, claims, faults,
                 acquisitionVars>>
-----------------------------------------------------------------------------
(* What the clock and maintenance do to one video. *)
Maintain(v) ==
  \/ Enqueue(v)
  \/ ReconcileStart(v) \/ ReconcileRecover(v) \/ ReconcileAbsent(v)
  \/ CleanupAudio(v) \/ CleanupPart(v)

MaintenanceFails(v) ==
  \/ PublishRefused(v) \/ PublishUnconfirmed(v)
  \/ ReconcileInvalid(v) \/ ReconcileUnseen(v)
  \/ CleanupFails(v) \/ CleanupUncommitted(v)

Upload(v) ==
  \/ ReceiveTranscribed(v)
  \/ \E a \in Analyses : ReceiveAudio(a, v) \/ ReceiveCrash(a, v) \/ ReceiveTorn(a, v)

Browse ==
  \/ \E a \in Analyses : AcquisitionBatch(a)
  \/ \E a \in Analyses, v \in Videos, c \in ReportCodes : SendReport(a, v, c)
  \/ \E r \in reports : DeliverReport(r) \/ ReportLost(r)

AcquisitionNext ==
  \/ Browse
  \/ ReconcileAbort
  \/ \E v \in Videos :
       \/ Upload(v) \/ Maintain(v) \/ MaintenanceFails(v)
       \/ LeaseLapses(v) \/ CooldownElapses(v)

=============================================================================
