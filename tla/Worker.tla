------------------------------- MODULE Worker -------------------------------
(***************************************************************************)
(* The transcription workers (backend/app/workers/whisper.py).  A worker   *)
(* consumes transcription.v1 with prefetch 1 and manual ACK and hands each *)
(* delivery to an executor with one thread.  The thread takes the video's  *)
(* PostgreSQL advisory lock, counts the attempt, lets YAMNet gate the      *)
(* audio, runs Whisper, commits the result and deletes the audio; only     *)
(* then does the Rabbit thread settle the delivery.                        *)
(*                                                                         *)
(* When the broker connection dies, the broker redelivers, but the thread  *)
(* goes on: the task is then no longer attached to a delivery and its      *)
(* outcome is dropped.  A delivery whose task had not started stays in the *)
(* executor's queue as a stray task, and runs before later deliveries.     *)
(***************************************************************************)
EXTENDS Corpus

VARIABLES
  unacked,        \* the delivery a worker holds, as its video
  stray,          \* tasks queued in the executor whose delivery is gone
  pc,             \* where the executor's thread is in process_job
  task,           \* the video it works on
  attached,       \* its delivery is still unacked here
  lost,           \* PostgreSQL dropped the session of its advisory lock
  outcome,        \* what process_job returned
  inferences      \* Whisper runs started on each video

workerVars == <<unacked, stray, pc, task, attached, lost, outcome, inferences>>

Steps == {"idle", "counted", "gate", "infer", "skip", "cleanup", "rescue", "done"}
Outcomes == {"none", "ack", "retry", "reject", "error"}

WorkerTypeOK ==
  /\ unacked \in [Workers -> Videos \cup {NoVideo}]
  /\ stray \in [Workers -> [Videos -> Nat]]
  /\ pc \in [Workers -> Steps]
  /\ task \in [Workers -> Videos \cup {NoVideo}]
  /\ attached \in [Workers -> BOOLEAN]
  /\ lost \in [Workers -> BOOLEAN]
  /\ outcome \in [Workers -> Outcomes]
  /\ inferences \in [Videos -> Nat]

WorkerInit ==
  /\ unacked = [w \in Workers |-> NoVideo]
  /\ stray = [w \in Workers |-> [v \in Videos |-> 0]]
  /\ pc = [w \in Workers |-> "idle"]
  /\ task = [w \in Workers |-> NoVideo]
  /\ attached = [w \in Workers |-> FALSE]
  /\ lost = [w \in Workers |-> FALSE]
  /\ outcome = [w \in Workers |-> "none"]
  /\ inferences = [v \in Videos |-> 0]

(* The thread is inside process_job, so its lock connection is open. *)
Working(w) == pc[w] \in {"counted", "gate", "infer", "skip", "cleanup", "rescue"}

HoldsLock(w) == Working(w) /\ ~lost[w]
-----------------------------------------------------------------------------
(* Deliveries *)

(* basic_qos(prefetch_count=1). *)
Deliver(w, v) ==
  /\ unacked[w] = NoVideo /\ ready[v] > 0
  /\ ready' = [ready EXCEPT ![v] = @ - 1]
  /\ unacked' = [unacked EXCEPT ![w] = v]
  /\ UNCHANGED <<jobVars, videoVars, rowVars, audioVars, claims, faults, stray,
                 pc, task, attached, lost, outcome, inferences>>

(* The next task of the executor: a stray one first, else the delivery. *)
NextTask(w, v) ==
  /\ pc[w] = "idle"
  /\ \/ stray[w][v] > 0
     \/ unacked[w] = v /\ \A u \in Videos : stray[w][u] = 0

(* It leaves the executor's queue. *)
Take(w, v) ==
  /\ task' = [task EXCEPT ![w] = v]
  /\ attached' = [attached EXCEPT ![w] = stray[w][v] = 0]
  /\ stray' = IF stray[w][v] = 0 THEN stray ELSE [stray EXCEPT ![w][v] = @ - 1]

(* process_job returns: the lock's connection closes. *)
Finish(w, result) ==
  /\ pc' = [pc EXCEPT ![w] = "done"]
  /\ outcome' = [outcome EXCEPT ![w] = result]
  /\ lost' = [lost EXCEPT ![w] = FALSE]

Step(w, next) == pc' = [pc EXCEPT ![w] = next] /\ UNCHANGED <<outcome, lost>>

FaultyLocked(w, v) == FALSE

Locked(w, v) == \E u \in Workers \ {w} : HoldsLock(u) /\ task[u] = v

(* Another session holds the video's advisory lock. *)
StartBusy(w, v) ==
  /\ NextTask(w, v) /\ Locked(w, v)
  /\ Take(w, v) /\ Finish(w, "retry")
  /\ UNCHANGED <<corpusVars, unacked, inferences>>

(* The lock connection or the first transaction fails. *)
StartError(w, v) ==
  /\ NextTask(w, v) /\ Fault
  /\ Take(w, v) /\ Finish(w, "error")
  /\ UNCHANGED <<jobVars, videoVars, rowVars, audioVars, ready, claims, unacked,
                 inferences>>
-----------------------------------------------------------------------------
(* process_job: the first transaction *)

(* Video and job after a transcript was found or written. *)
Complete(v) ==
  /\ status' = [status EXCEPT ![v] = "completed"]
  /\ enrichment' = [enrichment EXCEPT ![v] = "completed"]
  /\ lease' = [lease EXCEPT ![v] = "none"]

LoadTranscribed(w, v) ==
  /\ NextTask(w, v) /\ ~Locked(w, v) /\ v \in transcript
  /\ Take(w, v) /\ Step(w, "cleanup")
  /\ Complete(v)
  /\ UNCHANGED <<attempts, path, queuedAt, err, cooling, owner, rowVars, audioVars,
                 ready, claims, faults, unacked, inferences>>

Obsolete == {"reserved", "expired", "failed", "skipped"}

(* An obsolete delivery is acknowledged; with MinIO one whose object the row
   does not name is rejected. *)
LoadRefused(w, v) ==
  /\ NextTask(w, v) /\ ~Locked(w, v) /\ v \notin transcript
  /\ status[v] \in Obsolete \/ (Backend = "minio" /\ ~path[v])
  /\ Take(w, v) /\ Finish(w, IF status[v] \in Obsolete THEN "ack" ELSE "reject")
  /\ UNCHANGED <<corpusVars, unacked, inferences>>

FaultyCounted(v) == attempts[v]

(* The attempt is committed before inference. *)
Counted(v) == attempts[v] + 1

Load(w, v) ==
  /\ NextTask(w, v) /\ ~Locked(w, v) /\ v \notin transcript
  /\ status[v] \notin Obsolete /\ (Backend = "minio" => path[v])
  /\ Take(w, v) /\ Step(w, "counted")
  /\ status' = [status EXCEPT ![v] = "processing"]
  /\ attempts' = [attempts EXCEPT ![v] = Counted(v)]
  /\ enrichment' = [enrichment EXCEPT ![v] = "processing"]
  /\ UNCHANGED <<path, queuedAt, err, cooling, owner, lease, rowVars, audioVars,
                 ready, claims, faults, unacked, inferences>>
-----------------------------------------------------------------------------
(* process_job: gate, inference and result *)

(* The attempts are read back after the commit, once and for the whole task.
   (More than MaxAttempts of them raise: see Failing.) *)
ReadAttempts(w) ==
  /\ pc[w] = "counted" /\ attempts[task[w]] <= MaxAttempts
  /\ Step(w, "gate")
  /\ UNCHANGED <<corpusVars, unacked, stray, task, attached, inferences>>

(* materialize: the local file, or a copy of the object the row names. *)
Materialized(w) == task[w] \in wav

Infer(w) ==
  /\ pc[w] = "gate" /\ Materialized(w)
  /\ Step(w, "infer")
  /\ inferences' = [inferences EXCEPT ![task[w]] = @ + 1]
  /\ UNCHANGED <<corpusVars, unacked, stray, task, attached>>

FaultySkip(v) == Complete(v)

(* A skip is final in the row; neither skip looks for a transcript. *)
Skip(v) ==
  /\ status' = [status EXCEPT ![v] = "skipped"]
  /\ enrichment' = [enrichment EXCEPT ![v] = "skipped"]
  /\ lease' = [lease EXCEPT ![v] = "none"]

(* YAMNet says music and the gate is enforced. *)
SkipMusic(w) ==
  /\ pc[w] = "gate" /\ Materialized(w) /\ GateMode = "enforce"
  /\ Step(w, "skip") /\ Skip(task[w])
  /\ UNCHANGED <<attempts, path, queuedAt, err, cooling, owner, rowVars, audioVars,
                 ready, claims, faults, unacked, stray, task, attached, inferences>>

(* Whisper returns no text. *)
SkipSilent(w) ==
  /\ pc[w] = "infer"
  /\ Step(w, "skip") /\ Skip(task[w])
  /\ err' = [err EXCEPT ![task[w]] = "none"]
  /\ UNCHANGED <<attempts, path, queuedAt, cooling, owner, rowVars, audioVars,
                 ready, claims, faults, unacked, stray, task, attached, inferences>>

(* Whisper returns text: a transcript is added unless one exists. *)
Transcribed(w) ==
  /\ pc[w] = "infer"
  /\ Step(w, "cleanup") /\ Complete(task[w])
  /\ transcript' = transcript \cup {task[w]}
  /\ err' = [err EXCEPT ![task[w]] = "none"]
  /\ UNCHANGED <<attempts, path, queuedAt, cooling, owner, acquired, audioVars,
                 ready, claims, faults, unacked, stray, task, attached, inferences>>

(* The except clause of process_job: decoding, gate, inference or attempts
   failed, or a commit after a skip.  Its first case: a transcript came in. *)
Failing(w) ==
  \/ pc[w] \in {"gate", "infer", "rescue"}
  \/ pc[w] = "counted" /\ attempts[task[w]] > MaxAttempts

FailTranscribed(w) ==
  /\ Failing(w) /\ task[w] \in transcript
  /\ Step(w, "cleanup") /\ Complete(task[w])
  /\ UNCHANGED <<attempts, path, queuedAt, err, cooling, owner, rowVars, audioVars,
                 ready, claims, faults, unacked, stray, task, attached, inferences>>

(* The attempts are used up: final. *)
FailTerminal(w) ==
  /\ Failing(w) /\ task[w] \notin transcript
  /\ attempts[task[w]] >= MaxAttempts
  /\ status' = [status EXCEPT ![task[w]] = "failed"]
  /\ enrichment' = [enrichment EXCEPT ![task[w]] = "failed"]
  /\ err' = [err EXCEPT ![task[w]] = "other"]
  /\ Finish(w, "ack")
  /\ UNCHANGED <<attempts, path, queuedAt, cooling, owner, lease, rowVars, audioVars,
                 ready, claims, faults, unacked, stray, task, attached, inferences>>

FaultyRetryOutcome == "ack"

RetryOutcome == "retry"

FaultyRetryStatus == "retry"

RetryStatus == "queued"

(* Back to queued; the delivery itself will be requeued. *)
FailRetry(w) ==
  /\ Failing(w) /\ task[w] \notin transcript
  /\ attempts[task[w]] < MaxAttempts
  /\ status' = [status EXCEPT ![task[w]] = RetryStatus]
  /\ enrichment' = [enrichment EXCEPT ![task[w]] = RetryStatus]
  /\ queuedAt' = [queuedAt EXCEPT ![task[w]] = TRUE]
  /\ err' = [err EXCEPT ![task[w]] = "other"]
  /\ Finish(w, RetryOutcome)
  /\ UNCHANGED <<attempts, path, cooling, owner, lease, rowVars, audioVars, ready,
                 claims, faults, unacked, stray, task, attached, inferences>>

(* A transaction of process_job is lost; the exception leaves it. *)
DatabaseError(w) ==
  /\ Working(w) /\ Fault
  /\ Finish(w, "error")
  /\ UNCHANGED <<jobVars, videoVars, rowVars, audioVars, ready, claims, unacked,
                 stray, task, attached, inferences>>
-----------------------------------------------------------------------------
(* delete_audio, after the result is committed *)

(* AudioStorage.delete: the object the row names, or the local file. *)
Deleted(v) == IF Backend = "local" \/ path[v] THEN wav \ {v} ELSE wav

Cleaning(w) == pc[w] \in {"cleanup", "skip"}

DeleteAudio(w) ==
  /\ Cleaning(w)
  /\ wav' = Deleted(task[w])
  /\ path' = [path EXCEPT ![task[w]] = FALSE]
  /\ err' = [err EXCEPT ![task[w]] = "none"]
  /\ Finish(w, "ack")
  /\ UNCHANGED <<status, attempts, queuedAt, cooling, videoVars, rowVars, part,
                 ready, claims, faults, unacked, stray, task, attached, inferences>>

DeleteFails(w) ==
  /\ Cleaning(w)
  /\ err' = [err EXCEPT ![task[w]] = "cleanup_pending"]
  /\ Finish(w, "ack")
  /\ UNCHANGED <<status, attempts, path, queuedAt, cooling, videoVars, rowVars,
                 audioVars, ready, claims, faults, unacked, stray, task, attached,
                 inferences>>

(* The audio is gone and the commit that says so is lost. *)
DeleteUncommitted(w) ==
  /\ Cleaning(w) /\ Fault
  /\ wav' = Deleted(task[w])
  /\ Finish(w, "error")
  /\ UNCHANGED <<jobVars, videoVars, rowVars, part, ready, claims, unacked, stray,
                 task, attached, inferences>>

(* A skip is cleaned up inside the try block: when its commit or the one after
   delete_audio is lost, or only its confirmation, the except clause runs. *)
SkipUncommitted(w) ==
  /\ SkipCommitLoss /\ pc[w] = "skip" /\ Fault
  /\ Step(w, "rescue")
  /\ \/ UNCHANGED <<wav, path>>
     \/ /\ wav' = Deleted(task[w])
        /\ path' \in {path, [path EXCEPT ![task[w]] = FALSE]}
  /\ UNCHANGED <<status, attempts, queuedAt, err, cooling, videoVars, rowVars, part,
                 ready, claims, unacked, stray, task, attached, inferences>>

(* The last commit of process_job succeeds, but its confirmation is lost. *)
AnswerLost(w) ==
  /\ pc[w] = "done" /\ outcome[w] = "ack" /\ Fault
  /\ outcome' = [outcome EXCEPT ![w] = "error"]
  /\ UNCHANGED <<jobVars, videoVars, rowVars, audioVars, ready, claims, unacked, stray,
                 pc, task, attached, lost, inferences>>
-----------------------------------------------------------------------------
(* The Rabbit thread and the process *)

(* handle_delivery after the task: ACK, NACK with requeue, NACK without, or,
   on an error, closing the connection, which requeues.  A task that lost its
   delivery settles nothing. *)
Requeued(w) ==
  IF attached[w] /\ outcome[w] \in {"retry", "error"}
    THEN [ready EXCEPT ![unacked[w]] = @ + 1] ELSE ready

Settle(w) ==
  /\ pc[w] = "done"
  /\ ready' = Requeued(w)
  /\ unacked' = IF attached[w] THEN [unacked EXCEPT ![w] = NoVideo] ELSE unacked
  /\ pc' = [pc EXCEPT ![w] = "idle"]
  /\ task' = [task EXCEPT ![w] = NoVideo]
  /\ attached' = [attached EXCEPT ![w] = FALSE]
  /\ outcome' = [outcome EXCEPT ![w] = "none"]
  /\ UNCHANGED <<jobVars, videoVars, rowVars, audioVars, claims, faults, stray,
                 lost, inferences>>

(* The broker connection dies and the delivery is requeued; its task runs on,
   or stays in the executor's queue. *)
LoseConnection(w) ==
  /\ unacked[w] # NoVideo /\ Fault
  /\ ready' = [ready EXCEPT ![unacked[w]] = @ + 1]
  /\ unacked' = [unacked EXCEPT ![w] = NoVideo]
  /\ attached' = [attached EXCEPT ![w] = FALSE]
  /\ stray' = IF attached[w] THEN stray
              ELSE [stray EXCEPT ![w][unacked[w]] = @ + 1]
  /\ UNCHANGED <<jobVars, videoVars, rowVars, audioVars, claims, pc, task, lost,
                 outcome, inferences>>

(* The worker process is killed: thread, executor queue and sessions go. *)
Crash(w) ==
  /\ pc[w] # "idle" \/ unacked[w] # NoVideo
  /\ Fault
  /\ ready' = IF unacked[w] = NoVideo THEN ready
              ELSE [ready EXCEPT ![unacked[w]] = @ + 1]
  /\ unacked' = [unacked EXCEPT ![w] = NoVideo]
  /\ stray' = [stray EXCEPT ![w] = [v \in Videos |-> 0]]
  /\ pc' = [pc EXCEPT ![w] = "idle"]
  /\ task' = [task EXCEPT ![w] = NoVideo]
  /\ attached' = [attached EXCEPT ![w] = FALSE]
  /\ lost' = [lost EXCEPT ![w] = FALSE]
  /\ outcome' = [outcome EXCEPT ![w] = "none"]
  /\ UNCHANGED <<jobVars, videoVars, rowVars, audioVars, claims, inferences>>

(* The database drops the session of the advisory lock; nothing looks at it
   until the task ends. *)
DropSession(w) ==
  /\ SessionLoss /\ HoldsLock(w) /\ Fault
  /\ lost' = [lost EXCEPT ![w] = TRUE]
  /\ UNCHANGED <<jobVars, videoVars, rowVars, audioVars, ready, claims, unacked,
                 stray, pc, task, attached, outcome, inferences>>
-----------------------------------------------------------------------------
Start(w, v) ==
  \/ StartBusy(w, v) \/ LoadTranscribed(w, v) \/ LoadRefused(w, v) \/ Load(w, v)

Result(w) ==
  \/ ReadAttempts(w) \/ Infer(w) \/ SkipMusic(w) \/ SkipSilent(w) \/ Transcribed(w)
  \/ FailTranscribed(w) \/ FailTerminal(w) \/ FailRetry(w)
  \/ DeleteAudio(w) \/ DeleteFails(w)

(* What a worker does while nothing fails around it. *)
Work(w) ==
  \/ \E v \in Videos : Deliver(w, v) \/ Start(w, v)
  \/ Result(w) \/ Settle(w)

WorkerFails(w) ==
  \/ \E v \in Videos : StartError(w, v)
  \/ DatabaseError(w) \/ DeleteUncommitted(w) \/ SkipUncommitted(w) \/ AnswerLost(w)
  \/ LoseConnection(w) \/ Crash(w) \/ DropSession(w)

WorkerNext == \E w \in Workers : Work(w) \/ WorkerFails(w)

=============================================================================
