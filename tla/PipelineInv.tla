---------------------------- MODULE PipelineInv ----------------------------
(***************************************************************************)
(* The inductive invariants behind the safety properties of Pipeline, in   *)
(* layers: each is inductive given the ones before it.                     *)
(***************************************************************************)
EXTENDS Pipeline

(* An idle thread has no task, one that is done has an outcome, and an attached
   task is the held delivery. *)
WorkerShape ==
  \A w \in Workers :
    /\ pc[w] = "idle" => task[w] = NoVideo /\ ~attached[w]
    /\ pc[w] # "idle" => task[w] \in Videos
    /\ pc[w] = "done" => outcome[w] # "none"
    /\ attached[w] => unacked[w] = task[w]

(* Without lost sessions a working thread holds its video's lock alone. *)
LockExclusive ==
  /\ \A w \in Workers : ~lost[w]
  /\ OneInferencePerVideo

(* Nothing of the pipeline after the upload has seen v. *)
Untouched(v) ==
  /\ ~path[v] /\ ~queuedAt[v] /\ attempts[v] = 0 /\ ready[v] = 0
  /\ \A w \in Workers : unacked[w] # v /\ task[w] # v /\ stray[w][v] = 0

(* What the row says before a worker or a recovery may touch the job, and at its
   end: whatever sessions and confirmations are lost. *)
RowStart(v) ==
  /\ status[v] \in {"none", "reserved", "expired"} => Untouched(v)
  /\ status[v] = "audio_received" => ~queuedAt[v]
  /\ status[v] = "completed" => v \in transcript
  /\ reconciling = v => status[v] \in {"reserved", "expired"}

Starts == \A v \in Videos : RowStart(v)

(* The row of a job in the worker's hands, against its audio and its tasks. *)
RowInv(v) ==
  /\ status[v] \in AcceptedStatuses => path[v] /\ v \in wav
  /\ \A w \in Workers : task[w] = v =>
       /\ pc[w] \in {"counted", "gate", "infer"} => status[v] \in {"processing", "completed"}
       /\ pc[w] = "cleanup" => status[v] = "completed"
       /\ pc[w] = "skip" => status[v] \in {"completed", "skipped"}
       /\ pc[w] # "rescue"

Rows == \A v \in Videos : RowInv(v)

(* A stray task of a job that is still audio_received has a message too. *)
NeedsMessage(v) ==
  \/ status[v] \in {"queued", "processing"}
  \/ status[v] = "audio_received" /\ \E w \in Workers : stray[w][v] > 0

Backing == \A v \in Videos : NeedsMessage(v) => Backed(v)

(* Each inference, and each task that may still start one, is paid for by an
   attempt that was committed before; two tasks of one video are on the way when
   one of them lost its lock.  Those at the gate have read at most MaxAttempts. *)
AtGate(v) == {w \in Workers : pc[w] = "gate" /\ task[w] = v}
Coming(v) == {w \in Workers : pc[w] \in {"counted", "gate"} /\ task[w] = v}

Paid ==
  \A v \in Videos :
    /\ inferences[v] + Cardinality(Coming(v)) <= attempts[v]
    /\ inferences[v] + Cardinality(AtGate(v)) <= MaxAttempts

=============================================================================
