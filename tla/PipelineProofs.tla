--------------------------- MODULE PipelineProofs ---------------------------
(***************************************************************************)
(* Proofs about Pipeline, for every corpus, every number of scans and      *)
(* workers, both storage backends and both gate modes.                     *)
(***************************************************************************)
EXTENDS PipelineInv, FiniteSetTheorems, TLAPS

-----------------------------------------------------------------------------
(* Type correctness *)

LEMMA TypeInit == Init => TypeOK
BY CorpusAssumption
   DEF Init, CorpusInit, AcquisitionInit, WorkerInit, TypeOK, CorpusTypeOK,
       AcquisitionTypeOK, WorkerTypeOK, Statuses, Errors, EnrichmentStatuses,
       Steps, Outcomes

(* What the scans and the API do keeps the types. *)
LEMMA BrowseTypes ==
  ASSUME TypeOK, UNCHANGED workerVars, Browse PROVE TypeOK'
<1>w. WorkerTypeOK'
  BY DEF TypeOK, WorkerTypeOK, workerVars
<1> USE DEF TypeOK, CorpusTypeOK, AcquisitionTypeOK
<1>1. ASSUME NEW a \in Analyses, AcquisitionBatch(a) PROVE TypeOK'
  <2>1. PICK S \in SUBSET Videos : AcquisitionBatch(a)!2!(S)
    BY <1>1 DEF AcquisitionBatch, Reserve
  <2>2. /\ status' \in [Videos -> Statuses] /\ err' \in [Videos -> Errors]
        /\ enrichment' \in [Videos -> EnrichmentStatuses]
    BY <2>1 DEF Reserve, Statuses, ActiveStatuses, Errors, EnrichmentStatuses
  <2>3. /\ owner' \in [Videos -> Analyses \cup {NoAnalysis}]
        /\ lease' \in [Videos -> {"none", "active", "lapsed"}]
        /\ claims' \in [Videos -> Nat]
    BY <2>1 DEF Reserve
  <2>4. cooling' \subseteq Videos /\ acquired' \subseteq Analyses \X Videos
    BY <2>1 DEF Reserve
  <2>5. QED
    BY <1>1, <1>w, <2>2, <2>3, <2>4 DEF AcquisitionBatch, Reserve, audioVars, acquisitionVars
<1>2. ASSUME NEW a \in Analyses, NEW v \in Videos, NEW c \in ReportCodes,
             SendReport(a, v, c)
      PROVE  TypeOK'
  BY <1>2, <1>w DEF SendReport, Report, corpusVars, jobVars, videoVars, rowVars,
                    audioVars
<1>3. ASSUME NEW r \in reports, DeliverReport(r) PROVE TypeOK'
  <2>1. r.analysis \in Analyses /\ r.video \in Videos /\ r.code \in Errors
    BY DEF Report, ReportCodes, Errors
  <2>2. /\ status' \in [Videos -> Statuses] /\ err' \in [Videos -> Errors]
        /\ cooling' \subseteq Videos
        /\ enrichment' \in [Videos -> EnrichmentStatuses]
        /\ owner' \in [Videos -> Analyses \cup {NoAnalysis}]
        /\ lease' \in [Videos -> {"none", "active", "lapsed"}]
    BY <1>3, <2>1 DEF DeliverReport, Release, Statuses, EnrichmentStatuses, videoVars
  <2>3. QED
    BY <1>3, <1>w, <2>2 DEF DeliverReport, rowVars, audioVars
<1>4. ASSUME NEW r \in reports, ReportLost(r) PROVE TypeOK'
  BY <1>4, <1>w DEF ReportLost, corpusVars, jobVars, videoVars, rowVars, audioVars
<1>5. QED
  BY <1>1, <1>2, <1>3, <1>4 DEF Browse

LEMMA UploadTypes ==
  ASSUME TypeOK, UNCHANGED workerVars, NEW v \in Videos,
         Upload(v) \/ LeaseLapses(v) \/ CooldownElapses(v)
  PROVE  TypeOK'
<1>w. WorkerTypeOK'
  BY DEF TypeOK, WorkerTypeOK, workerVars
<1> USE <1>w DEF TypeOK, CorpusTypeOK, AcquisitionTypeOK, acquisitionVars, jobVars,
              videoVars, rowVars, audioVars
<1>1. CASE LeaseLapses(v)
  BY <1>1 DEF LeaseLapses
<1>2. CASE CooldownElapses(v)
  BY <1>2 DEF CooldownElapses
<1>3. CASE ReceiveTranscribed(v)
  BY <1>3 DEF ReceiveTranscribed, Statuses, TerminalStatuses
<1>4. ASSUME NEW a \in Analyses, ReceiveAudio(a, v) PROVE TypeOK'
  BY <1>4 DEF ReceiveAudio, Store, Put, Statuses, ActiveStatuses, EnrichmentStatuses
<1>5. ASSUME NEW a \in Analyses, ReceiveCrash(a, v) PROVE TypeOK'
  BY <1>5 DEF ReceiveCrash, Put, Fault
<1>6. ASSUME NEW a \in Analyses, ReceiveTorn(a, v) PROVE TypeOK'
  BY <1>6 DEF ReceiveTorn, Fault
<1>7. QED
  BY <1>1, <1>2, <1>3, <1>4, <1>5, <1>6 DEF Upload

LEMMA MaintenanceTypes ==
  ASSUME TypeOK, UNCHANGED workerVars, NEW v \in Videos,
         Maintain(v) \/ MaintenanceFails(v)
  PROVE  TypeOK'
<1>w. WorkerTypeOK'
  BY DEF TypeOK, WorkerTypeOK, workerVars
<1> USE <1>w DEF TypeOK, CorpusTypeOK, AcquisitionTypeOK, acquisitionVars, jobVars,
              videoVars, rowVars, audioVars
<1>1. CASE Enqueue(v)
  BY <1>1 DEF Enqueue, Statuses, ActiveStatuses, Errors
<1>2. CASE ReconcileStart(v)
  BY <1>2 DEF ReconcileStart, corpusVars
<1>3. CASE ReconcileRecover(v)
  BY <1>3 DEF ReconcileRecover, Statuses, ActiveStatuses, EnrichmentStatuses
<1>4. CASE ReconcileAbsent(v) \/ ReconcileUnseen(v)
  BY <1>4 DEF ReconcileAbsent, ReconcileUnseen, Expire, Fault, Statuses
<1>5. CASE CleanupAudio(v)
  BY <1>5 DEF CleanupAudio, ClearCleanup, Errors
<1>6. CASE CleanupPart(v)
  BY <1>6 DEF CleanupPart
<1>7. CASE PublishRefused(v)
  BY <1>7 DEF PublishRefused, Errors
<1>8. CASE PublishUnconfirmed(v)
  BY <1>8 DEF PublishUnconfirmed, Fault, Errors
<1>9. CASE ReconcileInvalid(v)
  BY <1>9 DEF ReconcileInvalid, Fault, Statuses, TerminalStatuses, Errors
<1>10. CASE CleanupFails(v) \/ CleanupUncommitted(v)
  BY <1>10 DEF CleanupFails, CleanupUncommitted, Fault, Errors
<1>11. QED
  BY <1>1, <1>2, <1>3, <1>4, <1>5, <1>6, <1>7, <1>8, <1>9, <1>10
     DEF Maintain, MaintenanceFails

LEMMA AbortTypes ==
  ASSUME TypeOK, UNCHANGED workerVars, ReconcileAbort PROVE TypeOK'
BY DEF ReconcileAbort, Fault, TypeOK, CorpusTypeOK, AcquisitionTypeOK, WorkerTypeOK,
       workerVars, jobVars, videoVars, rowVars, audioVars

LEMMA TakeTypes ==
  ASSUME WorkerTypeOK, NEW w \in Workers, NEW v \in Videos, Take(w, v)
  PROVE  /\ task' \in [Workers -> Videos \cup {NoVideo}]
         /\ attached' \in [Workers -> BOOLEAN]
         /\ stray' \in [Workers -> [Videos -> Nat]]
<1>1. task' \in [Workers -> Videos \cup {NoVideo}] /\ attached' \in [Workers -> BOOLEAN]
  BY DEF Take, WorkerTypeOK
<1>2. CASE stray[w][v] = 0
  BY <1>1, <1>2 DEF Take, WorkerTypeOK
<1>3. CASE stray[w][v] # 0
  <2>1. [stray[w] EXCEPT ![v] = stray[w][v] - 1] \in [Videos -> Nat]
    BY <1>3 DEF WorkerTypeOK
  <2>2. stray' = [stray EXCEPT ![w] = [stray[w] EXCEPT ![v] = stray[w][v] - 1]]
    BY <1>3 DEF Take
  <2>3. QED
    BY <1>1, <2>1, <2>2 DEF WorkerTypeOK
<1>4. QED
  BY <1>2, <1>3

(* Taking the next task of the executor. *)
LEMMA StartTypes ==
  ASSUME TypeOK, UNCHANGED acquisitionVars, NEW w \in Workers, NEW v \in Videos,
         Deliver(w, v) \/ Start(w, v) \/ StartError(w, v)
  PROVE  TypeOK'
<1>w. AcquisitionTypeOK'
  BY DEF TypeOK, AcquisitionTypeOK, acquisitionVars
<1> USE <1>w DEF TypeOK, CorpusTypeOK, WorkerTypeOK, corpusVars, jobVars, videoVars,
              rowVars, audioVars
<1>1. CASE Deliver(w, v)
  BY <1>1 DEF Deliver
<1>2. CASE StartBusy(w, v)
  BY <1>2, TakeTypes DEF StartBusy, Finish, Steps, Outcomes
<1>3. CASE StartError(w, v)
  BY <1>3, TakeTypes DEF StartError, Finish, Fault, Steps, Outcomes
<1>4. CASE LoadTranscribed(w, v)
  BY <1>4, TakeTypes
     DEF LoadTranscribed, Step, Complete, Steps, Statuses, EnrichmentStatuses,
         TerminalStatuses
<1>5. CASE LoadRefused(w, v)
  BY <1>5, TakeTypes DEF LoadRefused, Finish, Steps, Outcomes
<1>6. CASE Load(w, v)
  BY <1>6, TakeTypes
     DEF Load, Step, Counted, Steps, Statuses, EnrichmentStatuses, ActiveStatuses
<1>7. QED
  BY <1>1, <1>2, <1>3, <1>4, <1>5, <1>6 DEF Start

(* A task in progress. *)
LEMMA ResultTypes ==
  ASSUME TypeOK, UNCHANGED acquisitionVars, NEW w \in Workers, task[w] \in Videos,
         Result(w) \/ DatabaseError(w) \/ DeleteUncommitted(w) \/ SkipUncommitted(w)
  PROVE  TypeOK'
<1>w. AcquisitionTypeOK'
  BY DEF TypeOK, AcquisitionTypeOK, acquisitionVars
<1> USE <1>w DEF TypeOK, CorpusTypeOK, WorkerTypeOK, corpusVars, jobVars, videoVars,
              rowVars, audioVars, Steps, Outcomes, Step, Finish, Fault
<1>0. CASE ReadAttempts(w)
  BY <1>0 DEF ReadAttempts
<1>1. CASE Infer(w)
  BY <1>1 DEF Infer
<1>2. CASE SkipMusic(w)
  BY <1>2 DEF SkipMusic, Skip, Statuses, EnrichmentStatuses, TerminalStatuses
<1>3. CASE SkipSilent(w)
  BY <1>3 DEF SkipSilent, Skip, Statuses, EnrichmentStatuses, TerminalStatuses, Errors
<1>4. CASE Transcribed(w)
  BY <1>4 DEF Transcribed, Complete, Statuses, EnrichmentStatuses, TerminalStatuses,
              Errors
<1>5. CASE FailTranscribed(w)
  BY <1>5 DEF FailTranscribed, Complete, Statuses, EnrichmentStatuses, TerminalStatuses
<1>6. CASE FailTerminal(w)
  BY <1>6 DEF FailTerminal, Statuses, EnrichmentStatuses, TerminalStatuses, Errors
<1>7. CASE FailRetry(w)
  BY <1>7 DEF FailRetry, RetryStatus, RetryOutcome, Statuses, EnrichmentStatuses,
              ActiveStatuses, Errors
<1>8. CASE DeleteAudio(w)
  BY <1>8 DEF DeleteAudio, Deleted, Errors
<1>9. CASE DeleteFails(w)
  BY <1>9 DEF DeleteFails, Errors
<1>10. CASE DatabaseError(w)
  BY <1>10 DEF DatabaseError
<1>11. CASE DeleteUncommitted(w)
  BY <1>11 DEF DeleteUncommitted, Deleted
<1>12. CASE SkipUncommitted(w)
  <2>1. wav' \subseteq Videos /\ path' \in [Videos -> BOOLEAN]
    BY <1>12 DEF SkipUncommitted, Deleted
  <2>2. QED
    BY <1>12, <2>1 DEF SkipUncommitted
<1>13. QED
  BY <1>0, <1>1, <1>2, <1>3, <1>4, <1>5, <1>6, <1>7, <1>8, <1>9, <1>10, <1>11, <1>12
     DEF Result

(* Deliveries settled, requeued or lost. *)
LEMMA ProcessTypes ==
  ASSUME TypeOK, WorkerShape, UNCHANGED acquisitionVars, NEW w \in Workers,
         Settle(w) \/ AnswerLost(w) \/ LoseConnection(w) \/ Crash(w) \/ DropSession(w)
  PROVE  TypeOK'
<1>w. AcquisitionTypeOK'
  BY DEF TypeOK, AcquisitionTypeOK, acquisitionVars
<1> USE <1>w DEF TypeOK, CorpusTypeOK, WorkerTypeOK, corpusVars, jobVars, videoVars,
              rowVars, audioVars, Steps, Outcomes
<1>1. CASE Settle(w)
  <2>1. attached[w] => unacked[w] \in Videos
    BY <1>1 DEF WorkerShape, Settle
  <2>2. ready' \in [Videos -> Nat]
    BY <1>1, <2>1 DEF Settle, Requeued
  <2>3. QED
    BY <1>1, <2>2 DEF Settle
<1>2. CASE LoseConnection(w)
  <2>1. [stray[w] EXCEPT ![unacked[w]] = stray[w][unacked[w]] + 1] \in [Videos -> Nat]
    BY <1>2 DEF LoseConnection
  <2>2. \/ stray' = stray
        \/ stray' = [stray EXCEPT ![w] =
                       [stray[w] EXCEPT ![unacked[w]] = stray[w][unacked[w]] + 1]]
    BY <1>2 DEF LoseConnection
  <2>3. stray' \in [Workers -> [Videos -> Nat]]
    BY <2>1, <2>2
  <2>4. QED
    BY <1>2, <2>3 DEF LoseConnection, Fault
<1>3. CASE Crash(w)
  BY <1>3 DEF Crash, Fault
<1>4. CASE DropSession(w)
  BY <1>4 DEF DropSession, Fault
<1>5. CASE AnswerLost(w)
  BY <1>5 DEF AnswerLost, Fault
<1>6. QED
  BY <1>1, <1>2, <1>3, <1>4, <1>5

-----------------------------------------------------------------------------
(* The shape of a worker's state *)

LEMMA ShapeKept ==
  ASSUME WorkerShape, UNCHANGED workerVars PROVE WorkerShape'
BY DEF WorkerShape, workerVars

LEMMA StartShape ==
  ASSUME TypeOK, WorkerShape, NEW w \in Workers, NEW v \in Videos,
         Deliver(w, v) \/ Start(w, v) \/ StartError(w, v)
  PROVE  WorkerShape'
<1>t. WorkerTypeOK /\ NoVideo \notin Videos
  BY CorpusAssumption DEF TypeOK
<1>1. CASE Deliver(w, v)
  BY <1>t, <1>1 DEF WorkerShape, Deliver, WorkerTypeOK
<1>2. CASE Start(w, v) \/ StartError(w, v)
  <2>1. /\ NextTask(w, v) /\ Take(w, v) /\ UNCHANGED unacked
        /\ \/ /\ pc' = [pc EXCEPT ![w] = "done"]
              /\ \E o \in Outcomes \ {"none"} : outcome' = [outcome EXCEPT ![w] = o]
           \/ /\ \E p \in {"counted", "cleanup"} : pc' = [pc EXCEPT ![w] = p]
              /\ UNCHANGED outcome
    BY <1>2 DEF Start, StartError, StartBusy, LoadTranscribed, LoadRefused, Load,
                Step, Finish, Outcomes
  <2>2. \A u \in Workers : u # w =>
          /\ pc'[u] = pc[u] /\ task'[u] = task[u]
          /\ attached'[u] = attached[u] /\ outcome'[u] = outcome[u]
    BY <2>1, <1>t DEF Take, WorkerTypeOK
  <2>3. pc'[w] # "idle" /\ task'[w] = v /\ (attached'[w] => unacked'[w] = v)
    <3>1. pc'[w] # "idle" /\ task'[w] = v
      BY <2>1, <1>t DEF Take, WorkerTypeOK
    <3>2. stray[w][v] = 0 => unacked[w] = v
      BY <2>1 DEF NextTask
    <3>3. attached'[w] = (stray[w][v] = 0)
      BY <2>1, <1>t DEF Take, WorkerTypeOK
    <3>4. QED
      BY <2>1, <3>1, <3>2, <3>3
  <2>4. pc'[w] = "done" => outcome'[w] # "none"
    BY <2>1, <1>t DEF WorkerTypeOK
  <2>5. QED
    BY <2>1, <2>2, <2>3, <2>4 DEF WorkerShape
<1>3. QED
  BY <1>1, <1>2

LEMMA ResultShape ==
  ASSUME TypeOK, WorkerShape, NEW w \in Workers,
         Result(w) \/ DatabaseError(w) \/ DeleteUncommitted(w) \/ SkipUncommitted(w)
  PROVE  WorkerShape' /\ task[w] \in Videos
<1>t. WorkerTypeOK
  BY DEF TypeOK
<1>1. /\ pc[w] # "idle" /\ UNCHANGED <<unacked, task, attached>>
      /\ \/ /\ pc' = [pc EXCEPT ![w] = "done"]
            /\ \E o \in Outcomes \ {"none"} : outcome' = [outcome EXCEPT ![w] = o]
         \/ /\ \E p \in Steps \ {"idle", "done"} : pc' = [pc EXCEPT ![w] = p]
            /\ UNCHANGED outcome
  BY DEF Result, DatabaseError, DeleteUncommitted, SkipUncommitted, ReadAttempts, Infer, SkipMusic,
         SkipSilent,
         Transcribed, FailTranscribed, FailTerminal, FailRetry, DeleteAudio,
         DeleteFails, Cleaning, Failing, Step, Finish, Steps, Outcomes, RetryOutcome,
         Working
<1>2. QED
  BY <1>1, <1>t DEF WorkerShape, WorkerTypeOK

LEMMA ProcessShape ==
  ASSUME TypeOK, WorkerShape, NEW w \in Workers,
         Settle(w) \/ AnswerLost(w) \/ LoseConnection(w) \/ Crash(w) \/ DropSession(w)
  PROVE  WorkerShape'
<1> USE DEF WorkerShape, TypeOK, WorkerTypeOK
<1>1. CASE Settle(w)
  BY <1>1 DEF Settle
<1>2. CASE LoseConnection(w)
  BY <1>2 DEF LoseConnection
<1>3. CASE Crash(w)
  BY <1>3 DEF Crash
<1>4. CASE DropSession(w)
  BY <1>4 DEF DropSession
<1>5. CASE AnswerLost(w)
  BY <1>5 DEF AnswerLost
<1>6. QED
  BY <1>1, <1>2, <1>3, <1>4, <1>5

LEMMA TypeStep ==
  ASSUME TypeOK, WorkerShape, [Next]_vars PROVE TypeOK' /\ WorkerShape'
<1>1. CASE AcquisitionNext /\ UNCHANGED workerVars
  BY <1>1, BrowseTypes, UploadTypes, MaintenanceTypes, AbortTypes, ShapeKept
     DEF AcquisitionNext
<1>2. CASE WorkerNext /\ UNCHANGED acquisitionVars
  <2>1. PICK w \in Workers : Work(w) \/ WorkerFails(w)
    BY <1>2 DEF WorkerNext
  <2>2. CASE \E v \in Videos : Deliver(w, v) \/ Start(w, v) \/ StartError(w, v)
    BY <1>2, <2>2, StartTypes, StartShape
  <2>3. CASE Result(w) \/ DatabaseError(w) \/ DeleteUncommitted(w) \/ SkipUncommitted(w)
    BY <1>2, <2>3, ResultTypes, ResultShape
  <2>4. CASE Settle(w) \/ AnswerLost(w) \/ LoseConnection(w) \/ Crash(w)
                       \/ DropSession(w)
    BY <1>2, <2>4, ProcessTypes, ProcessShape
  <2>5. QED
    BY <2>1, <2>2, <2>3, <2>4 DEF Work, WorkerFails
<1>3. ASSUME NEW v \in Videos, Import(v) PROVE TypeOK' /\ WorkerShape'
  BY <1>3, ShapeKept
     DEF Import, TypeOK, CorpusTypeOK, AcquisitionTypeOK, WorkerTypeOK, jobVars,
         videoVars, audioVars, acquisitionVars, workerVars
<1>4. CASE UNCHANGED vars
  BY <1>4
     DEF vars, WorkerShape, TypeOK, CorpusTypeOK, AcquisitionTypeOK, WorkerTypeOK,
         corpusVars, jobVars, videoVars, rowVars, audioVars, acquisitionVars, workerVars
<1>5. QED
  BY <1>1, <1>2, <1>3, <1>4 DEF Next

THEOREM TypeCorrect == Spec => [](TypeOK /\ WorkerShape)
<1>1. Init => TypeOK /\ WorkerShape
  BY TypeInit DEF Init, WorkerInit, WorkerShape
<1>2. TypeOK /\ WorkerShape /\ [Next]_vars => (TypeOK /\ WorkerShape)'
  BY TypeStep
<1>3. QED
  BY <1>1, <1>2, PTL DEF Spec

-----------------------------------------------------------------------------
(* Mutual exclusion of inferences *)

LEMMA StartExclusive ==
  ASSUME TypeOK, LockExclusive, NEW w \in Workers, NEW v \in Videos,
         Deliver(w, v) \/ Start(w, v) \/ StartError(w, v)
  PROVE  LockExclusive'
<1>t. WorkerTypeOK
  BY DEF TypeOK
<1>1. CASE Deliver(w, v)
  BY <1>1 DEF Deliver, LockExclusive, OneInferencePerVideo, Working
<1>2. CASE StartBusy(w, v) \/ LoadRefused(w, v) \/ StartError(w, v)
  <2>1. /\ pc' = [pc EXCEPT ![w] = "done"]
        /\ task' = [task EXCEPT ![w] = v]
    BY <1>2 DEF StartBusy, LoadRefused, StartError, Finish, Take
  <2>2. \A u \in Workers :
          Working(u)' => Working(u) /\ task'[u] = task[u]
    BY <2>1, <1>t DEF Working, WorkerTypeOK
  <2>3. \A u \in Workers : ~lost'[u]
    BY <1>2, <1>t DEF StartBusy, LoadRefused, StartError, Finish, LockExclusive,
                      WorkerTypeOK
  <2>4. QED
    BY <2>2, <2>3 DEF LockExclusive, OneInferencePerVideo
<1>3. CASE Load(w, v) \/ LoadTranscribed(w, v)
  <2>1. /\ \A u \in Workers \ {w} : ~(Working(u) /\ task[u] = v)
        /\ UNCHANGED lost
        /\ \A u \in Workers \ {w} : pc'[u] = pc[u] /\ task'[u] = task[u]
        /\ task'[w] = v
    BY <1>3, <1>t DEF Load, LoadTranscribed, Step, Take, Locked, HoldsLock,
                      LockExclusive, WorkerTypeOK
  <2>2. QED
    BY <2>1 DEF LockExclusive, OneInferencePerVideo, Working
<1>4. QED
  BY <1>1, <1>2, <1>3 DEF Start

LEMMA ResultExclusive ==
  ASSUME TypeOK, LockExclusive, NEW w \in Workers,
         Result(w) \/ DatabaseError(w) \/ DeleteUncommitted(w) \/ SkipUncommitted(w)
  PROVE  LockExclusive'
<1>1. /\ Working(w) /\ UNCHANGED task
      /\ \E p \in Steps : pc' = [pc EXCEPT ![w] = p]
      /\ lost' = lost \/ lost' = [lost EXCEPT ![w] = FALSE]
  BY DEF Result, DatabaseError, DeleteUncommitted, SkipUncommitted, ReadAttempts, Infer, SkipMusic,
         SkipSilent,
         Transcribed, FailTranscribed, FailTerminal, FailRetry, DeleteAudio,
         DeleteFails, Cleaning, Failing, Step, Finish, Steps, Working
<1>2. QED
  BY <1>1 DEF LockExclusive, OneInferencePerVideo, Working, TypeOK, WorkerTypeOK

LEMMA ProcessExclusive ==
  ASSUME TypeOK, LockExclusive, ~SessionLoss, NEW w \in Workers,
         Settle(w) \/ AnswerLost(w) \/ LoseConnection(w) \/ Crash(w) \/ DropSession(w)
  PROVE  LockExclusive'
<1>t. WorkerTypeOK
  BY DEF TypeOK
<1>1. CASE AnswerLost(w) \/ LoseConnection(w)
  BY <1>1 DEF AnswerLost, LoseConnection, LockExclusive, OneInferencePerVideo, Working
<1>2. CASE Settle(w) \/ Crash(w)
  <2>1. /\ pc' = [pc EXCEPT ![w] = "idle"]
        /\ task' = [task EXCEPT ![w] = NoVideo]
        /\ lost' = lost \/ lost' = [lost EXCEPT ![w] = FALSE]
    BY <1>2 DEF Settle, Crash
  <2>2. \A u \in Workers :
          /\ Working(u)' => Working(u) /\ task'[u] = task[u]
          /\ lost'[u] => lost[u]
    BY <2>1, <1>t DEF Working, WorkerTypeOK
  <2>3. QED
    BY <2>2 DEF LockExclusive, OneInferencePerVideo
<1>3. CASE DropSession(w)
  BY <1>3 DEF DropSession
<1>4. QED
  BY <1>1, <1>2, <1>3

LEMMA ExclusiveStep ==
  ASSUME TypeOK, LockExclusive, ~SessionLoss, [Next]_vars PROVE LockExclusive'
<1>1. CASE UNCHANGED workerVars
  BY <1>1 DEF workerVars, LockExclusive, OneInferencePerVideo, Working
<1>2. CASE WorkerNext
  <2>1. PICK w \in Workers : Work(w) \/ WorkerFails(w)
    BY <1>2 DEF WorkerNext
  <2>2. QED
    BY <2>1, StartExclusive, ResultExclusive, ProcessExclusive DEF Work, WorkerFails
<1>3. QED
  BY <1>1, <1>2 DEF Next, Import, vars

(* While PostgreSQL keeps the sessions of the advisory locks, one video is never
   in two executors at once, counting tasks whose broker connection died. *)
THEOREM Exclusive ==
  ASSUME ~SessionLoss PROVE Spec => []LockExclusive /\ []OneInferencePerVideo
<1>1. Init => LockExclusive
  BY DEF Init, WorkerInit, LockExclusive, OneInferencePerVideo, Working
<1>2. TypeOK /\ LockExclusive /\ [Next]_vars => LockExclusive'
  BY ExclusiveStep
<1>3. LockExclusive => OneInferencePerVideo
  BY DEF LockExclusive
<1>4. QED
  BY <1>1, <1>2, <1>3, TypeCorrect, PTL DEF Spec

-----------------------------------------------------------------------------
(* The row before and after the worker: nothing here rests on locks or on commits
   being confirmed *)

LEMMA StartsKept ==
  ASSUME Starts, UNCHANGED <<status, path, queuedAt, attempts, ready, transcript,
                             reconciling, workerVars>>
  PROVE  Starts'
BY DEF Starts, RowStart, Untouched, workerVars

LEMMA BrowseStarts ==
  ASSUME TypeOK, Starts, UNCHANGED workerVars, Browse PROVE Starts'
<1> USE DEF TypeOK, CorpusTypeOK, AcquisitionTypeOK, workerVars, audioVars, rowVars,
            acquisitionVars
<1>1. ASSUME NEW a \in Analyses, AcquisitionBatch(a), NEW u \in Videos
      PROVE  RowStart(u)'
  <2>1. PICK S \in SUBSET Videos :
          /\ \A v \in S : Reservable(a, v)
          /\ status' = [v \in Videos |-> IF v \in S THEN "reserved" ELSE status[v]]
          /\ UNCHANGED <<attempts, path, queuedAt, transcript, ready, reconciling>>
          /\ reconciling = NoVideo
    BY <1>1 DEF AcquisitionBatch, Reserve, FlockFree
  <2>2. RowStart(u) /\ reconciling # u
    BY <2>1, CorpusAssumption DEF Starts
  <2>3. CASE u \in S
    <3>1. status[u] \in {"none", "reserved", "expired"} /\ status'[u] = "reserved"
      BY <2>1, <2>3 DEF Reservable
    <3>2. Untouched(u)'
      BY <2>1, <2>2, <3>1 DEF RowStart, Untouched
    <3>3. QED
      BY <2>1, <2>2, <3>1, <3>2 DEF RowStart
  <2>4. CASE u \notin S
    BY <2>1, <2>2, <2>4 DEF RowStart, Untouched
  <2>5. QED
    BY <2>3, <2>4
<1>2. ASSUME NEW a \in Analyses, NEW v \in Videos, NEW c \in ReportCodes,
             SendReport(a, v, c)
      PROVE  Starts'
  BY <1>2, StartsKept DEF SendReport, corpusVars, jobVars
<1>3. ASSUME NEW r \in reports, DeliverReport(r), NEW u \in Videos
      PROVE  RowStart(u)'
  <2>1. CASE Releasable(r.analysis, r.video)
    BY <1>3, <2>1 DEF DeliverReport, Release, Releasable, Starts, RowStart, Untouched,
                      Report
  <2>2. CASE ~Releasable(r.analysis, r.video)
    BY <1>3, <2>2 DEF DeliverReport, Release, Starts, RowStart, Untouched
  <2>3. QED
    BY <2>1, <2>2
<1>4. ASSUME NEW r \in reports, ReportLost(r) PROVE Starts'
  BY <1>4, StartsKept DEF ReportLost, corpusVars, jobVars
<1>5. QED
  BY <1>1, <1>2, <1>3, <1>4 DEF Browse, Starts

LEMMA UploadStarts ==
  ASSUME TypeOK, Starts, UNCHANGED workerVars, NEW v \in Videos,
         Upload(v) \/ LeaseLapses(v) \/ CooldownElapses(v)
  PROVE  Starts'
<1> USE DEF TypeOK, CorpusTypeOK, AcquisitionTypeOK, workerVars, audioVars, rowVars,
            acquisitionVars, jobVars
<1>1. CASE LeaseLapses(v) \/ CooldownElapses(v)
  BY <1>1, StartsKept DEF LeaseLapses, CooldownElapses
<1>2. CASE ReceiveTranscribed(v)
  <2> SUFFICES ASSUME NEW u \in Videos PROVE RowStart(u)'
    BY DEF Starts
  <2>1. reconciling = NoVideo /\ u # NoVideo /\ RowStart(u)
    BY <1>2, CorpusAssumption DEF ReceiveTranscribed, FlockFree, Starts
  <2>2. QED
    BY <1>2, <2>1 DEF ReceiveTranscribed, RowStart, Untouched
<1>3. ASSUME NEW a \in Analyses, ReceiveAudio(a, v), NEW u \in Videos
      PROVE  RowStart(u)'
  <2>1. reconciling = NoVideo /\ u # NoVideo /\ RowStart(u) /\ status[v] = "reserved"
    BY <1>3, CorpusAssumption DEF ReceiveAudio, Uploadable, FlockFree, Starts
  <2>2. QED
    BY <1>3, <2>1 DEF ReceiveAudio, Store, Put, RowStart, Untouched
<1>4. ASSUME NEW a \in Analyses, ReceiveCrash(a, v) \/ ReceiveTorn(a, v) PROVE Starts'
  BY <1>4, StartsKept DEF ReceiveCrash, ReceiveTorn
<1>5. QED
  BY <1>1, <1>2, <1>3, <1>4 DEF Upload, Starts

LEMMA MaintenanceStarts ==
  ASSUME TypeOK, Starts, UNCHANGED workerVars, NEW v \in Videos,
         Maintain(v) \/ MaintenanceFails(v)
  PROVE  Starts'
<1> USE DEF TypeOK, CorpusTypeOK, AcquisitionTypeOK, workerVars, audioVars, rowVars,
            acquisitionVars, jobVars
<1> SUFFICES ASSUME NEW u \in Videos PROVE RowStart(u)'
  BY DEF Starts
<1>i. RowStart(u) /\ RowStart(v) /\ u # NoVideo
  BY CorpusAssumption DEF Starts
<1>1. CASE Enqueue(v) \/ PublishUnconfirmed(v)
  BY <1>1, <1>i DEF Enqueue, PublishUnconfirmed, Publishable, RowStart, Untouched
<1>2. CASE ReconcileStart(v)
  BY <1>2, <1>i DEF ReconcileStart, corpusVars, RowStart, Untouched
<1>3. CASE ReconcileRecover(v) \/ ReconcileInvalid(v)
  BY <1>3, <1>i DEF ReconcileRecover, ReconcileInvalid, RowStart, Untouched
<1>4. CASE ReconcileAbsent(v) \/ ReconcileUnseen(v)
  BY <1>4, <1>i DEF ReconcileAbsent, ReconcileUnseen, Expire, RowStart, Untouched
<1>5. CASE CleanupAudio(v) \/ CleanupPart(v) \/ CleanupFails(v) \/ CleanupUncommitted(v)
  BY <1>5, <1>i DEF CleanupAudio, CleanupPart, CleanupFails, CleanupUncommitted,
                    Removable, RowStart, Untouched
<1>6. CASE PublishRefused(v)
  BY <1>6, <1>i DEF PublishRefused, RowStart, Untouched
<1>7. QED
  BY <1>1, <1>2, <1>3, <1>4, <1>5, <1>6 DEF Maintain, MaintenanceFails

(* A video with a delivery or a task has been accepted. *)
LEMMA TakenIsTouched ==
  ASSUME TypeOK, Starts, NEW w \in Workers, NEW v \in Videos, NextTask(w, v)
  PROVE  ~Untouched(v) /\ status[v] \notin {"none", "reserved", "expired"}
BY DEF NextTask, Starts, RowStart, Untouched, TypeOK, WorkerTypeOK

LEMMA StartStarts ==
  ASSUME TypeOK, Starts, UNCHANGED acquisitionVars, NEW w \in Workers, NEW v \in Videos,
         Deliver(w, v) \/ Start(w, v) \/ StartError(w, v)
  PROVE  Starts'
<1> USE DEF TypeOK, CorpusTypeOK, WorkerTypeOK, audioVars, rowVars, acquisitionVars,
            jobVars
<1> SUFFICES ASSUME NEW u \in Videos PROVE RowStart(u)'
  BY DEF Starts
<1>i. RowStart(u) /\ RowStart(v)
  BY DEF Starts
<1>1. CASE Deliver(w, v)
  BY <1>1, <1>i DEF Deliver, RowStart, Untouched
<1>2. CASE Start(w, v) \/ StartError(w, v)
  <2>1. NextTask(w, v) /\ Take(w, v) /\ UNCHANGED <<unacked, ready, path, queuedAt,
                                                    transcript, reconciling>>
    BY <1>2 DEF Start, StartError, StartBusy, LoadTranscribed, LoadRefused, Load,
                corpusVars
  <2>2. status[v] \notin {"none", "reserved", "expired"}
    BY <2>1, TakenIsTouched
  <2>3. u # v => \A x \in Workers : task'[x] = u => task[x] = u
    BY <2>1 DEF Take
  <2>4. u # v => \A x \in Workers : stray'[x][u] = stray[x][u]
    <3>1. CASE stray[w][v] = 0
      BY <2>1, <3>1 DEF Take
    <3>2. CASE stray[w][v] # 0
      <4>1. stray' = [stray EXCEPT ![w] = [stray[w] EXCEPT ![v] = stray[w][v] - 1]]
        BY <2>1, <3>2 DEF Take
      <4>2. QED
        BY <4>1
    <3>3. QED
      BY <3>1, <3>2
  <2>5. \/ UNCHANGED <<status, attempts>>
        \/ status' = [status EXCEPT ![v] = "completed"] /\ UNCHANGED attempts
             /\ v \in transcript
        \/ /\ status' = [status EXCEPT ![v] = "processing"]
           /\ attempts' = [attempts EXCEPT ![v] = Counted(v)]
    BY <1>2 DEF Start, StartBusy, LoadRefused, StartError, LoadTranscribed, Complete,
                Load, corpusVars
  <2>6. CASE u = v
    BY <2>1, <2>2, <2>5, <2>6, <1>i DEF RowStart
  <2>7. CASE u # v
    <3>1. status'[u] = status[u] /\ attempts'[u] = attempts[u]
      BY <2>5, <2>7
    <3>2. Untouched(u) => Untouched(u)'
      BY <2>1, <2>3, <2>4, <2>7, <3>1 DEF Untouched
    <3>3. QED
      BY <2>1, <3>1, <3>2, <1>i DEF RowStart
  <2>8. QED
    BY <2>6, <2>7
<1>3. QED
  BY <1>1, <1>2

LEMMA ResultStarts ==
  ASSUME TypeOK, WorkerShape, Starts, UNCHANGED acquisitionVars, NEW w \in Workers,
         Result(w) \/ DatabaseError(w) \/ DeleteUncommitted(w) \/ SkipUncommitted(w)
  PROVE  Starts'
<1> USE DEF TypeOK, CorpusTypeOK, WorkerTypeOK, audioVars, rowVars, acquisitionVars,
            jobVars
<1> SUFFICES ASSUME NEW u \in Videos PROVE RowStart(u)'
  BY DEF Starts
<1> DEFINE v == task[w]
<1>i. RowStart(u) /\ v \in Videos /\ RowStart(v)
  BY ResultShape DEF Starts
<1>a. status[v] \notin {"none", "reserved", "expired"} /\ reconciling # v
  BY <1>i DEF RowStart, Untouched
<1> HIDE DEF v
<1>1. UNCHANGED <<attempts, ready, unacked, task, stray, reconciling>>
        /\ transcript \subseteq transcript'
        /\ path' \in {path, [path EXCEPT ![v] = FALSE]}
  BY DEF Result, ReadAttempts, Infer, SkipMusic, SkipSilent, Transcribed, FailTranscribed,
         FailTerminal, FailRetry, DeleteAudio, DeleteFails, DatabaseError,
         DeleteUncommitted, SkipUncommitted, Complete, Skip, corpusVars, v
<1>2. \/ UNCHANGED <<status, queuedAt>>
      \/ /\ status' = [status EXCEPT ![v] = "completed"] /\ v \in transcript'
         /\ UNCHANGED queuedAt
      \/ /\ \E s \in {"skipped", "failed"} : status' = [status EXCEPT ![v] = s]
         /\ UNCHANGED queuedAt
      \/ /\ status' = [status EXCEPT ![v] = "queued"]
         /\ queuedAt' = [queuedAt EXCEPT ![v] = TRUE]
  <2>1. CASE Transcribed(w) \/ FailTranscribed(w)
    BY <2>1, <1>i DEF Transcribed, FailTranscribed, Complete, v
  <2>2. CASE SkipMusic(w) \/ SkipSilent(w) \/ FailTerminal(w)
    BY <2>2 DEF SkipMusic, SkipSilent, FailTerminal, Skip, v
  <2>3. CASE FailRetry(w)
    BY <2>3 DEF FailRetry, RetryStatus, v
  <2>4. CASE ReadAttempts(w) \/ Infer(w) \/ DeleteAudio(w) \/ DeleteFails(w) \/ DatabaseError(w)
               \/ DeleteUncommitted(w) \/ SkipUncommitted(w)
    BY <2>4 DEF ReadAttempts, Infer, DeleteAudio, DeleteFails, DatabaseError, DeleteUncommitted,
                SkipUncommitted, corpusVars
  <2>5. QED
    BY <2>1, <2>2, <2>3, <2>4 DEF Result
<1>3. CASE u = v
  BY <1>1, <1>2, <1>3, <1>i, <1>a DEF RowStart
<1>4. CASE u # v
  <2>1. /\ status'[u] = status[u] /\ queuedAt'[u] = queuedAt[u]
        /\ path'[u] = path[u]
    BY <1>1, <1>2, <1>4, <1>i
  <2>2. Untouched(u) => Untouched(u)'
    BY <1>1, <2>1 DEF Untouched
  <2>3. QED
    BY <1>1, <2>1, <2>2, <1>i DEF RowStart
<1>5. QED
  BY <1>3, <1>4

(* A process step moves deliveries and tasks it already has. *)
LEMMA ProcessStarts ==
  ASSUME TypeOK, WorkerShape, Starts, UNCHANGED acquisitionVars, NEW w \in Workers,
         Settle(w) \/ AnswerLost(w) \/ LoseConnection(w) \/ Crash(w) \/ DropSession(w)
  PROVE  Starts'
<1> USE DEF TypeOK, CorpusTypeOK, WorkerTypeOK, audioVars, rowVars, acquisitionVars,
            jobVars
<1> SUFFICES ASSUME NEW u \in Videos PROVE RowStart(u)'
  BY DEF Starts
<1>i. RowStart(u) /\ u # NoVideo
  BY CorpusAssumption DEF Starts
<1>1. UNCHANGED <<status, path, queuedAt, attempts, transcript, reconciling>>
  BY DEF Settle, AnswerLost, LoseConnection, Crash, DropSession
<1>2. ASSUME Untouched(u) PROVE Untouched(u)'
  <2>1. CASE Settle(w)
    BY <2>1, <1>1, <1>2, <1>i DEF Settle, Requeued, WorkerShape, Untouched
  <2>2. CASE LoseConnection(w)
    <3>1. unacked[w] # u
      BY <1>2 DEF Untouched
    <3>2. \A x \in Workers : stray'[x][u] = stray[x][u]
      <4>1. \/ stray' = stray
            \/ stray' = [stray EXCEPT ![w] =
                           [stray[w] EXCEPT ![unacked[w]] = stray[w][unacked[w]] + 1]]
        BY <2>2 DEF LoseConnection
      <4>2. [stray[w] EXCEPT ![unacked[w]] = stray[w][unacked[w]] + 1][u] = stray[w][u]
        BY <3>1
      <4>3. QED
        BY <4>1, <4>2
    <3>3. QED
      BY <2>2, <1>1, <1>2, <1>i, <3>1, <3>2 DEF LoseConnection, Untouched
  <2>3. CASE Crash(w)
    BY <2>3, <1>1, <1>2, <1>i DEF Crash, Untouched
  <2>4. CASE DropSession(w)
    BY <2>4, <1>1, <1>2, <1>i DEF DropSession, Untouched
  <2>5. CASE AnswerLost(w)
    BY <2>5, <1>1, <1>2, <1>i DEF AnswerLost, Untouched
  <2>6. QED
    BY <2>1, <2>2, <2>3, <2>4, <2>5
<1>3. QED
  BY <1>1, <1>2, <1>i DEF RowStart

LEMMA StartsStep ==
  ASSUME TypeOK, WorkerShape, Starts, [Next]_vars PROVE Starts'
<1>1. CASE AcquisitionNext /\ UNCHANGED workerVars
  <2>1. ASSUME ReconcileAbort PROVE Starts'
    BY <1>1, <2>1, CorpusAssumption
       DEF ReconcileAbort, Starts, RowStart, Untouched, jobVars, rowVars, audioVars,
           workerVars
  <2>2. QED
    BY <1>1, <2>1, BrowseStarts, UploadStarts, MaintenanceStarts DEF AcquisitionNext
<1>2. CASE WorkerNext /\ UNCHANGED acquisitionVars
  <2>1. PICK w \in Workers : Work(w) \/ WorkerFails(w)
    BY <1>2 DEF WorkerNext
  <2>2. CASE \E v \in Videos : Deliver(w, v) \/ Start(w, v) \/ StartError(w, v)
    BY <1>2, <2>2, StartStarts
  <2>3. CASE Result(w) \/ DatabaseError(w) \/ DeleteUncommitted(w) \/ SkipUncommitted(w)
    BY <1>2, <2>3, ResultStarts
  <2>4. CASE Settle(w) \/ AnswerLost(w) \/ LoseConnection(w) \/ Crash(w)
                       \/ DropSession(w)
    BY <1>2, <2>4, ProcessStarts
  <2>5. QED
    BY <2>1, <2>2, <2>3, <2>4 DEF Work, WorkerFails
<1>3. CASE \E v \in Videos : Import(v)
  BY <1>3 DEF Import, Starts, RowStart, Untouched, TypeOK, CorpusTypeOK, jobVars,
              audioVars, acquisitionVars, workerVars
<1>4. CASE UNCHANGED vars
  BY <1>4, StartsKept
     DEF vars, corpusVars, jobVars, rowVars, audioVars, acquisitionVars, workerVars
<1>5. QED
  BY <1>1, <1>2, <1>3, <1>4 DEF Next

LEMMA StartsInvariant == Spec => []Starts
<1>1. Init => Starts
  BY CorpusAssumption
     DEF Init, CorpusInit, AcquisitionInit, WorkerInit, Starts, RowStart, Untouched
<1>2. TypeOK /\ WorkerShape /\ Starts /\ [Next]_vars => Starts'
  BY StartsStep
<1>3. QED
  BY <1>1, <1>2, TypeCorrect, PTL DEF Spec

(* A reservation, and audio that waits for its publication, carry nothing over
   from an earlier life of their row, in the row, the queue or a worker, even
   where sessions and commits are lost. *)
THEOREM Fresh == Spec => []FreshStart
<1>1. TypeOK /\ Starts => FreshStart
  BY DEF Starts, RowStart, Untouched, FreshStart, Backed, TypeOK, CorpusTypeOK
<1>2. QED
  BY <1>1, StartsInvariant, TypeCorrect, PTL

(* Completed jobs have their transcript, whatever is lost: result and status are
   one transaction. *)
THEOREM Transcripts == Spec => []CompletedHasTranscript
<1>1. Starts => CompletedHasTranscript
  BY DEF Starts, RowStart, CompletedHasTranscript
<1>2. QED
  BY <1>1, StartsInvariant, PTL

-----------------------------------------------------------------------------
(* The job row, its audio, its messages and its tasks *)

LEMMA RowsKept ==
  ASSUME Rows, UNCHANGED <<status, path, wav, workerVars>>
  PROVE  Rows'
BY DEF Rows, RowInv, workerVars

LEMMA BrowseRows ==
  ASSUME TypeOK, Starts, Rows, UNCHANGED workerVars, Browse
  PROVE  Rows'
<1> USE DEF TypeOK, CorpusTypeOK, AcquisitionTypeOK, workerVars, audioVars, rowVars,
            acquisitionVars
<1>1. ASSUME NEW a \in Analyses, AcquisitionBatch(a), NEW u \in Videos
      PROVE  RowInv(u)'
  <2>1. PICK S \in SUBSET Videos :
          /\ \A v \in S : Reservable(a, v)
          /\ status' = [v \in Videos |-> IF v \in S THEN "reserved" ELSE status[v]]
          /\ UNCHANGED <<path, wav>>
    BY <1>1 DEF AcquisitionBatch, Reserve
  <2>2. RowInv(u) /\ RowStart(u)
    BY DEF Rows, Starts
  <2>3. CASE u \in S
    <3>1. status[u] \in {"none", "reserved", "expired"} /\ status'[u] = "reserved"
      BY <2>1, <2>3 DEF Reservable
    <3>2. QED
      BY <2>2, <3>1 DEF RowStart, RowInv, AcceptedStatuses, Untouched
  <2>4. CASE u \notin S
    BY <2>1, <2>2, <2>4 DEF RowInv
  <2>5. QED
    BY <2>3, <2>4
<1>2. ASSUME NEW a \in Analyses, NEW v \in Videos, NEW c \in ReportCodes,
             SendReport(a, v, c)
      PROVE  Rows'
  BY <1>2, RowsKept DEF SendReport, corpusVars, jobVars
<1>3. ASSUME NEW r \in reports, DeliverReport(r), NEW u \in Videos PROVE RowInv(u)'
  <2>1. CASE Releasable(r.analysis, r.video)
    BY <1>3, <2>1 DEF DeliverReport, Release, Releasable, Starts, RowStart, Untouched,
                      Rows, RowInv, Report, AcceptedStatuses
  <2>2. CASE ~Releasable(r.analysis, r.video)
    BY <1>3, <2>2 DEF DeliverReport, Release, Rows, RowInv
  <2>3. QED
    BY <2>1, <2>2
<1>4. ASSUME NEW r \in reports, ReportLost(r) PROVE Rows'
  BY <1>4, RowsKept DEF ReportLost, corpusVars, jobVars
<1>5. QED
  BY <1>1, <1>2, <1>3, <1>4 DEF Browse, Rows

LEMMA UploadRows ==
  ASSUME TypeOK, Starts, Rows, UNCHANGED workerVars, NEW v \in Videos,
         Upload(v) \/ LeaseLapses(v) \/ CooldownElapses(v)
  PROVE  Rows'
<1> USE DEF TypeOK, CorpusTypeOK, AcquisitionTypeOK, workerVars, audioVars, rowVars,
            acquisitionVars, jobVars
<1>1. CASE LeaseLapses(v) \/ CooldownElapses(v)
  BY <1>1, RowsKept DEF LeaseLapses, CooldownElapses
<1>2. CASE ReceiveTranscribed(v)
  BY <1>2 DEF ReceiveTranscribed, Rows, RowInv, AcceptedStatuses
<1>3. ASSUME NEW a \in Analyses, ReceiveAudio(a, v) PROVE Rows'
  <2>1. RowStart(v) /\ status[v] = "reserved"
    BY <1>3 DEF ReceiveAudio, Uploadable, Starts
  <2>2. QED
    BY <1>3, <2>1 DEF ReceiveAudio, Store, Put, Rows, RowInv, RowStart, Untouched
<1>4. ASSUME NEW a \in Analyses, ReceiveCrash(a, v) PROVE Rows'
  BY <1>4 DEF ReceiveCrash, Put, Rows, RowInv
<1>5. ASSUME NEW a \in Analyses, ReceiveTorn(a, v) PROVE Rows'
  BY <1>5, RowsKept DEF ReceiveTorn
<1>6. QED
  BY <1>1, <1>2, <1>3, <1>4, <1>5 DEF Upload

LEMMA MaintenanceRows ==
  ASSUME TypeOK, Starts, Rows, UNCHANGED workerVars, NEW v \in Videos,
         Maintain(v) \/ MaintenanceFails(v)
  PROVE  Rows'
<1> USE DEF TypeOK, CorpusTypeOK, AcquisitionTypeOK, workerVars, audioVars, rowVars,
            acquisitionVars, jobVars
<1> SUFFICES ASSUME NEW u \in Videos PROVE RowInv(u)'
  BY DEF Rows
<1>i. RowInv(u) /\ RowStart(u)
  BY DEF Rows, Starts
<1>1. CASE Enqueue(v) \/ PublishUnconfirmed(v)
  BY <1>1, <1>i DEF Enqueue, PublishUnconfirmed, Publishable, RowInv, AcceptedStatuses
<1>2. CASE ReconcileStart(v) \/ PublishRefused(v)
  BY <1>2, <1>i DEF ReconcileStart, PublishRefused, corpusVars, RowInv
<1>3. CASE ReconcileRecover(v)
  BY <1>3, <1>i DEF ReconcileRecover, RowInv, RowStart, Untouched
<1>4. CASE ReconcileAbsent(v) \/ ReconcileUnseen(v) \/ ReconcileInvalid(v)
  BY <1>4, <1>i DEF ReconcileAbsent, ReconcileUnseen, ReconcileInvalid, Expire, RowInv,
                    RowStart, Untouched, AcceptedStatuses
<1>5. CASE CleanupAudio(v) \/ CleanupUncommitted(v)
  BY <1>5, <1>i DEF CleanupAudio, CleanupUncommitted, Removable, RowInv,
                    AcceptedStatuses
<1>6. CASE CleanupPart(v) \/ CleanupFails(v)
  BY <1>6, <1>i DEF CleanupPart, CleanupFails, RowInv
<1>7. QED
  BY <1>1, <1>2, <1>3, <1>4, <1>5, <1>6 DEF Maintain, MaintenanceFails

LEMMA StartRows ==
  ASSUME TypeOK, WorkerShape, LockExclusive, Starts, Rows, UNCHANGED acquisitionVars,
         NEW w \in Workers, NEW v \in Videos,
         Deliver(w, v) \/ Start(w, v) \/ StartError(w, v)
  PROVE  Rows'
<1> USE DEF TypeOK, CorpusTypeOK, WorkerTypeOK, audioVars, rowVars, acquisitionVars,
            jobVars
<1> SUFFICES ASSUME NEW u \in Videos PROVE RowInv(u)'
  BY DEF Rows
<1>i. RowInv(u) /\ RowInv(v)
  BY DEF Rows
<1>1. CASE Deliver(w, v)
  BY <1>1, <1>i DEF Deliver, RowInv
<1>2. CASE Start(w, v) \/ StartError(w, v)
  <2>1. NextTask(w, v) /\ Take(w, v) /\ UNCHANGED <<path, wav>>
    BY <1>2 DEF Start, StartError, StartBusy, LoadTranscribed, LoadRefused, Load,
                corpusVars
  <2>2. \A x \in Workers : task'[x] = IF x = w THEN v ELSE task[x]
    BY <2>1 DEF Take
  <2>3. CASE StartBusy(w, v) \/ LoadRefused(w, v) \/ StartError(w, v)
    <3>1. UNCHANGED status /\ pc' = [pc EXCEPT ![w] = "done"]
      BY <2>3 DEF StartBusy, LoadRefused, StartError, Finish, corpusVars
    <3>2. QED
      BY <2>1, <2>2, <3>1, <1>i DEF RowInv
  <2>4. CASE LoadTranscribed(w, v)
    <3>1. /\ pc' = [pc EXCEPT ![w] = "cleanup"]
          /\ status' = [status EXCEPT ![v] = "completed"]
      BY <2>4 DEF LoadTranscribed, Step, Complete
    <3>2. \A x \in Workers \ {w} : task[x] = v => ~Working(x)
      BY <2>4 DEF LoadTranscribed, Locked, HoldsLock, LockExclusive
    <3>3. QED
      BY <2>1, <2>2, <3>1, <3>2, <1>i DEF RowInv, Working, AcceptedStatuses
  <2>5. CASE Load(w, v)
    <3>1. /\ pc' = [pc EXCEPT ![w] = "counted"]
          /\ status' = [status EXCEPT ![v] = "processing"]
          /\ status[v] \notin Obsolete /\ v \notin transcript
      BY <2>5 DEF Load, Step
    <3>2. \A x \in Workers \ {w} : task[x] = v => ~Working(x)
      BY <2>5 DEF Load, Locked, HoldsLock, LockExclusive
    <3>3. status[v] \in AcceptedStatuses
      BY <2>1, <3>1, TakenIsTouched DEF Starts, RowStart, Obsolete, AcceptedStatuses,
                                        Statuses, ActiveStatuses, TerminalStatuses
    <3>4. QED
      BY <2>1, <2>2, <3>1, <3>2, <3>3, <1>i DEF RowInv, Working, AcceptedStatuses
  <2>6. QED
    BY <1>2, <2>3, <2>4, <2>5 DEF Start
<1>3. QED
  BY <1>1, <1>2

LEMMA ResultRows ==
  ASSUME TypeOK, WorkerShape, LockExclusive, Starts, Rows, UNCHANGED acquisitionVars,
         ~SkipCommitLoss, NEW w \in Workers,
         Result(w) \/ DatabaseError(w) \/ DeleteUncommitted(w) \/ SkipUncommitted(w)
  PROVE  Rows'
<1> USE DEF TypeOK, CorpusTypeOK, WorkerTypeOK, audioVars, rowVars, acquisitionVars,
            jobVars, RowInv, AcceptedStatuses
<1> SUFFICES ASSUME NEW u \in Videos PROVE RowInv(u)'
  BY DEF Rows
<1> DEFINE v == task[w]
<1>i. RowInv(u) /\ v \in Videos /\ RowInv(v) /\ RowStart(v)
  BY ResultShape DEF Rows, Starts
<1>a. \A x \in Workers \ {w} : Working(w) /\ task[x] = v => ~Working(x)
  BY DEF LockExclusive, OneInferencePerVideo
<1> HIDE DEF v
<1>1. CASE ReadAttempts(w) \/ Infer(w)
  BY <1>1, <1>i, <1>a DEF ReadAttempts, Infer, Step, corpusVars, Working, v
<1>2. CASE SkipMusic(w)
  BY <1>2, <1>i, <1>a DEF SkipMusic, Skip, Step, Working, v
<1>3. CASE SkipSilent(w)
  BY <1>3, <1>i, <1>a DEF SkipSilent, Skip, Step, Working, v
<1>4. CASE Transcribed(w)
  BY <1>4, <1>i, <1>a DEF Transcribed, Complete, Step, Working, v
<1>5. CASE FailTranscribed(w)
  BY <1>5, <1>i, <1>a DEF Failing, FailTranscribed, Complete, Step, Working, v
<1>6. CASE FailTerminal(w)
  BY <1>6, <1>i, <1>a DEF Failing, FailTerminal, Finish, Working, v
<1>7. CASE FailRetry(w)
  BY <1>7, <1>i, <1>a DEF RowStart, Failing, FailRetry, RetryStatus, Finish, Working, v
<1>8. CASE DeleteAudio(w)
  BY <1>8, <1>i, <1>a DEF Cleaning, DeleteAudio, Deleted, Finish, Working, v
<1>9. CASE DeleteFails(w)
  BY <1>9, <1>i, <1>a DEF Cleaning, DeleteFails, Finish, Working, v
<1>10. CASE DatabaseError(w)
  BY <1>10, <1>i, <1>a DEF DatabaseError, Finish, Working, v
<1>11. CASE DeleteUncommitted(w)
  BY <1>11, <1>i, <1>a DEF Cleaning, DeleteUncommitted, Deleted, Finish, Working, v
<1>12. CASE SkipUncommitted(w)
  BY <1>12 DEF SkipUncommitted
<1>13. QED
  BY <1>1, <1>2, <1>3, <1>4, <1>5, <1>6, <1>7, <1>8, <1>9, <1>10, <1>11, <1>12
     DEF Result

LEMMA ProcessRows ==
  ASSUME TypeOK, WorkerShape, Rows, UNCHANGED acquisitionVars, NEW w \in Workers,
         Settle(w) \/ AnswerLost(w) \/ LoseConnection(w) \/ Crash(w) \/ DropSession(w)
  PROVE  Rows'
<1> USE DEF TypeOK, CorpusTypeOK, WorkerTypeOK, audioVars, rowVars, acquisitionVars,
            jobVars
<1> SUFFICES ASSUME NEW u \in Videos PROVE RowInv(u)'
  BY DEF Rows
<1>i. RowInv(u) /\ u # NoVideo
  BY CorpusAssumption DEF Rows
<1>1. CASE Settle(w)
  BY <1>1, <1>i DEF Settle, RowInv
<1>2. CASE LoseConnection(w)
  BY <1>2, <1>i DEF LoseConnection, RowInv
<1>3. CASE DropSession(w) \/ AnswerLost(w)
  BY <1>3, <1>i DEF DropSession, AnswerLost, RowInv
<1>4. CASE Crash(w)
  BY <1>4, <1>i DEF Crash, RowInv
<1>5. QED
  BY <1>1, <1>2, <1>3, <1>4

LEMMA RowsStep ==
  ASSUME TypeOK, WorkerShape, LockExclusive, Starts, Rows, ~SkipCommitLoss, [Next]_vars
  PROVE  Rows'
<1>1. CASE AcquisitionNext /\ UNCHANGED workerVars
  <2>1. ASSUME ReconcileAbort PROVE Rows'
    BY <1>1, <2>1, CorpusAssumption
       DEF ReconcileAbort, Rows, RowInv, jobVars, rowVars, audioVars, workerVars
  <2>2. QED
    BY <1>1, <2>1, BrowseRows, UploadRows, MaintenanceRows DEF AcquisitionNext
<1>2. CASE WorkerNext /\ UNCHANGED acquisitionVars
  <2>1. PICK w \in Workers : Work(w) \/ WorkerFails(w)
    BY <1>2 DEF WorkerNext
  <2>2. CASE \E v \in Videos : Deliver(w, v) \/ Start(w, v) \/ StartError(w, v)
    BY <1>2, <2>2, StartRows
  <2>3. CASE Result(w) \/ DatabaseError(w) \/ DeleteUncommitted(w) \/ SkipUncommitted(w)
    BY <1>2, <2>3, ResultRows
  <2>4. CASE Settle(w) \/ AnswerLost(w) \/ LoseConnection(w) \/ Crash(w)
                       \/ DropSession(w)
    BY <1>2, <2>4, ProcessRows
  <2>5. QED
    BY <2>1, <2>2, <2>3, <2>4 DEF Work, WorkerFails
<1>3. CASE UNCHANGED vars
  BY <1>3, RowsKept
     DEF vars, corpusVars, jobVars, rowVars, audioVars, acquisitionVars, workerVars
<1>4. CASE \E v \in Videos : Import(v)
  BY <1>4, RowsKept DEF Import, jobVars, audioVars
<1>5. QED
  BY <1>1, <1>2, <1>3, <1>4 DEF Next

LEMMA RowsInvariant ==
  ASSUME ~SessionLoss, ~SkipCommitLoss PROVE Spec => []Rows
<1>1. Init => Rows
  BY CorpusAssumption
     DEF Init, CorpusInit, AcquisitionInit, WorkerInit, Rows, RowInv, AcceptedStatuses
<1>2. TypeOK /\ WorkerShape /\ LockExclusive /\ Starts /\ Rows /\ [Next]_vars => Rows'
  BY RowsStep
<1>3. QED
  BY <1>1, <1>2, TypeCorrect, Exclusive, StartsInvariant, PTL DEF Spec

(* The WAV of an accepted job exists and its row names it: no cleanup, late
   delivery or crash deletes audio before a final status is committed. *)
THEOREM Durable ==
  ASSUME ~SessionLoss, ~SkipCommitLoss PROVE Spec => []AudioDurable
<1>1. Rows => AudioDurable
  BY DEF Rows, RowInv, AudioDurable
<1>2. QED
  BY <1>1, RowsInvariant, PTL

-----------------------------------------------------------------------------
(* Refinement: every step is a step of JobLifecycle *)

Phases == [v \in Videos |-> PhaseOf(status[v])]

LifecycleStep == [Lifecycle!Next]_<<Phases, transcript>>

(* One status changes. *)
LEMMA PhaseMoves ==
  ASSUME TypeOK, NEW v \in Videos, NEW s, status' = [status EXCEPT ![v] = s]
  PROVE  Phases' = [Phases EXCEPT ![v] = PhaseOf(s)]
BY DEF Phases, TypeOK, CorpusTypeOK

(* What the step of a single job looks like in JobLifecycle. *)
LEMMA SingleStep ==
  ASSUME TypeOK, NEW v \in Videos, NEW s, status' = [status EXCEPT ![v] = s],
         \/ /\ transcript' = transcript \cup {v}
            /\ s = "completed"
         \/ /\ UNCHANGED transcript
            /\ \/ PhaseOf(s) = PhaseOf(status[v])
               \/ status[v] = "reserved" /\ PhaseOf(s) = "unclaimed"
               \/ /\ PhaseOf(status[v]) \in {"unclaimed", "reserved"}
                  /\ PhaseOf(s) = "accepted"
               \/ s = "completed" /\ v \in transcript
               \/ /\ PhaseOf(status[v]) \in {"unclaimed", "reserved", "accepted"}
                  /\ s = "failed"
               \/ /\ PhaseOf(status[v]) \in {"accepted", "completed"}
                  /\ s = "skipped"
  PROVE  LifecycleStep
<1>1. Phases' = [Phases EXCEPT ![v] = PhaseOf(s)] /\ Phases[v] = PhaseOf(status[v])
  BY PhaseMoves DEF Phases
<1>2. /\ PhaseOf("completed") = "completed" /\ PhaseOf("failed") = "failed"
      /\ PhaseOf("skipped") = "skipped" /\ PhaseOf("reserved") = "reserved"
  BY DEF PhaseOf, AcceptedStatuses
<1>3. CASE s = "completed" /\ transcript' = transcript \cup {v}
  <2>1. Lifecycle!Complete(v)
    BY <1>1, <1>2, <1>3 DEF Lifecycle!Complete, Lifecycle!Goto, Phases
  <2>2. QED
    BY <2>1 DEF LifecycleStep, Lifecycle!Next
<1>4. CASE UNCHANGED transcript
  <2>1. CASE PhaseOf(s) = PhaseOf(status[v])
    <3>1. Phases' = Phases
      BY <1>1, <2>1 DEF Phases
    <3>2. QED
      BY <1>4, <3>1 DEF LifecycleStep
  <2>2. CASE status[v] = "reserved" /\ PhaseOf(s) = "unclaimed"
    <3>1. Lifecycle!GiveBack(v)
      BY <1>1, <1>2, <1>4, <2>2 DEF Lifecycle!GiveBack, Lifecycle!Goto, Phases
    <3>2. QED
      BY <3>1 DEF LifecycleStep, Lifecycle!Next
  <2>3. CASE /\ PhaseOf(status[v]) \in {"unclaimed", "reserved"}
             /\ PhaseOf(s) = "accepted"
    <3>1. Lifecycle!Accept(v)
      BY <1>1, <1>4, <2>3 DEF Lifecycle!Accept, Lifecycle!Goto, Phases
    <3>2. QED
      BY <3>1 DEF LifecycleStep, Lifecycle!Next
  <2>4. CASE s = "completed" /\ v \in transcript
    BY <1>3, <1>4, <2>4
  <2>5. CASE /\ PhaseOf(status[v]) \in {"unclaimed", "reserved", "accepted"}
             /\ s = "failed"
    <3>1. Lifecycle!Fail(v)
      BY <1>1, <1>2, <1>4, <2>5 DEF Lifecycle!Fail, Lifecycle!Goto, Phases
    <3>2. QED
      BY <3>1 DEF LifecycleStep, Lifecycle!Next
  <2>6. CASE PhaseOf(status[v]) \in {"accepted", "completed"} /\ s = "skipped"
    <3>1. Lifecycle!Skip(v)
      BY <1>1, <1>2, <1>4, <2>6 DEF Lifecycle!Skip, Lifecycle!Goto, Phases
    <3>2. QED
      BY <3>1 DEF LifecycleStep, Lifecycle!Next
  <2>7. QED
    BY <1>3, <1>4, <2>1, <2>2, <2>3, <2>4, <2>5, <2>6
<1>5. QED
  BY <1>3, <1>4

LEMMA SameStatus ==
  ASSUME UNCHANGED <<status, transcript>> PROVE LifecycleStep
BY DEF LifecycleStep, Phases

LEMMA AcquisitionLifecycle ==
  ASSUME TypeOK, Starts, AcquisitionNext PROVE LifecycleStep
<1> USE DEF TypeOK, CorpusTypeOK, AcquisitionTypeOK, corpusVars, jobVars, rowVars,
            PhaseOf, AcceptedStatuses
<1>1. ASSUME NEW a \in Analyses, AcquisitionBatch(a) PROVE LifecycleStep
  <2>1. PICK S \in SUBSET Videos :
          /\ \A v \in S : Reservable(a, v)
          /\ status' = [v \in Videos |-> IF v \in S THEN "reserved" ELSE status[v]]
    BY <1>1 DEF AcquisitionBatch, Reserve
  <2> DEFINE T == {v \in S : status[v] \in {"none", "expired"}}
  <2>2. T \in SUBSET {v \in Videos : Phases[v] = "unclaimed"}
    BY DEF Phases
  <2>3. Phases' = [v \in Videos |-> IF v \in T THEN "reserved" ELSE Phases[v]]
    BY <2>1 DEF Phases, Reservable
  <2>4. Lifecycle!Claim
    BY <1>1, <2>2, <2>3 DEF Lifecycle!Claim, Phases, AcquisitionBatch, Reserve
  <2>5. QED
    BY <2>4 DEF LifecycleStep, Lifecycle!Next
<1>2. ASSUME NEW r \in reports, DeliverReport(r) PROVE LifecycleStep
  <2>1. r.video \in Videos
    BY DEF Report
  <2>2. CASE Releasable(r.analysis, r.video)
    BY <1>2, <2>1, <2>2, SingleStep DEF DeliverReport, Release, Releasable
  <2>3. CASE ~Releasable(r.analysis, r.video)
    BY <1>2, <2>3, SameStatus DEF DeliverReport, Release
  <2>4. QED
    BY <2>2, <2>3
<1>3. ASSUME NEW v \in Videos, Upload(v) PROVE LifecycleStep
  <2>1. CASE ReceiveTranscribed(v)
    BY <2>1, SingleStep DEF ReceiveTranscribed
  <2>2. ASSUME NEW a \in Analyses, ReceiveAudio(a, v) PROVE LifecycleStep
    BY <2>2, SingleStep DEF ReceiveAudio, Uploadable, Store, Put
  <2>3. ASSUME NEW a \in Analyses, ReceiveCrash(a, v) \/ ReceiveTorn(a, v)
        PROVE  LifecycleStep
    BY <2>3, SameStatus DEF ReceiveCrash, ReceiveTorn
  <2>4. QED
    BY <1>3, <2>1, <2>2, <2>3 DEF Upload
<1>4. ASSUME NEW v \in Videos, Maintain(v) \/ MaintenanceFails(v)
      PROVE  LifecycleStep
  <2>i. RowStart(v)
    BY DEF Starts
  <2>1. CASE Enqueue(v)
    BY <2>1, SingleStep DEF Enqueue, Publishable
  <2>2. CASE ReconcileRecover(v)
    BY <2>2, <2>i, SingleStep DEF ReconcileRecover, RowStart
  <2>3. CASE ReconcileAbsent(v) \/ ReconcileUnseen(v)
    BY <2>3, <2>i, SingleStep, SameStatus
       DEF ReconcileAbsent, ReconcileUnseen, Expire, RowStart
  <2>4. CASE ReconcileInvalid(v)
    BY <2>4, <2>i, SingleStep DEF ReconcileInvalid, RowStart
  <2>5. CASE \/ ReconcileStart(v) \/ CleanupAudio(v) \/ CleanupPart(v)
             \/ PublishRefused(v) \/ PublishUnconfirmed(v) \/ CleanupFails(v)
             \/ CleanupUncommitted(v)
    BY <2>5, SameStatus DEF ReconcileStart, CleanupAudio, CleanupPart, PublishRefused,
                            PublishUnconfirmed, CleanupFails, CleanupUncommitted
  <2>6. QED
    BY <1>4, <2>1, <2>2, <2>3, <2>4, <2>5 DEF Maintain, MaintenanceFails
<1>5. ASSUME NEW v \in Videos, LeaseLapses(v) \/ CooldownElapses(v) PROVE LifecycleStep
  BY <1>5, SameStatus DEF LeaseLapses, CooldownElapses
<1>6. ASSUME ReconcileAbort \/ \E r \in reports : ReportLost(r) PROVE LifecycleStep
  BY <1>6, SameStatus DEF ReconcileAbort, ReportLost
<1>7. ASSUME NEW a \in Analyses, NEW v \in Videos, NEW c \in ReportCodes,
             SendReport(a, v, c)
      PROVE  LifecycleStep
  BY <1>7, SameStatus DEF SendReport
<1>8. QED
  BY <1>1, <1>2, <1>3, <1>4, <1>5, <1>6, <1>7 DEF AcquisitionNext, Browse

LEMMA WorkerLifecycle ==
  ASSUME TypeOK, WorkerShape, Starts, Rows, ~SkipCommitLoss, WorkerNext
  PROVE  LifecycleStep
<1> USE DEF TypeOK, CorpusTypeOK, WorkerTypeOK, corpusVars, jobVars, rowVars,
            PhaseOf, AcceptedStatuses
<1>1. PICK w \in Workers : Work(w) \/ WorkerFails(w)
  BY DEF WorkerNext
<1>2. ASSUME NEW v \in Videos, LoadTranscribed(w, v) PROVE LifecycleStep
  BY <1>2, SingleStep DEF LoadTranscribed, Complete
<1>3. ASSUME NEW v \in Videos, Load(w, v) PROVE LifecycleStep
  <2>1. status[v] \in AcceptedStatuses
    BY <1>3, TakenIsTouched DEF Load, Obsolete, Starts, RowStart, Statuses,
                                ActiveStatuses, TerminalStatuses
  <2>2. QED
    BY <1>3, <2>1, SingleStep DEF Load
<1>4. ASSUME NEW v \in Videos,
             \/ Deliver(w, v) \/ StartBusy(w, v) \/ LoadRefused(w, v)
             \/ StartError(w, v)
      PROVE  LifecycleStep
  BY <1>4, SameStatus DEF Deliver, StartBusy, LoadRefused, StartError
<1>5. CASE Result(w) \/ DatabaseError(w) \/ DeleteUncommitted(w) \/ SkipUncommitted(w)
  <2> DEFINE v == task[w]
  <2>i. v \in Videos /\ RowInv(v) /\ RowStart(v)
    BY <1>5, ResultShape DEF Starts, Rows
  <2>1. CASE SkipMusic(w)
    BY <2>1, <2>i, SingleStep DEF SkipMusic, Skip, RowInv
  <2>2. CASE SkipSilent(w)
    BY <2>2, <2>i, SingleStep DEF SkipSilent, Skip, RowInv
  <2>3. CASE Transcribed(w)
    BY <2>3, <2>i, SingleStep DEF Transcribed, Complete
  <2>4. CASE FailTranscribed(w)
    BY <2>4, <2>i, SingleStep DEF Failing, FailTranscribed, Complete
  <2>5. CASE FailTerminal(w)
    BY <2>5, <2>i, SingleStep DEF Failing, FailTerminal, RowStart, RowInv
  <2>6. CASE FailRetry(w)
    BY <2>6, <2>i, SingleStep DEF Failing, FailRetry, RetryStatus, RowStart,
                                   RowInv
  <2>7. CASE \/ ReadAttempts(w) \/ Infer(w) \/ DeleteAudio(w) \/ DeleteFails(w) \/ DatabaseError(w)
             \/ DeleteUncommitted(w) \/ SkipUncommitted(w)
    BY <2>7, SameStatus DEF ReadAttempts, Infer, DeleteAudio, DeleteFails, DatabaseError,
                            DeleteUncommitted, SkipUncommitted
  <2>8. QED
    BY <1>5, <2>1, <2>2, <2>3, <2>4, <2>5, <2>6, <2>7 DEF Result
<1>6. CASE Settle(w) \/ AnswerLost(w) \/ LoseConnection(w) \/ Crash(w) \/ DropSession(w)
  BY <1>6, SameStatus DEF Settle, AnswerLost, LoseConnection, Crash, DropSession
<1>7. QED
  BY <1>1, <1>2, <1>3, <1>4, <1>5, <1>6 DEF Work, WorkerFails, Start

(* Every step of API, maintenance, workers and import is a step of the promised
   lifecycle of one job, or leaves it alone; a reservation claims several. *)
THEOREM Refinement ==
  ASSUME ~SessionLoss, ~SkipCommitLoss PROVE Spec => ImplementsLifecycle
<1>1. Init => Lifecycle!Init
  BY DEF Init, CorpusInit, Lifecycle!Init, PhaseOf
<1>2. TypeOK /\ WorkerShape /\ Starts /\ Rows /\ [Next]_vars
        => [Lifecycle!Next]_(Lifecycle!vars)
  <2> SUFFICES ASSUME TypeOK, WorkerShape, Starts, Rows, [Next]_vars PROVE LifecycleStep
    BY DEF LifecycleStep, Phases, Lifecycle!vars
  <2>1. ASSUME NEW v \in Videos, Import(v) PROVE LifecycleStep
    <3>1. Lifecycle!Import(v)
      BY <2>1 DEF Import, jobVars, Lifecycle!Import
    <3>2. QED
      BY <3>1 DEF LifecycleStep, Lifecycle!Next
  <2>2. CASE UNCHANGED vars
    BY <2>2, SameStatus DEF vars, corpusVars, jobVars, rowVars
  <2>3. QED
    BY <2>1, <2>2, AcquisitionLifecycle, WorkerLifecycle DEF Next
<1>3. QED
  BY <1>1, <1>2, TypeCorrect, StartsInvariant, RowsInvariant, PTL
     DEF Spec, ImplementsLifecycle, Lifecycle!Spec

-----------------------------------------------------------------------------
(* Messages behind jobs *)

(* Scans, uploads, maintenance and import take no message away, and make no job
   need one without publishing it. *)
LEMMA BackingKept ==
  ASSUME TypeOK, Backing, UNCHANGED workerVars,
         \A v \in Videos :
           /\ ready[v] > 0 => ready'[v] > 0
           /\ NeedsMessage(v)' => NeedsMessage(v) \/ ready'[v] > 0
  PROVE  Backing'
BY DEF Backing, Backed, WillReturn, workerVars

LEMMA AcquisitionBacking ==
  ASSUME TypeOK, Starts, Backing, UNCHANGED workerVars, AcquisitionNext
  PROVE  Backing'
<1> USE DEF TypeOK, CorpusTypeOK, AcquisitionTypeOK, jobVars, rowVars, audioVars,
            acquisitionVars, workerVars, NeedsMessage
<1>1. ASSUME NEW a \in Analyses, AcquisitionBatch(a) PROVE Backing'
  <2>1. /\ UNCHANGED ready
        /\ \A v \in Videos : status'[v] \in {status[v], "reserved"}
    BY <1>1 DEF AcquisitionBatch, Reserve
  <2>2. QED
    BY <2>1, BackingKept
<1>2. ASSUME NEW r \in reports, DeliverReport(r) PROVE Backing'
  <2>1. /\ UNCHANGED ready
        /\ \A v \in Videos : status'[v] \in {status[v], "expired"}
    BY <1>2 DEF DeliverReport, Release
  <2>2. QED
    BY <2>1, BackingKept
<1>3. ASSUME NEW v \in Videos, Upload(v) PROVE Backing'
  <2>1. CASE ReceiveTranscribed(v)
    BY <2>1, BackingKept DEF ReceiveTranscribed
  <2>2. ASSUME NEW a \in Analyses, ReceiveAudio(a, v) PROVE Backing'
    <3>1. Untouched(v)
      BY <2>2 DEF ReceiveAudio, Uploadable, Starts, RowStart
    <3>2. QED
      BY <2>2, <3>1, BackingKept DEF ReceiveAudio, Store, Put, Untouched
  <2>3. ASSUME NEW a \in Analyses, ReceiveCrash(a, v) \/ ReceiveTorn(a, v)
        PROVE  Backing'
    BY <2>3, BackingKept DEF ReceiveCrash, ReceiveTorn
  <2>4. QED
    BY <1>3, <2>1, <2>2, <2>3 DEF Upload
<1>4. ASSUME NEW v \in Videos, Maintain(v) \/ MaintenanceFails(v) PROVE Backing'
  <2>1. CASE Enqueue(v)
    BY <2>1, BackingKept DEF Enqueue
  <2>2. CASE ReconcileRecover(v)
    <3>1. Untouched(v)
      BY <2>2 DEF ReconcileRecover, Starts, RowStart
    <3>2. QED
      BY <2>2, <3>1, BackingKept DEF ReconcileRecover, Untouched
  <2>3. CASE ReconcileAbsent(v) \/ ReconcileUnseen(v) \/ ReconcileInvalid(v)
    <3>1. /\ UNCHANGED ready
          /\ \A u \in Videos : status'[u] \in {status[u], "expired", "failed"}
      BY <2>3 DEF ReconcileAbsent, ReconcileUnseen, Expire, ReconcileInvalid
    <3>2. QED
      BY <3>1, BackingKept
  <2>4. CASE \/ ReconcileStart(v) \/ CleanupAudio(v) \/ CleanupPart(v)
             \/ PublishRefused(v) \/ CleanupFails(v) \/ CleanupUncommitted(v)
    BY <2>4, BackingKept DEF ReconcileStart, CleanupAudio, CleanupPart, PublishRefused,
                             CleanupFails, CleanupUncommitted, corpusVars
  <2>5. CASE PublishUnconfirmed(v)
    BY <2>5, BackingKept DEF PublishUnconfirmed
  <2>6. QED
    BY <1>4, <2>1, <2>2, <2>3, <2>4, <2>5 DEF Maintain, MaintenanceFails
<1>5. ASSUME \/ ReconcileAbort \/ (\E r \in reports : ReportLost(r))
             \/ \E v \in Videos : LeaseLapses(v) \/ CooldownElapses(v)
             \/ \E a \in Analyses, v \in Videos, c \in ReportCodes : SendReport(a, v, c)
      PROVE  Backing'
  BY <1>5, BackingKept DEF ReconcileAbort, ReportLost, LeaseLapses, CooldownElapses,
                           SendReport, corpusVars
<1>6. QED
  BY <1>1, <1>2, <1>3, <1>4, <1>5 DEF AcquisitionNext, Browse

LEMMA StartBacking ==
  ASSUME TypeOK, WorkerShape, Starts, Rows, Backing, NEW w \in Workers,
         NEW v \in Videos, Deliver(w, v) \/ Start(w, v) \/ StartError(w, v)
  PROVE  Backing'
<1> USE DEF TypeOK, CorpusTypeOK, WorkerTypeOK, jobVars, rowVars, audioVars
<1> SUFFICES ASSUME NEW u \in Videos, NeedsMessage(u)' PROVE Backed(u)'
  BY DEF Backing
<1>1. CASE Deliver(w, v)
  <2>1. ~attached[w] /\ UNCHANGED <<pc, attached, outcome, status, stray>>
    BY <1>1, CorpusAssumption DEF Deliver, WorkerShape
  <2>2. Backed(u)
    BY <2>1 DEF Backing, NeedsMessage
  <2>3. CASE u = v
    BY <1>1, <2>1, <2>3 DEF Deliver, Backed, WillReturn
  <2>4. CASE u # v
    BY <1>1, <2>1, <2>2, <2>4, CorpusAssumption DEF Deliver, Backed, WillReturn
  <2>5. QED
    BY <2>3, <2>4
<1>2. CASE Start(w, v) \/ StartError(w, v)
  <2>1. /\ NextTask(w, v) /\ Take(w, v) /\ UNCHANGED <<unacked, ready>>
        /\ \E p \in Steps : pc' = [pc EXCEPT ![w] = p]
        /\ \E o \in Outcomes : outcome' = [outcome EXCEPT ![w] = o]
    BY <1>2 DEF Start, StartError, StartBusy, LoadTranscribed, LoadRefused, Load,
                Step, Finish, Steps, Outcomes, corpusVars
  <2>2. status[v] \notin {"none", "reserved", "expired"}
    BY <2>1, TakenIsTouched
  <2>3. attached'[w] => unacked[w] = v
    <3>1. attached'[w] = (stray[w][v] = 0)
      BY <2>1 DEF Take
    <3>2. stray[w][v] = 0 => unacked[w] = v
      BY <2>1 DEF NextTask
    <3>3. QED
      BY <3>1, <3>2
  <2>4. \A x \in Workers, y \in Videos : stray'[x][y] > 0 => stray[x][y] > 0
    <3>1. CASE stray[w][v] = 0
      BY <2>1, <3>1 DEF Take
    <3>2. CASE stray[w][v] # 0
      <4>1. stray' = [stray EXCEPT ![w] = [stray[w] EXCEPT ![v] = stray[w][v] - 1]]
        BY <2>1, <3>2 DEF Take
      <4>2. QED
        BY <4>1
    <3>3. QED
      BY <3>1, <3>2
  <2>5. CASE u # v
    <3>1. status'[u] = status[u]
      BY <1>2, <2>5 DEF Start, StartError, StartBusy, LoadTranscribed, LoadRefused,
                        Load, Complete, corpusVars
    <3>2. NeedsMessage(u)
      BY <2>4, <3>1 DEF NeedsMessage
    <3>3. Backed(u)
      BY <3>2 DEF Backing
    <3>4. CASE ready[u] > 0
      BY <2>1, <3>4 DEF Backed
    <3>5. ASSUME NEW x \in Workers, unacked[x] = u, WillReturn(x) PROVE Backed(u)'
      <4>1. CASE x = w
        BY <2>1, <2>3, <2>5, <3>5, <4>1 DEF Backed, WillReturn
      <4>2. CASE x # w
        BY <2>1, <3>5, <4>2 DEF Backed, WillReturn, Take
      <4>3. QED
        BY <4>1, <4>2
    <3>6. QED
      BY <3>3, <3>4, <3>5 DEF Backed
  <2>6. CASE u = v
    <3>1. CASE LoadTranscribed(w, v)
      BY <2>6, <3>1 DEF LoadTranscribed, Complete, NeedsMessage
    <3>2. status[v] = "completed" => v \in transcript
      BY DEF Starts, RowStart
    <3>3. CASE LoadRefused(w, v)
      <4>1. status'[v] = status[v] /\ v \notin transcript
        BY <3>3 DEF LoadRefused, corpusVars
      <4>2. status[v] \in AcceptedStatuses => path[v]
        BY DEF Rows, RowInv
      <4>3. QED
        BY <2>6, <3>3, <4>1, <4>2 DEF LoadRefused, Obsolete, NeedsMessage,
                                      AcceptedStatuses
    <3>4. CASE StartBusy(w, v) \/ StartError(w, v) \/ Load(w, v)
      <4>1. outcome'[w] \notin {"ack", "reject"} \/ pc'[w] # "done"
        BY <3>4 DEF StartBusy, StartError, Load, Finish, Step
      <4>2. CASE unacked[w] = v
        BY <2>1, <2>6, <4>1, <4>2 DEF Backed, WillReturn
      <4>3. CASE unacked[w] # v
        <5>1. stray[w][v] > 0
          BY <2>1, <4>3 DEF NextTask
        <5>2. status[v] \in {"audio_received", "queued", "processing"}
          BY <2>2, <3>2, <3>4, <2>6
             DEF StartBusy, StartError, Load, NeedsMessage, Obsolete, Statuses,
                 ActiveStatuses, TerminalStatuses, corpusVars
        <5>3. Backed(v)
          BY <5>1, <5>2 DEF Backing, NeedsMessage
        <5>4. QED
          BY <2>1, <2>6, <4>3, <5>3 DEF Backed, WillReturn, Take
      <4>4. QED
        BY <4>2, <4>3
    <3>5. QED
      BY <1>2, <3>1, <3>3, <3>4 DEF Start
  <2>7. QED
    BY <2>5, <2>6
<1>3. QED
  BY <1>1, <1>2

LEMMA ResultBacking ==
  ASSUME TypeOK, WorkerShape, Starts, Rows, Backing, ~SkipCommitLoss, NEW w \in Workers,
         Result(w) \/ DatabaseError(w) \/ DeleteUncommitted(w) \/ SkipUncommitted(w)
  PROVE  Backing'
<1> USE DEF TypeOK, CorpusTypeOK, WorkerTypeOK, jobVars, rowVars, audioVars
<1> SUFFICES ASSUME NEW u \in Videos, NeedsMessage(u)' PROVE Backed(u)'
  BY DEF Backing
<1>t. task[w] \in Videos /\ RowInv(task[w])
  BY ResultShape DEF Rows
<1>1. /\ Working(w) /\ pc[w] # "rescue" /\ task[w] \in Videos
      /\ UNCHANGED <<unacked, stray, task, attached, ready>>
      /\ \A x \in Workers \ {w} : pc'[x] = pc[x] /\ outcome'[x] = outcome[x]
  <2>1. Working(w) /\ UNCHANGED <<unacked, stray, task, attached, ready>>
    BY DEF Result, DatabaseError, DeleteUncommitted, SkipUncommitted, ReadAttempts, Infer, SkipMusic,
           SkipSilent, Transcribed, FailTranscribed, FailTerminal, FailRetry,
           DeleteAudio, DeleteFails, Cleaning, Failing, Working, corpusVars
  <2>2. \A x \in Workers \ {w} : pc'[x] = pc[x] /\ outcome'[x] = outcome[x]
    BY DEF Result, DatabaseError, DeleteUncommitted, SkipUncommitted, ReadAttempts, Infer, SkipMusic,
           SkipSilent, Transcribed, FailTranscribed, FailTerminal, FailRetry,
           DeleteAudio, DeleteFails, Step, Finish
  <2>3. QED
    BY <1>t, <2>1, <2>2 DEF RowInv
<1>2. \A y \in Videos \ {task[w]} : status'[y] = status[y]
  BY DEF Result, DatabaseError, DeleteUncommitted, SkipUncommitted, ReadAttempts, Infer, SkipMusic,
         SkipSilent,
         Transcribed, FailTranscribed, FailTerminal, FailRetry, DeleteAudio,
         DeleteFails, Cleaning, Failing, Skip, Complete, corpusVars
(* The task keeps its video's need for a message, or asks for a requeue. *)
<1>3. NeedsMessage(task[w])' =>
        /\ NeedsMessage(task[w])
        /\ outcome'[w] \notin {"ack", "reject"} \/ pc'[w] # "done"
  <2>r. RowInv(task[w]) /\ RowStart(task[w])
    BY <1>1 DEF Starts, Rows
  <2>1. CASE \/ SkipMusic(w) \/ SkipSilent(w) \/ Transcribed(w) \/ FailTranscribed(w)
             \/ FailTerminal(w)
    BY <1>1, <2>1 DEF SkipMusic, SkipSilent, Transcribed, FailTranscribed, FailTerminal,
                      Skip, Complete, NeedsMessage
  <2>2. CASE DeleteAudio(w) \/ DeleteFails(w)
    BY <1>1, <2>2, <2>r DEF Cleaning, DeleteAudio, DeleteFails, RowInv, NeedsMessage
  <2>3. CASE FailRetry(w)
    BY <1>1, <2>3, <2>r DEF Failing, FailRetry, RetryOutcome, Finish, RowStart,
                            RowInv, NeedsMessage
  <2>4. CASE ReadAttempts(w) \/ Infer(w) \/ DatabaseError(w) \/ DeleteUncommitted(w) \/ SkipUncommitted(w)
    BY <1>1, <2>4 DEF ReadAttempts, Infer, Step, DatabaseError, DeleteUncommitted, SkipUncommitted,
                      Finish,
                      NeedsMessage, corpusVars
  <2>5. QED
    BY <2>1, <2>2, <2>3, <2>4 DEF Result
<1>4. NeedsMessage(u)
  BY <1>1, <1>2, <1>3 DEF NeedsMessage
<1>5. CASE ready[u] > 0
  BY <1>1, <1>5 DEF Backed
<1>6. ASSUME NEW x \in Workers, unacked[x] = u, WillReturn(x) PROVE Backed(u)'
  <2>1. CASE x # w
    BY <1>1, <1>6, <2>1 DEF Backed, WillReturn
  <2>2. CASE x = w /\ attached[w]
    <3>1. u = task[w]
      BY <1>6, <2>2 DEF WorkerShape
    <3>2. outcome'[w] \notin {"ack", "reject"} \/ pc'[w] # "done"
      BY <1>1, <1>3, <3>1 DEF NeedsMessage
    <3>3. QED
      BY <1>1, <1>6, <2>2, <3>2 DEF Backed, WillReturn
  <2>3. CASE x = w /\ ~attached[w]
    BY <1>1, <1>6, <2>3 DEF Backed, WillReturn
  <2>4. QED
    BY <2>1, <2>2, <2>3
<1>7. QED
  BY <1>4, <1>5, <1>6 DEF Backing, Backed

LEMMA ProcessBacking ==
  ASSUME TypeOK, WorkerShape, Backing, NEW w \in Workers,
         Settle(w) \/ AnswerLost(w) \/ LoseConnection(w) \/ Crash(w) \/ DropSession(w)
  PROVE  Backing'
<1> USE DEF TypeOK, CorpusTypeOK, WorkerTypeOK, jobVars
<1> SUFFICES ASSUME NEW u \in Videos, NeedsMessage(u)' PROVE Backed(u)'
  BY DEF Backing
<1>1. CASE Settle(w)
  <2>1. Backed(u)
    BY <1>1 DEF Settle, NeedsMessage, Backing
  <2>2. CASE ready[u] > 0
    BY <1>1, <2>2 DEF Settle, Requeued, Backed
  <2>3. ASSUME NEW x \in Workers, unacked[x] = u, WillReturn(x) PROVE Backed(u)'
    <3>1. CASE x = w /\ attached[w]
      <4>1. outcome[w] \in {"retry", "error"}
        BY <1>1, <2>3, <3>1 DEF WillReturn, Settle, WorkerShape, Outcomes
      <4>2. ready'[u] = ready[u] + 1
        BY <1>1, <2>3, <3>1, <4>1 DEF Settle, Requeued
      <4>3. QED
        BY <4>2 DEF Backed
    <3>2. CASE x = w /\ ~attached[w]
      BY <1>1, <2>3, <3>2 DEF Settle, Backed, WillReturn
    <3>3. CASE x # w
      BY <1>1, <2>3, <3>3 DEF Settle, Backed, WillReturn
    <3>4. QED
      BY <3>1, <3>2, <3>3
  <2>4. QED
    BY <2>1, <2>2, <2>3 DEF Backed
<1>2. CASE LoseConnection(w) \/ Crash(w)
  <2>1. \/ UNCHANGED ready /\ unacked[w] = NoVideo
        \/ unacked[w] \in Videos /\ ready' = [ready EXCEPT ![unacked[w]] = @ + 1]
    BY <1>2 DEF LoseConnection, Crash
  <2>2. CASE unacked[w] = u
    <3>1. ready'[u] = ready[u] + 1
      BY <2>1, <2>2, CorpusAssumption
    <3>2. QED
      BY <3>1 DEF Backed
  <2>3. CASE unacked[w] # u
    <3>1. \A x \in Workers : stray[x][u]' > 0 => stray[x][u] > 0
      <4>1. stray[w][u]' > 0 => stray[w][u] > 0
        BY <1>2, <2>3 DEF LoseConnection, Crash
      <4>2. \A x \in Workers \ {w} : stray'[x] = stray[x]
        BY <1>2 DEF LoseConnection, Crash
      <4>3. QED
        BY <4>1, <4>2
    <3>2. UNCHANGED status
      BY <1>2 DEF LoseConnection, Crash
    <3>3. Backed(u)
      BY <3>1, <3>2 DEF NeedsMessage, Backing
    <3>4. CASE ready[u] > 0
      BY <2>1, <2>3, <3>4 DEF Backed
    <3>5. ASSUME NEW x \in Workers \ {w}, unacked[x] = u, WillReturn(x)
          PROVE  Backed(u)'
      BY <1>2, <3>5 DEF LoseConnection, Crash, Backed, WillReturn
    <3>6. QED
      BY <2>3, <3>3, <3>4, <3>5 DEF Backed
  <2>4. QED
    BY <2>2, <2>3
<1>3. CASE DropSession(w)
  <2>1. Backed(u)
    BY <1>3 DEF DropSession, NeedsMessage, Backing
  <2>2. \A x \in Workers : WillReturn(x)' = WillReturn(x)
    BY <1>3 DEF DropSession, WillReturn
  <2>3. QED
    BY <1>3, <2>1, <2>2 DEF DropSession, Backed
<1>4. CASE AnswerLost(w)
  <2>1. Backed(u)
    BY <1>4 DEF AnswerLost, NeedsMessage, Backing
  <2>2. \A x \in Workers : WillReturn(x) => WillReturn(x)'
    BY <1>4 DEF AnswerLost, WillReturn
  <2>3. QED
    BY <1>4, <2>1, <2>2 DEF AnswerLost, Backed
<1>5. QED
  BY <1>1, <1>2, <1>3, <1>4

LEMMA BackingStep ==
  ASSUME TypeOK, WorkerShape, Starts, Rows, Backing, ~SkipCommitLoss, [Next]_vars
  PROVE  Backing'
<1>1. CASE WorkerNext
  <2>1. PICK w \in Workers : Work(w) \/ WorkerFails(w)
    BY <1>1 DEF WorkerNext
  <2>2. QED
    BY <2>1, StartBacking, ResultBacking, ProcessBacking DEF Work, WorkerFails
<1>2. ASSUME NEW v \in Videos, Import(v) PROVE Backing'
  BY <1>2, BackingKept DEF Import, NeedsMessage, jobVars, workerVars
<1>3. CASE UNCHANGED vars
  BY <1>3, BackingKept DEF vars, corpusVars, jobVars, NeedsMessage, workerVars
<1>4. QED
  BY <1>1, <1>2, <1>3, AcquisitionBacking DEF Next

(* No interleaving of publication, redelivery, retries, crashes and lost broker
   connections leaves a queued or processing job without a message. *)
THEOREM JobsAreBacked ==
  ASSUME ~SessionLoss, ~SkipCommitLoss PROVE Spec => []NoLostJob
<1>1. Init => Backing
  BY DEF Init, CorpusInit, WorkerInit, Backing, NeedsMessage
<1>2. TypeOK /\ WorkerShape /\ Starts /\ Rows /\ Backing /\ [Next]_vars => Backing'
  BY BackingStep
<1>3. Backing => NoLostJob
  BY DEF Backing, NeedsMessage, NoLostJob
<1>4. QED
  BY <1>1, <1>2, <1>3, TypeCorrect, StartsInvariant, RowsInvariant, PTL DEF Spec

-----------------------------------------------------------------------------
(* Attempts pay for inferences, even when locks are lost *)

LEMMA ComingFinite ==
  ASSUME NEW v
  PROVE  /\ IsFiniteSet(Coming(v)) /\ Cardinality(Coming(v)) \in Nat
         /\ IsFiniteSet(AtGate(v)) /\ Cardinality(AtGate(v)) \in Nat
<1>1. Coming(v) \in SUBSET Workers /\ AtGate(v) \in SUBSET Workers /\ IsFiniteSet(Workers)
  BY CorpusAssumption DEF AtGate, Coming
<1>2. IsFiniteSet(Coming(v)) /\ IsFiniteSet(AtGate(v))
  BY <1>1, FS_Subset
<1>3. QED
  BY <1>2, FS_CardinalityType

LEMMA Fewer ==
  ASSUME NEW S, IsFiniteSet(S), NEW R \in SUBSET S
  PROVE  Cardinality(R) \in Nat /\ Cardinality(S) \in Nat /\ Cardinality(R) <= Cardinality(S)
BY FS_Subset, FS_CardinalityType

LEMMA PaidKept ==
  ASSUME TypeOK, Paid, UNCHANGED <<attempts, inferences>>,
         \A w \in Workers :
           pc'[w] \in {"counted", "gate"} => pc'[w] = pc[w] /\ task'[w] = task[w]
  PROVE  Paid'
<1>1. ASSUME NEW v \in Videos
      PROVE  /\ inferences'[v] + Cardinality(Coming(v)') <= attempts'[v]
             /\ inferences'[v] + Cardinality(AtGate(v)') <= MaxAttempts
  <2>1. AtGate(v)' \in SUBSET AtGate(v) /\ Coming(v)' \in SUBSET Coming(v)
    BY DEF AtGate, Coming
  <2>2. /\ Cardinality(AtGate(v)') <= Cardinality(AtGate(v))
        /\ Cardinality(Coming(v)') <= Cardinality(Coming(v))
        /\ Cardinality(AtGate(v)') \in Nat /\ Cardinality(Coming(v)') \in Nat
        /\ Cardinality(AtGate(v)) \in Nat /\ Cardinality(Coming(v)) \in Nat
    BY <2>1, ComingFinite, Fewer
  <2>3. /\ inferences[v] \in Nat /\ attempts[v] \in Nat /\ MaxAttempts \in Nat
        /\ inferences[v] + Cardinality(Coming(v)) <= attempts[v]
        /\ inferences[v] + Cardinality(AtGate(v)) <= MaxAttempts
        /\ inferences'[v] = inferences[v] /\ attempts'[v] = attempts[v]
    BY CorpusAssumption DEF Paid, TypeOK, CorpusTypeOK, WorkerTypeOK
  <2> QED BY <2>2, <2>3
<1>2. QED
  BY <1>1 DEF Paid

(* A task that read at most MaxAttempts: those at the gate are among those that
   an attempt was committed for. *)
LEMMA ReadPaid ==
  ASSUME TypeOK, WorkerShape, Paid, NEW w \in Workers, ReadAttempts(w) PROVE Paid'
<1> SUFFICES ASSUME NEW v \in Videos
             PROVE  /\ inferences'[v] + Cardinality(Coming(v)') <= attempts'[v]
                    /\ inferences'[v] + Cardinality(AtGate(v)') <= MaxAttempts
  BY DEF Paid
<1>1. /\ UNCHANGED <<attempts, task, inferences>>
      /\ pc[w] = "counted" /\ pc' = [pc EXCEPT ![w] = "gate"]
      /\ attempts[task[w]] <= MaxAttempts
  BY DEF ReadAttempts, Step, corpusVars, jobVars
<1>2. /\ inferences[v] \in Nat /\ attempts[v] \in Nat /\ MaxAttempts \in Nat
      /\ inferences[v] + Cardinality(Coming(v)) <= attempts[v]
      /\ inferences[v] + Cardinality(AtGate(v)) <= MaxAttempts
      /\ Cardinality(Coming(v)) \in Nat
  BY CorpusAssumption, ComingFinite DEF Paid, TypeOK, CorpusTypeOK, WorkerTypeOK
<1>3. Coming(v)' = Coming(v)
  BY <1>1 DEF Coming, TypeOK, WorkerTypeOK
<1>4. CASE task[w] = v
  <2>1. AtGate(v)' \in SUBSET Coming(v)
    BY <1>1 DEF AtGate, Coming, TypeOK, WorkerTypeOK
  <2>2. Cardinality(AtGate(v)') <= Cardinality(Coming(v)) /\ Cardinality(AtGate(v)') \in Nat
    BY <2>1, ComingFinite, Fewer
  <2> QED BY <1>1, <1>2, <1>3, <1>4, <2>2
<1>5. CASE task[w] # v
  <2>1. AtGate(v)' = AtGate(v)
    BY <1>1, <1>5 DEF AtGate, TypeOK, WorkerTypeOK
  <2> QED BY <1>1, <1>2, <1>3, <2>1
<1>6. QED
  BY <1>4, <1>5

LEMMA InferPaid ==
  ASSUME TypeOK, WorkerShape, Paid, NEW w \in Workers, Infer(w) PROVE Paid'
<1> SUFFICES ASSUME NEW v \in Videos
             PROVE  /\ inferences'[v] + Cardinality(Coming(v)') <= attempts'[v]
                    /\ inferences'[v] + Cardinality(AtGate(v)') <= MaxAttempts
  BY DEF Paid
<1>1. /\ UNCHANGED <<attempts, task>>
      /\ inferences' = [inferences EXCEPT ![task[w]] = inferences[task[w]] + 1]
      /\ pc[w] = "gate" /\ pc' = [pc EXCEPT ![w] = "infer"]
  BY DEF Infer, Step, corpusVars, jobVars
<1>2. /\ inferences[v] \in Nat /\ attempts[v] \in Nat /\ MaxAttempts \in Nat
      /\ inferences[v] + Cardinality(Coming(v)) <= attempts[v]
      /\ inferences[v] + Cardinality(AtGate(v)) <= MaxAttempts
      /\ Cardinality(Coming(v)) \in Nat /\ Cardinality(AtGate(v)) \in Nat
  BY CorpusAssumption, ComingFinite DEF Paid, TypeOK, CorpusTypeOK, WorkerTypeOK
<1>3. AtGate(v)' = AtGate(v) \ {w} /\ Coming(v)' = Coming(v) \ {w}
  BY <1>1 DEF AtGate, Coming, TypeOK, WorkerTypeOK
<1>4. CASE task[w] = v
  <2>1. w \in AtGate(v) /\ w \in Coming(v)
    BY <1>1, <1>4 DEF AtGate, Coming
  <2>2. /\ Cardinality(AtGate(v)') = Cardinality(AtGate(v)) - 1
        /\ Cardinality(Coming(v)') = Cardinality(Coming(v)) - 1
    BY <1>3, <2>1, ComingFinite, FS_RemoveElement
  <2>3. inferences'[v] = inferences[v] + 1 /\ attempts'[v] = attempts[v]
    BY <1>1, <1>4 DEF TypeOK, WorkerTypeOK
  <2> QED BY <1>2, <2>2, <2>3
<1>5. CASE task[w] # v
  <2>1. w \notin AtGate(v) /\ w \notin Coming(v)
    BY <1>5 DEF AtGate, Coming
  <2>2. AtGate(v)' = AtGate(v) /\ Coming(v)' = Coming(v)
    BY <1>3, <2>1
  <2>3. inferences'[v] = inferences[v] /\ attempts'[v] = attempts[v]
    BY <1>1, <1>5 DEF TypeOK, WorkerTypeOK
  <2> QED BY <1>2, <2>2, <2>3
<1>6. QED
  BY <1>4, <1>5

LEMMA LoadPaid ==
  ASSUME TypeOK, WorkerShape, Paid, NEW w \in Workers, NEW u \in Videos, Load(w, u)
  PROVE  Paid'
<1> SUFFICES ASSUME NEW v \in Videos
             PROVE  /\ inferences'[v] + Cardinality(Coming(v)') <= attempts'[v]
                    /\ inferences'[v] + Cardinality(AtGate(v)') <= MaxAttempts
  BY DEF Paid
<1>1. /\ UNCHANGED inferences /\ attempts' = [attempts EXCEPT ![u] = attempts[u] + 1]
      /\ pc[w] = "idle" /\ pc' = [pc EXCEPT ![w] = "counted"]
      /\ task' = [task EXCEPT ![w] = u]
  BY DEF Load, Counted, NextTask, Step, Take
<1>2. /\ inferences[v] \in Nat /\ attempts[v] \in Nat
      /\ inferences[v] + Cardinality(Coming(v)) <= attempts[v]
      /\ inferences[v] + Cardinality(AtGate(v)) <= MaxAttempts
      /\ IsFiniteSet(Coming(v)) /\ Cardinality(Coming(v)) \in Nat
  BY ComingFinite DEF Paid, TypeOK, CorpusTypeOK, WorkerTypeOK
<1>a. AtGate(v)' = AtGate(v)
  BY <1>1 DEF AtGate, TypeOK, WorkerTypeOK
<1>3. CASE u = v
  <2>1. Coming(v)' = Coming(v) \cup {w} /\ w \notin Coming(v)
    BY <1>1, <1>3 DEF Coming, TypeOK, WorkerTypeOK
  <2>2. Cardinality(Coming(v)') = Cardinality(Coming(v)) + 1
    BY <1>2, <2>1, FS_AddElement
  <2>3. QED
    BY <1>1, <1>2, <1>a, <1>3, <2>2 DEF TypeOK, CorpusTypeOK
<1>4. CASE u # v
  <2>1. Coming(v)' = Coming(v)
    BY <1>1, <1>4 DEF Coming, TypeOK, WorkerTypeOK
  <2>2. QED
    BY <1>1, <1>2, <1>a, <1>4, <2>1 DEF TypeOK, CorpusTypeOK
<1>5. QED
  BY <1>3, <1>4

LEMMA PaidStep ==
  ASSUME TypeOK, WorkerShape, Paid, [Next]_vars PROVE Paid'
<1> USE DEF corpusVars, jobVars, workerVars
<1>1. CASE WorkerNext
  <2>1. PICK w \in Workers : Work(w) \/ WorkerFails(w)
    BY <1>1 DEF WorkerNext
  <2>t. WorkerTypeOK
    BY DEF TypeOK
  <2>2. ASSUME NEW v \in Videos, Deliver(w, v) PROVE Paid'
    BY <2>2, PaidKept DEF Deliver
  <2>3. ASSUME NEW v \in Videos,
               \/ StartBusy(w, v) \/ StartError(w, v) \/ LoadRefused(w, v)
               \/ LoadTranscribed(w, v)
        PROVE  Paid'
    <3>1. /\ UNCHANGED <<attempts, inferences>> /\ Take(w, v)
          /\ \E p \in {"done", "cleanup"} : pc' = [pc EXCEPT ![w] = p]
      BY <2>3 DEF StartBusy, StartError, LoadRefused, LoadTranscribed, Finish, Step
    <3>2. QED
      BY <2>t, <3>1, PaidKept DEF Take, WorkerTypeOK
  <2>4. CASE \/ SkipMusic(w) \/ SkipSilent(w) \/ Transcribed(w) \/ FailTranscribed(w)
             \/ FailTerminal(w) \/ FailRetry(w) \/ DeleteAudio(w) \/ DeleteFails(w)
             \/ DatabaseError(w) \/ DeleteUncommitted(w) \/ SkipUncommitted(w)
    <3>1. /\ UNCHANGED <<attempts, inferences, task>>
          /\ \E p \in {"done", "skip", "cleanup", "rescue"} : pc' = [pc EXCEPT ![w] = p]
      BY <2>4 DEF SkipMusic, SkipSilent, Transcribed, FailTranscribed, FailTerminal,
                  FailRetry, DeleteAudio, DeleteFails, DatabaseError,
                  DeleteUncommitted, SkipUncommitted, Finish, Step
    <3>2. QED
      BY <2>t, <3>1, PaidKept DEF WorkerTypeOK
  <2>5. CASE Settle(w) \/ AnswerLost(w) \/ LoseConnection(w) \/ Crash(w)
                       \/ DropSession(w)
    BY <2>t, <2>5, PaidKept DEF Settle, AnswerLost, LoseConnection, Crash,
                                DropSession, WorkerTypeOK
  <2>6. QED
    BY <2>1, <2>2, <2>3, <2>4, <2>5, ReadPaid, InferPaid, LoadPaid
       DEF Work, WorkerFails, Start, Result
<1>2. CASE UNCHANGED <<attempts, workerVars>>
  BY <1>2, PaidKept
<1>3. AcquisitionNext => UNCHANGED attempts
  BY DEF AcquisitionNext, Browse, AcquisitionBatch, Reserve, SendReport, DeliverReport,
         ReportLost,
         ReconcileAbort, Upload, ReceiveTranscribed, ReceiveAudio, ReceiveCrash,
         ReceiveTorn, Store, Put, Maintain, Enqueue, ReconcileStart, ReconcileRecover,
         ReconcileAbsent, ReconcileUnseen, Expire, CleanupAudio, CleanupPart,
         MaintenanceFails, PublishRefused,
         PublishUnconfirmed, ReconcileInvalid, CleanupFails, CleanupUncommitted,
         LeaseLapses, CooldownElapses
<1>4. QED
  BY <1>1, <1>2, <1>3 DEF Next, Import, vars

(* Whisper is started at most TRANSCRIPTION_MAX_ATTEMPTS times on a video, with
   any number of redeliveries, crashes and lost locks. *)
THEOREM Bounded == Spec => []InferencesBounded
<1>1. Init => Paid
  <2>1. ASSUME Init, NEW v \in Videos PROVE AtGate(v) = {} /\ Coming(v) = {}
    BY <2>1 DEF Init, WorkerInit, AtGate, Coming
  <2>2. ASSUME Init, NEW v \in Videos
        PROVE  /\ inferences[v] = 0 /\ attempts[v] = 0
               /\ Cardinality(AtGate(v)) = 0 /\ Cardinality(Coming(v)) = 0
    BY <2>1, <2>2, FS_EmptySet DEF Init, CorpusInit, WorkerInit
  <2>3. QED
    BY <2>2, CorpusAssumption DEF Paid
<1>2. TypeOK /\ WorkerShape /\ Paid /\ [Next]_vars => Paid'
  BY PaidStep
<1>3. TypeOK /\ Paid => InferencesBounded
  BY ComingFinite, CorpusAssumption DEF Paid, InferencesBounded, TypeOK, WorkerTypeOK
<1>4. QED
  BY <1>1, <1>2, <1>3, TypeCorrect, PTL DEF Spec

-----------------------------------------------------------------------------
(* The limits of the queue *)

LEMMA FiniteVideos ==
  ASSUME NEW S \in SUBSET Videos, NEW T \in SUBSET S
  PROVE  /\ IsFiniteSet(S) /\ Cardinality(S) \in Nat /\ Cardinality(T) \in Nat
         /\ Cardinality(T) <= Cardinality(S)
<1>1. IsFiniteSet(S)
  BY CorpusAssumption, FS_Subset
<1>2. IsFiniteSet(T)
  BY <1>1, FS_Subset
<1>3. QED
  BY <1>1, <1>2, FS_Subset, FS_CardinalityType

LEMMA LimitKept ==
  ASSUME ActiveWithinLimit, Held' \in SUBSET Held PROVE ActiveWithinLimit'
<1>1. Held \in SUBSET Videos /\ Held' \in SUBSET Held
  BY DEF Held, Active
<1>2. /\ Cardinality(Held) \in Nat /\ Cardinality(Held') \in Nat
      /\ Cardinality(Held') <= Cardinality(Held)
  BY <1>1, FiniteVideos
<1>3. QED
  BY <1>2, CorpusAssumption DEF ActiveWithinLimit

LEMMA AcquisitionLimit ==
  ASSUME TypeOK, ActiveWithinLimit, AcquisitionNext PROVE ActiveWithinLimit'
<1> USE DEF TypeOK, CorpusTypeOK, AcquisitionTypeOK, corpusVars, jobVars,
            acquisitionVars, Active, ActiveStatuses
<1>1. ASSUME NEW a \in Analyses, AcquisitionBatch(a) PROVE ActiveWithinLimit'
  <2>1. PICK S \in SUBSET Videos :
          /\ status' = [v \in Videos |-> IF v \in S THEN "reserved" ELSE status[v]]
          /\ Cardinality(Active \cup S) <= MaxJobs
    BY <1>1 DEF AcquisitionBatch, Reserve, HasRoom
  <2>2. reconciling' = NoVideo
    BY <1>1 DEF AcquisitionBatch, Reserve, FlockFree
  <2>3. Held' = Active \cup S
    BY <2>1, <2>2, CorpusAssumption DEF Held
  <2>4. QED
    BY <2>1, <2>3 DEF ActiveWithinLimit
<1>2. ASSUME NEW r \in reports, DeliverReport(r) PROVE Held' \in SUBSET Held
  BY <1>2 DEF DeliverReport, Release, Held, Report
<1>3. ASSUME NEW v \in Videos, Upload(v) PROVE Held' \in SUBSET Held
  BY <1>3 DEF Upload, ReceiveTranscribed, ReceiveAudio, Uploadable, Store, Put,
              ReceiveCrash, ReceiveTorn, Held
<1>4. ASSUME NEW v \in Videos, Maintain(v) PROVE Held' \in SUBSET Held
  <2>1. CASE Enqueue(v)
    BY <2>1 DEF Enqueue, Publishable, Held
  <2>2. CASE ReconcileStart(v) \/ ReconcileRecover(v) \/ ReconcileAbsent(v)
    BY <2>2, CorpusAssumption
       DEF ReconcileStart, ReconcileRecover, ReconcileAbsent, Expire, Held
  <2>3. CASE CleanupAudio(v) \/ CleanupPart(v)
    BY <2>3 DEF CleanupAudio, CleanupPart, Held
  <2>4. QED
    BY <1>4, <2>1, <2>2, <2>3 DEF Maintain
<1>5. ASSUME NEW v \in Videos, MaintenanceFails(v) PROVE Held' \in SUBSET Held
  BY <1>5, CorpusAssumption
     DEF MaintenanceFails, PublishRefused, PublishUnconfirmed, ReconcileInvalid,
         ReconcileUnseen, Expire, CleanupFails, CleanupUncommitted, Held
<1>6. ASSUME \/ ReconcileAbort \/ (\E r \in reports : ReportLost(r))
             \/ \E v \in Videos : LeaseLapses(v) \/ CooldownElapses(v)
             \/ \E a \in Analyses, v \in Videos, c \in ReportCodes : SendReport(a, v, c)
      PROVE  Held' \in SUBSET Held
  BY <1>6, CorpusAssumption
     DEF ReconcileAbort, ReportLost, LeaseLapses, CooldownElapses, SendReport, Held
<1>7. QED
  BY <1>1, <1>2, <1>3, <1>4, <1>5, <1>6, LimitKept DEF AcquisitionNext, Browse

LEMMA WorkerLimit ==
  ASSUME TypeOK, WorkerShape, Starts, Rows, ActiveWithinLimit, WorkerNext,
         UNCHANGED acquisitionVars
  PROVE  ActiveWithinLimit'
<1> USE DEF TypeOK, CorpusTypeOK, WorkerTypeOK, corpusVars, jobVars, acquisitionVars,
            Active, ActiveStatuses, Held
<1>1. PICK w \in Workers : Work(w) \/ WorkerFails(w)
  BY DEF WorkerNext
<1>2. ASSUME NEW v \in Videos, Load(w, v) PROVE Held' \in SUBSET Held
  <2>1. status[v] \in AcceptedStatuses
    BY <1>2, TakenIsTouched DEF Load, Obsolete, Starts, RowStart, Statuses,
                                TerminalStatuses, AcceptedStatuses
  <2>2. QED
    BY <1>2, <2>1 DEF Load, AcceptedStatuses
<1>3. ASSUME NEW v \in Videos,
             \/ Deliver(w, v) \/ StartBusy(w, v) \/ LoadRefused(w, v)
             \/ StartError(w, v)
             \/ LoadTranscribed(w, v)
      PROVE  Held' \in SUBSET Held
  BY <1>3 DEF Deliver, StartBusy, LoadRefused, StartError, LoadTranscribed, Complete
<1>4. CASE Result(w)
  <2>i. task[w] \in Videos /\ RowInv(task[w]) /\ RowStart(task[w])
    BY <1>4, ResultShape DEF Starts, Rows
  <2>1. ASSUME FailRetry(w) PROVE Held' \in SUBSET Held
    BY <2>1, <2>i DEF Failing, FailRetry, RetryStatus, RowStart, RowInv
  <2>2. ASSUME \/ ReadAttempts(w) \/ Infer(w) \/ SkipMusic(w) \/ SkipSilent(w) \/ Transcribed(w)
               \/ FailTranscribed(w) \/ FailTerminal(w) \/ DeleteAudio(w)
               \/ DeleteFails(w)
        PROVE  Held' \in SUBSET Held
    BY <2>2, <2>i DEF ReadAttempts, Infer, SkipMusic, SkipSilent, Transcribed, FailTranscribed,
                      FailTerminal, DeleteAudio, DeleteFails, Skip, Complete
  <2>3. Held' \in SUBSET Held
    BY <1>4, <2>1, <2>2 DEF Result
  <2>4. QED
    BY <2>3, LimitKept
<1>5. CASE \/ Settle(w) \/ AnswerLost(w) \/ DatabaseError(w) \/ DeleteUncommitted(w)
           \/ SkipUncommitted(w)
           \/ LoseConnection(w) \/ Crash(w) \/ DropSession(w)
  <2>1. Held' \in SUBSET Held
    BY <1>5 DEF Settle, DatabaseError, DeleteUncommitted, SkipUncommitted, AnswerLost,
                LoseConnection, Crash,
                DropSession
  <2>2. QED
    BY <2>1, LimitKept
<1>6. QED
  BY <1>1, <1>2, <1>3, <1>4, <1>5, LimitKept DEF Work, WorkerFails, Start

(* AUDIO_QUEUE_MAX_JOBS bounds the active jobs, retries and recovery included. *)
THEOREM Limit ==
  ASSUME ~SessionLoss, ~SkipCommitLoss PROVE Spec => []ActiveWithinLimit
<1>1. Init => ActiveWithinLimit
  <2>1. ASSUME Init PROVE Held = {}
    BY <2>1, CorpusAssumption
       DEF Init, CorpusInit, AcquisitionInit, Held, Active, ActiveStatuses
  <2>2. QED
    BY <2>1, FS_EmptySet, CorpusAssumption DEF ActiveWithinLimit
<1>2. TypeOK /\ WorkerShape /\ Starts /\ Rows /\ ActiveWithinLimit /\ [Next]_vars
        => ActiveWithinLimit'
  <2> SUFFICES ASSUME TypeOK, WorkerShape, Starts, Rows, ActiveWithinLimit, [Next]_vars
               PROVE  ActiveWithinLimit'
    OBVIOUS
  <2>1. CASE \/ UNCHANGED vars \/ \E v \in Videos : Import(v)
    <3>1. Held' \in SUBSET Held
      BY <2>1 DEF vars, Import, corpusVars, jobVars, acquisitionVars, Held, Active
    <3>2. QED
      BY <3>1, LimitKept
  <2>2. QED
    BY <2>1, AcquisitionLimit, WorkerLimit DEF Next
<1>3. QED
  BY <1>1, <1>2, TypeCorrect, StartsInvariant, RowsInvariant, PTL DEF Spec

LEMMA InboxKept ==
  ASSUME TypeOK, InboxBounded, wav' \in SUBSET wav, part' \in SUBSET part
  PROVE  InboxBounded'
<1>1. wav \in SUBSET Videos /\ part \in SUBSET Videos
  BY DEF TypeOK, CorpusTypeOK
<1>2. /\ Cardinality(wav) \in Nat /\ Cardinality(wav') \in Nat
      /\ Cardinality(wav') <= Cardinality(wav)
  BY <1>1, FiniteVideos
<1>3. /\ Cardinality(part) \in Nat /\ Cardinality(part') \in Nat
      /\ Cardinality(part') <= Cardinality(part)
  BY <1>1, FiniteVideos
<1>4. QED
  BY <1>2, <1>3, CorpusAssumption DEF InboxBounded

(* The three outcomes of an upload. *)
LEMMA UploadInbox ==
  ASSUME TypeOK, InboxBounded, Backend = "local", NEW a \in Analyses, NEW v \in Videos,
         ReceiveAudio(a, v) \/ ReceiveCrash(a, v) \/ ReceiveTorn(a, v)
  PROVE  InboxBounded'
<1>1. IsFiniteSet(wav) /\ IsFiniteSet(part)
  BY FiniteVideos DEF TypeOK, CorpusTypeOK
<1>2. Cardinality(wav) \in Nat /\ Cardinality(part) \in Nat
  BY <1>1, FS_CardinalityType
<1>3. Cardinality(wav) + Cardinality(part) + 1 < MaxAudio
  BY <1>2 DEF ReceiveAudio, ReceiveCrash, ReceiveTorn, Uploadable, AudioUsed
<1>4. \/ wav' = wav \cup {v} /\ part' = part
      \/ part' = part \cup {v} /\ wav' = wav
  BY DEF ReceiveAudio, ReceiveCrash, ReceiveTorn, Store, Put
<1>5. /\ Cardinality(wav \cup {v}) \in {Cardinality(wav), Cardinality(wav) + 1}
      /\ Cardinality(part \cup {v}) \in {Cardinality(part), Cardinality(part) + 1}
  BY <1>1, FS_AddElement
<1>6. Cardinality(wav') + Cardinality(part') <= Cardinality(wav) + Cardinality(part) + 1
  <2>1. CASE wav' = wav \cup {v} /\ part' = part
    BY <1>2, <1>5, <2>1
  <2>2. CASE part' = part \cup {v} /\ wav' = wav
    BY <1>2, <1>5, <2>2
  <2>3. QED
    BY <1>4, <2>1, <2>2
<1>7. Cardinality(wav') \in Nat /\ Cardinality(part') \in Nat
  <2>1. wav' \in SUBSET Videos /\ part' \in SUBSET Videos
    BY <1>4 DEF TypeOK, CorpusTypeOK
  <2>2. QED
    BY <2>1, FiniteVideos
<1>8. QED
  BY <1>2, <1>3, <1>6, <1>7, CorpusAssumption DEF InboxBounded

(* The local inbox stays below AUDIO_QUEUE_MAX_BYTES, with what crashed uploads
   left in it. *)
THEOREM Inbox == ASSUME Backend = "local" PROVE Spec => []InboxBounded
<1>1. Init => InboxBounded
  BY FS_EmptySet, CorpusAssumption DEF Init, CorpusInit, InboxBounded
<1>2. TypeOK /\ InboxBounded /\ [Next]_vars => InboxBounded'
  <2> SUFFICES ASSUME TypeOK, InboxBounded, [Next]_vars PROVE InboxBounded'
    OBVIOUS
  <2> USE DEF corpusVars, audioVars
  <2>1. ASSUME Browse \/ ReconcileAbort \/ (\E v \in Videos : Import(v))
                      \/ UNCHANGED vars
        PROVE  InboxBounded'
    BY <2>1, InboxKept
       DEF Browse, AcquisitionBatch, Reserve, SendReport, DeliverReport, ReportLost,
           ReconcileAbort,
           Import, vars
  <2>2. ASSUME NEW v \in Videos, ReceiveTranscribed(v) \/ LeaseLapses(v)
                                                       \/ CooldownElapses(v)
        PROVE  InboxBounded'
    BY <2>2, InboxKept DEF ReceiveTranscribed, LeaseLapses, CooldownElapses
  <2>3. ASSUME NEW v \in Videos, Maintain(v) \/ MaintenanceFails(v) PROVE InboxBounded'
    BY <2>3, InboxKept
       DEF Maintain, Enqueue, ReconcileStart, ReconcileRecover, ReconcileAbsent,
           ReconcileUnseen, Expire, CleanupAudio, CleanupPart, MaintenanceFails, PublishRefused,
           PublishUnconfirmed, ReconcileInvalid, CleanupFails, CleanupUncommitted
  <2>4. ASSUME NEW w \in Workers, Work(w) \/ WorkerFails(w) PROVE InboxBounded'
    <3>1. CASE Result(w) \/ DatabaseError(w) \/ DeleteUncommitted(w)
                         \/ SkipUncommitted(w)
      BY <3>1, InboxKept
         DEF Result, DatabaseError, DeleteUncommitted, SkipUncommitted, ReadAttempts, Infer,
             SkipMusic, SkipSilent,
             Transcribed, FailTranscribed, FailTerminal, FailRetry, DeleteAudio,
             DeleteFails, Deleted
    <3>2. CASE \/ \E v \in Videos : Deliver(w, v) \/ Start(w, v) \/ StartError(w, v)
               \/ Settle(w) \/ AnswerLost(w) \/ LoseConnection(w) \/ Crash(w)
               \/ DropSession(w)
      BY <3>2, InboxKept
         DEF Deliver, Start, StartError, StartBusy, LoadTranscribed, LoadRefused, Load,
             Settle, AnswerLost, LoseConnection, Crash, DropSession
    <3>3. QED
      BY <2>4, <3>1, <3>2 DEF Work, WorkerFails
  <2>5. QED
    BY <2>1, <2>2, <2>3, <2>4, UploadInbox DEF Next, AcquisitionNext, WorkerNext, Upload
<1>3. QED
  BY <1>1, <1>2, TypeCorrect, PTL DEF Spec

=============================================================================
