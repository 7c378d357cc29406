--------------------------- MODULE CuratorProofs ---------------------------
(***************************************************************************)
(* Proofs about Curator and CuratorPage: for any channels, inputs and      *)
(* bounds, one channel is in flight, a finished channel is not touched     *)
(* again, and a channel or queue that reports itself completed is.         *)
(*                                                                         *)
(* Each operation of the queue is a function of the record, so most of the *)
(* proof is about records: QueueOK is what every saved queue satisfies,    *)
(* Keeps what an operation does with it.                                   *)
(***************************************************************************)
EXTENDS CuratorPage, Orders

Resting == Finished \cup {"pending", "deferred"}
Busy == {"paused", "error", "needs_user"} \cup InProgress

OneActive(q) ==
  /\ q.active # NoChannel => q.active \in q.listed
  /\ \A c \in q.listed : q.ch[c].status \in Resting <=> c # q.active

(* A channel that waits, or that is not listed, has not been touched. *)
Untouched(q) ==
  \A c \in Channels : c \notin q.listed \/ q.ch[c].status = "pending" => q.ch[c] = Fresh

AllTried(q) ==
  q.status = "completed" =>
    \A c \in q.listed :
      q.ch[c].status \in Finished \/ (q.ch[c].status = "deferred" /\ q.ch[c].passed)

QueueOK(q) ==
  /\ q \in Queues /\ StrictTotal(q.ahead, q.listed) /\ q.ahead \subseteq q.listed \X q.listed
  /\ OneActive(q) /\ Untouched(q) /\ AllTried(q)

(* What an operation makes of q is a queue, and finished channels stay. *)
Keeps(q, r) ==
  /\ QueueOK(r)
  /\ \A c \in q.listed :
       q.ch[c].status \in Finished => c \in r.listed /\ r.ch[c] = q.ch[c]

OutcomeOK(q, o) ==
  /\ Keeps(q, o.queue) /\ Keeps(q, o.refused)
  /\ o.open \in BOOLEAN /\ o.stop \in BOOLEAN
  /\ o.open => o.queue.active # NoChannel

-----------------------------------------------------------------------------
(* Queues *)

LEMMA KeepsTrans ==
  ASSUME NEW q, NEW r, NEW t, Keeps(q, r), Keeps(r, t)
  PROVE  Keeps(q, t)
BY DEF Keeps

LEMMA KeepsSelf == ASSUME NEW q, QueueOK(q) PROVE Keeps(q, q)
BY DEF Keeps

LEMMA StatusSets ==
  /\ Resting \cap Busy = {}
  /\ \A s : s \in Busy <=> s \in {"paused", "error", "needs_user", "opening", "recovering",
                                  "scanning", "draining"}
  /\ \A r \in Record : r.status \in Resting \cup Busy
BY DEF Resting, Busy, Finished, InProgress, Record

LEMMA FreshRecord == Fresh \in Record /\ Fresh.status = "pending"
BY CuratorAssumption DEF Fresh, Record

LEMMA QueueFields ==
  ASSUME NEW q \in Queues
  PROVE  /\ q.active \in Channels \cup {NoChannel} /\ q.listed \in SUBSET Channels
         /\ q.ahead \in SUBSET (Channels \X Channels) /\ q.ch \in [Channels -> Record]
         /\ q.status \in {"idle", "running", "paused", "stopped", "completed", "needs_user"}
BY DEF Queues

(* The active channel, or one that becomes active, is busy after. *)
LEMMA Placed ==
  ASSUME NEW q, QueueOK(q), NEW t \in Queues, NEW c \in q.listed,
         q.active \in {NoChannel, c}, q.ch[c].status \notin Finished,
         t.active = c, t.listed = q.listed, t.ahead = q.ahead, t.status # "completed",
         t.ch[c].status \in Busy, \A d \in Channels \ {c} : t.ch[d] = q.ch[d]
  PROVE  Keeps(q, t)
<1>1. c \in Channels /\ c # NoChannel /\ q.listed \subseteq Channels /\ NoChannel \notin q.listed
  BY QueueFields, CuratorAssumption DEF QueueOK
<1>2. t.ch[c].status \notin Resting
  BY StatusSets
<1>3. \A d \in q.listed \ {c} : t.ch[d].status \in Resting
  BY <1>1 DEF QueueOK, OneActive
<1>4. OneActive(t)
  BY <1>2, <1>3 DEF OneActive
<1>5. Untouched(t)
  BY <1>1, <1>2 DEF QueueOK, Untouched, Resting
<1>6. QueueOK(t)
  BY <1>4, <1>5 DEF QueueOK, AllTried
<1> QED BY <1>1, <1>6 DEF Keeps

(* The active channel is put down. *)
LEMMA Released ==
  ASSUME NEW q, QueueOK(q), NEW t \in Queues, NEW c \in q.listed, q.active = c,
         t.active = NoChannel, t.listed = q.listed, t.ahead = q.ahead, t.status # "completed",
         t.ch[c].status \in {"completed", "skipped", "deferred"},
         \A d \in Channels \ {c} : t.ch[d] = q.ch[d]
  PROVE  Keeps(q, t)
<1>1. c \in Channels /\ c # NoChannel /\ q.listed \subseteq Channels /\ NoChannel \notin q.listed
  BY QueueFields, CuratorAssumption DEF QueueOK
<1>2. t.ch[c].status \in Resting /\ t.ch[c].status # "pending"
  BY DEF Resting, Finished
<1>3. OneActive(t)
  BY <1>1, <1>2 DEF QueueOK, OneActive
<1>4. Untouched(t)
  BY <1>1, <1>2 DEF QueueOK, Untouched
<1>5. QueueOK(t)
  BY <1>3, <1>4 DEF QueueOK, AllTried
<1>6. q.ch[c].status \notin Finished
  BY DEF QueueOK, OneActive, Resting
<1> QED BY <1>1, <1>5, <1>6 DEF Keeps

LEMMA StatusKeeps ==
  ASSUME NEW q, QueueOK(q), NEW s \in {"idle", "running", "paused", "stopped", "needs_user"}
  PROVE  Keeps(q, [q EXCEPT !.status = s])
<1> DEFINE t == [q EXCEPT !.status = s]
<1>1. /\ t \in Queues /\ t.status = s /\ t.active = q.active /\ t.listed = q.listed
      /\ t.ahead = q.ahead /\ t.ch = q.ch
  BY DEF QueueOK, Queues
<1> HIDE DEF t
<1>2. QueueOK(t)
  BY <1>1 DEF QueueOK, OneActive, Untouched, AllTried
<1> QED BY <1>1, <1>2 DEF Keeps, t

(* An event changes the active channel only, and leaves it busy. *)
LEMMA UpdateKeeps ==
  ASSUME NEW q, QueueOK(q), NEW r,
         q.active # NoChannel => r \in Record /\ r.status \in Busy
  PROVE  /\ Keeps(q, Update(q, r))
         /\ Update(q, r).active = q.active /\ Update(q, r).status = q.status
         /\ q.active # NoChannel => Update(q, r).ch[q.active] = r
<1>1. CASE q.active = NoChannel
  BY <1>1, KeepsSelf DEF Update
<1>2. CASE q.active # NoChannel
  <2> DEFINE t == [q EXCEPT !.ch[q.active] = r]
             c == q.active
  <2>1. c \in q.listed /\ c \in Channels /\ q.ch[c].status \notin Resting
    BY <1>2, QueueFields DEF QueueOK, OneActive
  <2>2. /\ t \in Queues /\ t.status = q.status /\ t.active = q.active
        /\ t.listed = q.listed /\ t.ahead = q.ahead
        /\ t.ch[c] = r /\ \A d \in Channels \ {c} : t.ch[d] = q.ch[d]
    BY <1>2, <2>1 DEF QueueOK, Queues
  <2>3. q.status # "completed"
    BY <2>1 DEF QueueOK, AllTried, Resting
  <2>4. Update(q, r) = t
    BY <1>2 DEF Update
  <2> HIDE DEF t
  <2>5. Keeps(q, t)
    BY <1>2, <2>1, <2>2, <2>3, Placed DEF Resting
  <2> QED BY <2>2, <2>4, <2>5
<1> QED BY <1>1, <1>2

-----------------------------------------------------------------------------
(* Events *)

LEMMA CurrentRecord ==
  ASSUME NEW q, QueueOK(q), q.active # NoChannel
  PROVE  Current(q) \in Record /\ Current(q).status \in Busy /\ q.active \in q.listed
<1>1. q.active \in q.listed /\ q.active \in Channels
  BY QueueFields DEF QueueOK, OneActive
<1>2. Current(q) \in Record
  BY <1>1, QueueFields DEF QueueOK, Current
<1>3. Current(q).status \notin Resting
  BY <1>1 DEF QueueOK, OneActive, Current
<1> QED BY <1>1, <1>2, <1>3, StatusSets

LEMMA SetStatusKeeps ==
  ASSUME NEW q, QueueOK(q), NEW s, q.active # NoChannel => s \in Busy
  PROVE  /\ Keeps(q, SetStatus(q, s))
         /\ SetStatus(q, s).active = q.active /\ SetStatus(q, s).status = q.status
<1>1. ASSUME q.active # NoChannel
      PROVE  /\ [Current(q) EXCEPT !.status = s] \in Record
             /\ [Current(q) EXCEPT !.status = s].status \in Busy
  BY <1>1, CurrentRecord, StatusSets DEF Record, Finished, InProgress
<1> QED BY <1>1, UpdateKeeps DEF SetStatus

LEMMA EventsKeep ==
  ASSUME NEW q, QueueOK(q), NEW b \in BOOLEAN
  PROVE  /\ Keeps(q, Scanning(q)) /\ Keeps(q, Checkpoint(q, b)) /\ Keeps(q, CheckpointSaved(q))
         /\ Keeps(q, Interleaving(q)) /\ Keeps(q, Capacity(q)) /\ Keeps(q, Pending(q, b))
         /\ Keeps(q, Draining(q)) /\ Keeps(q, FinalDrain(q))
<1>1. ASSUME q.active # NoChannel
      PROVE  Current(q) \in Record /\ Current(q).status \in Busy
  BY <1>1, CurrentRecord
<1>2. Keeps(q, Scanning(q))
  <2> DEFINE r == [Current(q) EXCEPT !.status = "scanning", !.scanned = FALSE, !.error = "none",
                                     !.retries = 0, !.retryAt = FALSE, !.nav = 0]
  <2>1. 0 \in 0..RetryMax /\ 0 \in 0..NavLimit + 1
    BY CuratorAssumption
  <2>2. q.active # NoChannel => r \in Record /\ r.status \in Busy
    BY <1>1, <2>1, StatusSets DEF Record, InProgress
  <2> QED BY <2>2, UpdateKeeps DEF Scanning
<1>3. Keeps(q, Checkpoint(q, b))
  <2> DEFINE r == [Current(q) EXCEPT !.status = "scanning", !.scanned = b]
  <2>1. q.active # NoChannel => r \in Record /\ r.status \in Busy
    BY <1>1, StatusSets DEF Record, InProgress
  <2> QED BY <2>1, UpdateKeeps DEF Checkpoint
<1>4. Keeps(q, CheckpointSaved(q)) /\ Keeps(q, Interleaving(q))
  BY SetStatusKeeps, StatusSets DEF CheckpointSaved, Interleaving, DrainingOrScanning
<1>5. Keeps(q, Capacity(q))
  BY <1>1, SetStatusKeeps, StatusSets DEF Capacity
<1>6. Keeps(q, Pending(q, b))
  <2> DEFINE r == [Current(q) EXCEPT !.pendingFinal = b]
  <2>1. q.active # NoChannel => r \in Record /\ r.status \in Busy
    BY <1>1 DEF Record
  <2> QED BY <2>1, UpdateKeeps DEF Pending
<1>7. Keeps(q, Draining(q))
  <2> DEFINE r == [Current(q) EXCEPT !.status = "draining", !.scanned = TRUE]
  <2>1. q.active # NoChannel => r \in Record /\ r.status \in Busy
    BY <1>1, StatusSets DEF Record, InProgress
  <2> QED BY <2>1, UpdateKeeps DEF Draining
<1>8. Keeps(q, FinalDrain(q))
  <2> DEFINE r == [Current(q) EXCEPT !.status = "draining", !.scanned = TRUE, !.error = "none"]
  <2>1. q.active # NoChannel => r \in Record /\ r.status \in Busy
    BY <1>1, StatusSets DEF Record, InProgress
  <2> QED BY <2>1, UpdateKeeps DEF FinalDrain
<1> QED BY <1>2, <1>3, <1>4, <1>5, <1>6, <1>7, <1>8

(* An event that also sets the status of the queue. *)
WithStatus(q, r, s) == [Update(q, r) EXCEPT !.status = s]

LEMMA UpdateAndStatus ==
  ASSUME NEW q, QueueOK(q), NEW r,
         q.active # NoChannel => r \in Record /\ r.status \in Busy,
         NEW s \in {"idle", "running", "paused", "stopped", "needs_user"}
  PROVE  Keeps(q, WithStatus(q, r, s)) /\ WithStatus(q, r, s).active = q.active
<1>1. Keeps(q, Update(q, r)) /\ Update(q, r).active = q.active
  BY UpdateKeeps
<1>2. Update(q, r) \in Queues
  BY <1>1 DEF Keeps, QueueOK
<1>3. WithStatus(q, r, s).active = Update(q, r).active
  BY <1>2 DEF Queues, WithStatus
<1>4. Keeps(Update(q, r), WithStatus(q, r, s))
  BY <1>1, StatusKeeps DEF Keeps, WithStatus
<1> QED BY <1>1, <1>3, <1>4, KeepsTrans

LEMMA FailuresKeep ==
  ASSUME NEW q, QueueOK(q), NEW b \in BOOLEAN
  PROVE  /\ Keeps(q, RecoveryState(q, b)) /\ RecoveryState(q, b).active = q.active
         /\ Keeps(q, Reopen(q)) /\ Reopen(q).active = q.active
         /\ Keeps(q, NeedsUser(q)) /\ Keeps(q, Error(q))
<1>1. ASSUME q.active # NoChannel
      PROVE  Current(q) \in Record /\ Current(q).status \in Busy
  BY <1>1, CurrentRecord
<1>2. Keeps(q, RecoveryState(q, b)) /\ RecoveryState(q, b).active = q.active
  <2> DEFINE r == [Current(q) EXCEPT !.status = "recovering", !.recovering = TRUE,
                                     !.error = IF b THEN "none" ELSE @]
  <2>1. q.active # NoChannel => r \in Record /\ r.status \in Busy
    BY <1>1, StatusSets DEF Record, InProgress
  <2>2. RecoveryState(q, b) = WithStatus(q, r, "running")
    BY DEF RecoveryState, WithStatus
  <2> HIDE DEF r
  <2>3. Keeps(q, WithStatus(q, r, "running")) /\ WithStatus(q, r, "running").active = q.active
    BY <2>1, UpdateAndStatus
  <2> QED BY <2>2, <2>3
<1>3. Keeps(q, Reopen(q)) /\ Reopen(q).active = q.active
  <2> DEFINE r == [Current(q) EXCEPT !.status = "error", !.error = "other", !.nav = NavLimit + 1]
             s == [Current(q) EXCEPT
                     !.status = IF Current(q).recovering THEN "recovering" ELSE "opening",
                     !.error = "none", !.nav = @ + 1]
  <2>1. CASE q.active # NoChannel /\ Current(q).nav >= NavLimit
    <3>1. NavLimit + 1 \in 0..NavLimit + 1
      BY CuratorAssumption
    <3>2. r \in Record /\ r.status \in Busy
      BY <1>1, <2>1, <3>1, StatusSets DEF Record
    <3>3. Reopen(q) = WithStatus(q, r, "paused")
      BY <2>1 DEF Reopen, WithStatus
    <3> HIDE DEF r
    <3> QED BY <3>2, <3>3, UpdateAndStatus
  <2>2. CASE ~(q.active # NoChannel /\ Current(q).nav >= NavLimit)
    <3>1. q.active # NoChannel => s \in Record /\ s.status \in Busy
      <4> SUFFICES ASSUME q.active # NoChannel PROVE s \in Record /\ s.status \in Busy
        OBVIOUS
      <4>1. Current(q).nav \in 0..(NavLimit - 1)
        BY <1>1, <2>2, CuratorAssumption DEF Record
      <4>2. Current(q).nav + 1 \in 0..(NavLimit + 1)
        BY <4>1, CuratorAssumption
      <4> QED BY <1>1, <4>2, StatusSets DEF Record, InProgress
    <3>2. Reopen(q) = WithStatus(q, s, "running")
      BY <2>2 DEF Reopen, WithStatus
    <3> HIDE DEF s
    <3>3. Keeps(q, WithStatus(q, s, "running")) /\ WithStatus(q, s, "running").active = q.active
      BY <3>1, UpdateAndStatus
    <3> QED BY <3>2, <3>3
  <2> QED BY <2>1, <2>2
<1>4. Keeps(q, NeedsUser(q))
  <2> DEFINE r == [Current(q) EXCEPT !.status = "needs_user", !.error = "other",
                                     !.recovering = @ \/ ~Current(q).scanned]
  <2>1. q.active # NoChannel => r \in Record /\ r.status \in Busy
    BY <1>1, StatusSets DEF Record
  <2> QED BY <2>1, UpdateAndStatus DEF NeedsUser, WithStatus
<1>5. Keeps(q, Error(q))
  <2> DEFINE r == [Current(q) EXCEPT !.status = "error", !.error = "other", !.resetting = FALSE]
  <2>1. q.active # NoChannel => r \in Record /\ r.status \in Busy
    BY <1>1, StatusSets DEF Record
  <2> QED BY <2>1, UpdateAndStatus DEF Error, WithStatus
<1> QED BY <1>2, <1>3, <1>4, <1>5

LEMMA CompleteKeeps ==
  ASSUME NEW q, QueueOK(q)
  PROVE  Keeps(q, Complete(q))
<1>1. CASE q.active = NoChannel \/ (Current(q).scanned /\ Current(q).pendingFinal)
  BY <1>1, KeepsSelf DEF Complete
<1>2. CASE ~(q.active = NoChannel \/ (Current(q).scanned /\ Current(q).pendingFinal))
  <2> DEFINE c == q.active
             t == Complete(q)
  <2>1. Current(q) \in Record /\ c \in q.listed /\ c \in Channels /\ q.status # "completed"
    BY <1>2, CurrentRecord, QueueFields DEF QueueOK, AllTried, OneActive, Resting
  <2>2. t = [[q EXCEPT !.ch[c] = [Current(q) EXCEPT !.status = "completed"]]
               EXCEPT !.active = NoChannel]
    BY <1>2 DEF Complete, SetStatus, Update
  <2> HIDE DEF t
  <2>3. [Current(q) EXCEPT !.status = "completed"] \in Record
    BY <2>1 DEF Record, Finished
  <2>4. /\ t \in Queues /\ t.active = NoChannel /\ t.status = q.status
        /\ t.listed = q.listed /\ t.ahead = q.ahead
        /\ t.ch[c] = [Current(q) EXCEPT !.status = "completed"]
        /\ \A d \in Channels \ {c} : t.ch[d] = q.ch[d]
    BY <2>1, <2>2, <2>3 DEF QueueOK, Queues
  <2>5. t.ch[c].status = "completed"
    BY <2>1, <2>4 DEF Record
  <2>6. /\ q.active = c /\ t.status # "completed"
        /\ t.ch[c].status \in {"completed", "skipped", "deferred"}
    BY <2>1, <2>4, <2>5
  <2>7. Keeps(q, t)
    BY <2>1, <2>4, <2>5, <2>6, Released, ZenonT(60)
  <2> QED BY <2>7 DEF t
<1> QED BY <1>1, <1>2

-----------------------------------------------------------------------------
(* Operations *)

(* The list is finite and ordered, so `find` has a first hit when it has one. *)
LEMMA FindFirst ==
  ASSUME NEW q, QueueOK(q), NEW S
  PROVE  /\ Find(q, S) # NoChannel => Find(q, S) \in q.listed \cap S
         /\ Find(q, S) = NoChannel => q.listed \cap S = {}
<1> DEFINE hits == q.listed \cap S
<1>1. hits \subseteq q.listed /\ hits \subseteq Channels /\ q.listed \subseteq Channels
  BY QueueFields DEF QueueOK
<1>2. CASE hits = {}
  BY <1>2 DEF Find
<1>3. CASE hits # {}
  <2>1. IsFiniteSet(hits)
    BY <1>1, FS_Subset, CuratorAssumption
  <2>2. StrictTotal(q.ahead, hits)
    BY <1>1, TotalOnSubset DEF QueueOK
  <2>3. \E c \in hits : \A d \in hits \ {c} : <<c, d>> \in q.ahead
    <3> HIDE DEF hits
    <3> QED BY <1>3, <2>1, <2>2, FirstElement
  <2>4. Find(q, S) = CHOOSE c \in hits : \A d \in hits \ {c} : <<c, d>> \in q.ahead
    BY <1>3 DEF Find
  <2>5. Find(q, S) \in hits
    <3> HIDE DEF hits
    <3> QED BY <2>3, <2>4
  <2> QED BY <1>1, <2>5, CuratorAssumption
<1> QED BY <1>2, <1>3

LEMMA ActiveQueue ==
  ASSUME NEW q, QueueOK(q), q.active # NoChannel
  PROVE  /\ q.active \in q.listed /\ q.active \in Channels /\ q.status # "completed"
         /\ q.ch[q.active] \in Record /\ q.ch[q.active].status \in Busy
         /\ q.ch[q.active].status \notin Resting
<1>1. Current(q) \in Record /\ Current(q).status \in Busy /\ q.active \in q.listed
  BY CurrentRecord
<1>2. q.active \in Channels
  BY QueueFields DEF QueueOK
<1>3. q.ch[q.active].status \notin Resting
  BY <1>1, StatusSets DEF Current
<1> QED BY <1>1, <1>2, <1>3 DEF QueueOK, AllTried, Resting, Current

(* recoverDiscovery of a channel that was active already or becomes so. *)
LEMMA RecoverOK ==
  ASSUME NEW q, QueueOK(q), NEW p \in Queues, NEW c \in q.listed,
         q.active \in {NoChannel, c}, q.ch[c].status \notin Finished,
         p.active = c, p.listed = q.listed, p.ahead = q.ahead,
         \A d \in Channels \ {c} : p.ch[d] = q.ch[d]
  PROVE  OutcomeOK(q, Recover(p))
<1>1. c \in Channels /\ c # NoChannel /\ p.ch[c] \in Record
  BY QueueFields, CuratorAssumption DEF QueueOK
<1>2. ASSUME NEW status \in {"recovering", "error"}, NEW error \in {"none", "other"},
             NEW s \in {"running", "paused"}
      PROVE  /\ Keeps(q, Recovering(p, status, error, s))
             /\ Recovering(p, status, error, s).active = c
  <2> DEFINE r == [p.ch[c] EXCEPT !.status = status, !.error = error, !.recovering = TRUE]
             t == [[p EXCEPT !.ch[c] = r] EXCEPT !.status = s]
  <2>1. r \in Record /\ r.status = status
    BY <1>1 DEF Record, InProgress
  <2>2. Recovering(p, status, error, s) = t
    BY <1>1 DEF Recovering, Update, Current
  <2> HIDE DEF r
  <2>3. /\ t \in Queues /\ t.status = s /\ t.active = p.active /\ t.listed = p.listed
        /\ t.ahead = p.ahead /\ t.ch[c] = r /\ \A d \in Channels \ {c} : t.ch[d] = p.ch[d]
    BY <1>1, <2>1 DEF Queues
  <2> HIDE DEF t
  <2>4. t.ch[c].status \in Busy
    BY <2>1, <2>3, StatusSets
  <2>5. Keeps(q, t)
    BY <2>3, <2>4, Placed
  <2> QED BY <2>2, <2>3, <2>5
<1>3. /\ Keeps(q, Recovering(p, "recovering", "none", "running"))
      /\ Recovering(p, "recovering", "none", "running").active = c
      /\ Keeps(q, Recovering(p, "error", "other", "paused"))
  BY <1>2
<1> QED BY <1>1, <1>3 DEF OutcomeOK, Recover

LEMMA OnlyOK ==
  ASSUME NEW q, NEW r, Keeps(q, r), NEW b \in BOOLEAN
  PROVE  /\ OutcomeOK(q, Only(r)) /\ OutcomeOK(q, Outcome(r, FALSE, b))
         /\ r.active # NoChannel => OutcomeOK(q, Outcome(r, TRUE, b))
BY DEF OutcomeOK, Only, Outcome

LEMMA AdvanceOK ==
  ASSUME NEW q, QueueOK(q), q.status = "running", q.active = NoChannel
  PROVE  OutcomeOK(q, Advance(q))
<1> DEFINE pending == Find(q, Waiting(q))
           deferred == Find(q, Unpassed(q))
<1>1. q.listed \subseteq Channels /\ q \in Queues
  BY QueueFields DEF QueueOK
<1>2. CASE pending # NoChannel
  <2> DEFINE t == [q EXCEPT !.active = pending, !.ch[pending].status = "opening"]
  <2>1. pending \in q.listed /\ pending \in Channels /\ q.ch[pending].status = "pending"
    BY <1>1, <1>2, FindFirst DEF Waiting
  <2>2. Advance(q) = Outcome(t, TRUE, FALSE)
    BY <1>2 DEF Advance
  <2> HIDE DEF pending
  <2>3. [q.ch[pending] EXCEPT !.status = "opening"] \in Record
    <3>1. q.ch[pending] \in Record
      BY <1>1, <2>1 DEF Queues
    <3> QED BY <3>1 DEF Record, InProgress
  <2>4. /\ t \in Queues /\ t.status = "running" /\ t.active = pending /\ t.listed = q.listed
        /\ t.ahead = q.ahead /\ t.ch[pending] = [q.ch[pending] EXCEPT !.status = "opening"]
        /\ \A d \in Channels \ {pending} : t.ch[d] = q.ch[d]
    BY <1>1, <2>1, <2>3 DEF Queues
  <2> HIDE DEF t
  <2>5. t.ch[pending].status = "opening"
    BY <1>1, <2>1, <2>4 DEF Queues, Record
  <2>6. t.ch[pending].status \in Busy /\ q.ch[pending].status \notin Finished
    BY <2>1, <2>5 DEF Busy, InProgress, Finished
  <2>7. Keeps(q, t)
    <3>1. /\ t \in Queues /\ t.active = pending /\ t.listed = q.listed /\ t.ahead = q.ahead
          /\ t.status # "completed" /\ \A d \in Channels \ {pending} : t.ch[d] = q.ch[d]
      BY <2>4
    <3>2. q.active \in {NoChannel, pending}
      OBVIOUS
    <3> HIDE DEF deferred
    <3> QED BY <2>1, <2>6, <3>1, <3>2, Placed
  <2>8. t.active # NoChannel
    BY <1>2, <2>4
  <2>9. OutcomeOK(q, Outcome(t, TRUE, FALSE))
    BY <2>7, <2>8, OnlyOK
  <2> QED BY <2>2, <2>9
<1>3. CASE pending = NoChannel /\ deferred # NoChannel
  <2> DEFINE p == [q EXCEPT !.active = deferred, !.ch[deferred].pass = TRUE,
                            !.ch[deferred].passed = TRUE, !.ch[deferred].retryAt = FALSE]
  <2>1. deferred \in q.listed /\ deferred \in Channels /\ q.ch[deferred].status = "deferred"
    BY <1>1, <1>3, FindFirst DEF Unpassed, Deferred
  <2>2. Advance(q) = Recover(p)
    BY <1>3 DEF Advance
  <2> HIDE DEF deferred
  <2>3. [q.ch[deferred] EXCEPT !.pass = TRUE, !.passed = TRUE, !.retryAt = FALSE] \in Record
    <3>1. q.ch[deferred] \in Record
      BY <1>1, <2>1 DEF Queues
    <3> QED BY <3>1 DEF Record
  <2>4. /\ p \in Queues /\ p.active = deferred /\ p.listed = q.listed /\ p.ahead = q.ahead
        /\ \A d \in Channels \ {deferred} : p.ch[d] = q.ch[d]
    BY <1>1, <2>1, <2>3 DEF Queues
  <2> HIDE DEF p
  <2> QED BY <2>1, <2>2, <2>4, RecoverOK DEF Finished
<1>4. CASE pending = NoChannel /\ deferred = NoChannel
  <2> DEFINE t == [q EXCEPT !.status = "completed"]
  <2>1. Advance(q) = Only(t)
    BY <1>4 DEF Advance
  <2>2. /\ t \in Queues /\ t.status = "completed" /\ t.active = q.active
        /\ t.listed = q.listed /\ t.ahead = q.ahead /\ t.ch = q.ch
    BY <1>1 DEF Queues
  <2> HIDE DEF t
  <2>3. q.listed \cap Waiting(q) = {} /\ q.listed \cap Unpassed(q) = {}
    BY <1>4, FindFirst
  <2>4. \A c \in q.listed : q.ch[c].status \in Resting
    BY <1>1, CuratorAssumption DEF QueueOK, OneActive
  <2>5. \A c \in q.listed :
          q.ch[c].status \in Finished \/ (q.ch[c].status = "deferred" /\ q.ch[c].passed)
    BY <1>1, <2>3, <2>4 DEF Waiting, Unpassed, Deferred, Resting
  <2>6. QueueOK(t)
    BY <2>2, <2>5 DEF QueueOK, OneActive, Untouched, AllTried
  <2> QED BY <2>1, <2>2, <2>6, OnlyOK DEF Keeps
<1> QED BY <1>2, <1>3, <1>4

LEMMA RetryOK ==
  ASSUME NEW q, QueueOK(q), q.active # NoChannel, NEW due \in BOOLEAN
  PROVE  OutcomeOK(q, Retry(q, due))
<1> DEFINE c == q.active
           p == [q EXCEPT !.ch[c].retryAt = FALSE]
<1>1. /\ c \in q.listed /\ c \in Channels /\ q.ch[c] \in Record /\ q.ch[c].status \notin Finished
      /\ q \in Queues
  BY ActiveQueue DEF Resting, QueueOK
<1>2. [q.ch[c] EXCEPT !.retryAt = FALSE] \in Record
  BY <1>1 DEF Record
<1>3. /\ p \in Queues /\ p.active = c /\ p.listed = q.listed /\ p.ahead = q.ahead
      /\ \A d \in Channels \ {c} : p.ch[d] = q.ch[d]
  BY <1>1, <1>2 DEF Queues
<1>4. Retry(q, due) \in {Only(q), Outcome(q, TRUE, FALSE), Recover(p)}
  BY DEF Retry
<1> HIDE DEF p
<1>5. OutcomeOK(q, Recover(p))
  BY <1>1, <1>3, RecoverOK
<1> QED BY <1>4, <1>5, KeepsSelf, OnlyOK

LEMMA TickOK ==
  ASSUME NEW q, QueueOK(q), NEW due \in BOOLEAN
  PROVE  OutcomeOK(q, Tick(q, due))
<1>1. CASE q.status # "running"
  BY <1>1, KeepsSelf, OnlyOK DEF Tick
<1>2. CASE q.status = "running" /\ q.active = NoChannel
  BY <1>2, AdvanceOK DEF Tick
<1>3. CASE q.status = "running" /\ q.active # NoChannel
  BY <1>3, RetryOK DEF Tick
<1> QED BY <1>1, <1>2, <1>3

LEMMA OutcomeTrans ==
  ASSUME NEW q, NEW r, NEW o, Keeps(q, r), OutcomeOK(r, o)
  PROVE  OutcomeOK(q, o)
BY KeepsTrans DEF OutcomeOK

(* The active channel is put down with a status of its own. *)
LEMMA PutDown ==
  ASSUME NEW q, QueueOK(q), q.active # NoChannel, NEW r \in Record,
         r.status \in {"completed", "skipped", "deferred"}
  PROVE  /\ Keeps(q, [Update(q, r) EXCEPT !.active = NoChannel])
         /\ [Update(q, r) EXCEPT !.active = NoChannel].status = q.status
<1> DEFINE c == q.active
           t == [[q EXCEPT !.ch[c] = r] EXCEPT !.active = NoChannel]
<1>1. c \in q.listed /\ c \in Channels /\ q.status # "completed" /\ q \in Queues
  BY ActiveQueue DEF QueueOK
<1>2. [Update(q, r) EXCEPT !.active = NoChannel] = t
  BY DEF Update
<1>3. /\ t \in Queues /\ t.active = NoChannel /\ t.status = q.status /\ t.listed = q.listed
      /\ t.ahead = q.ahead /\ t.ch[c] = r /\ \A d \in Channels \ {c} : t.ch[d] = q.ch[d]
  BY <1>1 DEF Queues
<1> HIDE DEF t
<1>4. Keeps(q, t)
  BY <1>1, <1>3, Released
<1> QED BY <1>2, <1>3, <1>4

LEMMA DeferOK ==
  ASSUME NEW q, QueueOK(q), q.active # NoChannel, NEW kind \in {"transient", "other"}
  PROVE  OutcomeOK(q, Defer(q, kind))
<1> DEFINE r == [Current(q) EXCEPT !.status = "deferred", !.error = kind,
                                   !.pass = FALSE, !.retryAt = FALSE]
           t == [Update(q, r) EXCEPT !.active = NoChannel]
<1>1. r \in Record /\ r.status = "deferred"
  <2>1. Current(q) \in Record
    BY CurrentRecord
  <2> QED BY <2>1 DEF Record
<1>2. Defer(q, kind) = Tick(t, FALSE)
  BY DEF Defer
<1> HIDE DEF r
<1>3. Keeps(q, t)
  BY <1>1, PutDown
<1> HIDE DEF t
<1>4. OutcomeOK(t, Tick(t, FALSE))
  BY <1>3, TickOK DEF Keeps
<1> QED BY <1>2, <1>3, <1>4, OutcomeTrans

LEMMA HandleFailureOK ==
  ASSUME NEW q, QueueOK(q), NEW kind \in {"user", "transient", "other"}, NEW offline \in BOOLEAN
  PROVE  OutcomeOK(q, HandleFailure(q, kind, offline))
<1>1. CASE q.active = NoChannel
  BY <1>1, KeepsSelf, OnlyOK DEF HandleFailure
<1>2. CASE q.active # NoChannel /\ kind = "user"
  BY <1>2, FailuresKeep, OnlyOK DEF HandleFailure
<1>3. CASE q.active # NoChannel /\ kind = "other" /\ ~offline
  BY <1>3, FailuresKeep, OnlyOK DEF HandleFailure
<1> DEFINE late == kind # "user" /\ (kind # "other" \/ offline) /\ q.active # NoChannel
           worn == Current(q).pass \/ ~(offline \/ Current(q).retries < RetryMax)
<1>4. CASE late /\ worn
  BY <1>4, DeferOK DEF HandleFailure
<1>5. CASE late /\ ~worn
  <2> DEFINE r == [Current(q) EXCEPT
                     !.status = "recovering", !.error = kind, !.recovering = TRUE,
                     !.retries = IF @ < RetryMax THEN @ + 1 ELSE @, !.retryAt = TRUE]
  <2>1. Current(q) \in Record
    BY <1>5, CurrentRecord
  <2>2. (IF Current(q).retries < RetryMax THEN Current(q).retries + 1 ELSE Current(q).retries)
          \in 0..RetryMax
    <3>1. Current(q).retries \in 0..RetryMax
      BY <2>1 DEF Record
    <3> QED BY <3>1, CuratorAssumption
  <2>3. r \in Record /\ r.status \in Busy
    BY <1>5, <2>1, <2>2, StatusSets DEF Record, InProgress
  <2>4. HandleFailure(q, kind, offline) = Only(Update(q, r))
    BY <1>5 DEF HandleFailure
  <2> HIDE DEF r
  <2>5. Keeps(q, Update(q, r))
    BY <2>3, UpdateKeeps
  <2> QED BY <2>4, <2>5, OnlyOK
<1> QED BY <1>1, <1>2, <1>3, <1>4, <1>5

(* The channels of an input are ordered as they were entered. *)
LEMMA InputOrder ==
  ASSUME NEW items \in Inputs
  PROVE  Entered(items) \subseteq Channels /\ StrictTotal(InOrder(items), Entered(items))
<1>1. /\ items \in Seq(Channels)
      /\ \A i, j \in DOMAIN items : items[i] = items[j] => i = j
  BY CuratorPageAssumption
<1>2. DOMAIN items \subseteq Nat /\ \A i \in DOMAIN items : items[i] \in Channels
  BY <1>1
<1>3. Entered(items) \subseteq Channels
  BY <1>2 DEF Entered
<1>4. \A i, j \in DOMAIN items : <<items[i], items[j]>> \in InOrder(items) <=> i < j
  <2> SUFFICES ASSUME NEW i \in DOMAIN items, NEW j \in DOMAIN items
               PROVE  <<items[i], items[j]>> \in InOrder(items) <=> i < j
    OBVIOUS
  <2>1. items[i] \in Entered(items) /\ items[j] \in Entered(items)
    BY DEF Entered
  <2>2. ASSUME i < j PROVE <<items[i], items[j]>> \in InOrder(items)
    BY <2>1, <2>2 DEF InOrder
  <2>3. ASSUME <<items[i], items[j]>> \in InOrder(items) PROVE i < j
    <3>1. PICK k, l \in DOMAIN items : k < l /\ <<items[i], items[j]>> = <<items[k], items[l]>>
      BY <2>3 DEF InOrder
    <3>2. k = i /\ l = j
      BY <1>1, <3>1
    <3> QED BY <3>1, <3>2
  <2> QED BY <2>2, <2>3
<1>5. \A x \in Entered(items) : \E i \in DOMAIN items : x = items[i]
  BY DEF Entered
<1>6. \A x \in Entered(items) : <<x, x>> \notin InOrder(items)
  <2> SUFFICES ASSUME NEW x \in Entered(items), <<x, x>> \in InOrder(items) PROVE FALSE
    OBVIOUS
  <2>1. PICK i \in DOMAIN items : x = items[i]
    BY <1>5
  <2> QED BY <1>2, <1>4, <2>1
<1>7. ASSUME NEW x \in Entered(items), NEW y \in Entered(items), NEW z \in Entered(items),
             <<x, y>> \in InOrder(items), <<y, z>> \in InOrder(items)
      PROVE  <<x, z>> \in InOrder(items)
  <2>1. PICK i \in DOMAIN items, j \in DOMAIN items, k \in DOMAIN items :
          x = items[i] /\ y = items[j] /\ z = items[k]
    BY <1>5
  <2>2. i < j /\ j < k
    BY <1>4, <1>7, <2>1
  <2>3. i < k
    BY <1>2, <2>2
  <2> QED BY <1>4, <2>1, <2>3
<1>8. ASSUME NEW x \in Entered(items), NEW y \in Entered(items), x # y
      PROVE  <<x, y>> \in InOrder(items) \/ <<y, x>> \in InOrder(items)
  <2>1. PICK i \in DOMAIN items, j \in DOMAIN items : x = items[i] /\ y = items[j]
    BY <1>5
  <2>2. i < j \/ j < i
    BY <1>2, <1>8, <2>1
  <2> QED BY <1>4, <2>1, <2>2
<1> QED BY <1>3, <1>6, <1>7, <1>8 DEF StrictTotal

LEMMA AppendedKeeps ==
  ASSUME NEW q, QueueOK(q), q.status # "completed", NEW items \in Inputs
  PROVE  Keeps(q, Appended(q, items))
<1> DEFINE new == Entered(items) \ q.listed
           ahead == q.ahead \cup (q.listed \X new) \cup (InOrder(items) \cap (new \X new))
           t == [q EXCEPT !.listed = @ \cup new, !.ahead = ahead]
<1>1. q \in Queues /\ q.listed \subseteq Channels /\ q.ahead \subseteq Channels \X Channels
  BY QueueFields DEF QueueOK
<1>2. new \subseteq Channels /\ new \cap q.listed = {} /\ StrictTotal(InOrder(items), new)
  BY InputOrder, TotalOnSubset
<1>3. Appended(q, items) = t
  BY DEF Appended
<1> HIDE DEF new
<1>4. ahead \subseteq Channels \X Channels
  BY <1>1, <1>2
<1>5. t \in Queues /\ t.listed = q.listed \cup new /\ t.ahead = ahead
      /\ t.active = q.active /\ t.status = q.status /\ t.ch = q.ch
  BY <1>1, <1>2, <1>4 DEF Queues
<1> HIDE DEF t
<1>6. StrictTotal(ahead, q.listed \cup new)
  <2>1. /\ \A x, y \in q.listed : <<x, y>> \in ahead <=> <<x, y>> \in q.ahead
        /\ \A x \in q.listed, y \in new : <<x, y>> \in ahead /\ <<y, x>> \notin ahead
        /\ \A x, y \in new : <<x, y>> \in ahead <=> <<x, y>> \in InOrder(items)
    BY <1>2 DEF QueueOK
  <2> HIDE DEF ahead
  <2>2. StrictTotal(ahead, q.listed) /\ StrictTotal(ahead, new)
    BY <1>2, <2>1 DEF QueueOK, StrictTotal
  <2>3. \A x \in q.listed \cup new : <<x, x>> \notin ahead
    BY <2>2 DEF StrictTotal
  <2>4. \A x, y \in q.listed \cup new : x # y => <<x, y>> \in ahead \/ <<y, x>> \in ahead
    BY <2>1, <2>2 DEF StrictTotal
  <2>5. ASSUME NEW x \in q.listed \cup new, NEW y \in q.listed \cup new, NEW z \in q.listed \cup new,
               <<x, y>> \in ahead, <<y, z>> \in ahead
        PROVE  <<x, z>> \in ahead
    <3>1. CASE x \in q.listed /\ z \in new
      BY <2>1, <3>1
    <3>2. CASE x \in q.listed /\ z \in q.listed
      BY <2>1, <2>2, <2>5, <3>2 DEF StrictTotal
    <3>3. CASE x \in new
      BY <2>1, <2>2, <2>5, <3>3 DEF StrictTotal
    <3> QED BY <3>1, <3>2, <3>3
  <2> QED BY <2>3, <2>4, <2>5 DEF StrictTotal
<1>7. \A c \in new : t.ch[c] = Fresh /\ c # q.active
  BY <1>1, <1>2, <1>5, CuratorAssumption DEF QueueOK, Untouched, OneActive
<1>8. OneActive(t)
  BY <1>5, <1>7, FreshRecord DEF QueueOK, OneActive, Resting
<1>9. QueueOK(t)
  BY <1>5, <1>6, <1>8 DEF QueueOK, Untouched, AllTried
<1> QED BY <1>3, <1>5, <1>9 DEF Keeps

LEMMA EmptyQueue ==
  ASSUME NEW s \in {"idle", "running"}
  PROVE  QueueOK([Empty EXCEPT !.status = s])
<1> DEFINE t == [Empty EXCEPT !.status = s]
<1>1. /\ t.status = s /\ t.active = NoChannel /\ t.listed = {} /\ t.ahead = {}
      /\ t.ch = [c \in Channels |-> Fresh] /\ t \in Queues
  BY FreshRecord DEF Empty, Queues
<1> HIDE DEF t
<1>2. StrictTotal(t.ahead, t.listed)
  BY <1>1 DEF StrictTotal
<1>3. OneActive(t) /\ Untouched(t) /\ AllTried(t)
  BY <1>1 DEF OneActive, Untouched, AllTried
<1> QED BY <1>1, <1>2, <1>3 DEF QueueOK, t

(* enqueue works on the queue at work, or on an empty one. *)
Base(q) == IF q.status \in {"running", "paused"} THEN q ELSE [Empty EXCEPT !.status = "running"]

LEMMA EnqueueOK ==
  ASSUME NEW q, QueueOK(q), NEW items \in Inputs
  PROVE  OutcomeOK(Base(q), Enqueue(q, items))
<1>1. QueueOK(Base(q)) /\ Base(q).status # "completed"
  BY EmptyQueue DEF Base, Empty
<1>2. Keeps(Base(q), Appended(Base(q), items))
  BY <1>1, AppendedKeeps
<1>3. Enqueue(q, items) = Tick(Appended(Base(q), items), FALSE)
  BY DEF Enqueue, Base
<1>4. OutcomeOK(Appended(Base(q), items), Enqueue(q, items))
  BY <1>2, <1>3, TickOK DEF Keeps
<1> QED BY <1>2, <1>4, OutcomeTrans

LEMMA PauseOK ==
  ASSUME NEW q, QueueOK(q)
  PROVE  OutcomeOK(q, Pause(q))
<1> DEFINE halted == q.active # NoChannel /\ Current(q).status \notin Finished \cup {"error", "needs_user"}
           next == IF halted THEN SetStatus(q, "paused") ELSE q
           t == [next EXCEPT !.status = "paused"]
<1>1. Pause(q) = Outcome(t, FALSE, TRUE)
  BY DEF Pause
<1>2. Keeps(q, next)
  BY SetStatusKeeps, KeepsSelf, StatusSets
<1> HIDE DEF next
<1>3. Keeps(next, t)
  BY <1>2, StatusKeeps DEF Keeps
<1>4. Keeps(q, t)
  BY <1>2, <1>3, KeepsTrans
<1> HIDE DEF t
<1> QED BY <1>1, <1>4, OnlyOK

LEMMA StopOK ==
  ASSUME NEW q, QueueOK(q)
  PROVE  OutcomeOK(q, Stop(q))
<1> DEFINE t == [q EXCEPT !.status = "stopped"]
<1>1. Keeps(q, t) /\ Stop(q) = Outcome(t, FALSE, TRUE)
  BY StatusKeeps DEF Stop
<1> HIDE DEF t
<1> QED BY <1>1, OnlyOK

LEMMA SkipOK ==
  ASSUME NEW q, QueueOK(q)
  PROVE  OutcomeOK(q, Skip(q))
<1> DEFINE r == [Current(q) EXCEPT !.status = "skipped"]
           t == [Update(q, r) EXCEPT !.active = NoChannel]
<1>1. Skip(q) = IF t.status = "running" THEN Tick(t, FALSE) ELSE Only(t)
  BY DEF Skip, SetStatus
<1>2. Keeps(q, t)
  <2>1. CASE q.active = NoChannel
    <3>1. t = [q EXCEPT !.active = NoChannel] /\ q \in Queues
      BY <2>1 DEF Update, QueueOK
    <3> HIDE DEF t
    <3>2. t \in Queues /\ t.active = NoChannel /\ t.status = q.status /\ t.listed = q.listed
          /\ t.ahead = q.ahead /\ t.ch = q.ch
      BY <3>1 DEF Queues
    <3>3. QueueOK(t)
      BY <2>1, <3>2 DEF QueueOK, OneActive, Untouched, AllTried
    <3> QED BY <3>2, <3>3 DEF Keeps
  <2>2. CASE q.active # NoChannel
    <3>1. r \in Record /\ r.status = "skipped"
      BY <2>2, CurrentRecord DEF Record, Finished
    <3> HIDE DEF r
    <3> QED BY <2>2, <3>1, PutDown
  <2> QED BY <2>1, <2>2
<1> HIDE DEF t
<1>3. OutcomeOK(t, Tick(t, FALSE))
  BY <1>2, TickOK DEF Keeps
<1> QED BY <1>1, <1>2, <1>3, OnlyOK, OutcomeTrans

LEMMA ClearOK ==
  QueueOK(Empty) /\ OutcomeOK(Empty, Clear(Empty)) /\ \A q : Clear(q) = Clear(Empty)
<1>1. QueueOK(Empty)
  <2>1. [Empty EXCEPT !.status = "idle"] = Empty
    BY DEF Empty
  <2> QED BY <2>1, EmptyQueue
<1> QED BY <1>1, KeepsSelf, OnlyOK DEF Clear

LEMMA RemoveKeeps ==
  ASSUME NEW q, QueueOK(q), NEW c \in q.listed, q.ch[c].status = "pending"
  PROVE  Keeps(q, RemovePending(q, c))
<1> DEFINE ahead == {p \in q.ahead : c \notin {p[1], p[2]}}
           t == [q EXCEPT !.listed = @ \ {c}, !.ahead = ahead]
<1>1. q \in Queues /\ q.listed \subseteq Channels /\ q.ahead \subseteq Channels \X Channels
  BY QueueFields DEF QueueOK
<1>2. RemovePending(q, c) = t
  BY DEF RemovePending
<1>3. t \in Queues /\ t.listed = q.listed \ {c} /\ t.ahead = ahead
      /\ t.active = q.active /\ t.status = q.status /\ t.ch = q.ch
  BY <1>1 DEF Queues
<1> HIDE DEF t
<1>4. \A x, y \in t.listed : <<x, y>> \in ahead <=> <<x, y>> \in q.ahead
  BY <1>3
<1>5. StrictTotal(t.ahead, t.listed)
  <2> HIDE DEF ahead
  <2> QED BY <1>3, <1>4 DEF QueueOK, StrictTotal
<1>6. c # q.active
  BY DEF QueueOK, OneActive, Resting
<1>7. QueueOK(t)
  BY <1>1, <1>3, <1>5, <1>6 DEF QueueOK, OneActive, Untouched, AllTried
<1> QED BY <1>2, <1>3, <1>7 DEF Keeps, Finished

LEMMA RestartOK ==
  ASSUME NEW q, QueueOK(q)
  PROVE  OutcomeOK(q, Restart(q))
<1> DEFINE asked == q.status = "needs_user" /\ q.active # NoChannel
           again == q.active # NoChannel /\ (asked \/ Current(q).status \in {"paused", "needs_user"})
           r == [Current(q) EXCEPT !.status = "opening", !.error = "none"]
           reopened == IF again THEN Update(q, r) ELSE q
           next == IF asked \/ q.status \in {"paused", "stopped"}
                   THEN [reopened EXCEPT !.status = "running"] ELSE q
           open == next.status = "running" /\ next.active # NoChannel
                     /\ (Current(next).status \in {"opening", "recovering"}
                          \/ HasDrain(Current(next)))
<1>1. Restart(q) = Outcome(next, open, FALSE)
  BY DEF Restart
<1>2. q.active # NoChannel => r \in Record /\ r.status \in Busy
  <2>1. q.active # NoChannel => Current(q) \in Record
    BY CurrentRecord
  <2>2. Current(q) \in Record => r \in Record /\ r.status = "opening"
    BY DEF Record, InProgress
  <2> QED BY <2>1, <2>2, StatusSets
<1> HIDE DEF r
<1>3. Keeps(q, reopened)
  BY <1>2, UpdateKeeps, KeepsSelf
<1> HIDE DEF reopened
<1>4. Keeps(reopened, [reopened EXCEPT !.status = "running"])
  BY <1>3, StatusKeeps DEF Keeps
<1>5. Keeps(q, next)
  BY <1>3, <1>4, KeepsTrans, KeepsSelf
<1> HIDE DEF next
<1>6. open \in BOOLEAN /\ (open => next.active # NoChannel)
  BY DEF HasDrain
<1> HIDE DEF open
<1> QED BY <1>1, <1>5, <1>6 DEF OutcomeOK, Outcome

LEMMA ResumeOK ==
  ASSUME NEW q, QueueOK(q)
  PROVE  OutcomeOK(q, Resume(q))
<1> DEFINE deferred == Find(q, Deferred(q))
           back == q.active = NoChannel /\ q.status = "completed" /\ deferred # NoChannel
           b == [q EXCEPT !.status = "running", !.active = deferred,
                          !.ch[deferred].status = "error", !.ch[deferred].pass = FALSE]
           p == IF back THEN b ELSE q
<1>1. Resume(q) = IF p.active # NoChannel /\ CanRecover(Current(p)) THEN Recover(p) ELSE Restart(p)
  BY DEF Resume
<1>2. ASSUME back PROVE Keeps(q, b)
  <2>1. deferred \in q.listed /\ deferred \in Channels /\ q.ch[deferred].status = "deferred"
    BY <1>2, FindFirst, QueueFields DEF Deferred, QueueOK
  <2> HIDE DEF deferred
  <2>2. q \in Queues /\ [q.ch[deferred] EXCEPT !.status = "error", !.pass = FALSE] \in Record
    <3>1. q \in Queues /\ q.ch[deferred] \in Record
      BY <2>1 DEF QueueOK, Queues
    <3> QED BY <3>1 DEF Record
  <2>3. /\ b \in Queues /\ b.status = "running" /\ b.active = deferred /\ b.listed = q.listed
        /\ b.ahead = q.ahead
        /\ b.ch[deferred] = [q.ch[deferred] EXCEPT !.status = "error", !.pass = FALSE]
        /\ \A d \in Channels \ {deferred} : b.ch[d] = q.ch[d]
    BY <2>1, <2>2 DEF Queues
  <2> HIDE DEF b
  <2>4. b.ch[deferred].status = "error"
    BY <2>1, <2>2, <2>3 DEF Queues, Record
  <2>5. b.ch[deferred].status \in Busy /\ q.ch[deferred].status \notin Finished
    BY <2>1, <2>4 DEF Busy, Finished
  <2>6. q.active = NoChannel
    BY <1>2
  <2>7. q.active \in {NoChannel, deferred} /\ b.status # "completed"
    BY <2>3, <2>6
  <2>8. /\ b \in Queues /\ b.active = deferred /\ b.listed = q.listed /\ b.ahead = q.ahead
        /\ \A d \in Channels \ {deferred} : b.ch[d] = q.ch[d]
    BY <2>3
  <2> HIDE DEF back, p
  <2> QED BY <2>1, <2>5, <2>7, <2>8, Placed
<1>3. Keeps(q, p)
  BY <1>2, KeepsSelf
<1> HIDE DEF p
<1>4. QueueOK(p)
  BY <1>3 DEF Keeps
<1>5. ASSUME p.active # NoChannel PROVE OutcomeOK(p, Recover(p))
  BY <1>4, <1>5, ActiveQueue, RecoverOK DEF Resting, QueueOK
<1>6. OutcomeOK(p, Restart(p))
  BY <1>4, RestartOK
<1> QED BY <1>1, <1>3, <1>5, <1>6, OutcomeTrans

LEMMA ResetKeeps ==
  ASSUME NEW q, QueueOK(q), q.active # NoChannel
  PROVE  Keeps(q, Reset(q))
<1> DEFINE c == q.active
           r == [Fresh EXCEPT !.status = "opening", !.resetting = TRUE]
           t == [q EXCEPT !.status = "running", !.ch[c] = r]
<1>1. /\ c \in q.listed /\ c \in Channels /\ q.ch[c].status \notin Finished /\ q \in Queues
  BY ActiveQueue DEF Resting, QueueOK
<1>2. r \in Record /\ r.status = "opening"
  BY FreshRecord DEF Record, InProgress
<1>3. Reset(q) = t
  BY DEF Reset
<1> HIDE DEF r
<1>4. /\ t \in Queues /\ t.status = "running" /\ t.active = c /\ t.listed = q.listed
      /\ t.ahead = q.ahead /\ t.ch[c] = r /\ \A d \in Channels \ {c} : t.ch[d] = q.ch[d]
  BY <1>1, <1>2 DEF Queues
<1> HIDE DEF t
<1>5. t.ch[c].status \in Busy
  BY <1>2, <1>4, StatusSets
<1>6. Keeps(q, t)
  BY <1>1, <1>4, <1>5, Placed
<1> QED BY <1>3, <1>6

LEMMA ReadyOK ==
  ASSUME NEW q, QueueOK(q)
  PROVE  OutcomeOK(q, Ready(q))
<1> DEFINE open == q.status = "running" /\ q.active # NoChannel
                     /\ (Current(q).status \in InProgress \ {"draining"} \/ HasDrain(Current(q)))
<1>1. Ready(q) = Outcome(q, open, FALSE)
  BY DEF Ready
<1>2. open \in BOOLEAN /\ (open => q.active # NoChannel)
  BY DEF HasDrain
<1> HIDE DEF open
<1> QED BY <1>1, <1>2, KeepsSelf DEF OutcomeOK, Outcome

-----------------------------------------------------------------------------
(* The tab *)

(* A page that runs no channel does nothing. *)
Proper(p) == p \in Runs /\ (p.run = NoChannel => p.phase = "idle" /\ ~p.complete)

PageOK ==
  /\ Proper(page) /\ {shown, loading} \subseteq Channels \cup {NoChannel}
  /\ refusing \in BOOLEAN

Counted ==
  failures \in 0..RetryMax + 1 /\ ended \subseteq Channels /\ stray \subseteq Channels

Within == spent \in [commands : 0..MaxCommands, trouble : 0..MaxTrouble]

(* What holds in every state, and what a step does that keeps the queue. *)
CuratorInv == QueueOK(queue) /\ PageOK /\ Counted /\ Within

Steps(base) == Keeps(base, queue') /\ PageOK' /\ Counted'

LEMMA StartedRun ==
  ASSUME NEW q, QueueOK(q), q.active # NoChannel
  PROVE  Proper(Started(q)) /\ Started(q).run = q.active
<1>1. Current(q) \in Record /\ q.active \in Channels
  BY CurrentRecord, ActiveQueue
<1>2. NoRun \in Runs /\ "context" \in Phases
  BY DEF NoRun, Runs, Phases
<1>3. Started(q) \in Runs /\ Started(q).run = q.active
  BY <1>1, <1>2 DEF Started, Record, Runs
<1> QED BY <1>1, <1>3, CuratorAssumption DEF Proper

(* Runs of the content script as its steps leave them. *)
LEMMA RunChanges ==
  ASSUME NEW p, Proper(p), p.phase # "idle", NEW b \in BOOLEAN, NEW f \in Phases
  PROVE  /\ p.run \in Channels
         /\ Proper([p EXCEPT !.phase = f]) /\ Proper([p EXCEPT !.phase = f, !.cancelled = b])
         /\ Proper([p EXCEPT !.phase = f, !.complete = b])
         /\ Proper([p EXCEPT !.phase = f, !.pending = b])
         /\ Proper([p EXCEPT !.phase = f, !.unsaved = b])
         /\ Proper([p EXCEPT !.phase = f, !.finished = b])
         /\ Proper([p EXCEPT !.unsaved = b])
BY CuratorAssumption DEF Proper, Runs

LEMMA NoRunOK == Proper(NoRun)
BY DEF NoRun, Runs, Phases, Proper

LEMMA DetachedRun ==
  ASSUME NEW p, Proper(p), NEW s \in {"replaced", "reset"}
  PROVE  Proper([p EXCEPT !.of = s])
BY DEF Proper, Runs

LEMMA HaltedRun ==
  ASSUME NEW p, Proper(p)
  PROVE  Proper(Halted(p))
<1> DEFINE b == p.cancelled \/ p.phase \in {"scan", "saving", "rejected"}
           f == IF p.phase = "reopening" THEN "idle" ELSE p.phase
           t == [p EXCEPT !.paused = TRUE, !.cancelled = b, !.phase = f]
<1>1. b \in BOOLEAN /\ f \in Phases
  BY DEF Proper, Runs, Phases
<1>2. Halted(p) = IF p.run = NoChannel THEN p ELSE t
  BY DEF Halted
<1> HIDE DEF b, f
<1>3. p.run # NoChannel => Proper(t)
  BY <1>1 DEF Proper, Runs
<1> QED BY <1>2, <1>3

LEMMA CommitOK ==
  ASSUME CuratorInv, NEW base, NEW o, OutcomeOK(base, o), NEW p, Proper(p), Commit(o, p)
  PROVE  Keeps(base, queue') /\ PageOK'
<1> DEFINE here == o.open /\ shown = o.queue.active
           away == o.open /\ ~here
<1>1. /\ queue' = IF away /\ refusing THEN o.refused ELSE o.queue
      /\ page' = IF here THEN Started(o.queue) ELSE IF o.stop THEN Halted(p) ELSE p
      /\ loading' = IF away /\ ~refusing THEN o.queue.active ELSE loading
      /\ refusing' = (refusing /\ ~away) /\ shown' = shown
  BY DEF Commit
<1>2. Keeps(base, o.queue) /\ Keeps(base, o.refused) /\ QueueOK(o.queue)
  BY DEF OutcomeOK, Keeps
<1>3. Keeps(base, queue')
  BY <1>1, <1>2
<1>4. o.open => Proper(Started(o.queue))
  BY <1>2, StartedRun DEF OutcomeOK
<1>5. Proper(page')
  BY <1>1, <1>4, HaltedRun
<1>6. o.queue.active \in Channels \cup {NoChannel}
  BY <1>2, QueueFields DEF QueueOK
<1>7. {shown, loading} \subseteq Channels \cup {NoChannel}
  BY DEF CuratorInv, PageOK
<1>8. {shown', loading'} \subseteq Channels \cup {NoChannel} /\ refusing' \in BOOLEAN
  BY <1>1, <1>6, <1>7
<1> QED BY <1>3, <1>5, <1>8 DEF PageOK

LEMMA TallyOK ==
  ASSUME NEW n \in 0..RetryMax + 1, Tally(n)
  PROVE  failures' \in 0..RetryMax + 1
<1>1. 0 \in 0..RetryMax + 1
  BY CuratorAssumption
<1> QED BY <1>1 DEF Tally

LEMMA PostOK ==
  ASSUME CuratorInv, NEW o, OutcomeOK(queue, o), NEW p, Proper(p), Post(o, p),
         NEW n \in 0..RetryMax + 1, Tally(n), ended' \subseteq Channels
  PROVE  Steps(queue)
<1>1. Proper(IF page.of = "reset" THEN NoRun ELSE p)
  BY NoRunOK
<1>2. Keeps(queue, queue') /\ PageOK'
  BY <1>1, CommitOK DEF Post
<1>3. Strayed(o.queue) \subseteq Channels
  <2>1. queue.active \in Channels \cup {NoChannel}
    BY QueueFields DEF CuratorInv, QueueOK
  <2> QED BY <2>1 DEF Strayed
<1>4. stray' \subseteq Channels
  BY <1>3 DEF Post, CuratorInv, Counted
<1> QED BY <1>2, <1>4, TallyOK DEF Steps, Counted

LEMMA OldCounts ==
  ASSUME CuratorInv
  PROVE  failures \in 0..RetryMax + 1 /\ 0 \in 0..RetryMax + 1 /\ ended \subseteq Channels
BY CuratorAssumption DEF CuratorInv, Counted

LEMMA SendsOK ==
  ASSUME CuratorInv, NEW q, Keeps(queue, q), NEW p, Proper(p), Sends(q, p)
  PROVE  Steps(queue)
<1>1. OutcomeOK(queue, Only(q))
  BY OnlyOK
<1>2. Post(Only(q), p) /\ Tally(failures) /\ ended' \subseteq Channels
  BY OldCounts DEF Sends
<1> QED BY <1>1, <1>2, OldCounts, PostOK

LEMMA GoesOK ==
  ASSUME CuratorInv, NEW q, Keeps(queue, q), NEW f \in Phases, page.phase # "idle", Goes(q, f)
  PROVE  Steps(queue)
<1>1. Proper([page EXCEPT !.phase = f])
  BY RunChanges DEF CuratorInv, PageOK
<1> QED BY <1>1, SendsOK DEF Goes

LEMMA ScanEnded ==
  ASSUME CuratorInv, page.phase # "idle", ScanEnds
  PROVE  ended' \subseteq Channels
<1>1. page.run \in Channels
  BY RunChanges DEF CuratorInv, PageOK, Proper, Runs
<1> QED BY <1>1, OldCounts DEF ScanEnds

LEMMA FailedOK ==
  ASSUME CuratorInv, NEW kind \in {"user", "transient", "other"}, NEW offline \in BOOLEAN,
         NEW p, Proper(p), Failed(kind, offline, p)
  PROVE  Steps(queue)
<1> DEFINE n == IF kind = "transient" /\ ~offline /\ failures <= RetryMax THEN failures + 1
                ELSE failures
<1>1. OutcomeOK(queue, HandleFailure(queue, kind, offline))
  BY HandleFailureOK DEF CuratorInv
<1>2. Post(HandleFailure(queue, kind, offline), p) /\ Tally(n) /\ ended' = ended
  BY DEF Failed
<1>3. n \in 0..RetryMax + 1
  <2>1. failures \in 0..RetryMax + 1 /\ RetryMax \in Nat
    BY OldCounts, CuratorAssumption
  <2> QED BY <2>1
<1> HIDE DEF n
<1> QED BY <1>1, <1>2, <1>3, OldCounts, PostOK

LEMMA SilentOK ==
  ASSUME CuratorInv, NEW p, Proper(p), Silent(p)
  PROVE  Steps(queue)
<1>1. page' = p /\ UNCHANGED <<queue, shown, loading, refusing, failures, ended, stray>>
  BY DEF Silent
<1>2. Keeps(queue, queue')
  BY <1>1, KeepsSelf DEF CuratorInv
<1> QED BY <1>1, <1>2 DEF Steps, CuratorInv, PageOK, Counted

LEMMA ScanSteps ==
  CuratorInv /\ (Restore \/ Announce \/ RejoinDrain \/ Mismatch \/ AskAgain \/ Cancelled)
    => Steps(queue)
<1> SUFFICES ASSUME CuratorInv PROVE
      Restore \/ Announce \/ RejoinDrain \/ Mismatch \/ AskAgain \/ Cancelled => Steps(queue)
  OBVIOUS
<1>1. QueueOK(queue) /\ Proper(page)
  BY DEF CuratorInv, PageOK
<1>2. ASSUME Restore PROVE Steps(queue)
  <2>1. Keeps(queue, RecoveryState(queue, TRUE)) /\ page.phase # "idle"
        /\ "restoring" \in Phases /\ "restarting" \in Phases
    BY <1>1, <1>2, FailuresKeep DEF Restore, Confirmed, In, Phases
  <2> QED BY <1>2, <2>1, GoesOK DEF Restore
<1>3. ASSUME Announce PROVE Steps(queue)
  <2>1. page.phase # "idle" /\ "scan" \in Phases
    BY <1>3 DEF Announce, Confirmed, In, Phases
  <2>2. OutcomeOK(queue, Only(Scanning(queue)))
    BY <1>1, EventsKeep, OnlyOK
  <2>3. Proper([page EXCEPT !.phase = "scan", !.cancelled = FALSE])
    BY <1>1, <2>1, RunChanges
  <2>4. /\ Post(Only(Scanning(queue)), [page EXCEPT !.phase = "scan", !.cancelled = FALSE])
        /\ Tally(failures) /\ ended' \subseteq Channels
    BY <1>3, OldCounts DEF Announce
  <2> QED BY <2>2, <2>3, <2>4, OldCounts, PostOK
<1>4. ASSUME RejoinDrain PROVE Steps(queue)
  <2>1. page.phase # "idle" /\ "drain" \in Phases /\ Goes(FinalDrain(queue), "drain")
    BY <1>4 DEF RejoinDrain, Confirmed, In, Phases
  <2> QED BY <1>1, <2>1, EventsKeep, GoesOK
<1>5. ASSUME Mismatch PROVE Steps(queue)
  <2>1. CASE In({"context"}) /\ Goes(RecoveryState(queue, FALSE), "mismatch")
    <3>1. page.phase # "idle" /\ "mismatch" \in Phases
      BY <2>1 DEF In, Phases
    <3> QED BY <1>1, <2>1, <3>1, FailuresKeep, GoesOK
  <2>2. CASE ~In({"context"})
    <3> DEFINE q == Reopen(queue)
               open == q.status = "running" /\ q.active # NoChannel
                         /\ Current(q).status \in {"opening", "recovering"}
    <3>1. /\ Post(Outcome(q, open, FALSE), [page EXCEPT !.phase = "idle"])
          /\ Tally(failures) /\ ended' \subseteq Channels
      BY <1>5, <2>2, OldCounts DEF Mismatch
    <3>2. Keeps(queue, q)
      BY <1>1, FailuresKeep
    <3> HIDE DEF q
    <3>3. OutcomeOK(queue, Outcome(q, open, FALSE))
      BY <3>2 DEF OutcomeOK, Outcome
    <3>4. page.phase # "idle" /\ "idle" \in Phases
      BY <1>5 DEF Mismatch, In, Phases
    <3>5. Proper([page EXCEPT !.phase = "idle"])
      BY <1>1, <3>4, RunChanges
    <3> QED BY <3>1, <3>3, <3>5, OldCounts, PostOK
  <2> QED BY <1>5, <2>1, <2>2 DEF Mismatch, In
<1>6. ASSUME AskAgain \/ Cancelled PROVE Steps(queue)
  <2>1. page.phase # "idle" /\ {"context", "over"} \subseteq Phases
    BY <1>6 DEF AskAgain, Cancelled, In, Phases
  <2>2. Proper([page EXCEPT !.phase = "context"]) /\ Proper([page EXCEPT !.phase = "over"])
    BY <1>1, <2>1, RunChanges
  <2> QED BY <1>6, <2>2, SilentOK DEF AskAgain, Cancelled
<1> QED BY <1>2, <1>3, <1>4, <1>5, <1>6

LEMMA CheckpointSteps ==
  CuratorInv /\ (CheckpointStored \/ FlushCheckpoint \/ DiscoveryDone
                  \/ \E complete \in BOOLEAN : SendCheckpoint(complete))
    => Steps(queue)
<1> SUFFICES ASSUME CuratorInv PROVE
      CheckpointStored \/ FlushCheckpoint \/ DiscoveryDone
        \/ (\E complete \in BOOLEAN : SendCheckpoint(complete)) => Steps(queue)
  OBVIOUS
<1>1. QueueOK(queue) /\ Proper(page)
  BY DEF CuratorInv, PageOK
<1>2. {"scan", "over", "saving", "drain"} \subseteq Phases /\ Resumed \in Phases
  BY DEF Phases, Resumed
<1>3. ASSUME CheckpointStored PROVE Steps(queue)
  <2>1. /\ Post(Only(CheckpointSaved(queue)), [page EXCEPT !.phase = Resumed])
        /\ Tally(0) /\ ended' \subseteq Channels /\ page.phase # "idle"
    BY <1>3, OldCounts DEF CheckpointStored, In
  <2>2. OutcomeOK(queue, Only(CheckpointSaved(queue))) /\ Proper([page EXCEPT !.phase = Resumed])
    BY <1>1, <1>2, <2>1, EventsKeep, OnlyOK, RunChanges
  <2> QED BY <2>1, <2>2, OldCounts, PostOK
<1>4. ASSUME FlushCheckpoint PROVE Steps(queue)
  <2>1. /\ Post(Only(CheckpointSaved(queue)), [page EXCEPT !.unsaved = FALSE])
        /\ Tally(0) /\ ended' \subseteq Channels /\ page.phase # "idle"
    BY <1>4, OldCounts DEF FlushCheckpoint, In
  <2>2. OutcomeOK(queue, Only(CheckpointSaved(queue))) /\ Proper([page EXCEPT !.unsaved = FALSE])
    BY <1>1, <1>2, <2>1, EventsKeep, OnlyOK, RunChanges
  <2> QED BY <2>1, <2>2, OldCounts, PostOK
<1>5. ASSUME DiscoveryDone PROVE Steps(queue)
  <2>1. /\ Post(Only(Draining(queue)), [page EXCEPT !.phase = "drain", !.complete = TRUE])
        /\ Tally(failures) /\ page.phase # "idle" /\ ScanEnds
    BY <1>5 DEF DiscoveryDone, In
  <2>2. OutcomeOK(queue, Only(Draining(queue))) /\ ended' \subseteq Channels
        /\ Proper([page EXCEPT !.phase = "drain", !.complete = TRUE])
    BY <1>1, <1>2, <2>1, EventsKeep, OnlyOK, RunChanges, ScanEnded
  <2> QED BY <2>1, <2>2, OldCounts, PostOK
<1>6. ASSUME NEW complete \in BOOLEAN, SendCheckpoint(complete) PROVE Steps(queue)
  <2>1. /\ Post(Only(Checkpoint(queue, complete)), [page EXCEPT !.phase = "saving"])
        /\ Tally(failures) /\ page.phase # "idle" /\ (ScanEnds \/ ended' = ended)
    BY <1>6 DEF SendCheckpoint, In
  <2>2. OutcomeOK(queue, Only(Checkpoint(queue, complete))) /\ ended' \subseteq Channels
        /\ Proper([page EXCEPT !.phase = "saving"])
    BY <1>1, <1>2, <2>1, EventsKeep, OnlyOK, RunChanges, ScanEnded, OldCounts
  <2> QED BY <2>1, <2>2, OldCounts, PostOK
<1> QED BY <1>3, <1>4, <1>5, <1>6

LEMMA DrainSteps ==
  CuratorInv /\ (BatchReserved \/ DrainGoesOn \/ FinalBatch \/ HandOff \/ BatchResolved \/ DrainDone)
    => Steps(queue)
<1> SUFFICES ASSUME CuratorInv PROVE
      BatchReserved \/ DrainGoesOn \/ FinalBatch \/ HandOff \/ BatchResolved \/ DrainDone
        => Steps(queue)
  OBVIOUS
<1>1. QueueOK(queue) /\ Proper(page)
  BY DEF CuratorInv, PageOK
<1>2. {"idle", "drain", "batch", "handoff", "acquiring", "resolved", "drained"} \subseteq Phases
  BY DEF Phases
<1>3. ASSUME BatchReserved PROVE Steps(queue)
  BY <1>1, <1>3, EventsKeep, SendsOK DEF BatchReserved
<1>4. ASSUME DrainGoesOn PROVE Steps(queue)
  <2>1. page.phase # "idle" /\ (Goes(FinalDrain(queue), "drain") \/ Goes(Draining(queue), "drain"))
    BY <1>4 DEF DrainGoesOn, In
  <2> QED BY <1>1, <1>2, <2>1, EventsKeep, GoesOK
<1>5. ASSUME FinalBatch PROVE Steps(queue)
  <2>1. PICK left \in BOOLEAN :
          Sends(Pending(queue, left),
                [page EXCEPT !.phase = IF left THEN "batch" ELSE "drained", !.pending = left])
    BY <1>5 DEF FinalBatch
  <2>2. page.phase # "idle" /\ (IF left THEN "batch" ELSE "drained") \in Phases
    BY <1>2, <1>5 DEF FinalBatch, In
  <2>3. Proper([page EXCEPT !.phase = IF left THEN "batch" ELSE "drained", !.pending = left])
    BY <1>1, <2>2, RunChanges
  <2> QED BY <1>1, <2>1, <2>3, EventsKeep, SendsOK
<1>6. ASSUME HandOff PROVE Steps(queue)
  <2>1. /\ page.phase # "idle"
        /\ \/ Goes(FinalDrain(queue), "batch") \/ Goes(Interleaving(queue), "handoff")
           \/ Goes(FinalDrain(queue), "acquiring")
    BY <1>6 DEF HandOff, In
  <2> QED BY <1>1, <1>2, <2>1, EventsKeep, GoesOK
<1>7. ASSUME BatchResolved PROVE Steps(queue)
  <2> DEFINE f == IF page.paused THEN "idle" ELSE "resolved"
             g == IF page.finished THEN "idle" ELSE "drain"
  <2>1. f \in Phases /\ g \in Phases /\ page.phase # "idle"
    BY <1>2, <1>7 DEF BatchResolved, In
  <2>2. \/ Goes(Pending(queue, TRUE), "acquiring") \/ Goes(Draining(queue), g)
        \/ Sends(Pending(queue, FALSE), [page EXCEPT !.phase = f, !.pending = FALSE])
    BY <1>7 DEF BatchResolved
  <2> HIDE DEF f, g
  <2>3. Proper([page EXCEPT !.phase = f, !.pending = FALSE])
    BY <1>1, <2>1, RunChanges
  <2> QED BY <1>1, <1>2, <2>1, <2>2, <2>3, EventsKeep, GoesOK, SendsOK
<1>8. ASSUME DrainDone PROVE Steps(queue)
  <2> DEFINE q == Complete(queue)
             o == IF q.status = "running" THEN Tick(q, FALSE) ELSE Only(q)
             f == IF page.recovery \/ page.finished THEN "idle" ELSE "drain"
  <2>1. /\ Post(o, [page EXCEPT !.phase = f, !.finished = TRUE]) /\ Tally(failures)
        /\ ended' \subseteq Channels /\ page.phase # "idle" /\ f \in Phases
    BY <1>2, <1>8, OldCounts DEF DrainDone, In
  <2> HIDE DEF f
  <2>2. Proper([page EXCEPT !.phase = f, !.finished = TRUE])
    BY <1>1, <2>1, RunChanges
  <2>3. Keeps(queue, q)
    BY <1>1, CompleteKeeps
  <2> HIDE DEF q
  <2>4. OutcomeOK(queue, Tick(q, FALSE)) /\ OutcomeOK(queue, Only(q))
    BY <2>3, TickOK, OutcomeTrans, OnlyOK DEF Keeps
  <2>5. OutcomeOK(queue, o)
    BY <2>4
  <2> HIDE DEF o
  <2> QED BY <2>1, <2>2, <2>5, OldCounts, PostOK
<1> QED BY <1>3, <1>4, <1>5, <1>6, <1>7, <1>8

LEMMA PageNextSteps == CuratorInv /\ PageNext => Steps(queue)
BY ScanSteps, CheckpointSteps, DrainSteps DEF PageNext

LEMMA PageFailsSteps == CuratorInv /\ PageFails => Steps(queue)
<1> SUFFICES ASSUME CuratorInv, PageFails PROVE Steps(queue)
  OBVIOUS
<1>1. QueueOK(queue) /\ Proper(page)
  BY DEF CuratorInv, PageOK
<1>2. {"idle", "over", "rejected", "reopening", "drained", "drain"} \subseteq Phases
      /\ Resumed \in Phases
  BY DEF Phases, Resumed
<1>3. page.phase # "idle" => Proper(AfterFailure)
  <2> DEFINE f == IF page.phase = "scan" THEN "over" ELSE "idle"
  <2>1. f \in Phases /\ AfterFailure = [page EXCEPT !.phase = f]
    BY <1>2 DEF AfterFailure
  <2> HIDE DEF f
  <2> QED BY <1>1, <2>1, RunChanges
<1>4. CASE BackendUnavailable
  <2>1. CASE Sends(Capacity(queue), page)
    BY <1>1, <2>1, EventsKeep, SendsOK
  <2>2. CASE In({"saving"}) /\ Sends(Capacity(queue), [page EXCEPT !.phase = Resumed, !.unsaved = TRUE])
    <3>1. Proper([page EXCEPT !.phase = Resumed, !.unsaved = TRUE])
      BY <1>1, <1>2, <2>2, RunChanges DEF In
    <3> QED BY <1>1, <2>2, <3>1, EventsKeep, SendsOK
  <2> QED BY <1>4, <2>1, <2>2 DEF BackendUnavailable
<1>5. CASE LoggedOut
  BY <1>3, <1>5, FailedOK DEF LoggedOut, In, Reacquiring
<1>6. CASE TargetMissing
  <2>1. Proper([page EXCEPT !.phase = "reopening"])
    BY <1>1, <1>2, <1>6, RunChanges DEF TargetMissing, In
  <2> QED BY <1>6, <2>1, SilentOK DEF TargetMissing
<1>7. ASSUME NEW offline \in BOOLEAN, CheckpointRefused(offline) PROVE Steps(queue)
  <2>1. Proper([page EXCEPT !.phase = "rejected"]) /\ Proper([page EXCEPT !.phase = "over"])
    BY <1>1, <1>2, <1>7, RunChanges DEF CheckpointRefused, In
  <2> QED BY <1>7, <2>1, FailedOK DEF CheckpointRefused
<1>8. ASSUME NEW offline \in BOOLEAN, BatchRefused(offline) PROVE Steps(queue)
  <2> DEFINE f == IF page.pending \/ page.unsaved THEN page.phase ELSE "drained"
  <2>1. page.phase # "idle" /\ f \in Phases
        /\ (Failed("other", offline, page) \/ Failed("other", offline, [page EXCEPT !.phase = f]))
    BY <1>1, <1>2, <1>8 DEF BatchRefused, In, Proper, Runs
  <2> HIDE DEF f
  <2>2. Proper([page EXCEPT !.phase = f])
    BY <1>1, <2>1, RunChanges
  <2> QED BY <1>1, <2>1, <2>2, FailedOK
<1>9. ASSUME NEW offline \in BOOLEAN, NEW kind \in {"transient", "other"}, RunFails(kind, offline)
      PROVE  Steps(queue)
  BY <1>3, <1>9, FailedOK DEF RunFails, In, Reacquiring
<1> QED BY <1>4, <1>5, <1>6, <1>7, <1>8, <1>9 DEF PageFails

LEMMA OrderOK ==
  ASSUME CuratorInv, NEW o, OutcomeOK(queue, o), Order(o)
  PROVE  Steps(queue)
<1>1. Commit(o, page) /\ Tally(failures) /\ UNCHANGED <<ended, stray>> /\ Proper(page)
  BY DEF Order, CuratorInv, PageOK
<1>2. Keeps(queue, queue') /\ PageOK'
  BY <1>1, CommitOK
<1>3. Counted'
  BY <1>1, OldCounts, TallyOK DEF CuratorInv, Counted
<1> QED BY <1>2, <1>3 DEF Steps

LEMMA TabSteps == CuratorInv /\ (Move \/ Loaded \/ Alarm) => Steps(queue)
<1> SUFFICES ASSUME CuratorInv, Move \/ Loaded \/ Alarm PROVE Steps(queue)
  OBVIOUS
<1>1. QueueOK(queue) /\ PageOK
  BY DEF CuratorInv
<1>2. CASE Move
  <2>1. /\ UNCHANGED <<queue, page, failures, ended, stray>> /\ refusing' \in BOOLEAN
        /\ {shown', loading'} \subseteq Channels \cup {NoChannel}
    BY <1>1, <1>2 DEF Move, Reload, Browse, Refuse, PageOK
  <2> QED BY <1>1, <2>1, KeepsSelf DEF Steps, CuratorInv, PageOK, Counted
<1>3. CASE Loaded
  <2> DEFINE o == Ready(queue)
             here == o.open /\ loading = queue.active
             away == o.open /\ ~here
  <2>1. /\ shown' = loading
        /\ page' = IF here THEN Started(queue) ELSE NoRun
        /\ loading' = IF away /\ ~refusing THEN queue.active ELSE NoChannel
        /\ refusing' = (refusing /\ ~away)
        /\ UNCHANGED <<queue, failures, ended, stray>>
    BY <1>3 DEF Loaded
  <2>2. OutcomeOK(queue, o) /\ o.queue = queue
    BY <1>1, ReadyOK DEF Ready, Outcome
  <2> HIDE DEF o
  <2>3. o.open => Proper(Started(queue))
    BY <1>1, <2>2, StartedRun DEF OutcomeOK
  <2>4. Proper(page')
    BY <2>1, <2>3, NoRunOK
  <2>5. {shown', loading'} \subseteq Channels \cup {NoChannel} /\ refusing' \in BOOLEAN
    BY <1>1, <2>1, QueueFields DEF PageOK, QueueOK
  <2> QED BY <1>1, <2>1, <2>4, <2>5, KeepsSelf DEF Steps, CuratorInv, PageOK, Counted
<1>4. CASE Alarm
  BY <1>1, <1>4, TickOK, OrderOK DEF Alarm
<1> QED BY <1>2, <1>3, <1>4

LEMMA CommandSteps == CuratorInv /\ Commands => Steps(queue)
<1> SUFFICES ASSUME CuratorInv, Commands PROVE Steps(queue)
  OBVIOUS
<1>1. QueueOK(queue)
  BY DEF CuratorInv
<1>2. CASE Order(Pause(queue))
  BY <1>1, <1>2, PauseOK, OrderOK
<1>3. CASE Order(Stop(queue))
  BY <1>1, <1>3, StopOK, OrderOK
<1>4. CASE Order(Skip(queue))
  BY <1>1, <1>4, SkipOK, OrderOK
<1>5. CASE Order(Resume(queue))
  BY <1>1, <1>5, ResumeOK, OrderOK
<1>6. ASSUME NEW c \in queue.listed, queue.ch[c].status = "pending",
             Order(Only(RemovePending(queue, c)))
      PROVE  Steps(queue)
  BY <1>1, <1>6, RemoveKeeps, OnlyOK, OrderOK
<1> QED BY <1>2, <1>3, <1>4, <1>5, <1>6 DEF Commands

LEMMA ResetSteps == CuratorInv /\ ResetCurrent => Steps(queue)
<1> SUFFICES ASSUME CuratorInv, ResetCurrent PROVE Steps(queue)
  OBVIOUS
<1>1. QueueOK(queue) /\ PageOK /\ queue.active # NoChannel
  BY DEF CuratorInv, ResetCurrent
<1>2. /\ queue' = IF refusing THEN ResetFailed(queue) ELSE Reset(queue)
      /\ page' = NoRun \/ page' = [page EXCEPT !.of = "reset"]
      /\ loading' = IF refusing THEN loading ELSE queue.active
      /\ refusing' = FALSE /\ shown' = shown /\ failures' = 0
      /\ ended' = ended \ {queue.active} /\ stray' = stray \ {queue.active}
  BY DEF ResetCurrent
<1>3. Keeps(queue, Reset(queue))
  BY <1>1, ResetKeeps
<1>4. Keeps(queue, ResetFailed(queue))
  <2>1. Keeps(Reset(queue), ResetFailed(queue))
    BY <1>3, FailuresKeep DEF Keeps, ResetFailed
  <2> QED BY <1>3, <2>1, KeepsTrans
<1>5. Proper(page')
  BY <1>1, <1>2, NoRunOK, DetachedRun DEF PageOK
<1>6. queue.active \in Channels /\ {shown, loading} \subseteq Channels \cup {NoChannel}
  BY <1>1, ActiveQueue DEF PageOK
<1>7. PageOK'
  BY <1>2, <1>5, <1>6 DEF PageOK
<1>8. Counted'
  BY <1>2, OldCounts DEF CuratorInv, Counted
<1> QED BY <1>2, <1>3, <1>4, <1>7, <1>8 DEF Steps

LEMMA ReplaceOK ==
  ASSUME CuratorInv, NEW base, NEW o, OutcomeOK(base, o), Replace(o)
  PROVE  Steps(base)
<1>1. /\ Commit(o, Detached) /\ failures' = 0 /\ ended' = {} /\ stray' = {}
  BY DEF Replace
<1>2. Proper(Detached)
  BY DetachedRun DEF Detached, CuratorInv, PageOK
<1>3. Keeps(base, queue') /\ PageOK'
  BY <1>1, <1>2, CommitOK
<1> QED BY <1>1, <1>3, OldCounts DEF Steps, Counted

(* A list of channels keeps the queue at work, or replaces the one that is not. *)
LEMMA QueueSteps ==
  CuratorInv /\ (ClearQueue \/ \E items \in Inputs : Queue(items))
    => QueueOK(queue') /\ PageOK' /\ Counted' /\ (Keeps(queue, queue') \/ Replaced)
<1> SUFFICES ASSUME CuratorInv, ClearQueue \/ \E items \in Inputs : Queue(items)
             PROVE  QueueOK(queue') /\ PageOK' /\ Counted' /\ (Keeps(queue, queue') \/ Replaced)
  OBVIOUS
<1>1. QueueOK(queue)
  BY DEF CuratorInv
<1>2. CASE ClearQueue
  <2>1. OutcomeOK(Empty, Clear(queue)) /\ Replace(Clear(queue))
    BY <1>2, ClearOK DEF ClearQueue
  <2>2. Steps(Empty)
    BY <2>1, ReplaceOK
  <2>3. Replaced
    BY <1>2 DEF Replaced, ClearQueue
  <2> QED BY <2>2, <2>3 DEF Steps, Keeps
<1>3. CASE \E items \in Inputs : Queue(items)
  <2>1. PICK items \in Inputs : Queue(items)
    BY <1>3
  <2>2. OutcomeOK(Base(queue), Enqueue(queue, items))
    BY <1>1, EnqueueOK
  <2>3. CASE queue.status \in {"running", "paused"}
    <3>1. Order(Enqueue(queue, items)) /\ Base(queue) = queue
      BY <2>1, <2>3 DEF Queue, Base
    <3>2. Steps(queue)
      BY <2>2, <3>1, OrderOK
    <3> QED BY <3>2 DEF Steps, Keeps
  <2>4. CASE queue.status \notin {"running", "paused"}
    <3>1. Replace(Enqueue(queue, items))
      BY <2>1, <2>4 DEF Queue
    <3>2. Steps(Base(queue))
      BY <2>2, <3>1, ReplaceOK
    <3>3. Replaced
      BY <1>3, <2>4 DEF Replaced
    <3> QED BY <3>2, <3>3 DEF Steps, Keeps
  <2> QED BY <2>3, <2>4
<1> QED BY <1>2, <1>3

LEMMA SpentWithin ==
  ASSUME Within
  PROVE  /\ spent.trouble < MaxTrouble =>
              [spent EXCEPT !.trouble = @ + 1] \in [commands : 0..MaxCommands, trouble : 0..MaxTrouble]
         /\ spent.commands < MaxCommands =>
              [spent EXCEPT !.commands = @ + 1] \in [commands : 0..MaxCommands, trouble : 0..MaxTrouble]
<1>1. /\ spent.commands \in 0..MaxCommands /\ spent.trouble \in 0..MaxTrouble
      /\ spent = [commands |-> spent.commands, trouble |-> spent.trouble]
  BY DEF Within
<1>2. spent.trouble < MaxTrouble => spent.trouble + 1 \in 0..MaxTrouble
  BY <1>1, CuratorPageAssumption
<1>3. spent.commands < MaxCommands => spent.commands + 1 \in 0..MaxCommands
  BY <1>1, CuratorPageAssumption
<1> QED BY <1>1, <1>2, <1>3

LEMMA InitInv == CuratorInit => CuratorInv
<1> SUFFICES ASSUME CuratorInit PROVE CuratorInv
  OBVIOUS
<1>1. QueueOK(queue)
  BY ClearOK DEF CuratorInit
<1>2. PageOK
  BY NoRunOK DEF CuratorInit, PageOK
<1>3. Counted /\ Within
  BY CuratorAssumption, CuratorPageAssumption DEF CuratorInit, Counted, Within
<1> QED BY <1>1, <1>2, <1>3 DEF CuratorInv

LEMMA StepInv ==
  CuratorInv /\ [CuratorNext]_pageVars => CuratorInv' /\ (Keeps(queue, queue') \/ Replaced)
<1> SUFFICES ASSUME CuratorInv, [CuratorNext]_pageVars
             PROVE  CuratorInv' /\ (Keeps(queue, queue') \/ Replaced)
  OBVIOUS
<1> DEFINE Safe == QueueOK(queue)' /\ PageOK' /\ Counted' /\ (Keeps(queue, queue') \/ Replaced)
<1>1. ASSUME Steps(queue) PROVE Safe
  BY <1>1 DEF Steps, Keeps
<1>2. CASE PageFails
  <2>1. Safe
    BY <1>1, <1>2, PageFailsSteps
  <2>2. Within'
    BY <1>2, SpentWithin DEF PageFails, CuratorInv, Within
  <2> QED BY <2>1, <2>2 DEF CuratorInv
<1>3. CASE Move
  <2>1. Safe
    BY <1>1, <1>3, TabSteps
  <2>2. Within'
    BY <1>3, SpentWithin DEF Move, CuratorInv, Within
  <2> QED BY <2>1, <2>2 DEF CuratorInv
<1>4. CASE Operator
  <2>1. ASSUME Commands PROVE Safe
    BY <1>1, <2>1, CommandSteps
  <2>2. ASSUME ResetCurrent PROVE Safe
    BY <1>1, <2>2, ResetSteps
  <2>3. ASSUME ClearQueue \/ \E items \in Inputs : Queue(items) PROVE Safe
    BY <2>3, QueueSteps
  <2>4. Safe
    BY <1>4, <2>1, <2>2, <2>3 DEF Operator
  <2>5. Within'
    BY <1>4, SpentWithin DEF Operator, CuratorInv, Within
  <2> QED BY <2>4, <2>5 DEF CuratorInv
<1>5. CASE (PageNext \/ Loaded \/ Alarm) /\ UNCHANGED spent
  <2>1. Safe
    BY <1>1, <1>5, PageNextSteps, TabSteps
  <2>2. Within'
    BY <1>5 DEF CuratorInv, Within
  <2> QED BY <2>1, <2>2 DEF CuratorInv
<1>6. CASE UNCHANGED pageVars
  BY <1>6, KeepsSelf DEF pageVars, tabVars, CuratorInv, PageOK, Counted, Within
<1> QED BY <1>2, <1>3, <1>4, <1>5, <1>6 DEF CuratorNext

-----------------------------------------------------------------------------
(* Theorems *)

LEMMA Inductive == CuratorSpec => []CuratorInv
BY InitInv, StepInv, PTL DEF CuratorSpec

(* The record in storage, the page and the tab have the shape the code gives
   them: the active channel is a channel, retries and navigations stay within
   AUTO_RETRY_MAX and one past the navigation limit. *)
THEOREM Types == CuratorSpec => []CuratorTypeOK
<1>1. CuratorInv => CuratorTypeOK
  BY DEF CuratorInv, CuratorTypeOK, QueueOK, PageOK, Proper, Counted, Within
<1> QED BY <1>1, Inductive, PTL

(* One channel is in flight at a time, whatever a page that is being left still
   reports, the timer retries and the operator orders. *)
THEOREM SingleFlight == CuratorSpec => []OneInFlight
<1>1. CuratorInv => OneInFlight
  BY DEF CuratorInv, OneInFlight, QueueOK, OneActive, Resting
<1> QED BY <1>1, Inductive, PTL

(* tick reports the queue completed only when each channel finished or had its
   one more try. *)
THEOREM AllFinishedOrTried == CuratorSpec => []CompletedQueue
<1>1. CuratorInv => CompletedQueue
  BY DEF CuratorInv, CompletedQueue, QueueOK, AllTried
<1> QED BY <1>1, Inductive, PTL

(* No event, retry, reset or command touches a completed or skipped channel of
   a queue that is not replaced or emptied. *)
THEOREM FinishedUntouched == CuratorSpec => FinishedStays
<1>1. ASSUME CuratorInv, [CuratorNext]_pageVars
      PROVE  [\A c \in queue.listed :
                queue.ch[c].status \in Finished => queue'.ch[c] = queue.ch[c] \/ Replaced]_pageVars
  BY <1>1, StepInv DEF Keeps
<1>2. QED
  BY <1>1, Inductive, PTL DEF CuratorSpec, FinishedStays

=============================================================================
