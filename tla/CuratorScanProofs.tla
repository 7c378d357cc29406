------------------------- MODULE CuratorScanProofs -------------------------
(***************************************************************************)
(* Proof that a channel of the unattended queue completes only after a     *)
(* scan of its own ran to its end, unless an event of another run reached  *)
(* its record (CompletedScanned of CuratorPage).                           *)
(*                                                                         *)
(* Most operations of the queue leave alone what a record says of its      *)
(* scan: Quiet.  The few events that do not are sent by a page that ended  *)
(* its scan, or rejoined the drain of an earlier page that did; RunEnds is *)
(* what is known of the page for that.                                     *)
(***************************************************************************)
EXTENDS CuratorProofs

(* A record r says no more of its scan than s does. *)
Weaker(r, s) ==
  /\ r.scanned => s.scanned
  /\ r.pendingFinal => s.pendingFinal
  /\ r.status = "completed" => s.status = "completed"

Quiet(q, t) == \A c \in Channels : Weaker(t.ch[c], q.ch[c])
Elsewhere(q, t) == \A c \in Channels \ {q.active} : Weaker(t.ch[c], q.ch[c])
OutcomeQuiet(q, o) == Quiet(q, o.queue) /\ Quiet(o.queue, o.refused)

-----------------------------------------------------------------------------
(* Queues *)

LEMMA QuietSelf == \A q : Quiet(q, q)
BY DEF Quiet, Weaker

LEMMA QuietTrans ==
  ASSUME NEW q, NEW r, NEW t, Quiet(q, r), Quiet(r, t)
  PROVE  Quiet(q, t)
BY DEF Quiet, Weaker

LEMMA QuietOutcome ==
  ASSUME NEW q, NEW r, NEW o, Quiet(q, r), OutcomeQuiet(r, o)
  PROVE  OutcomeQuiet(q, o)
BY QuietTrans DEF OutcomeQuiet

LEMMA OnlyQuiet ==
  ASSUME NEW q, NEW r, Quiet(q, r), NEW a, NEW b
  PROVE  OutcomeQuiet(q, Outcome(r, a, b)) /\ OutcomeQuiet(q, Only(r))
BY QuietSelf DEF OutcomeQuiet, Only, Outcome

LEMMA OneRecord ==
  ASSUME NEW q, NEW t, NEW c \in Channels, Weaker(t.ch[c], q.ch[c]),
         \A d \in Channels \ {c} : t.ch[d] = q.ch[d]
  PROVE  Quiet(q, t)
BY DEF Quiet, Weaker

LEMMA UpdatedRecords ==
  ASSUME NEW q \in Queues, NEW r, NEW s
  PROVE  /\ q.active = NoChannel => Update(q, r).ch = q.ch
         /\ q.active # NoChannel =>
              /\ q.active \in Channels /\ Update(q, r).ch[q.active] = r
              /\ \A d \in Channels \ {q.active} : Update(q, r).ch[d] = q.ch[d]
         /\ [Update(q, r) EXCEPT !.status = s].ch = Update(q, r).ch
         /\ [Update(q, r) EXCEPT !.active = NoChannel].ch = Update(q, r).ch
<1>1. CASE q.active = NoChannel
  BY <1>1 DEF Update, Queues
<1>2. CASE q.active # NoChannel
  BY <1>2 DEF Update, Queues
<1> QED BY <1>1, <1>2

LEMMA UpdateQuiet ==
  ASSUME NEW q \in Queues, NEW r, NEW s, q.active # NoChannel => Weaker(r, Current(q))
  PROVE  /\ Quiet(q, Update(q, r)) /\ Quiet(q, [Update(q, r) EXCEPT !.status = s])
         /\ Quiet(q, [Update(q, r) EXCEPT !.active = NoChannel])
<1>1. Quiet(q, Update(q, r))
  BY UpdatedRecords, OneRecord, QuietSelf DEF Current, Quiet, Weaker
<1> QED BY <1>1, UpdatedRecords DEF Quiet

LEMMA UpdateElsewhere ==
  ASSUME NEW q \in Queues, NEW r
  PROVE  Elsewhere(q, Update(q, r))
BY UpdatedRecords DEF Elsewhere, Weaker

-----------------------------------------------------------------------------
(* Events *)

LEMMA QuietEvents ==
  ASSUME NEW q, QueueOK(q), NEW b \in BOOLEAN
  PROVE  /\ Quiet(q, Scanning(q)) /\ Quiet(q, Checkpoint(q, FALSE)) /\ Quiet(q, CheckpointSaved(q))
         /\ Quiet(q, Interleaving(q)) /\ Quiet(q, Capacity(q)) /\ Quiet(q, Pending(q, FALSE))
         /\ Quiet(q, RecoveryState(q, b)) /\ Quiet(q, Reopen(q)) /\ Quiet(q, NeedsUser(q))
         /\ Quiet(q, Error(q))
<1>1. q \in Queues /\ (q.active # NoChannel => Current(q) \in Record)
  BY CurrentRecord DEF QueueOK
<1>2. Quiet(q, Scanning(q)) /\ Quiet(q, Checkpoint(q, FALSE)) /\ Quiet(q, Pending(q, FALSE))
  BY <1>1, UpdateQuiet DEF Scanning, Checkpoint, Pending, Record, Weaker
<1>3. ASSUME NEW s, s # "completed" \/ s = Current(q).status PROVE Quiet(q, SetStatus(q, s))
  BY <1>1, <1>3, UpdateQuiet DEF SetStatus, Record, Weaker
<1>4. Quiet(q, CheckpointSaved(q)) /\ Quiet(q, Interleaving(q)) /\ Quiet(q, Capacity(q))
  BY <1>3 DEF CheckpointSaved, Interleaving, Capacity, DrainingOrScanning
<1>5. Quiet(q, RecoveryState(q, b))
  BY <1>1, UpdateQuiet DEF RecoveryState, Record, Weaker
<1>6. Quiet(q, Reopen(q))
  BY <1>1, UpdateQuiet DEF Reopen, Record, Weaker
<1>7. Quiet(q, NeedsUser(q)) /\ Quiet(q, Error(q))
  BY <1>1, UpdateQuiet DEF NeedsUser, Error, Record, Weaker
<1> QED BY <1>2, <1>4, <1>5, <1>6, <1>7

LEMMA LoudEvents ==
  ASSUME NEW q, QueueOK(q), NEW b \in BOOLEAN
  PROVE  /\ Elsewhere(q, Checkpoint(q, b)) /\ Elsewhere(q, Pending(q, b))
         /\ Elsewhere(q, Draining(q)) /\ Elsewhere(q, FinalDrain(q)) /\ Elsewhere(q, Complete(q))
         /\ q.active # NoChannel =>
              (Checkpoint(q, b).ch[q.active].pendingFinal => q.ch[q.active].pendingFinal)
<1>1. q \in Queues /\ (q.active # NoChannel => Current(q) \in Record)
  BY CurrentRecord DEF QueueOK
<1>2. /\ Elsewhere(q, Checkpoint(q, b)) /\ Elsewhere(q, Pending(q, b))
      /\ Elsewhere(q, Draining(q)) /\ Elsewhere(q, FinalDrain(q))
  BY <1>1, UpdateElsewhere DEF Checkpoint, Pending, Draining, FinalDrain
<1>3. Elsewhere(q, Complete(q))
  <2> DEFINE r == [Current(q) EXCEPT !.status = "completed"]
             t == [Update(q, r) EXCEPT !.active = NoChannel]
  <2>1. Complete(q) = q \/ Complete(q) = t
    BY Zenon DEF Complete, SetStatus
  <2> HIDE DEF r
  <2>2. Elsewhere(q, Update(q, r)) /\ Elsewhere(q, q)
    BY <1>1, UpdateElsewhere DEF Elsewhere, Weaker
  <2>3. t.ch = Update(q, r).ch
    BY <1>1, UpdatedRecords
  <2> HIDE DEF t
  <2> QED BY <2>1, <2>2, <2>3 DEF Elsewhere
<1>4. q.active # NoChannel =>
        (Checkpoint(q, b).ch[q.active].pendingFinal => q.ch[q.active].pendingFinal)
  <2> DEFINE r == [Current(q) EXCEPT !.status = "scanning", !.scanned = b]
  <2>1. Checkpoint(q, b) = Update(q, r)
    BY DEF Checkpoint
  <2>2. q.active # NoChannel => r.pendingFinal = q.ch[q.active].pendingFinal
    BY <1>1 DEF Current, Record
  <2> HIDE DEF r
  <2> QED BY <1>1, <2>1, <2>2, UpdatedRecords
<1> QED BY <1>2, <1>3, <1>4

-----------------------------------------------------------------------------
(* Operations *)

LEMMA RecoverQuiet ==
  ASSUME NEW q, NEW p \in Queues, p.active # NoChannel, Quiet(q, p)
  PROVE  OutcomeQuiet(q, Recover(p))
<1>1. p.active \in Channels /\ p.ch[p.active] \in Record /\ Current(p) \in Record
  BY DEF Queues, Current
<1> DEFINE r(status, error) ==
             [Current(p) EXCEPT !.status = status, !.error = error, !.recovering = TRUE]
           a == Recovering(p, "recovering", "none", "running")
           b == Recovering(p, "error", "other", "paused")
<1>2. /\ Weaker(r("recovering", "none"), Current(p))
      /\ Weaker(r("error", "other"), r("recovering", "none"))
  BY <1>1 DEF Record, Weaker
<1>3. /\ a.ch = Update(p, r("recovering", "none")).ch
      /\ b.ch = Update(p, r("error", "other")).ch
  BY UpdatedRecords DEF Recovering
<1> HIDE DEF r
<1>4. Quiet(p, a)
  BY <1>2, <1>3, UpdateQuiet DEF Quiet
<1>5. Quiet(a, b)
  BY <1>1, <1>2, <1>3, UpdatedRecords, QuietSelf DEF Quiet
<1>6. Recover(p).queue = a /\ Recover(p).refused = b
  BY DEF Recover
<1> HIDE DEF a, b
<1> QED BY <1>4, <1>5, <1>6, QuietTrans DEF OutcomeQuiet

LEMMA AdvanceQuiet ==
  ASSUME NEW q, QueueOK(q), q.active = NoChannel
  PROVE  OutcomeQuiet(q, Advance(q))
<1> DEFINE pending == Find(q, Waiting(q))
           deferred == Find(q, Unpassed(q))
<1>1. q.listed \subseteq Channels /\ q \in Queues /\ q.ch \in [Channels -> Record]
  BY QueueFields DEF QueueOK
<1>2. CASE pending # NoChannel
  <2> DEFINE t == [q EXCEPT !.active = pending, !.ch[pending].status = "opening"]
  <2>1. pending \in Channels /\ Advance(q) = Outcome(t, TRUE, FALSE)
    BY <1>1, <1>2, FindFirst DEF Advance
  <2> HIDE DEF pending
  <2>2. /\ t.ch[pending] = [q.ch[pending] EXCEPT !.status = "opening"]
        /\ \A d \in Channels \ {pending} : t.ch[d] = q.ch[d]
    BY <1>1, <2>1 DEF Queues
  <2> HIDE DEF t
  <2>3. Weaker(t.ch[pending], q.ch[pending])
    BY <1>1, <2>1, <2>2 DEF Weaker, Record
  <2>4. Quiet(q, t)
    BY <2>1, <2>2, <2>3, OneRecord
  <2> QED BY <2>1, <2>4, OnlyQuiet
<1>3. CASE pending = NoChannel /\ deferred # NoChannel
  <2> DEFINE p == [q EXCEPT !.active = deferred, !.ch[deferred].pass = TRUE,
                            !.ch[deferred].passed = TRUE, !.ch[deferred].retryAt = FALSE]
  <2>1. deferred \in Channels /\ Advance(q) = Recover(p)
    BY <1>1, <1>3, FindFirst DEF Advance
  <2> HIDE DEF deferred
  <2>2. [q.ch[deferred] EXCEPT !.pass = TRUE, !.passed = TRUE, !.retryAt = FALSE] \in Record
    <3>1. q.ch[deferred] \in Record
      BY <1>1, <2>1
    <3> QED BY <3>1 DEF Record
  <2>3. /\ p \in Queues /\ p.active = deferred
        /\ p.ch[deferred] = [q.ch[deferred] EXCEPT !.pass = TRUE, !.passed = TRUE, !.retryAt = FALSE]
        /\ \A d \in Channels \ {deferred} : p.ch[d] = q.ch[d]
    BY <1>1, <2>1, <2>2 DEF Queues
  <2> HIDE DEF p
  <2>4. Weaker(p.ch[deferred], q.ch[deferred])
    BY <1>1, <2>1, <2>3 DEF Weaker, Record
  <2>5. Quiet(q, p)
    <3>1. \A d \in Channels \ {deferred} : p.ch[d] = q.ch[d]
      BY <2>3
    <3> QED BY <2>1, <2>4, <3>1, OneRecord
  <2> QED BY <1>3, <2>1, <2>3, <2>5, RecoverQuiet, CuratorAssumption
<1>4. CASE pending = NoChannel /\ deferred = NoChannel
  <2> DEFINE t == [q EXCEPT !.status = "completed"]
  <2>1. Advance(q) = Only(t) /\ t.ch = q.ch
    BY <1>1, <1>4 DEF Advance, Queues
  <2> HIDE DEF t
  <2> QED BY <2>1, OnlyQuiet, QuietSelf DEF Quiet
<1> QED BY <1>2, <1>3, <1>4

LEMMA TickQuiet ==
  ASSUME NEW q, QueueOK(q), NEW due \in BOOLEAN
  PROVE  OutcomeQuiet(q, Tick(q, due))
<1>1. CASE q.status = "running" /\ q.active = NoChannel
  BY <1>1, AdvanceQuiet DEF Tick
<1>2. CASE q.status = "running" /\ q.active # NoChannel
  <2> DEFINE c == q.active
             p == [q EXCEPT !.ch[c].retryAt = FALSE]
  <2>1. c \in Channels /\ q.ch[c] \in Record /\ q \in Queues
    BY <1>2, ActiveQueue DEF QueueOK
  <2>2. [q.ch[c] EXCEPT !.retryAt = FALSE] \in Record
    BY <2>1 DEF Record
  <2>3. /\ p \in Queues /\ p.active = c /\ p.ch[c] = [q.ch[c] EXCEPT !.retryAt = FALSE]
        /\ \A d \in Channels \ {c} : p.ch[d] = q.ch[d]
    BY <2>1, <2>2 DEF Queues
  <2>4. Tick(q, due) \in {Only(q), Outcome(q, TRUE, FALSE), Recover(p)}
    BY <1>2 DEF Tick, Retry
  <2> HIDE DEF p
  <2>5. Weaker(p.ch[c], q.ch[c])
    BY <2>1, <2>3 DEF Weaker, Record
  <2>6. Quiet(q, p)
    <3>1. \A d \in Channels \ {c} : p.ch[d] = q.ch[d]
      BY <2>3
    <3> HIDE DEF c
    <3> QED BY <2>1, <2>5, <3>1, OneRecord
  <2>7. OutcomeQuiet(q, Recover(p))
    BY <1>2, <2>3, <2>6, RecoverQuiet
  <2> QED BY <2>4, <2>7, OnlyQuiet, QuietSelf
<1>3. CASE q.status # "running"
  BY <1>3, OnlyQuiet, QuietSelf DEF Tick
<1> QED BY <1>1, <1>2, <1>3

LEMMA HandleFailureQuiet ==
  ASSUME NEW q, QueueOK(q), NEW kind \in {"user", "transient", "other"}, NEW offline \in BOOLEAN
  PROVE  OutcomeQuiet(q, HandleFailure(q, kind, offline))
<1>1. CASE q.active = NoChannel
  BY <1>1, OnlyQuiet, QuietSelf DEF HandleFailure
<1>2. CASE q.active # NoChannel /\ kind = "user"
  BY <1>2, QuietEvents, OnlyQuiet DEF HandleFailure
<1>3. CASE q.active # NoChannel /\ kind = "other" /\ ~offline
  BY <1>3, QuietEvents, OnlyQuiet DEF HandleFailure
<1> DEFINE late == kind # "user" /\ (kind # "other" \/ offline) /\ q.active # NoChannel
           worn == Current(q).pass \/ ~(offline \/ Current(q).retries < RetryMax)
<1>4. q \in Queues /\ (q.active # NoChannel => Current(q) \in Record)
  BY CurrentRecord DEF QueueOK
<1>5. CASE late /\ worn
  <2> DEFINE r == [Current(q) EXCEPT !.status = "deferred", !.error = kind,
                                     !.pass = FALSE, !.retryAt = FALSE]
             t == [Update(q, r) EXCEPT !.active = NoChannel]
  <2>1. r \in Record /\ r.status = "deferred" /\ Weaker(r, Current(q))
    BY <1>4, <1>5 DEF Record, Weaker
  <2>2. HandleFailure(q, kind, offline) = Tick(t, FALSE)
    BY <1>5 DEF HandleFailure, Defer
  <2> HIDE DEF r
  <2>3. QueueOK(t) /\ Quiet(q, t)
    BY <1>4, <1>5, <2>1, PutDown, UpdateQuiet DEF Keeps
  <2> HIDE DEF t
  <2> QED BY <2>2, <2>3, TickQuiet, QuietOutcome
<1>6. CASE late /\ ~worn
  <2> DEFINE r == [Current(q) EXCEPT
                     !.status = "recovering", !.error = kind, !.recovering = TRUE,
                     !.retries = IF @ < RetryMax THEN @ + 1 ELSE @, !.retryAt = TRUE]
  <2>1. Weaker(r, Current(q))
    BY <1>4, <1>6 DEF Record, Weaker
  <2>2. HandleFailure(q, kind, offline) = Only(Update(q, r))
    BY <1>6 DEF HandleFailure
  <2> HIDE DEF r
  <2> QED BY <1>4, <2>1, <2>2, UpdateQuiet, OnlyQuiet
<1> QED BY <1>1, <1>2, <1>3, <1>5, <1>6

LEMMA EnqueueQuiet ==
  ASSUME NEW q, QueueOK(q), NEW items \in Inputs
  PROVE  OutcomeQuiet(Base(q), Enqueue(q, items))
<1> DEFINE b == Base(q)
           t == Appended(b, items)
<1>1. QueueOK(b) /\ b.status # "completed"
  BY EmptyQueue DEF Base, Empty
<1> HIDE DEF b
<1>2. QueueOK(t)
  BY <1>1, AppendedKeeps DEF Keeps
<1>3. t.ch = b.ch
  BY <1>1 DEF Appended, QueueOK, Queues
<1>4. Enqueue(q, items) = Tick(t, FALSE)
  BY DEF Enqueue, Base, b
<1> HIDE DEF t
<1>5. Quiet(b, t)
  BY <1>3, QuietSelf DEF Quiet
<1> QED BY <1>2, <1>4, <1>5, TickQuiet, QuietOutcome DEF b

LEMMA StatusQuiet ==
  ASSUME NEW q, NEW t \in Queues, Quiet(q, t), NEW s
  PROVE  Quiet(q, [t EXCEPT !.status = s]) /\ Quiet(q, [t EXCEPT !.active = NoChannel])
<1>1. [t EXCEPT !.status = s].ch = t.ch /\ [t EXCEPT !.active = NoChannel].ch = t.ch
  BY DEF Queues
<1> QED BY <1>1 DEF Quiet

LEMMA StatusChangeQuiet ==
  ASSUME NEW q, QueueOK(q), NEW s, s # "completed"
  PROVE  Quiet(q, SetStatus(q, s))
<1>1. q \in Queues /\ (q.active # NoChannel => Current(q) \in Record)
  BY CurrentRecord DEF QueueOK
<1> QED BY <1>1, UpdateQuiet DEF SetStatus, Record, Weaker

LEMMA HaltQuiet ==
  ASSUME NEW q, QueueOK(q)
  PROVE  OutcomeQuiet(q, Pause(q)) /\ OutcomeQuiet(q, Stop(q))
<1>1. q \in Queues /\ Quiet(q, q)
  BY QuietSelf DEF QueueOK
<1>2. SetStatus(q, "paused") \in Queues \/ q.active = NoChannel
  BY SetStatusKeeps, StatusSets DEF Keeps, QueueOK
<1> DEFINE halted == q.active # NoChannel /\ Current(q).status \notin Finished \cup {"error", "needs_user"}
           next == IF halted THEN SetStatus(q, "paused") ELSE q
           t == [next EXCEPT !.status = "paused"]
<1>3. next \in Queues /\ Quiet(q, next)
  BY <1>1, <1>2, StatusChangeQuiet
<1>4. Pause(q) = Outcome(t, FALSE, TRUE)
  BY DEF Pause
<1> HIDE DEF next
<1>5. Quiet(q, t)
  BY <1>3, StatusQuiet
<1> HIDE DEF t
<1>6. Quiet(q, [q EXCEPT !.status = "stopped"])
  BY <1>1, StatusQuiet
<1> QED BY <1>4, <1>5, <1>6, OnlyQuiet DEF Stop

LEMMA SkipQuiet ==
  ASSUME NEW q, QueueOK(q)
  PROVE  OutcomeQuiet(q, Skip(q))
<1> DEFINE r == [Current(q) EXCEPT !.status = "skipped"]
           t == [Update(q, r) EXCEPT !.active = NoChannel]
<1>1. Skip(q) = IF t.status = "running" THEN Tick(t, FALSE) ELSE Only(t)
  BY DEF Skip, SetStatus
<1>2. q \in Queues /\ (q.active # NoChannel => Current(q) \in Record)
  BY CurrentRecord DEF QueueOK
<1>3. q.active # NoChannel => r \in Record /\ r.status = "skipped" /\ Weaker(r, Current(q))
  BY <1>2 DEF Record, Finished, Weaker
<1> HIDE DEF r
<1>4. Quiet(q, t)
  BY <1>2, <1>3, UpdateQuiet
<1>5. QueueOK(t)
  <2>1. CASE q.active # NoChannel
    BY <1>3, <2>1, PutDown DEF Keeps
  <2>2. CASE q.active = NoChannel
    <3>1. t = q
      BY <1>2, <2>2 DEF Update, Queues
    <3> QED BY <3>1
  <2> QED BY <2>1, <2>2
<1> HIDE DEF t
<1> QED BY <1>1, <1>4, <1>5, TickQuiet, QuietOutcome, OnlyQuiet

LEMMA RemoveQuiet ==
  ASSUME NEW q, QueueOK(q), NEW c
  PROVE  OutcomeQuiet(q, Only(RemovePending(q, c)))
<1> DEFINE t == RemovePending(q, c)
<1>1. t.ch = q.ch
  BY DEF RemovePending, QueueOK, Queues
<1> HIDE DEF t
<1>2. Quiet(q, t)
  BY <1>1, QuietSelf DEF Quiet
<1> QED BY <1>2, OnlyQuiet DEF t

LEMMA RestartQuiet ==
  ASSUME NEW q, QueueOK(q)
  PROVE  OutcomeQuiet(q, Restart(q))
<1> DEFINE asked == q.status = "needs_user" /\ q.active # NoChannel
           again == q.active # NoChannel /\ (asked \/ Current(q).status \in {"paused", "needs_user"})
           r == [Current(q) EXCEPT !.status = "opening", !.error = "none"]
           reopened == IF again THEN Update(q, r) ELSE q
           next == IF asked \/ q.status \in {"paused", "stopped"}
                   THEN [reopened EXCEPT !.status = "running"] ELSE q
           open == next.status = "running" /\ next.active # NoChannel
                     /\ (Current(next).status \in {"opening", "recovering"}
                          \/ HasDrain(Current(next)))
<1>1. Restart(q) = Outcome(next, open, FALSE)
  BY DEF Restart
<1>2. q \in Queues /\ (q.active # NoChannel => Current(q) \in Record)
  BY CurrentRecord DEF QueueOK
<1>3. q.active # NoChannel => Weaker(r, Current(q))
  BY <1>2 DEF Record, Weaker
<1> HIDE DEF r
<1>4. Quiet(q, [Update(q, r) EXCEPT !.status = "running"])
      /\ Quiet(q, [q EXCEPT !.status = "running"]) /\ Quiet(q, q)
  BY <1>2, <1>3, UpdateQuiet, StatusQuiet, QuietSelf
<1>5. Quiet(q, next)
  BY <1>4
<1> HIDE DEF next
<1> HIDE DEF open
<1> QED BY <1>1, <1>5, OnlyQuiet

LEMMA ResumeQuiet ==
  ASSUME NEW q, QueueOK(q)
  PROVE  OutcomeQuiet(q, Resume(q))
<1> DEFINE deferred == Find(q, Deferred(q))
           back == q.active = NoChannel /\ q.status = "completed" /\ deferred # NoChannel
           b == [q EXCEPT !.status = "running", !.active = deferred,
                          !.ch[deferred].status = "error", !.ch[deferred].pass = FALSE]
           p == IF back THEN b ELSE q
<1>1. Resume(q) = IF p.active # NoChannel /\ CanRecover(Current(p)) THEN Recover(p) ELSE Restart(p)
  BY DEF Resume
<1>2. ASSUME back PROVE Keeps(q, b) /\ Quiet(q, b)
  <2>1. deferred \in q.listed /\ deferred \in Channels /\ q.ch[deferred].status = "deferred"
    BY <1>2, FindFirst, QueueFields DEF Deferred, QueueOK
  <2>2. q.active = NoChannel
    BY <1>2
  <2> HIDE DEF deferred
  <2>3. /\ q \in Queues /\ q.ch[deferred] \in Record
        /\ [q.ch[deferred] EXCEPT !.status = "error", !.pass = FALSE] \in Record
    <3>1. q \in Queues /\ q.ch[deferred] \in Record
      BY <2>1 DEF QueueOK, Queues
    <3> QED BY <3>1 DEF Record
  <2>4. /\ b \in Queues /\ b.status = "running" /\ b.active = deferred /\ b.listed = q.listed
        /\ b.ahead = q.ahead
        /\ b.ch[deferred] = [q.ch[deferred] EXCEPT !.status = "error", !.pass = FALSE]
        /\ \A d \in Channels \ {deferred} : b.ch[d] = q.ch[d]
    BY <2>1, <2>3 DEF Queues
  <2> HIDE DEF b
  <2>5. b.ch[deferred].status = "error" /\ Weaker(b.ch[deferred], q.ch[deferred])
    BY <2>1, <2>3, <2>4 DEF Record, Weaker
  <2>6. b.ch[deferred].status \in Busy /\ q.ch[deferred].status \notin Finished
    BY <2>1, <2>5 DEF Busy, Finished
  <2>7. /\ b \in Queues /\ b.active = deferred /\ b.listed = q.listed /\ b.ahead = q.ahead
        /\ b.status # "completed" /\ \A d \in Channels \ {deferred} : b.ch[d] = q.ch[d]
    BY <2>4
  <2> HIDE DEF back, p
  <2> QED BY <2>1, <2>2, <2>5, <2>6, <2>7, Placed, OneRecord
<1>3. QueueOK(p) /\ Quiet(q, p)
  BY <1>2, QuietSelf DEF Keeps
<1> HIDE DEF p
<1>4. p.active # NoChannel => OutcomeQuiet(q, Recover(p))
  BY <1>3, RecoverQuiet DEF QueueOK
<1>5. OutcomeQuiet(q, Restart(p))
  BY <1>3, RestartQuiet, QuietOutcome
<1> QED BY <1>1, <1>4, <1>5

-----------------------------------------------------------------------------
(* The tab.  E are the channels whose scan ended, S those an event of       *)
(* another run reached: the variables ended and stray, or their next values. *)

Marked(r) == r.scanned \/ r.pendingFinal \/ r.status = "completed"

QueueEnds(q, E, S) == \A c \in Channels \ S : Marked(q.ch[c]) => c \in E

DrainPhases == {"drain", "batch", "handoff", "acquiring", "resolved", "drained"}
Restarts == {"restoring", "restarting"}

(* A page drains only what was scanned; one that is about to scan finds no
   candidates of an earlier drain. *)
InPhase(p) ==
  /\ p.phase \in DrainPhases => p.complete
  /\ p.phase \in Restarts => ~p.complete

RunEnds(p, q, E, S) ==
  /\ p.of = "record" /\ p.complete => p.run \in E \cup S
  /\ p.of = "record" /\ ~p.complete /\ p.run \in Channels \ S => ~q.ch[p.run].pendingFinal
  /\ InPhase(p)

Ends(q, p, E, S) == QueueEnds(q, E, S) /\ RunEnds(p, q, E, S)

EndsInv == CuratorInv /\ Ends(queue, page, ended, stray)
EndsNext == Ends(queue', page', ended', stray')

LEMMA QuietEnds ==
  ASSUME NEW q, NEW t, Quiet(q, t), NEW p, NEW E, NEW S, Ends(q, p, E, S)
  PROVE  Ends(t, p, E, S)
BY DEF Ends, QueueEnds, RunEnds, Quiet, Weaker, Marked

LEMMA StartedEnds ==
  ASSUME NEW q, QueueOK(q), q.active # NoChannel, NEW E, NEW S, QueueEnds(q, E, S)
  PROVE  RunEnds(Started(q), q, E, S)
<1> DEFINE r == Current(q)
           drain == r.scanned \/ r.pendingFinal
           p == Started(q)
<1>1. r = q.ch[q.active] /\ q.active \in Channels
  BY ActiveQueue DEF Current
<1>2. p.run = q.active /\ p.phase = "context" /\ p.complete = drain
  BY DEF Started, NoRun
<1> HIDE DEF p
<1> QED BY <1>1, <1>2 DEF RunEnds, QueueEnds, Marked, InPhase, DrainPhases, Restarts, p

LEMMA NoRunEnds == \A q, E, S : RunEnds(NoRun, q, E, S)
BY CuratorAssumption DEF RunEnds, NoRun, InPhase, DrainPhases, Restarts

LEMMA HaltedEnds ==
  ASSUME NEW p, Proper(p), NEW q, NEW E, NEW S, RunEnds(p, q, E, S)
  PROVE  RunEnds(Halted(p), q, E, S)
<1> DEFINE t == Halted(p)
<1>1. /\ t.run = p.run /\ t.of = p.of /\ t.complete = p.complete
      /\ t.phase = p.phase \/ t.phase = "idle"
  BY DEF Halted, Proper, Runs
<1> HIDE DEF t
<1> QED BY <1>1 DEF RunEnds, InPhase, DrainPhases, Restarts, t

LEMMA CommitEnds ==
  ASSUME NEW o, QueueOK(o.queue), o.open => o.queue.active # NoChannel,
         Quiet(o.queue, o.refused), NEW p, Proper(p), NEW E, NEW S,
         Ends(o.queue, p, E, S), Commit(o, p)
  PROVE  Ends(queue', page', E, S)
<1> DEFINE here == o.open /\ shown = o.queue.active
           away == o.open /\ ~here
<1>1. /\ queue' = IF away /\ refusing THEN o.refused ELSE o.queue
      /\ page' = IF here THEN Started(o.queue) ELSE IF o.stop THEN Halted(p) ELSE p
  BY DEF Commit
<1>2. Ends(o.queue, Started(o.queue), E, S) \/ ~o.open
  BY StartedEnds DEF Ends
<1>3. Ends(o.queue, Halted(p), E, S)
  BY HaltedEnds DEF Ends
<1>4. Ends(o.queue, page', E, S)
  BY <1>1, <1>2, <1>3
<1>5. Ends(o.refused, page', E, S)
  BY <1>4, QuietEnds
<1> QED BY <1>1, <1>4, <1>5

(* An operator's command or a tick. *)
LEMMA OrderEnds ==
  ASSUME EndsInv, NEW o, OutcomeOK(queue, o), OutcomeQuiet(queue, o), Order(o)
  PROVE  EndsNext
<1>1. Commit(o, page) /\ ended' = ended /\ stray' = stray
  BY DEF Order
<1>2. Ends(o.queue, page, ended, stray)
  BY QuietEnds DEF EndsInv, OutcomeQuiet
<1>3. Ends(queue', page', ended, stray)
  BY <1>1, <1>2, CommitEnds DEF EndsInv, CuratorInv, PageOK, OutcomeOK, OutcomeQuiet, Keeps
<1> QED BY <1>1, <1>3 DEF EndsNext

(* An event of the page.  If it is about its own channel, either it is quiet or *)
(* the channel's scan ended; if not, what it says is on the account of stray.   *)
LEMMA PostEnds ==
  ASSUME EndsInv, NEW o, OutcomeOK(queue, o), Elsewhere(queue, o.queue),
         Quiet(o.queue, o.refused), NEW p, Proper(p),
         p.run = page.run, p.of = page.of, page.complete => p.complete, InPhase(p),
         Post(o, p), ended \subseteq ended',
         page.of = "record" /\ p.complete => page.run \in ended' \cup stray,
         Own => \/ Quiet(queue, o.queue)
                \/ /\ page.run \in ended' \cup stray
                   /\ p.complete \/ (o.queue.ch[page.run].pendingFinal
                                       => queue.ch[page.run].pendingFinal)
  PROVE  EndsNext
<1> DEFINE t == IF page.of = "reset" THEN NoRun ELSE p
           c == queue.active
<1>1. Commit(o, t) /\ stray' = stray \cup Strayed(o.queue) /\ Proper(t)
  BY NoRunOK DEF Post
<1>2. /\ c # NoChannel /\ ~Own /\ Says(o.queue.ch[c]) # Says(queue.ch[c])
           => Strayed(o.queue) = {c}
      /\ stray \subseteq stray'
  BY <1>1 DEF Strayed
<1>3. Ends(queue, page, ended, stray) /\ c \in Channels \cup {NoChannel}
  BY QueueFields DEF EndsInv, CuratorInv, QueueOK
<1>4. QueueEnds(o.queue, ended', stray')
  <2> SUFFICES ASSUME NEW d \in Channels \ stray', Marked(o.queue.ch[d])
               PROVE  d \in ended'
    BY DEF QueueEnds
  <2>1. d \notin stray /\ (Marked(queue.ch[d]) => d \in ended')
    BY <1>2, <1>3 DEF Ends, QueueEnds
  <2>2. CASE d # c
    BY <2>1, <2>2 DEF Elsewhere, Weaker, Marked
  <2>3. CASE d = c /\ Own
    BY <2>1, <2>3 DEF Own, Quiet, Weaker, Marked
  <2>4. CASE d = c /\ ~Own
    <3>1. Says(o.queue.ch[c]) = Says(queue.ch[c])
      BY <1>1, <1>2, <2>4, CuratorAssumption
    <3>2. Marked(o.queue.ch[c]) <=> Marked(queue.ch[c])
      BY <3>1 DEF Says, Marked
    <3> QED BY <2>1, <2>4, <3>2
  <2> QED BY <2>2, <2>3, <2>4
<1>5. RunEnds(p, o.queue, ended', stray')
  <2>1. p.of = "record" /\ p.complete => p.run \in ended' \cup stray'
    BY <1>2
  <2>2. ASSUME p.of = "record", ~p.complete, p.run \in Channels \ stray',
               o.queue.ch[p.run].pendingFinal
        PROVE  FALSE
    <3>1. ~queue.ch[p.run].pendingFinal /\ p.run \notin stray
      BY <1>2, <1>3, <2>2 DEF Ends, RunEnds
    <3>2. CASE p.run # c
      BY <2>2, <3>1, <3>2 DEF Elsewhere, Weaker
    <3>3. CASE p.run = c
      BY <2>2, <3>1, <3>3 DEF Own, Quiet, Weaker
    <3> QED BY <3>2, <3>3
  <2> QED BY <2>1, <2>2 DEF RunEnds
<1>6. Ends(o.queue, t, ended', stray')
  BY <1>4, <1>5, NoRunEnds DEF Ends
<1> HIDE DEF t
<1>7. Ends(queue', page', ended', stray')
  BY <1>1, <1>6, CommitEnds DEF OutcomeOK, Keeps
<1> QED BY <1>7 DEF EndsNext

(* A message that changes the record of the active channel only, quietly or *)
(* because the page drains.                                                 *)
LEMMA SendsEnds ==
  ASSUME EndsInv, NEW q, Keeps(queue, q), NEW p, Proper(p),
         p.run = page.run, p.of = page.of, p.complete = page.complete, InPhase(p),
         Quiet(queue, q) \/ (page.complete /\ Elsewhere(queue, q)), Sends(q, p)
  PROVE  EndsNext
<1>1. Post(Only(q), p) /\ ended' = ended
  BY DEF Sends
<1>2. OutcomeOK(queue, Only(q)) /\ Only(q).queue = q /\ Only(q).refused = q
  BY OnlyOK DEF Only, Outcome
<1>3. Elsewhere(queue, q) /\ Quiet(q, q)
  BY QuietSelf DEF Quiet, Elsewhere
<1>4. page.of = "record" /\ page.complete => page.run \in ended \cup stray
  BY DEF EndsInv, Ends, RunEnds
<1>5. Own => Quiet(queue, q) \/ (page.run \in ended' \cup stray /\ p.complete)
  BY <1>1, <1>4 DEF Own
<1> DEFINE o == Only(q)
<1> HIDE DEF o
<1> QED BY <1>1, <1>2, <1>3, <1>4, <1>5, PostEnds DEF o

LEMMA GoesEnds ==
  ASSUME EndsInv, NEW q, Keeps(queue, q), NEW f \in Phases, page.phase # "idle", Goes(q, f),
         Quiet(queue, q) \/ (page.complete /\ Elsewhere(queue, q)),
         f \in DrainPhases => page.complete, f \in Restarts => ~page.complete
  PROVE  EndsNext
<1> DEFINE p == [page EXCEPT !.phase = f]
<1>1. Proper(page) /\ Proper(p)
  BY RunChanges DEF EndsInv, CuratorInv, PageOK
<1>2. p.run = page.run /\ p.of = page.of /\ p.complete = page.complete /\ p.phase = f
  BY <1>1 DEF Proper, Runs
<1>3. Sends(q, p)
  BY DEF Goes
<1> HIDE DEF p
<1> QED BY <1>1, <1>2, <1>3, SendsEnds DEF InPhase

(* A quiet operation on behalf of the page, which does not end its scan. *)
LEMMA PostQuietEnds ==
  ASSUME EndsInv, NEW o, OutcomeOK(queue, o), OutcomeQuiet(queue, o), NEW p, Proper(p),
         p.run = page.run, p.of = page.of, p.complete = page.complete, InPhase(p),
         Post(o, p), ended' = ended
  PROVE  EndsNext
<1>1. Elsewhere(queue, o.queue) /\ Quiet(queue, o.queue) /\ Quiet(o.queue, o.refused)
  BY DEF OutcomeQuiet, Quiet, Elsewhere
<1>2. page.of = "record" /\ page.complete => page.run \in ended \cup stray
  BY DEF EndsInv, Ends, RunEnds
<1> QED BY <1>1, <1>2, PostEnds

LEMMA FailedEnds ==
  ASSUME EndsInv, NEW kind \in {"user", "transient", "other"}, NEW offline \in BOOLEAN,
         NEW p, Proper(p), p.run = page.run, p.of = page.of, p.complete = page.complete,
         InPhase(p), Failed(kind, offline, p)
  PROVE  EndsNext
<1> DEFINE o == HandleFailure(queue, kind, offline)
<1>1. QueueOK(queue)
  BY DEF EndsInv, CuratorInv
<1>2. OutcomeOK(queue, o) /\ OutcomeQuiet(queue, o)
  BY <1>1, HandleFailureOK, HandleFailureQuiet
<1>3. Post(o, p) /\ ended' = ended
  BY DEF Failed
<1> HIDE DEF o
<1> QED BY <1>2, <1>3, PostQuietEnds

LEMMA SilentEnds ==
  ASSUME EndsInv, NEW p, p.run = page.run, p.of = page.of, p.complete = page.complete,
         InPhase(p), Silent(p)
  PROVE  EndsNext
<1>1. page' = p /\ queue' = queue /\ ended' = ended /\ stray' = stray
  BY DEF Silent
<1>2. Ends(queue, p, ended, stray)
  BY DEF EndsInv, Ends, RunEnds
<1> QED BY <1>1, <1>2 DEF EndsNext

(* What the steps of a run leave of it. *)
Continues(p, f) ==
  /\ Proper(p) /\ p.phase = f
  /\ p.run = page.run /\ p.of = page.of /\ p.complete = page.complete

LEMMA RunKept ==
  ASSUME EndsInv, page.phase # "idle", NEW f \in Phases, NEW b \in BOOLEAN
  PROVE  /\ Continues([page EXCEPT !.phase = f], f)
         /\ Continues([page EXCEPT !.phase = f, !.cancelled = b], f)
         /\ Continues([page EXCEPT !.phase = f, !.pending = b], f)
         /\ Continues([page EXCEPT !.phase = f, !.unsaved = b], f)
         /\ Continues([page EXCEPT !.phase = f, !.finished = b], f)
         /\ Continues([page EXCEPT !.unsaved = b], page.phase)
<1>1. Proper(page) /\ page \in Runs
  BY DEF EndsInv, CuratorInv, PageOK, Proper
<1>2. Continues([page EXCEPT !.phase = f], f)
  BY <1>1, RunChanges DEF Runs, Continues
<1>3. /\ Continues([page EXCEPT !.phase = f, !.cancelled = b], f)
      /\ Continues([page EXCEPT !.phase = f, !.pending = b], f)
  BY <1>1, RunChanges DEF Runs, Continues
<1>4. /\ Continues([page EXCEPT !.phase = f, !.unsaved = b], f)
      /\ Continues([page EXCEPT !.phase = f, !.finished = b], f)
  BY <1>1, RunChanges DEF Runs, Continues
<1>5. Continues([page EXCEPT !.unsaved = b], page.phase)
  <2>1. Proper([page EXCEPT !.unsaved = b])
    BY <1>1, RunChanges DEF Phases
  <2> QED BY <1>1, <2>1 DEF Runs, Continues
<1> QED BY <1>2, <1>3, <1>4, <1>5

LEMMA PhaseKept ==
  ASSUME NEW p, p.complete = page.complete,
         p.phase \in DrainPhases => page.complete, p.phase \in Restarts => ~page.complete
  PROVE  InPhase(p)
BY DEF InPhase

LEMMA AnnounceEnds == EndsInv /\ Announce => EndsNext
<1> SUFFICES ASSUME EndsInv, Announce PROVE EndsNext
  OBVIOUS
<1> DEFINE q == Scanning(queue)
           p == [page EXCEPT !.phase = "scan", !.cancelled = FALSE]
           c == queue.active
<1>1. /\ page.phase # "idle" /\ ~page.complete /\ Post(Only(q), p)
      /\ ended' = IF Own THEN ended \ {page.run} ELSE ended
  BY DEF Announce, Confirmed, In, EndsInv, Ends, RunEnds, InPhase, Restarts
<1>2. QueueOK(queue) /\ Proper(page) /\ queue \in Queues /\ page.run \in Channels
  BY <1>1, RunChanges DEF EndsInv, CuratorInv, PageOK, QueueOK, Proper, Runs
<1>3. /\ Proper(p) /\ p.run = page.run /\ p.of = page.of /\ p.complete = page.complete
      /\ p.phase = "scan"
  <2>1. "scan" \in Phases
    BY DEF Phases
  <2> QED BY <1>1, <2>1, RunKept DEF Continues
<1>4. OutcomeOK(queue, Only(q)) /\ OutcomeQuiet(queue, Only(q)) /\ Quiet(queue, q)
  BY <1>2, EventsKeep, QuietEvents, OnlyOK, OnlyQuiet
<1>5. InPhase(p)
  BY <1>3 DEF InPhase, DrainPhases, Restarts
<1>6. CASE ~Own
  <2> HIDE DEF q, p
  <2> QED BY <1>1, <1>3, <1>4, <1>5, <1>6, PostQuietEnds
<1>7. CASE Own
  <2>1. page.of = "record" /\ page.run = c /\ c \in Channels /\ c # NoChannel
    BY <1>2, <1>7, CuratorAssumption DEF Own
  <2>2. ~q.ch[c].scanned /\ q.ch[c].status # "completed"
    <3> DEFINE r == [Current(queue) EXCEPT
                       !.status = "scanning", !.scanned = FALSE, !.error = "none",
                       !.retries = 0, !.retryAt = FALSE, !.nav = 0]
    <3>1. Current(queue) \in Record
      BY <1>2, <2>1, CurrentRecord
    <3>2. ~r.scanned /\ r.status = "scanning" /\ q = Update(queue, r)
      BY <3>1 DEF Record, Scanning
    <3> HIDE DEF r, q
    <3> QED BY <1>2, <2>1, <3>2, UpdatedRecords
  <2>3. Ends(queue, page, ended, stray)
    BY DEF EndsInv
  <2>4. c \notin stray => ~queue.ch[c].pendingFinal
    BY <1>1, <2>1, <2>3 DEF Ends, RunEnds
  <2> HIDE DEF q, p
  <2>5. queue' = q /\ page' = p /\ stray' = stray
    BY <1>1, <1>7, <2>1 DEF Post, Commit, Only, Outcome, Strayed
  <2>6. QueueEnds(q, ended', stray)
    <3> SUFFICES ASSUME NEW d \in Channels \ stray, Marked(q.ch[d]) PROVE d \in ended'
      BY DEF QueueEnds
    <3>1. Marked(queue.ch[d]) /\ (q.ch[d].pendingFinal => queue.ch[d].pendingFinal)
      BY <1>4 DEF Quiet, Weaker, Marked
    <3>2. d # c
      BY <2>2, <2>4, <3>1 DEF Marked
    <3> QED BY <1>1, <2>1, <2>3, <3>1, <3>2 DEF Ends, QueueEnds
  <2>7. RunEnds(p, q, ended', stray)
    BY <1>1, <1>3, <1>4, <1>5, <2>1, <2>4 DEF RunEnds, Quiet, Weaker
  <2> QED BY <2>5, <2>6, <2>7 DEF EndsNext, Ends
<1> QED BY <1>6, <1>7

-----------------------------------------------------------------------------
(* The steps of the page *)

LEMMA Here ==
  ASSUME EndsInv
  PROVE  /\ QueueOK(queue) /\ Proper(page) /\ InPhase(page)
         /\ page.phase \in DrainPhases => page.complete
         /\ page.phase \in Restarts => ~page.complete
         /\ page.of = "record" /\ page.complete => page.run \in ended \cup stray
BY DEF EndsInv, CuratorInv, PageOK, Ends, RunEnds, InPhase

LEMMA ContextSteps ==
  EndsInv /\ (Restore \/ RejoinDrain \/ Mismatch) => EndsNext
<1> SUFFICES ASSUME EndsInv, Restore \/ RejoinDrain \/ Mismatch PROVE EndsNext
  OBVIOUS
<1>1. QueueOK(queue) /\ (page.phase \in Restarts => ~page.complete)
  BY Here
<1>2. /\ {"restoring", "restarting", "drain", "mismatch", "idle"} \subseteq Phases
      /\ "drain" \notin Restarts /\ {"restoring", "restarting"} \cap DrainPhases = {}
      /\ {"mismatch", "idle"} \cap (DrainPhases \cup Restarts) = {}
  BY DEF Phases, Restarts, DrainPhases
<1>3. CASE Restore
  <2>1. /\ page.phase # "idle" /\ ~page.complete
        /\ Goes(RecoveryState(queue, TRUE), "restoring") \/ Goes(RecoveryState(queue, TRUE), "restarting")
    BY <1>1, <1>3 DEF Restore, Confirmed, In, Restarts
  <2>2. Keeps(queue, RecoveryState(queue, TRUE)) /\ Quiet(queue, RecoveryState(queue, TRUE))
    BY <1>1, FailuresKeep, QuietEvents
  <2> DEFINE q == RecoveryState(queue, TRUE)
  <2> HIDE DEF q
  <2>3. ASSUME NEW f \in {"restoring", "restarting"}, Goes(q, f) PROVE EndsNext
    BY <1>2, <2>1, <2>2, <2>3, GoesEnds DEF q
  <2> QED BY <2>1, <2>3 DEF q
<1>4. CASE RejoinDrain
  <2>1. page.phase # "idle" /\ page.complete /\ Goes(FinalDrain(queue), "drain")
    BY <1>4 DEF RejoinDrain, Confirmed, In
  <2> QED BY <1>1, <1>2, <2>1, EventsKeep, LoudEvents, GoesEnds
<1>5. CASE Mismatch
  <2>1. CASE In({"context"}) /\ Goes(RecoveryState(queue, FALSE), "mismatch")
    <3>1. page.phase # "idle"
      BY <2>1 DEF In
    <3> QED BY <1>1, <1>2, <2>1, <3>1, FailuresKeep, QuietEvents, GoesEnds
  <2>2. CASE ~In({"context"})
    <3> DEFINE q == Reopen(queue)
               open == q.status = "running" /\ q.active # NoChannel
                         /\ Current(q).status \in {"opening", "recovering"}
               p == [page EXCEPT !.phase = "idle"]
    <3>1. Post(Outcome(q, open, FALSE), p) /\ ended' = ended /\ page.phase # "idle"
      BY <1>5, <2>2 DEF Mismatch, In
    <3>2. Keeps(queue, q) /\ Quiet(queue, q)
      BY <1>1, FailuresKeep, QuietEvents
    <3> HIDE DEF q
    <3>3. OutcomeOK(queue, Outcome(q, open, FALSE))
      BY <3>2 DEF OutcomeOK, Outcome
    <3>4. Continues(p, "idle")
      BY <1>2, <3>1, RunKept
    <3>5. InPhase(p)
      BY <1>2, <3>4 DEF InPhase, Continues
    <3>6. OutcomeQuiet(queue, Outcome(q, open, FALSE))
      BY <3>2, OnlyQuiet
    <3> HIDE DEF open, p
    <3> QED BY <3>1, <3>3, <3>4, <3>5, <3>6, PostQuietEnds DEF Continues
  <2> QED BY <1>5, <2>1, <2>2 DEF Mismatch, In
<1> QED BY <1>3, <1>4, <1>5

LEMMA SilentSteps ==
  EndsInv /\ (AskAgain \/ Cancelled \/ TargetMissing) => EndsNext
<1> SUFFICES ASSUME EndsInv, NEW f \in {"context", "over", "reopening"}, page.phase # "idle",
                    Silent([page EXCEPT !.phase = f])
             PROVE  EndsNext
  BY DEF AskAgain, Cancelled, TargetMissing, In
<1>1. f \in Phases /\ f \notin DrainPhases \cup Restarts
  BY DEF Phases, DrainPhases, Restarts
<1> DEFINE p == [page EXCEPT !.phase = f]
<1>2. Continues(p, f)
  BY <1>1, RunKept
<1>3. InPhase(p)
  BY <1>1, <1>2 DEF InPhase, Continues
<1> QED BY <1>2, <1>3, SilentEnds DEF Continues

(* A message that says nothing of the scan and leaves the run where it was. *)
LEMMA QuietSteps ==
  ASSUME EndsInv, NEW q, Keeps(queue, q), Quiet(queue, q), NEW p, NEW f, Continues(p, f),
         f \in DrainPhases => page.complete, f \in Restarts => ~page.complete,
         Post(Only(q), p), ended' = ended
  PROVE  EndsNext
<1>1. OutcomeOK(queue, Only(q)) /\ OutcomeQuiet(queue, Only(q))
  BY OnlyOK, OnlyQuiet
<1>2. InPhase(p)
  BY DEF InPhase, Continues
<1> DEFINE o == Only(q)
<1> HIDE DEF o
<1> QED BY <1>1, <1>2, PostQuietEnds DEF Continues, o

LEMMA CheckpointQuietSteps ==
  EndsInv /\ (CheckpointStored \/ FlushCheckpoint \/ BackendUnavailable \/ BatchReserved
               \/ SendCheckpoint(FALSE)) => EndsNext
<1> SUFFICES ASSUME EndsInv PROVE
      CheckpointStored \/ FlushCheckpoint \/ BackendUnavailable \/ BatchReserved
        \/ SendCheckpoint(FALSE) => EndsNext
  OBVIOUS
<1>1. /\ QueueOK(queue) /\ (page.phase \in DrainPhases => page.complete)
      /\ page.phase \in Restarts => ~page.complete
  BY Here
<1>2. /\ Resumed \in Phases /\ Resumed \notin DrainPhases \cup Restarts
      /\ "saving" \in Phases /\ "saving" \notin DrainPhases \cup Restarts
  BY DEF Phases, DrainPhases, Restarts, Resumed
<1>3. /\ Keeps(queue, CheckpointSaved(queue)) /\ Quiet(queue, CheckpointSaved(queue))
      /\ Keeps(queue, Capacity(queue)) /\ Quiet(queue, Capacity(queue))
      /\ Keeps(queue, Pending(queue, FALSE)) /\ Quiet(queue, Pending(queue, FALSE))
      /\ Keeps(queue, Interleaving(queue)) /\ Quiet(queue, Interleaving(queue))
      /\ Keeps(queue, Checkpoint(queue, FALSE)) /\ Quiet(queue, Checkpoint(queue, FALSE))
  BY <1>1, EventsKeep, QuietEvents
<1>4. Continues(page, page.phase)
  BY Here DEF Continues
<1>5. ASSUME CheckpointStored PROVE EndsNext
  <2>1. Post(Only(CheckpointSaved(queue)), [page EXCEPT !.phase = Resumed])
        /\ ended' = ended /\ page.phase # "idle"
    BY <1>5 DEF CheckpointStored, In
  <2>2. Continues([page EXCEPT !.phase = Resumed], Resumed)
    BY <1>2, <2>1, RunKept
  <2> QED BY <1>2, <1>3, <2>1, <2>2, QuietSteps
<1>6. ASSUME FlushCheckpoint PROVE EndsNext
  <2>1. Post(Only(CheckpointSaved(queue)), [page EXCEPT !.unsaved = FALSE])
        /\ ended' = ended /\ page.phase # "idle"
    BY <1>6 DEF FlushCheckpoint, In
  <2>2. "saving" \in Phases /\ FALSE \in BOOLEAN
    BY <1>2
  <2>3. Continues([page EXCEPT !.unsaved = FALSE], page.phase)
    BY <2>1, <2>2, RunKept
  <2> QED BY <1>1, <1>3, <2>1, <2>3, QuietSteps
<1>7. ASSUME BackendUnavailable PROVE EndsNext
  <2>1. CASE Sends(Capacity(queue), page)
    BY <1>1, <1>3, <1>4, <2>1, QuietSteps DEF Sends
  <2>2. CASE In({"saving"}) /\ Sends(Capacity(queue), [page EXCEPT !.phase = Resumed, !.unsaved = TRUE])
    <3>1. Continues([page EXCEPT !.phase = Resumed, !.unsaved = TRUE], Resumed)
      BY <1>2, <2>2, RunKept DEF In
    <3> QED BY <1>2, <1>3, <2>2, <3>1, QuietSteps DEF Sends
  <2> QED BY <1>7, <2>1, <2>2 DEF BackendUnavailable
<1>8. ASSUME BatchReserved PROVE EndsNext
  <2>1. Sends(Pending(queue, FALSE), page) \/ Sends(Interleaving(queue), page)
    BY <1>8 DEF BatchReserved
  <2> QED BY <1>1, <1>3, <1>4, <2>1, QuietSteps DEF Sends
<1>9. ASSUME SendCheckpoint(FALSE) PROVE EndsNext
  <2>1. Post(Only(Checkpoint(queue, FALSE)), [page EXCEPT !.phase = "saving"])
        /\ ended' = ended /\ page.phase # "idle"
    BY <1>9 DEF SendCheckpoint, In
  <2>2. Continues([page EXCEPT !.phase = "saving"], "saving")
    BY <1>2, <2>1, RunKept
  <2> QED BY <1>2, <1>3, <2>1, <2>2, QuietSteps
<1> QED BY <1>5, <1>6, <1>7, <1>8, <1>9

(* The scan of a channel ends. *)
LEMMA ScanEndSteps ==
  EndsInv /\ (SendCheckpoint(TRUE) \/ DiscoveryDone) => EndsNext
<1> SUFFICES ASSUME EndsInv PROVE SendCheckpoint(TRUE) \/ DiscoveryDone => EndsNext
  OBVIOUS
<1>1. QueueOK(queue) /\ Proper(page)
  BY Here
<1>2. ASSUME ScanEnds
      PROVE  /\ ended \subseteq ended'
             /\ page.of = "record" => page.run \in ended'
  BY <1>2 DEF ScanEnds
<1>3. ASSUME SendCheckpoint(TRUE) PROVE EndsNext
  <2> DEFINE q == Checkpoint(queue, TRUE)
             p == [page EXCEPT !.phase = "saving"]
  <2>1. Post(Only(q), p) /\ ScanEnds /\ page.phase # "idle"
    BY <1>3 DEF SendCheckpoint, In
  <2>2. "saving" \in Phases /\ "saving" \notin DrainPhases \cup Restarts
    BY DEF Phases, DrainPhases, Restarts
  <2>3. Continues(p, "saving")
    BY <2>1, <2>2, RunKept
  <2>4. /\ OutcomeOK(queue, Only(q)) /\ Elsewhere(queue, q)
        /\ queue.active # NoChannel =>
             (q.ch[queue.active].pendingFinal => queue.ch[queue.active].pendingFinal)
    BY <1>1, EventsKeep, LoudEvents, OnlyOK
  <2> HIDE DEF p, q
  <2>5. Only(q).queue = q /\ Quiet(Only(q).queue, Only(q).refused)
    BY QuietSelf DEF Only, Outcome
  <2>6. Own => /\ page.run \in ended' \cup stray
               /\ q.ch[page.run].pendingFinal => queue.ch[page.run].pendingFinal
    <3>1. page.run \in Channels
      BY <1>1, <2>1, RunChanges DEF Phases
    <3> QED BY <1>2, <2>1, <2>4, <3>1, CuratorAssumption DEF Own
  <2>7. InPhase(p)
    BY <2>2, <2>3 DEF InPhase, Continues
  <2> QED BY <1>2, <2>1, <2>3, <2>4, <2>5, <2>6, <2>7, PostEnds DEF Continues
<1>4. ASSUME DiscoveryDone PROVE EndsNext
  <2> DEFINE q == Draining(queue)
             p == [page EXCEPT !.phase = "drain", !.complete = TRUE]
  <2>1. Post(Only(q), p) /\ ScanEnds /\ page.phase # "idle"
    BY <1>4 DEF DiscoveryDone, In
  <2>2. "drain" \in Phases /\ "drain" \notin Restarts
    BY DEF Phases, Restarts
  <2>3. /\ Proper(p) /\ p.run = page.run /\ p.of = page.of /\ p.complete /\ p.phase = "drain"
    <3>1. Proper(p)
      BY <1>1, <2>1, <2>2, RunChanges
    <3> QED BY <1>1, <3>1 DEF Proper, Runs
  <2>4. OutcomeOK(queue, Only(q)) /\ Elsewhere(queue, q)
    BY <1>1, EventsKeep, LoudEvents, OnlyOK
  <2> HIDE DEF p, q
  <2>5. Only(q).queue = q /\ Quiet(Only(q).queue, Only(q).refused)
    BY QuietSelf DEF Only, Outcome
  <2>6. InPhase(p)
    BY <2>2, <2>3 DEF InPhase
  <2>7. Own => page.run \in ended' \cup stray
    BY <1>2, <2>1 DEF Own
  <2> QED BY <1>2, <2>1, <2>3, <2>4, <2>5, <2>6, <2>7, PostEnds
<1> QED BY <1>3, <1>4

(* The drain: its page is one that ended the scan, or goes on with its drain. *)
LEMMA LoudSteps ==
  ASSUME EndsInv, page.complete, NEW q, Keeps(queue, q), Elsewhere(queue, q),
         NEW p, NEW f, Continues(p, f), f \notin Restarts, Sends(q, p)
  PROVE  EndsNext
<1>1. InPhase(p)
  BY DEF InPhase, Continues
<1> QED BY <1>1, SendsEnds DEF Continues

LEMMA DrainEnds ==
  EndsInv /\ (DrainGoesOn \/ FinalBatch \/ HandOff \/ BatchResolved) => EndsNext
<1> SUFFICES ASSUME EndsInv, DrainGoesOn \/ FinalBatch \/ HandOff \/ BatchResolved PROVE EndsNext
  OBVIOUS
<1>1. QueueOK(queue)
  BY Here
<1>2. page.phase # "idle" /\ page.complete
  BY Here DEF DrainGoesOn, FinalBatch, HandOff, BatchResolved, In, DrainPhases
<1>3. /\ Keeps(queue, FinalDrain(queue)) /\ Elsewhere(queue, FinalDrain(queue))
      /\ Keeps(queue, Draining(queue)) /\ Elsewhere(queue, Draining(queue))
      /\ Keeps(queue, Interleaving(queue)) /\ Elsewhere(queue, Interleaving(queue))
  BY <1>1, EventsKeep, LoudEvents, QuietEvents DEF Quiet, Elsewhere
<1>4. \A b \in BOOLEAN : Keeps(queue, Pending(queue, b)) /\ Elsewhere(queue, Pending(queue, b))
  BY <1>1, EventsKeep, LoudEvents
<1>5. {"idle", "drain", "batch", "handoff", "acquiring", "resolved", "drained"}
        \subseteq Phases \ Restarts
  BY DEF Phases, Restarts
<1>6. ASSUME NEW q, Keeps(queue, q), Elsewhere(queue, q),
             NEW f \in Phases \ Restarts, Goes(q, f)
      PROVE  EndsNext
  <2>1. Continues([page EXCEPT !.phase = f], f)
    BY <1>2, RunKept
  <2> QED BY <1>2, <1>6, <2>1, LoudSteps DEF Goes
<1>7. CASE DrainGoesOn
  BY <1>3, <1>5, <1>6, <1>7 DEF DrainGoesOn
<1>8. CASE FinalBatch
  <2>1. PICK left \in BOOLEAN :
          Sends(Pending(queue, left),
                [page EXCEPT !.phase = IF left THEN "batch" ELSE "drained", !.pending = left])
    BY <1>8 DEF FinalBatch
  <2> DEFINE f == IF left THEN "batch" ELSE "drained"
  <2>2. f \in Phases /\ f \notin Restarts
    BY <1>5
  <2> HIDE DEF f
  <2>3. Continues([page EXCEPT !.phase = f, !.pending = left], f)
    BY <1>2, <2>2, RunKept
  <2>4. Sends(Pending(queue, left), [page EXCEPT !.phase = f, !.pending = left])
    BY <2>1 DEF f
  <2> QED BY <1>2, <1>4, <2>2, <2>3, <2>4, LoudSteps
<1>9. CASE HandOff
  <2>1. \/ Goes(FinalDrain(queue), "batch") \/ Goes(Interleaving(queue), "handoff")
        \/ Goes(FinalDrain(queue), "acquiring")
    BY <1>9 DEF HandOff
  <2> QED BY <1>3, <1>5, <1>6, <2>1
<1>10. CASE BatchResolved
  <2> DEFINE f == IF page.paused THEN "idle" ELSE "resolved"
             g == IF page.finished THEN "idle" ELSE "drain"
  <2>1. f \in Phases \ Restarts /\ g \in Phases \ Restarts
    BY <1>5
  <2>2. \/ Goes(Pending(queue, TRUE), "acquiring") \/ Goes(Draining(queue), g)
        \/ Sends(Pending(queue, FALSE), [page EXCEPT !.phase = f, !.pending = FALSE])
    BY <1>10 DEF BatchResolved
  <2> HIDE DEF f, g
  <2>3. Continues([page EXCEPT !.phase = f, !.pending = FALSE], f)
    BY <1>2, <2>1, RunKept
  <2>4. CASE Goes(Pending(queue, TRUE), "acquiring")
    BY <1>4, <1>5, <1>6, <2>4
  <2>5. CASE Goes(Draining(queue), g)
    BY <1>3, <1>6, <2>1, <2>5
  <2>6. CASE Sends(Pending(queue, FALSE), [page EXCEPT !.phase = f, !.pending = FALSE])
    BY <1>2, <1>4, <2>1, <2>3, <2>6, LoudSteps
  <2> QED BY <2>2, <2>4, <2>5, <2>6
<1> QED BY <1>7, <1>8, <1>9, <1>10

LEMMA DoneEnds == EndsInv /\ DrainDone => EndsNext
<1> SUFFICES ASSUME EndsInv, DrainDone PROVE EndsNext
  OBVIOUS
<1> DEFINE q == Complete(queue)
           o == IF q.status = "running" THEN Tick(q, FALSE) ELSE Only(q)
           f == IF page.recovery \/ page.finished THEN "idle" ELSE "drain"
           p == [page EXCEPT !.phase = f, !.finished = TRUE]
<1>1. QueueOK(queue) /\ page.phase # "idle" /\ page.complete
      /\ (page.of = "record" => page.run \in ended \cup stray)
  BY Here DEF DrainDone, In, DrainPhases
<1>2. Post(o, p) /\ ended' = ended
  BY DEF DrainDone
<1>3. f \in Phases /\ f \notin Restarts
  BY DEF Phases, Restarts
<1> HIDE DEF f
<1>4. Continues(p, f)
  BY <1>1, <1>3, RunKept
<1>5. Keeps(queue, q) /\ Elsewhere(queue, q)
  BY <1>1, CompleteKeeps, LoudEvents
<1> HIDE DEF q
<1>6. /\ OutcomeOK(queue, Tick(q, FALSE)) /\ OutcomeOK(queue, Only(q))
      /\ OutcomeQuiet(q, Tick(q, FALSE)) /\ OutcomeQuiet(q, Only(q))
  BY <1>5, TickOK, OutcomeTrans, OnlyOK, TickQuiet, OnlyQuiet, QuietSelf DEF Keeps
<1>7. OutcomeOK(queue, o) /\ OutcomeQuiet(q, o)
  BY <1>6
<1> HIDE DEF o, p
<1>8. Elsewhere(queue, o.queue) /\ Quiet(o.queue, o.refused)
  BY <1>5, <1>7 DEF OutcomeQuiet, Elsewhere, Quiet, Weaker
<1>9. InPhase(p)
  BY <1>1, <1>3, <1>4 DEF InPhase, Continues
<1>10. Own => page.run \in ended' \cup stray
  BY <1>1, <1>2 DEF Own
<1> QED BY <1>1, <1>2, <1>4, <1>7, <1>8, <1>9, <1>10, PostEnds DEF Continues

LEMMA FailSteps ==
  ASSUME EndsInv, NEW kind \in {"user", "transient", "other"}, NEW offline \in BOOLEAN,
         NEW p, NEW f, Continues(p, f), f \in DrainPhases => page.complete, f \notin Restarts,
         Failed(kind, offline, p)
  PROVE  EndsNext
<1>1. InPhase(p)
  BY DEF InPhase, Continues
<1> QED BY <1>1, FailedEnds DEF Continues

LEMMA FailureSteps ==
  ASSUME EndsInv, NEW offline \in BOOLEAN
  PROVE  /\ CheckpointRefused(offline) => EndsNext
         /\ BatchRefused(offline) => EndsNext
         /\ \A kind \in {"transient", "other"} : RunFails(kind, offline) => EndsNext
         /\ LoggedOut => EndsNext
<1>1. {"over", "rejected", "idle"} \subseteq Phases \ (DrainPhases \cup Restarts)
      /\ {"drain", "drained"} \subseteq Phases \ Restarts
  BY DEF Phases, DrainPhases, Restarts
<1>2. Continues(page, page.phase)
  BY Here DEF Continues
<1>3. ASSUME CheckpointRefused(offline) PROVE EndsNext
  <2>1. PICK f \in {"rejected", "over"}, kind \in {"other", "transient"} :
          page.phase # "idle" /\ Failed(kind, offline, [page EXCEPT !.phase = f])
    BY <1>3 DEF CheckpointRefused, In
  <2>2. Continues([page EXCEPT !.phase = f], f)
    BY <1>1, <2>1, RunKept
  <2> QED BY <1>1, <2>1, <2>2, FailSteps
<1>4. ASSUME BatchRefused(offline) PROVE EndsNext
  <2>1. CASE In({"scan", "over"}) /\ Failed("other", offline, page)
    <3>1. page.phase \notin DrainPhases \cup Restarts
      BY <2>1 DEF In, DrainPhases, Restarts
    <3> QED BY <1>2, <2>1, <3>1, FailSteps
  <2>2. CASE page.phase = "drain"
    <3> DEFINE f == IF page.pending \/ page.unsaved THEN page.phase ELSE "drained"
    <3>1. page.phase = "drain" /\ page.complete /\ Failed("other", offline, [page EXCEPT !.phase = f])
      BY <1>4, <2>2, Here DEF BatchRefused, In, DrainPhases
    <3>2. f \in Phases /\ f \notin Restarts /\ page.phase # "idle"
      BY <1>1, <3>1
    <3> HIDE DEF f
    <3>3. Continues([page EXCEPT !.phase = f], f)
      BY <3>2, RunKept
    <3> QED BY <3>1, <3>2, <3>3, FailSteps
  <2> QED BY <1>4, <2>1, <2>2 DEF BatchRefused, In
<1>5. ASSUME NEW kind \in {"user", "transient", "other"}, page.phase # "idle",
             Failed(kind, offline, AfterFailure) \/ Failed(kind, FALSE, AfterFailure)
      PROVE  EndsNext
  <2> DEFINE f == IF page.phase = "scan" THEN "over" ELSE "idle"
  <2>1. f \in Phases \ (DrainPhases \cup Restarts) /\ AfterFailure = [page EXCEPT !.phase = f]
    BY <1>1 DEF AfterFailure
  <2> HIDE DEF f
  <2>2. Continues(AfterFailure, f)
    BY <1>5, <2>1, RunKept
  <2> QED BY <1>5, <2>1, <2>2, FailSteps
<1>6. ASSUME NEW kind \in {"transient", "other"}, RunFails(kind, offline) PROVE EndsNext
  BY <1>5, <1>6 DEF RunFails, In, Reacquiring
<1>7. ASSUME LoggedOut PROVE EndsNext
  BY <1>5, <1>7 DEF LoggedOut, In, Reacquiring
<1> QED BY <1>3, <1>4, <1>6, <1>7

LEMMA PageEnds == EndsInv /\ (PageNext \/ PageFails) => EndsNext
<1>1. EndsInv /\ PageNext => EndsNext
  <2>1. ASSUME EndsInv, NEW complete \in BOOLEAN, SendCheckpoint(complete) PROVE EndsNext
    BY <2>1, CheckpointQuietSteps, ScanEndSteps
  <2> QED BY <2>1, ContextSteps, AnnounceEnds, CheckpointQuietSteps, ScanEndSteps, SilentSteps,
             DrainEnds, DoneEnds DEF PageNext
<1>2. EndsInv /\ PageFails => EndsNext
  BY CheckpointQuietSteps, SilentSteps, FailureSteps DEF PageFails
<1> QED BY <1>1, <1>2

-----------------------------------------------------------------------------
(* The tab, the timer and the operator *)

LEMMA TabEnds == EndsInv /\ (Move \/ Loaded \/ Alarm) => EndsNext
<1> SUFFICES ASSUME EndsInv, Move \/ Loaded \/ Alarm PROVE EndsNext
  OBVIOUS
<1>1. QueueOK(queue) /\ Ends(queue, page, ended, stray)
  BY Here DEF EndsInv
<1>2. CASE Move
  BY <1>1, <1>2 DEF Move, EndsNext
<1>3. CASE Loaded
  <2>1. /\ page' = NoRun \/ (page' = Started(queue) /\ queue.active # NoChannel)
        /\ UNCHANGED <<queue, ended, stray>>
    BY <1>3 DEF Loaded, Ready, Outcome
  <2> QED BY <1>1, <2>1, StartedEnds, NoRunEnds DEF EndsNext, Ends
<1>4. CASE Alarm
  <2>1. PICK due \in BOOLEAN : Order(Tick(queue, due))
    BY <1>4 DEF Alarm
  <2> QED BY <1>1, <2>1, TickOK, TickQuiet, OrderEnds
<1> QED BY <1>2, <1>3, <1>4

LEMMA CommandEnds == EndsInv /\ Commands => EndsNext
<1> SUFFICES ASSUME EndsInv, Commands PROVE EndsNext
  OBVIOUS
<1>1. QueueOK(queue)
  BY Here
<1>2. CASE Order(Pause(queue)) \/ Order(Stop(queue))
  BY <1>1, <1>2, PauseOK, StopOK, HaltQuiet, OrderEnds
<1>3. CASE Order(Skip(queue))
  BY <1>1, <1>3, SkipOK, SkipQuiet, OrderEnds
<1>4. CASE Order(Resume(queue))
  BY <1>1, <1>4, ResumeOK, ResumeQuiet, OrderEnds
<1>5. ASSUME NEW c \in queue.listed, queue.ch[c].status = "pending",
             Order(Only(RemovePending(queue, c)))
      PROVE  EndsNext
  BY <1>1, <1>5, RemoveKeeps, OnlyOK, RemoveQuiet, OrderEnds
<1> QED BY <1>2, <1>3, <1>4, <1>5 DEF Commands

(* A reset forgets the scan of its channel, and what was said of it. *)
LEMMA ResetEnds == EndsInv /\ ResetCurrent => EndsNext
<1> SUFFICES ASSUME EndsInv, ResetCurrent PROVE EndsNext
  OBVIOUS
<1> DEFINE c == queue.active
           r == [Fresh EXCEPT !.status = "opening", !.resetting = TRUE]
<1>1. QueueOK(queue) /\ queue \in Queues /\ c # NoChannel /\ c \in Channels
  BY Here, ActiveQueue DEF ResetCurrent, QueueOK
<1>2. /\ queue' = Reset(queue) \/ queue' = ResetFailed(queue)
      /\ page' = NoRun \/ page' = [page EXCEPT !.of = "reset"]
      /\ ended' = ended \ {c} /\ stray' = stray \ {c}
  BY DEF ResetCurrent
<1>3. ~Marked(r)
  BY DEF Marked, Fresh
<1>4. Reset(queue).ch[c] = r /\ \A d \in Channels \ {c} : Reset(queue).ch[d] = queue.ch[d]
  BY <1>1 DEF Reset, Queues
<1>5. Quiet(Reset(queue), queue')
  <2>1. QueueOK(Reset(queue))
    BY <1>1, ResetKeeps DEF Keeps
  <2> QED BY <1>2, <2>1, QuietEvents, QuietSelf DEF ResetFailed
<1> HIDE DEF r
<1>6. QueueEnds(queue', ended', stray')
  <2> SUFFICES ASSUME NEW d \in Channels \ stray', Marked(queue'.ch[d]) PROVE d \in ended'
    BY DEF QueueEnds
  <2>1. Marked(Reset(queue).ch[d])
    BY <1>5 DEF Quiet, Weaker, Marked
  <2>2. d # c
    BY <1>3, <1>4, <2>1
  <2>3. Marked(queue.ch[d])
    BY <1>4, <2>1, <2>2
  <2> QED BY <1>2, <2>2, <2>3 DEF EndsInv, Ends, QueueEnds
<1>7. RunEnds(page', queue', ended', stray')
  <2>1. CASE page' = NoRun
    BY <2>1, NoRunEnds
  <2>2. CASE page' = [page EXCEPT !.of = "reset"]
    <3>1. page'.of = "reset" /\ page'.complete = page.complete /\ page'.phase = page.phase
      BY <2>2, Here DEF Proper, Runs
    <3> QED BY <3>1, Here DEF RunEnds, InPhase
  <2> QED BY <1>2, <2>1, <2>2
<1> QED BY <1>6, <1>7 DEF EndsNext, Ends

(* Another queue: nothing of it is scanned, and the page runs a channel of the *)
(* one before.                                                                 *)
LEMMA ReplaceEnds ==
  ASSUME EndsInv, NEW base, NEW o, OutcomeOK(base, o), OutcomeQuiet(base, o),
         \A c \in Channels : base.ch[c] = Fresh, Replace(o)
  PROVE  EndsNext
<1>1. Commit(o, Detached) /\ ended' = {} /\ stray' = {}
  BY DEF Replace
<1>2. Proper(page) /\ page \in Runs /\ InPhase(page)
  BY Here DEF Proper
<1>3. QueueEnds(o.queue, {}, {})
  BY DEF OutcomeQuiet, Quiet, Weaker, QueueEnds, Marked, Fresh
<1> DEFINE p == Detached
<1>4. /\ Proper(p) /\ p.run = page.run /\ p.complete = page.complete /\ p.phase = page.phase
      /\ p.of = "record" => p.run = NoChannel
  <2>1. CASE page.run # NoChannel /\ page.of = "record"
    <3>1. p = [page EXCEPT !.of = "replaced"]
      BY <2>1 DEF Detached
    <3>2. Proper(p)
      BY <1>2, <3>1, DetachedRun
    <3> HIDE DEF p
    <3> QED BY <1>2, <3>1, <3>2 DEF Runs
  <2>2. CASE ~(page.run # NoChannel /\ page.of = "record")
    BY <1>2, <2>2 DEF Detached
  <2> QED BY <2>1, <2>2
<1> HIDE DEF p
<1>5. RunEnds(p, o.queue, {}, {})
  BY <1>2, <1>4, CuratorAssumption DEF RunEnds, InPhase, Proper
<1>6. Ends(queue', page', {}, {})
  BY <1>1, <1>3, <1>4, <1>5, CommitEnds DEF Ends, OutcomeOK, Keeps, OutcomeQuiet, p
<1> QED BY <1>1, <1>6 DEF EndsNext

LEMMA QueueEndsSteps ==
  EndsInv /\ (ClearQueue \/ \E items \in Inputs : Queue(items)) => EndsNext
<1> SUFFICES ASSUME EndsInv, ClearQueue \/ \E items \in Inputs : Queue(items) PROVE EndsNext
  OBVIOUS
<1>1. QueueOK(queue)
  BY Here
<1>2. CASE ClearQueue
  <2>1. OutcomeOK(Empty, Clear(queue)) /\ Replace(Clear(queue))
    BY <1>2, ClearOK DEF ClearQueue
  <2>2. OutcomeQuiet(Empty, Clear(queue))
    BY QuietSelf, OnlyQuiet DEF Clear
  <2>3. \A c \in Channels : Empty.ch[c] = Fresh
    BY DEF Empty
  <2> QED BY <2>1, <2>2, <2>3, ReplaceEnds
<1>3. CASE \E items \in Inputs : Queue(items)
  <2>1. PICK items \in Inputs : Queue(items)
    BY <1>3
  <2>2. OutcomeOK(Base(queue), Enqueue(queue, items))
        /\ OutcomeQuiet(Base(queue), Enqueue(queue, items))
    BY <1>1, EnqueueOK, EnqueueQuiet
  <2>3. CASE queue.status \in {"running", "paused"}
    <3>1. Order(Enqueue(queue, items)) /\ Base(queue) = queue
      BY <2>1, <2>3 DEF Queue, Base
    <3> QED BY <2>2, <3>1, OrderEnds
  <2>4. CASE queue.status \notin {"running", "paused"}
    <3>1. Replace(Enqueue(queue, items))
      BY <2>1, <2>4 DEF Queue
    <3>2. \A c \in Channels : Base(queue).ch[c] = Fresh
      BY <2>4 DEF Base, Empty
    <3> QED BY <2>2, <3>1, <3>2, ReplaceEnds
  <2> QED BY <2>3, <2>4
<1> QED BY <1>2, <1>3

-----------------------------------------------------------------------------
(* The theorem *)

LEMMA EndsInit == CuratorInit => EndsInv
<1> SUFFICES ASSUME CuratorInit PROVE EndsInv
  OBVIOUS
<1>1. queue = Empty /\ page = NoRun
  BY DEF CuratorInit
<1>2. QueueEnds(queue, ended, stray)
  BY <1>1 DEF QueueEnds, Marked, Empty, Fresh
<1> QED BY <1>1, <1>2, NoRunEnds, InitInv DEF EndsInv, Ends

LEMMA EndsStep == EndsInv /\ [CuratorNext]_pageVars => EndsInv'
<1> SUFFICES ASSUME EndsInv, [CuratorNext]_pageVars PROVE EndsInv'
  OBVIOUS
<1>1. CuratorInv'
  BY StepInv DEF EndsInv
<1>2. EndsNext
  <2>1. CASE PageFails \/ PageNext
    BY <2>1, PageEnds
  <2>2. CASE Move \/ Loaded \/ Alarm
    BY <2>2, TabEnds
  <2>3. CASE Operator
    BY <2>3, CommandEnds, ResetEnds, QueueEndsSteps DEF Operator
  <2>4. CASE UNCHANGED pageVars
    BY <2>4 DEF pageVars, tabVars, EndsInv, EndsNext
  <2> QED BY <2>1, <2>2, <2>3, <2>4 DEF CuratorNext
<1> QED BY <1>1, <1>2 DEF EndsInv, EndsNext, Ends, QueueEnds, RunEnds, InPhase

(* COMPLETE finishes a channel only after a scan of its own ran to its end,
   through pauses, cancelled scans, recoveries, reloads and resets, unless an
   event of another run reached its record. *)
THEOREM ScannedBeforeComplete == CuratorSpec => []CompletedScanned
<1>1. EndsInv => CompletedScanned
  <2> SUFFICES ASSUME EndsInv, NEW c \in queue.listed, queue.ch[c].status = "completed"
               PROVE  c \in ended \cup stray
    BY DEF CompletedScanned
  <2>1. c \in Channels
    BY QueueFields DEF EndsInv, CuratorInv, QueueOK
  <2> QED BY <2>1 DEF EndsInv, Ends, QueueEnds, Marked
<1> QED BY <1>1, EndsInit, EndsStep, PTL DEF CuratorSpec

=============================================================================
