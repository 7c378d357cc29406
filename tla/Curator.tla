------------------------------ MODULE Curator ------------------------------
(***************************************************************************)
(* The unattended queue of the browser extension                           *)
(* (extension/lib/auto-curator.js): the record the service worker keeps in *)
(* chrome.storage, its commands, its timer, and what each event of a page  *)
(* does to it.  Every operation loads the record, works on it and saves it *)
(* in one link of the `exclusive` chain, so it is an operator from queue   *)
(* to outcome here; module CuratorPage runs them against a tab.            *)
(*                                                                         *)
(* The statuses checkpointing and interleaving are treated like scanning   *)
(* everywhere and count as it; acquiring, waiting, scan_complete,          *)
(* exhausted and terminal need events no page of this version sends.  Of   *)
(* the counters, cursors and diagnostics only what a decision reads is     *)
(* kept.                                                                   *)
(***************************************************************************)
EXTENDS Naturals, Sequences, FiniteSets

CONSTANTS
  Channels, NoChannel,
  RetryMax,         \* AUTO_RETRY_MAX
  NavLimit          \* navigations before NAVIGATION_TARGET_MISMATCH

ASSUME CuratorAssumption ==
  /\ IsFiniteSet(Channels) /\ NoChannel \notin Channels
  /\ RetryMax \in Nat \ {0} /\ NavLimit \in Nat \ {0}

Finished == {"completed", "skipped"}
InProgress == {"opening", "recovering", "scanning", "draining"}

Record ==
  [status : {"pending", "deferred", "paused", "error", "needs_user"}
              \cup Finished \cup InProgress,
   scanned : BOOLEAN,           \* scan_complete
   pendingFinal : BOOLEAN,      \* pending_final > 0
   error : {"none", "transient", "other"}, \* last_error, by recoverableDiscoveryErrors
   retries : 0..RetryMax,       \* auto_retry_attempt
   retryAt : BOOLEAN,           \* auto_retry_next_at is set
   recovering : BOOLEAN,        \* recovery_state is not idle
   nav : 0..NavLimit + 1,       \* navigation_attempts
   pass : BOOLEAN,              \* deferred_retry_pass_active
   passed : BOOLEAN,            \* deferred_retry_passed
   resetting : BOOLEAN]         \* reset_recovery_state is in resetInProgress

(* channelRecord: a channel that was just queued. *)
Fresh ==
  [status |-> "pending", scanned |-> FALSE, pendingFinal |-> FALSE, error |-> "none",
   retries |-> 0, retryAt |-> FALSE, recovering |-> FALSE, nav |-> 0,
   pass |-> FALSE, passed |-> FALSE, resetting |-> FALSE]

Queues ==
  [status : {"idle", "running", "paused", "stopped", "completed", "needs_user"},
   active : Channels \cup {NoChannel},     \* active_channel_id
   listed : SUBSET Channels,               \* the array `channels`, as a set
   ahead : SUBSET (Channels \X Channels),  \* and as pairs in its order
   ch : [Channels -> Record]]              \* Fresh when not listed

Empty == [status |-> "idle", active |-> NoChannel, listed |-> {}, ahead |-> {},
          ch |-> [c \in Channels |-> Fresh]]

(* channels.find: the first listed channel that is in S. *)
Find(q, S) ==
  LET hits == q.listed \cap S
  IN  IF hits = {} THEN NoChannel
      ELSE CHOOSE c \in hits : \A d \in hits \ {c} : <<c, d>> \in q.ahead

Waiting(q) == {c \in Channels : q.ch[c].status = "pending"}
Deferred(q) == {c \in Channels : q.ch[c].status = "deferred"}
Unpassed(q) == {c \in Deferred(q) : ~q.ch[c].passed}

Current(q) == q.ch[q.active]

(* `update` of transition: no active channel, no effect. *)
Update(q, r) == IF q.active = NoChannel THEN q ELSE [q EXCEPT !.ch[q.active] = r]
SetStatus(q, s) == Update(q, [Current(q) EXCEPT !.status = s])
-----------------------------------------------------------------------------
(* transition: one event applied to the record, whatever page it is from. *)

Scanning(q) ==
  Update(q, [Current(q) EXCEPT !.status = "scanning", !.scanned = FALSE, !.error = "none",
                               !.retries = 0, !.retryAt = FALSE, !.nav = 0])

Checkpoint(q, complete) ==
  Update(q, [Current(q) EXCEPT !.status = "scanning", !.scanned = complete])

DrainingOrScanning(q) == SetStatus(q, IF Current(q).scanned THEN "draining" ELSE "scanning")
CheckpointSaved(q) == DrainingOrScanning(q)
Interleaving(q) == DrainingOrScanning(q)

Capacity(q) ==
  SetStatus(q, IF Current(q).scanned THEN "draining" ELSE Current(q).status)

Pending(q, final) == Update(q, [Current(q) EXCEPT !.pendingFinal = final])

Draining(q) == Update(q, [Current(q) EXCEPT !.status = "draining", !.scanned = TRUE])

FinalDrain(q) ==
  Update(q, [Current(q) EXCEPT !.status = "draining", !.scanned = TRUE, !.error = "none"])

RecoveryState(q, clear) ==
  [Update(q, [Current(q) EXCEPT !.status = "recovering", !.recovering = TRUE,
                                !.error = IF clear THEN "none" ELSE @])
     EXCEPT !.status = "running"]

(* A page on the wrong profile is sent to the right one, NavLimit times. *)
Reopen(q) ==
  IF q.active # NoChannel /\ Current(q).nav >= NavLimit
  THEN [Update(q, [Current(q) EXCEPT !.status = "error", !.error = "other", !.nav = NavLimit + 1])
          EXCEPT !.status = "paused"]
  ELSE [Update(q, [Current(q) EXCEPT
                     !.status = IF Current(q).recovering THEN "recovering" ELSE "opening",
                     !.error = "none", !.nav = @ + 1])
          EXCEPT !.status = "running"]

NeedsUser(q) ==
  [Update(q, [Current(q) EXCEPT !.status = "needs_user", !.error = "other",
                                !.recovering = @ \/ ~Current(q).scanned])
     EXCEPT !.status = "needs_user"]

Error(q) ==
  [Update(q, [Current(q) EXCEPT !.status = "error", !.error = "other", !.resetting = FALSE])
     EXCEPT !.status = "paused"]

(* Mutant: COMPLETE keeps the channel active. *)
FaultyKeepActive(q) ==
  IF q.active = NoChannel \/ (Current(q).scanned /\ Current(q).pendingFinal)
  THEN q ELSE SetStatus(q, "completed")

(* A drain that still has candidates is not complete. *)
Complete(q) ==
  IF q.active = NoChannel \/ (Current(q).scanned /\ Current(q).pendingFinal)
  THEN q ELSE [SetStatus(q, "completed") EXCEPT !.active = NoChannel]
-----------------------------------------------------------------------------
(* Operations: the saved queue, what the tab is told, and what is left in
   storage when the tab refuses to go to the active channel.  Most operations
   have saved the queue before they open the channel and save nothing after. *)

Outcome(q, open, stop) == [queue |-> q, refused |-> q, open |-> open, stop |-> stop]
Only(q) == Outcome(q, FALSE, FALSE)

Recovering(q, status, error, queueStatus) ==
  [Update(q, [Current(q) EXCEPT !.status = status, !.error = error, !.recovering = TRUE])
     EXCEPT !.status = queueStatus]

(* recoverDiscovery: stop the page, then open the active channel again; if that
   fails the queue waits for the operator (DIRECT_INTERNAL). *)
Recover(q) ==
  [queue |-> Recovering(q, "recovering", "none", "running"),
   refused |-> Recovering(q, "error", "other", "paused"), open |-> TRUE, stop |-> TRUE]

(* Mutant: deferred channels get no second try. *)
FaultyAdvance(q) ==
  LET pending == Find(q, Waiting(q))
  IN  IF pending # NoChannel
      THEN Outcome([q EXCEPT !.active = pending, !.ch[pending].status = "opening"], TRUE, FALSE)
      ELSE Only([q EXCEPT !.status = "completed"])

(* tick without an active channel: the next pending one, then one more try of
   each deferred one, then the queue is complete. *)
Advance(q) ==
  LET pending == Find(q, Waiting(q))
      deferred == Find(q, Unpassed(q))
  IN  IF pending # NoChannel
      THEN Outcome([q EXCEPT !.active = pending, !.ch[pending].status = "opening"], TRUE, FALSE)
      ELSE IF deferred # NoChannel
      THEN Recover([q EXCEPT !.active = deferred, !.ch[deferred].pass = TRUE,
                             !.ch[deferred].passed = TRUE, !.ch[deferred].retryAt = FALSE])
      ELSE Only([q EXCEPT !.status = "completed"])

(* tick with an active channel, its backoff over or not. *)
Retry(q, due) ==
  IF Current(q).status # "recovering" THEN Only(q)
  ELSE IF ~Current(q).retryAt THEN Outcome(q, TRUE, FALSE)
  ELSE IF due THEN Recover([q EXCEPT !.ch[q.active].retryAt = FALSE])
  ELSE Only(q)

Tick(q, due) ==
  IF q.status # "running" THEN Only(q)
  ELSE IF q.active = NoChannel THEN Advance(q) ELSE Retry(q, due)

(* Mutant: the deferred channel stays active. *)
FaultyDefer(q, kind) ==
  Tick(Update(q, [Current(q) EXCEPT !.status = "deferred", !.error = kind,
                                    !.pass = FALSE, !.retryAt = FALSE]), FALSE)

(* The active channel waits at the end of the queue; the next one opens. *)
Defer(q, kind) ==
  Tick([Update(q, [Current(q) EXCEPT !.status = "deferred", !.error = kind,
                                     !.pass = FALSE, !.retryAt = FALSE])
          EXCEPT !.active = NoChannel], FALSE)

(* Mutant: attempts are counted past AUTO_RETRY_MAX while the browser is offline. *)
FaultyHandleFailure(q, kind, offline) ==
  IF q.active = NoChannel THEN Only(q)
  ELSE IF kind = "user" THEN Outcome(NeedsUser(q), FALSE, TRUE)
  ELSE IF kind = "other" /\ ~offline THEN Only(Error(q))
  ELSE IF Current(q).pass \/ ~(offline \/ Current(q).retries < RetryMax) THEN Defer(q, kind)
  ELSE Only(Update(q, [Current(q) EXCEPT
         !.status = "recovering", !.error = kind, !.recovering = TRUE,
         !.retries = @ + 1, !.retryAt = TRUE]))

(* handleFailure: kind "user" needs the operator, a transient failure or any
   failure of a browser that is offline is retried later. *)
HandleFailure(q, kind, offline) ==
  IF q.active = NoChannel THEN Only(q)
  ELSE IF kind = "user" THEN Outcome(NeedsUser(q), FALSE, TRUE)
  ELSE IF kind = "other" /\ ~offline THEN Only(Error(q))
  ELSE IF Current(q).pass \/ ~(offline \/ Current(q).retries < RetryMax) THEN Defer(q, kind)
  ELSE Only(Update(q, [Current(q) EXCEPT
         !.status = "recovering", !.error = kind, !.recovering = TRUE,
         !.retries = IF @ < RetryMax THEN @ + 1 ELSE @, !.retryAt = TRUE]))

(* The channels of an input and their order; normalize drops repetitions. *)
Entered(items) == {items[i] : i \in DOMAIN items}
InOrder(items) ==
  {p \in Entered(items) \X Entered(items) :
     \E i, j \in DOMAIN items : i < j /\ p = <<items[i], items[j]>>}

(* Channels that are not known yet go to the end of the list. *)
Appended(q, items) ==
  LET new == Entered(items) \ q.listed
  IN  [q EXCEPT !.listed = @ \cup new,
                !.ahead = @ \cup (q.listed \X new) \cup (InOrder(items) \cap (new \X new))]

(* enqueue: a queue at work grows, any other is replaced. *)
Enqueue(q, items) ==
  Tick(Appended(IF q.status \in {"running", "paused"} THEN q
                ELSE [Empty EXCEPT !.status = "running"], items), FALSE)

Pause(q) ==
  LET halted == q.active # NoChannel /\ Current(q).status \notin Finished \cup {"error", "needs_user"}
      next == IF halted THEN SetStatus(q, "paused") ELSE q
  IN  Outcome([next EXCEPT !.status = "paused"], FALSE, TRUE)

Stop(q) == Outcome([q EXCEPT !.status = "stopped"], FALSE, TRUE)

Skip(q) ==
  LET next == [SetStatus(q, "skipped") EXCEPT !.active = NoChannel]
  IN  IF next.status = "running" THEN Tick(next, FALSE) ELSE Only(next)

Clear(q) == Outcome(Empty, FALSE, TRUE)

RemovePending(q, c) ==
  [q EXCEPT !.listed = @ \ {c}, !.ahead = {p \in @ : c \notin {p[1], p[2]}}]

CanRecover(r) == r.status \in {"error", "deferred", "recovering"} /\ r.error = "transient"

HasDrain(r) == r.scanned /\ r.pendingFinal

(* The RESUME transition and the reopening that follows it. *)
Restart(q) ==
  LET asked == q.status = "needs_user" /\ q.active # NoChannel
      again == q.active # NoChannel /\ (asked \/ Current(q).status \in {"paused", "needs_user"})
      reopened == IF again THEN Update(q, [Current(q) EXCEPT !.status = "opening", !.error = "none"])
                  ELSE q
      next == IF asked \/ q.status \in {"paused", "stopped"}
              THEN [reopened EXCEPT !.status = "running"] ELSE q
  IN  Outcome(next, next.status = "running" /\ next.active # NoChannel
                      /\ (Current(next).status \in {"opening", "recovering"}
                           \/ HasDrain(Current(next))), FALSE)

(* resume: a finished queue goes back to its first deferred channel. *)
Resume(q) ==
  LET deferred == Find(q, Deferred(q))
      back == q.active = NoChannel /\ q.status = "completed" /\ deferred # NoChannel
      p == IF ~back THEN q
           ELSE [q EXCEPT !.status = "running", !.active = deferred,
                          !.ch[deferred].status = "error", !.ch[deferred].pass = FALSE]
  IN  IF p.active # NoChannel /\ CanRecover(Current(p)) THEN Recover(p) ELSE Restart(p)

(* Mutant: the end of the earlier scan survives the reset. *)
FaultyReset(q) ==
  [q EXCEPT !.status = "running",
            !.ch[q.active] = [Fresh EXCEPT !.status = "opening", !.resetting = TRUE,
                                           !.scanned = Current(q).scanned]]

(* resetCurrent: the active channel starts from nothing. *)
Reset(q) ==
  [q EXCEPT !.status = "running",
            !.ch[q.active] = [Fresh EXCEPT !.status = "opening", !.resetting = TRUE]]

(* RESET_CURRENT_FAILED: the tab refuses to go to the channel. *)
ResetFailed(q) == Error(Reset(q))

(* ready: a page of the tab has loaded. *)
Ready(q) ==
  Outcome(q, q.status = "running" /\ q.active # NoChannel
               /\ (Current(q).status \in InProgress \ {"draining"} \/ HasDrain(Current(q))), FALSE)

=============================================================================
