---------------------------- MODULE CuratorPage ----------------------------
(***************************************************************************)
(* The queue of module Curator at work on one tab: the content script that *)
(* runs the active channel (extension/content/content.js), the navigation  *)
(* of the tab, the timer and the operator (background.js, panel.js).       *)
(*                                                                         *)
(* An event of a page carries no channel: the service worker applies it to *)
(* whatever channel is active when it arrives.  A page keeps running until *)
(* the navigation that replaces it commits, so it can still send events    *)
(* after the operator skipped its channel or the queue moved on.  The page *)
(* awaits each message, so each is a step of its own and anything may come *)
(* between two.  Events that change nothing of Curator's record (progress, *)
(* counters, enrichment, capacity back to normal) are left out.            *)
(***************************************************************************)
EXTENDS Curator

CONSTANTS
  Inputs,           \* the lists of channels the operator may enter
  MaxCommands,      \* commands of the operator (bound)
  MaxTrouble        \* failures of a run, reloads of the tab, links followed in
                    \* it and navigations it refuses (bound)

ASSUME CuratorPageAssumption ==
  /\ Inputs \subseteq {s \in Seq(Channels) :
                         s # <<>> /\ \A i, j \in DOMAIN s : s[i] = s[j] => i = j}
  /\ {MaxCommands, MaxTrouble} \subseteq Nat

VARIABLES
  queue,      \* chrome.storage
  page,       \* the run of the content script: `auto` and where it is
  shown,      \* the profile the tab shows
  loading,    \* the profile it is navigating to
  refusing,   \* chrome.tabs.update will reject the next navigation
  spent       \* commands, and failures and moves, so far

(* What the properties observe; nothing the code decides depends on it. *)
VARIABLES
  failures,   \* local failures of the active channel since its pass began or
              \* its last checkpoint was saved
  ended,      \* channels whose own scan ran to its end
  stray       \* channels whose record an event of another run, or of a run from
              \* before its reset, said was scanned, draining or complete

tabVars == <<queue, page, shown, loading, refusing>>
pageVars == <<tabVars, spent, failures, ended, stray>>

Phases ==
  {"idle",                        \* nothing is sent before the next message
   "context", "mismatch", "restoring", "restarting",
   "scan", "saving", "rejected", "reopening",
   "over",                        \* the scan failed or was cancelled
   "drain", "batch", "handoff", "acquiring", "resolved", "drained"}

Runs ==
  [run : Channels \cup {NoChannel},
   phase : Phases,
   of : {"record",        \* the record of its channel is still the one it runs
         "replaced",      \* that queue was replaced or emptied
         "reset"},        \* `auto` is null, what was sent is still applied
   paused : BOOLEAN,      \* auto.paused
   cancelled : BOOLEAN,   \* SCAN_CANCEL was posted
   complete : BOOLEAN,    \* auto.discoveryComplete
   recovery : BOOLEAN,    \* auto.recovery: the drain of an earlier page
   rediscover : BOOLEAN,  \* auto.discoveryRecovery
   pending : BOOLEAN,     \* auto.pendingFinal is not empty
   unsaved : BOOLEAN,     \* auto.pendingCheckpoints is not empty
   finished : BOOLEAN]    \* auto.finished

NoRun == [run |-> NoChannel, phase |-> "idle", of |-> "record", paused |-> FALSE,
          cancelled |-> FALSE, complete |-> FALSE, recovery |-> FALSE, rediscover |-> FALSE,
          pending |-> FALSE, unsaved |-> FALSE, finished |-> FALSE]

CuratorTypeOK ==
  /\ queue \in Queues
  /\ page \in Runs
  /\ {shown, loading} \subseteq Channels \cup {NoChannel}
  /\ refusing \in BOOLEAN
  /\ spent \in [commands : 0..MaxCommands, trouble : 0..MaxTrouble]
  /\ failures \in 0..RetryMax + 1
  /\ ended \subseteq Channels /\ stray \subseteq Channels

(* runAuto: what the page is told of the channel it opens. *)
Started(q) ==
  LET r == Current(q)
      drain == r.scanned \/ r.pendingFinal
  IN [NoRun EXCEPT !.run = q.active, !.phase = "context", !.complete = drain,
                   !.recovery = drain, !.rediscover = r.recovering, !.pending = r.pendingFinal]

(* AUTO_PAUSE cancels a scan that runs, and nothing that is before it. *)
Halted(p) ==
  IF p.run = NoChannel THEN p
  ELSE [p EXCEPT !.paused = TRUE,
                 !.cancelled = @ \/ p.phase \in {"scan", "saving", "rejected"},
                 !.phase = IF @ = "reopening" THEN "idle" ELSE @]

(* The outcome is saved and the tab is told: the page stops, then the tab runs
   the active channel if it shows it (tabs.ensure) and else goes there, unless
   the browser refuses. *)
Commit(o, p) ==
  LET here == o.open /\ shown = o.queue.active
      away == o.open /\ ~here
  IN /\ queue' = IF away /\ refusing THEN o.refused ELSE o.queue
     /\ page' = IF here THEN Started(o.queue) ELSE IF o.stop THEN Halted(p) ELSE p
     /\ loading' = IF away /\ ~refusing THEN o.queue.active ELSE loading
     /\ refusing' = (refusing /\ ~away)
     /\ UNCHANGED shown

(* failures is n while the same pass of the same channel goes on. *)
Tally(n) ==
  LET c == queue.active
  IN  failures' = IF c # NoChannel /\ queue'.active = c /\ queue'.ch[c].passed = queue.ch[c].passed
                  THEN n ELSE 0

(* Own: the event of the page is about the active channel and its record. *)
Own == page.of = "record" /\ page.run = queue.active

Says(r) == <<r.scanned, r.pendingFinal, r.status = "completed">>
Strayed(q) ==
  LET c == queue.active
  IN  IF c # NoChannel /\ ~Own /\ Says(q.ch[c]) # Says(queue.ch[c]) THEN {c} ELSE {}

(* One event of the page: a page that was reset sends no other. *)
Post(o, p) ==
  /\ Commit(o, IF page.of = "reset" THEN NoRun ELSE p)
  /\ stray' = stray \cup Strayed(o.queue)

Sends(q, p) == Post(Only(q), p) /\ Tally(failures) /\ UNCHANGED ended
Goes(q, phase) == Sends(q, [page EXCEPT !.phase = phase])
-----------------------------------------------------------------------------
(* The page: from the profile to the scan *)

In(phases) == page.phase \in phases
Confirmed == In({"context"}) /\ shown = page.run

(* The scan of a recovered channel is announced by two more events. *)
Restore ==
  \/ Confirmed /\ ~page.complete /\ page.rediscover /\ Goes(RecoveryState(queue, TRUE), "restoring")
  \/ In({"restoring"}) /\ Goes(RecoveryState(queue, TRUE), "restarting")

Announce ==
  /\ (Confirmed /\ ~page.complete /\ ~page.rediscover) \/ In({"restarting"})
  /\ Post(Only(Scanning(queue)), [page EXCEPT !.phase = "scan", !.cancelled = FALSE])
  /\ ended' = IF Own THEN ended \ {page.run} ELSE ended
  /\ Tally(failures)

(* recoverFinalDrain: the drain an earlier page began goes on. *)
RejoinDrain == Confirmed /\ page.complete /\ Goes(FinalDrain(queue), "drain")

(* The page shows another profile than its channel's. *)
Mismatch ==
  \/ In({"context"}) /\ shown # page.run /\ Goes(RecoveryState(queue, FALSE), "mismatch")
  \/ /\ In({"mismatch"})
     /\ LET q == Reopen(queue)
            open == q.status = "running" /\ q.active # NoChannel
                      /\ Current(q).status \in {"opening", "recovering"}
        IN  Post(Outcome(q, open, FALSE), [page EXCEPT !.phase = "idle"])
     /\ Tally(failures) /\ UNCHANGED ended
-----------------------------------------------------------------------------
(* The page: the scan.  A scan that was cancelled ends without a word, or with
   the one message that was already on its way. *)

Resumed == IF page.cancelled THEN "over" ELSE "scan"

ScanEnds == ended' = IF page.of = "record" THEN ended \cup {page.run} ELSE ended

(* checkpointAuto: the checkpoint is durable in the browser, then posted. *)
SendCheckpoint(complete) ==
  /\ In({"scan"})
  /\ Post(Only(Checkpoint(queue, complete)), [page EXCEPT !.phase = "saving"])
  /\ IF complete THEN ScanEnds ELSE UNCHANGED ended
  /\ Tally(failures)

CheckpointStored ==
  /\ In({"saving"})
  /\ Post(Only(CheckpointSaved(queue)), [page EXCEPT !.phase = Resumed])
  /\ Tally(0) /\ UNCHANGED ended

BackendUnavailable ==
  \/ In({"saving"}) /\ Sends(Capacity(queue), [page EXCEPT !.phase = Resumed, !.unsaved = TRUE])
  \/ In({"scan", "over", "drain"}) /\ Sends(Capacity(queue), page)

(* A batch is reserved while the scan goes on, and its media acquired. *)
BatchReserved ==
  /\ In({"scan", "saving", "rejected", "reopening", "over", "drain"}) /\ ~page.recovery
  /\ Sends(Pending(queue, FALSE), page) \/ Sends(Interleaving(queue), page)

DiscoveryDone ==
  /\ In({"scan"})
  /\ Post(Only(Draining(queue)), [page EXCEPT !.phase = "drain", !.complete = TRUE])
  /\ ScanEnds /\ Tally(failures)
-----------------------------------------------------------------------------
(* The page: the drain *)

(* Checkpoints the backend did not take during the scan go first. *)
FlushCheckpoint ==
  /\ In({"drain"}) /\ page.unsaved
  /\ Post(Only(CheckpointSaved(queue)), [page EXCEPT !.unsaved = FALSE])
  /\ Tally(0) /\ UNCHANGED ended

(* The drain is announced again: by each recoverFinalDrain, and by a batch that
   was reserved before the scan ended. *)
DrainGoesOn ==
  /\ In({"drain"})
  /\ Goes(FinalDrain(queue), "drain") \/ Goes(Draining(queue), "drain")

(* requestAutoBatch(final): candidates to acquire, or none left. *)
FinalBatch ==
  /\ In({"drain"}) /\ ~page.unsaved
  /\ \E left \in BOOLEAN :
       Sends(Pending(queue, left),
             [page EXCEPT !.phase = IF left THEN "batch" ELSE "drained", !.pending = left])

(* The batch is handed off; a recovered one after its media are found again. *)
HandOff ==
  \/ In({"batch"}) /\ page.recovery /\ Goes(FinalDrain(queue), "batch")
  \/ In({"batch"}) /\ Goes(Interleaving(queue), "handoff")
  \/ In({"handoff"}) /\ Goes(FinalDrain(queue), "acquiring")

(* A candidate is accepted or given back: one of several, or the last one.  A
   page that was paused asks for no more. *)
BatchResolved ==
  \/ In({"acquiring"}) /\ Goes(Pending(queue, TRUE), "acquiring")
  \/ /\ In({"acquiring"})
     /\ Sends(Pending(queue, FALSE),
              [page EXCEPT !.phase = IF page.paused THEN "idle" ELSE "resolved", !.pending = FALSE])
  \/ In({"resolved"}) /\ Goes(Draining(queue), IF page.finished THEN "idle" ELSE "drain")

(* COMPLETE.  A drain that no earlier page began asks for a batch and sends it
   again: the `finally` of requestAutoBatch has called drainAuto once more. *)
DrainDone ==
  /\ In({"drained"})
  /\ LET q == Complete(queue)
     IN  Post(IF q.status = "running" THEN Tick(q, FALSE) ELSE Only(q),
              [page EXCEPT !.phase = IF page.recovery \/ page.finished THEN "idle" ELSE "drain",
                           !.finished = TRUE])
  /\ Tally(failures) /\ UNCHANGED ended
-----------------------------------------------------------------------------
(* The page: what fails *)

Failed(kind, offline, p) ==
  /\ Post(HandleFailure(queue, kind, offline), p)
  /\ Tally(IF kind = "transient" /\ ~offline /\ failures <= RetryMax THEN failures + 1 ELSE failures)
  /\ UNCHANGED ended

(* MEDIA_REACQUIRE: a drain resumes with finding its media again. *)
Reacquiring == In({"batch"}) /\ page.recovery
AfterFailure == [page EXCEPT !.phase = IF @ = "scan" THEN "over" ELSE "idle"]

RunFails(kind, offline) == (In({"scan"}) \/ Reacquiring) /\ Failed(kind, offline, AfterFailure)

(* The backend refuses a batch: an error, though the run goes on; a refused
   final batch even goes on to COMPLETE. *)
BatchRefused(offline) ==
  \/ In({"scan", "over"}) /\ Failed("other", offline, page)
  \/ In({"drain"})
     /\ Failed("other", offline,
               [page EXCEPT !.phase = IF page.pending \/ page.unsaved THEN @ ELSE "drained"])

(* A refused checkpoint is an error, and the scan it stops another one. *)
CheckpointRefused(offline) ==
  \/ In({"saving"}) /\ Failed("other", offline, [page EXCEPT !.phase = "rejected"])
  \/ In({"rejected"}) /\ Failed("transient", offline, [page EXCEPT !.phase = "over"])

LoggedOut == (In({"context", "scan"}) \/ Reacquiring) /\ Failed("user", FALSE, AfterFailure)

Silent(p) == page' = p /\ UNCHANGED <<queue, shown, loading, refusing, failures, ended, stray>>

(* DIRECT_TARGET_MISSING: the context is asked for again, a second later. *)
TargetMissing == In({"scan"}) /\ Silent([page EXCEPT !.phase = "reopening"])
AskAgain == In({"reopening"}) /\ Silent([page EXCEPT !.phase = "context"])

Cancelled == In({"scan"}) /\ page.cancelled /\ Silent([page EXCEPT !.phase = "over"])

PageNext ==
  \/ Restore \/ Announce \/ RejoinDrain \/ Mismatch
  \/ CheckpointStored \/ BatchReserved \/ DiscoveryDone \/ AskAgain \/ Cancelled
  \/ DrainGoesOn \/ FlushCheckpoint \/ FinalBatch \/ HandOff \/ BatchResolved \/ DrainDone
  \/ \E complete \in BOOLEAN : SendCheckpoint(complete)

PageFails ==
  /\ spent.trouble < MaxTrouble /\ spent' = [spent EXCEPT !.trouble = @ + 1]
  /\ \/ BackendUnavailable \/ LoggedOut \/ TargetMissing
     \/ \E offline \in BOOLEAN :
          CheckpointRefused(offline) \/ BatchRefused(offline) \/ \E kind \in {"transient", "other"} : RunFails(kind, offline)
-----------------------------------------------------------------------------
(* The tab *)

(* A navigation commits: the old page is gone, the new one reports READY. *)
Loaded ==
  /\ loading # NoChannel
  /\ LET o == Ready(queue)
         here == o.open /\ loading = queue.active
         away == o.open /\ ~here
     IN /\ shown' = loading
        /\ page' = IF here THEN Started(queue) ELSE NoRun
        /\ loading' = IF away /\ ~refusing THEN queue.active ELSE NoChannel
        /\ refusing' = (refusing /\ ~away)
  /\ UNCHANGED <<queue, failures, ended, stray>>

(* The user reloads the tab, or follows a link inside the TikTok application,
   which the content script survives; the browser will refuse a navigation. *)
Reload == loading' = shown /\ shown # NoChannel /\ UNCHANGED <<shown, refusing>>
Browse == \E c \in Channels : shown' = c /\ UNCHANGED <<loading, refusing>>
Refuse == ~refusing /\ refusing' = TRUE /\ UNCHANGED <<shown, loading>>

Move ==
  /\ spent.trouble < MaxTrouble /\ spent' = [spent EXCEPT !.trouble = @ + 1]
  /\ Reload \/ Browse \/ Refuse
  /\ UNCHANGED <<queue, page, failures, ended, stray>>
-----------------------------------------------------------------------------
(* The timer and the operator *)

Order(o) == Commit(o, page) /\ Tally(failures) /\ UNCHANGED <<ended, stray>>

Alarm == \E due \in BOOLEAN : Order(Tick(queue, due))

Commands ==
  \/ Order(Pause(queue)) \/ Order(Stop(queue)) \/ Order(Skip(queue)) \/ Order(Resume(queue))
  \/ \E c \in queue.listed :
       queue.ch[c].status = "pending" /\ Order(Only(RemovePending(queue, c)))

(* resetCurrent navigates even when the tab shows the channel.  The page drops
   its run, but may have sent an event that is applied after the reset; all
   other operations wait for it (exclusive), so it is one step. *)
ResetCurrent ==
  /\ queue.active # NoChannel /\ ~Current(queue).resetting
  /\ queue' = IF refusing THEN ResetFailed(queue) ELSE Reset(queue)
  /\ page' \in {NoRun} \cup (IF page.run = NoChannel THEN {} ELSE {[page EXCEPT !.of = "reset"]})
  /\ loading' = IF refusing THEN loading ELSE queue.active
  /\ refusing' = FALSE /\ UNCHANGED shown
  /\ failures' = 0 /\ ended' = ended \ {queue.active} /\ stray' = stray \ {queue.active}

(* Another queue: the page runs a channel of the one before. *)
Detached == IF page.run # NoChannel /\ page.of = "record" THEN [page EXCEPT !.of = "replaced"] ELSE page

Replace(o) == Commit(o, Detached) /\ failures' = 0 /\ ended' = {} /\ stray' = {}

(* The panel offers Clear only when the queue is neither running nor paused. *)
Queue(items) ==
  IF queue.status \in {"running", "paused"} THEN Order(Enqueue(queue, items))
  ELSE Replace(Enqueue(queue, items))

ClearQueue == queue.status \notin {"running", "paused"} /\ Replace(Clear(queue))

Operator ==
  /\ spent.commands < MaxCommands /\ spent' = [spent EXCEPT !.commands = @ + 1]
  /\ Commands \/ ResetCurrent \/ ClearQueue \/ \E items \in Inputs : Queue(items)

CuratorInit ==
  /\ queue = Empty /\ page = NoRun
  /\ shown = NoChannel /\ loading = NoChannel /\ refusing = FALSE
  /\ spent = [commands |-> 0, trouble |-> 0]
  /\ failures = 0 /\ ended = {} /\ stray = {}

CuratorNext ==
  \/ PageFails \/ Move \/ Operator
  \/ (PageNext \/ Loaded \/ Alarm) /\ UNCHANGED spent

CuratorSpec == CuratorInit /\ [][CuratorNext]_pageVars
-----------------------------------------------------------------------------
(* Properties *)

(* One channel at a time: every channel but the active one is waiting,
   deferred or finished, and the active one is listed and none of these,
   whatever events of an earlier page, commands and retries come in between. *)
OneInFlight ==
  \A c \in queue.listed :
    queue.ch[c].status \in Finished \cup {"pending", "deferred"} <=> c # queue.active

(* A completed or skipped channel is never touched again: no late event, retry
   or reset runs it once more; only a new queue or an emptied one forgets it. *)
Replaced ==
  queue.status \notin {"running", "paused"} /\ (ClearQueue \/ \E items \in Inputs : Queue(items))

FinishedStays ==
  [][\A c \in queue.listed :
       queue.ch[c].status \in Finished => queue'.ch[c] = queue.ch[c] \/ Replaced]_pageVars

(* A channel completes only after a scan of its own reached its end: pauses,
   cancelled scans, recoveries, reloads, refused navigations and resets never
   make it complete on what was found so far.  The exception is a record that
   an event of another run reached: the COMPLETE a page repeats (content.js:37,
   40) finishes the next channel unscanned, against extension/README.md:13-17. *)
CompletedScanned ==
  \A c \in queue.listed : queue.ch[c].status = "completed" => c \in ended \cup stray

(* The queue reports itself completed only when each channel finished or has
   had its one more try. *)
CompletedQueue ==
  queue.status = "completed" =>
    \A c \in queue.listed :
      queue.ch[c].status \in Finished \/ (queue.ch[c].status = "deferred" /\ queue.ch[c].passed)

(* auto-curator.test.cjs:44: repeated local failures defer a channel, the first
   one past AUTO_RETRY_MAX does.  Counted in one pass of one channel, and from
   its last saved checkpoint, so that no channel with more is still active. *)
RetriesBounded == failures <= RetryMax

=============================================================================
