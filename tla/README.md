# Verification of Kurukin Intelligence

This directory holds TLA+ models of the program in `src/`, the TLC
configurations that check them and TLAPS proofs about them. The models follow
the code; where a document or a comment says something else, a run shows the
difference (see *Findings*).

## 1. The system

A browser extension scans TikTok profiles, sends metadata to a FastAPI backend,
downloads the audio of the videos the backend asks for and uploads it. The
backend keeps one global corpus in PostgreSQL; RabbitMQ distributes
transcription work to Whisper workers; an admin application imports and exports
what was learned.

| Component | Source (`src/backend/app/` unless named) | State | Operations |
|---|---|---|---|
| Corpus rows | `models.py` | `videos`, `transcription_jobs` (one per video), `transcripts`, `analysis_acquisitions` | written by everything below |
| Reservation | `services.py` `acquisition_batch`, `reserve_for_analysis`, `claim_video` | lease and owner of a video, job `reserved` | reserve a batch, expire, cool down |
| Upload and release | `jobs.py` `receive_audio`, `release_reserved_acquisition` | job row, WAV file or object | store durable audio, give a reservation back |
| Publication | `jobs.py` `enqueue`, `queue.py` | `queued_at`, queue `transcription.v1` | publish with confirm |
| Maintenance | `maintenance.py`, `jobs.py` `requeue_pending_jobs`, `cleanup_audio` | none | recover, expire, republish, delete audio |
| Worker | `workers/whisper.py` | delivery, executor queue, advisory lock, attempt | transcribe, skip, fail, clean up, ACK/NACK |
| Storage | `audio_storage.py` | files of the inbox or MinIO objects | put, materialize, delete, list |
| Whisper child | `whisper.py` | child process, pipe | transcribe with timeout, restart |
| Validation, YAMNet | `audio.py`, `yamnet.py` | none | verdicts about bytes |
| Selection | `services.py`, `ranking.py` | snapshots, `analysis_acquisitions`, counters of a scan | checkpoint, rank, budget, choose and reserve |
| Scan ingest | `services.py` `resolve_channel`, `create_analysis` | channels, analyses, snapshots | find the channel, consolidate, count |
| Historical import | `admin.py` `import_confirm` | pending tokens, `transcripts` | dry run, confirm |
| Channel intelligence | `admin.py`, `*_contract.py`, `knowledge_engine.py` | analyses, per-video halves, pending tokens, packs | import, incremental update, content packs |
| Strategist | `strategist.py`, `admin.py` | playbooks, strategies, requests at a provider | cache, generate, store |
| Viral DNA | `viral_dna.py`, `src/backend/ops/backfill_viral_dna.py`, `semantic_viral_dna_canary.py` | one row per video and version | deterministic and semantic upsert, backfill, canary |
| Auto-curator | `src/extension/lib/auto-curator.js` | queue in browser storage, alarms | open, scan, retry, defer, drain, reset |
| Content script | `src/extension/content/content.js`, `background.js` | the run of a page, tab navigation | discover, checkpoint, acquire, drain, report |
| Extension transport | `src/extension/lib/*.js` | in-flight audio references | hand a WAV over, upload, report failure |

How they interact: API, maintenance (a thread of the API process) and workers
share rows, files and the queue. The inbox `flock` serializes reservation,
upload, recovery and cleanup; row locks serialize single transactions; a
PostgreSQL advisory lock per video serializes inferences; RabbitMQ delivers at
least once.

The rest of the backend shares the same rows without those locks. Ingest finds
or merges the channel of a page; selection reads what ingest wrote and makes the
reservations the pipeline works on. The back office works in two requests, a
preview and a confirmation, with a corpus that moves in between; playbooks and
Viral DNA rows are written after a provider call. In the browser the curator's
record, the page and the tab change at different moments.

What is hard: the four locks cover different things; a failure report takes no
flock, recovery reads ids before it locks rows, workers hold no row lock during
inference; there is no transaction over file, database and broker; broker
connections, database commits and processes fail between any two steps.

What makes each part correct: accepted audio is never lost and never waits
without a message; one video is never inferred twice at once and only a bounded
number of times; limits hold at every moment, not just when they are checked; a
job only moves along the promised lifecycle; accepted work ends, reservations
end, audio that is not needed goes. A scan acquires only what it saw, within its
allowance; an account has one channel and a scan and its videos stay together;
an analysis stays attached to the evidence it was made from; an answer stays
beside the input it answers; the curator runs one channel at a time, completes
none before its scan ended, and ends its queue only when each channel finished or
had its second try. The full list of hazards, each at its line, is in
`PROJECT.json`.

## 2. Modules

| Module | Models |
|---|---|
| `Corpus` | constants and their assumptions, the shared rows, files and queue, the statuses, `capacity`'s byte count |
| `Acquisition` | the API and maintenance: `AcquisitionBatch`, `SendReport`/`DeliverReport`, `ReceiveAudio` with its crashes, `Enqueue`, `Reconcile*`, `Cleanup*`, passing of leases and cooldowns |
| `Worker` | the worker process: `Deliver`, the executor, the advisory lock, `process_job`, `delete_audio`, `Settle`, lost connections, lost commits, lost sessions, crashes |
| `Pipeline` | both over one corpus, with historical import; fairness; properties of jobs |
| `JobLifecycle` | abstract specification: what the pipeline promises about one job |
| `Enrichment` | extends `Pipeline`: what a scan sees, ranks and may reserve, in place of "any candidates" |
| `Channels` | accounts, handles and ids, `resolve_channel`, `create_analysis` |
| `Knowledge` | previews and confirmations of analyses, updates, imports and packs; playbooks and strategies |
| `ViralDNA` | backfill and canary over the rows, with what each read, wrote and locked |
| `Curator` | the queue record of the extension: each command and event as an operator from record to outcome |
| `CuratorPage` | extends `Curator`: page, tab, timer and operator that send those events |
| `PipelineInv`, `PipelineProofs`, `EnrichmentProofs`, `ChannelsProofs`, `KnowledgeProofs`, `ViralDNAProofs`, `CuratorProofs`, `CuratorScanProofs` | inductive invariants and theorems |
| `Orders` | lemmas on strict total orders of finite sets (rankings, buckets, the curator's list) |
| `MC*` | instances for TLC: symmetry, inputs; the other constants are in the `.cfg` files |

`Pipeline` composes `Acquisition` and `Worker`; `Enrichment` composes selection
with the whole pipeline; `CuratorPage` composes queue, page and tab. `Channels`,
`Knowledge` and `ViralDNA` share columns of the corpus with these but no locks
or steps, so they stand alone and the corpus is their environment (`Transcribe`,
`Rescan`, `Change`).

Correspondence with the code (`PROJECT.json`, `map`, gives the lines of every
definition).

Pipeline:

- `transcription_jobs.video_id` is unique, so every job column is a function of
  the video: `status`, `attempts`, `path` (`audio_path` set), `queuedAt`, `err`
  (`last_error_code`, reduced to the codes that are read back).
- Clock readings are reduced to the comparisons: a lease is none, active or
  lapsed, a video is `cooling` for 24 h after an unavailable report. A clock
  action may fire at any moment, which includes every real timing.
- Audio has size one. `wav` and `part` are the files; with MinIO `wav` is the
  set of objects.
- `ready[v]` counts messages, `unacked[w]` is the one delivery prefetch allows.
  Order in the queue is not kept: priorities and redelivery break it anyway.
- `pc[w]` is where the executor's thread is. A task whose connection died is
  not `attached`; `stray` counts tasks left in the executor's queue.
- Each flock section is one step, except recovery: `reconciling` is the job whose
  id was read. Each transaction of `process_job` is one step; what happens
  between two of them is another step that others may precede.

Enrichment:

- `Scan` is `create_analysis` for a page, alone (`Checkpoint`, the resumable
  endpoint) or with the first reservations (`Ingest`); `Batch` is
  `acquisition_batch` with the two flags of its caller. Every other step is one
  of `Pipeline`.
- Rankings are orders on the newest snapshots, selections are first elements of
  an order. Decimal ratios are integer percentages and the median is doubled, so
  that no rounding is lost; the code's binary rounding of `ceil` on non-dyadic
  ratios is not modelled. All videos of an instance belong to one channel.

Channels:

- A request is one transaction under advisory locks and so one step. It may carry
  any handle its account ever had, with or without the id: pages are delayed,
  repeated and sent by old collectors. A refusal (409, or a foreign key) rolls
  back and is no step.

Knowledge:

- A hash is what it is computed from. A preview is a value in a token slot;
  taking it empties the slot, also when the confirmation then refuses. Slots may
  be reused, since tokens expire and a restart (`Deploy`) forgets them.
- `threads` are requests that wait for the provider, with the row and the
  records they read before. `shown` is the analysis with the newest
  `updated_at`, which a performance refresh moves.
- One channel; the outlier threshold of the `recommended` mode is out of reach;
  `TopSize` stands for the N of the top modes.

ViralDNA:

- `rows` is committed state, `work` what lockers wrote. A flush writes the
  columns that differ from the row the run read (`Merge`), as the ORM does, and
  waits for the row's locker. One backfill and one canary may overlap.
- Provider, model and prompt do not change, so the caption alone tells two
  inputs apart; the output columns are the caption they answer.

Curator:

- The operations of `auto-curator.js` run one after the other (`exclusive`), so
  each is a function of the record; it yields a new record and whether the tab is
  told to open or to stop. The list of channels is the set `listed` with the
  order pairs `ahead`; `Find` takes the first of those it looks for, as the
  loops over the array do. `checkpointing` and `interleaving` count as
  `scanning`; statuses that need events no page of this version sends are left
  out.
- The page keeps the run it was started with until the tab's navigation commits
  (`Loaded`), so it goes on sending events to a queue that has moved on. Each
  message it awaits is a step of its own (`phase` is where the page is between
  two), so a command, an alarm or a navigation may come between PENDING,
  INTERLEAVING and FINAL_DRAIN or between RECOVERY_STATE and REOPEN. A pause is
  `paused`; it cancels a scan that runs (`cancelled`) and stops nothing else.
  READY is sent at once by the new page; messages of a page that is gone are not
  delivered later.
- An `Outcome` holds two records: `queue`, and `refused`, what the `catch` of
  `recoverDiscovery` leaves when the tab does not go where it is sent. `refusing`
  says that the next navigation fails; a reset that fails is `ResetFailed`.
- `failures`, `ended` and `stray` are history: local failures in this pass, the
  channels whose own scan ran to its end, and the records that an event of
  another run reached.

Definitions whose names begin with `Faulty` are seeded faults, each the
plausible error of the definition after it. No specification uses them; the
mutants of `PROJECT.json` put them in its place to show that the property would
notice.

## 3. Runs

| Run (`.cfg`) | Instance | Properties | Result |
|---|---|---|---|
| `MCPipelineJob` | 1 video, 2 workers, MinIO, gate enforced, 2 claims, 2 faults | `TypeOK` `NoLostJob` `AudioDurable` `FreshStart` `OneInferencePerVideo` `CompletedHasTranscript` `ImplementsLifecycle` | pass |
| `MCPipelineAdmission` | 2 videos, 2 scans, 1 place, no worker, local inbox | `ActiveWithinLimit` `InboxBounded` | pass |
| `MCPipelineProgress` | 1 video, 2 workers, MinIO, 2 faults, lock sessions and skip commits may be lost, fair | `InferencesBounded` `AcceptedResolved` `ReservationEnds` `FinishedAudioReclaimed` | pass |
| `MCPipelineLateReport` | 1 video, 2 claims, no fault, local inbox | `ReleaseIsCurrent` | violated |
| `MCPipelineSkippedAudio` | 1 video, 1 worker, local inbox, fair | `AudioReclaimed` | violated |
| `MCEnrichmentSelection` | 2 scans of 2 videos that change places in the ranking, 2 claims, imports | `EnrichmentTypeOK` `OnlyScanned` `RanksDense` `ImplementsPipeline` `AllowanceKept` | pass |
| `MCChannels` | 2 accounts, 3 handles, 3 videos, 3 scans, 3 rows | `TypeOK` `UniqueIdentity` `SnapshotsInChannel` `CountsAgree` `CorpusKept` `IdentityKept` | pass |
| `MCChannelsRecycled` | the same, handles may be taken over | `IdentityKept` | violated |
| `MCKnowledge` | 2 videos, 2 analyses, 2 previews and 2 requests at a time, 3 changes, 3 requests | `KnowledgeTypeOK` `EvidenceAsAnalysed` `ChildrenMatchHash` `DeltaActionable` `ContentGrounded` `PlaybookEvidence` `TranscriptsKept` | pass |
| `MCCurator` | 2 channels, 1 tab, 2 commands, 3 failures, moves of the tab or refused navigations | `CuratorTypeOK` `OneInFlight` `CompletedScanned` `CompletedQueue` `FinishedStays` | pass |
| `MCCuratorRetry` | the same with 1 command | `RetriesBounded` | violated |
| `MCViralDNA` | 2 videos in batches of 1, 3 runs, 2 changes, 1 fault | `ViralTypeOK` `SemanticsOfInput` `BackfillConverges` `CanaryConverges` | pass |

`stack.yml` deploys MinIO. The runs of one job and of progress use it; `InboxBounded`
is a promise of the local inbox, and the two runs that end in a violation do so on
either backend (the shorter trace is on the local one). The theorems hold for both.

Bounds are constants. In `Corpus`: `MaxClaims` reservations per video, enough for
a job to be given back and reserved again; `MaxReports` failure reports in
flight; `MaxFaults` faults of any kind, so that two of them may meet (a lost
connection and a crash, a duplicate publication and a lost commit);
`MaxAttempts` is 2, so a retry and the last attempt are different. Two workers
are enough for contention on one video's lock, and jobs of different videos
meet only in the capacity count and the executor, which the admission run and
the theorems cover.

In the selection run a batch has one place, so that batches repeat; the second
scan sees the reverse ranking of the first; the allowance of a scan is one, so
that using it up, losing it and getting it back all happen. In the channels run
each account may have two handles and one of them two scans, so that a
consolidation meets a scan of the row it removes; three rows are one more than
the accounts need. `CountsAgree` needs a replayed page and a page that overlaps
another scan, both of which three scans give. In the knowledge run two changes
fit between a preview and its confirmation and one after it; an update needs two
analyses. In the curator run three failures let one channel be deferred, tried
again and fail for good while the other runs; two commands let a channel be
paused and resumed, or reset and skipped, around a failure; one retry before
deferral (`RetryMax`) stands for the program's more. In the Viral DNA run two runs overlap
and a third starts on what they left, which the convergence properties need.

Deadlock is checked in the channels and curator runs, which never stop: an
account can always be renamed or scanned again, the alarm always fires. In the
others it is not: with all jobs resolved and the bounds used up the system has
nothing left to do.

Fairness (`FairSpec`): the maintenance loop runs every minute for ever
(`maintenance.py` catches every exception), leases pass, workers consume for
ever and reconnect. `Maintain(v)` is weakly fair per video: each loop orders
jobs by `updated_at`, so none is passed over for ever. A transient refusal of
the broker or of the storage is a different action and not fair, so it may
happen many times but not for ever. Nothing is assumed about browsers and
operators: `ReservationEnds` holds although a browser may vanish.

`AcceptedResolved` excludes a job that is `Stranded`, and `FinishedAudioReclaimed`
speaks of the audio a row names: on MinIO the code promises no more (§4).
`FinishedAudioReclaimed` also allows a job to become `skipped`, because there the
code stops cleaning up; `AudioReclaimed`, which does not, is the second finding.
`CompletedScanned` excludes the records in `stray`, of which another run spoke (§4
again). `FinishedStays` does not: a channel that was finished by such an event
stays finished too. `BackfillConverges` and `CanaryConverges` are stated of a run that ended
`clean`: no other run, no change of an input, no failure since it began. What
earlier runs did to the rows is arbitrary, and that is the point: whatever
overlapping writers left is repaired by the next run that has the rows to
itself. `PlaybookEvidence` speaks of the technical endpoint only; the strategy
endpoint generates without looking at the freshness of the analysis
(`admin.py:1049-1057`). `DeltaActionable` speaks of the selection that videos
only enter; from the others a video may leave and an empty delta blocks the
playbooks until the next full analysis.

## 4. Findings

1. `ReleaseIsCurrent`: the docstring of `release_reserved_acquisition` says a
   duplicate or late report "must never undo work". A report names scan, video
   and code only; delivered twice, its second copy releases the reservation the
   same scan has made since.
2. `AudioReclaimed`: `docs/architecture.md` promises that the periodic cleanup
   retries failed deletions; `cleanup_audio` knows completed and failed jobs and
   never a skipped one.
3. `IdentityKept`: `models.py:41` calls the account id immutable, and
   `services.py:415` says that with recycled handles "the stable account remains
   authoritative". An account seen for the first time is looked up by its handle
   alone: if the handle was another account's and that account was not scanned
   since, its row gets the new id, and its videos and analyses with it.
4. `RetriesBounded`: a test of the extension says that repeated local failures
   defer a channel and that it gets one more pass. The page announces `SCANNING`
   at the start of each attempt, and that event resets the counter: a channel that
   never saves a checkpoint is tried for ever and the next one never runs. The
   failures are counted within one pass and from the last saved checkpoint, so
   the failure in the deferred pass does not count against the bound; with the
   counter reset by `CHECKPOINT_SAVED` instead of `SCANNING` the property holds of
   this instance, also with two commands.

Limits of the code that a property or a theorem names as its exception:

- No code looks at the session of the advisory lock while a task runs, so a session
  that PostgreSQL drops lets a second worker infer the same video (`SessionLoss`).
- The commit after a skip's cleanup is inside the `try` block that decides about
  failure, so its loss reopens a durable skip (`SkipCommitLoss`). On MinIO the job
  is then queued without the path of its object, its next delivery is rejected
  without requeue (`whisper.py:112-119`), and it waits for ever: `Stranded`.
- On MinIO a crash between PUT and commit leaves an object no row names. If an
  import resolves the video before recovery finds it, nothing deletes the object,
  not even a repeated upload: `cleanup_audio` looks at rows with a path (`jobs.py:246-250`) and the orphan listing spares objects whose id has a
  row (`jobs.py:291`), although `docs/architecture.md:82` and `:122` say that
  reconciliation deletes it.
- The `finally` of `requestAutoBatch` starts a second drain (`content.js:37`) beside
  the one that sends `COMPLETE` (`content.js:40`), so a page sends it twice. Events
  carry no channel: the second one finishes the channel that became active in
  between, before it was scanned, against `extension/README.md:13-17`. That
  channel is `stray`.

And limits met on the way, of the curator's record: an `INTERLEAVING` that arrives
after a failure overwrites `recovering`, so the retry does not come; a page on a
wrong profile sets the queue to `running` and undoes a pause (`RECOVERY_STATE`,
`REOPEN`); after Skip or COMPLETE in a paused queue, Resume does not tick and
opens nothing, unless an alarm set earlier still fires; a checkpoint that waits in the page is lost with it on reload; a
refused final batch is an error followed by `COMPLETE`; after a reset `SCANNING`
leaves `reset_recovery_state`, so a second reset is refused until an error.

## 5. Proofs

`PipelineProofs` proves, for every finite corpus, any number of scans, workers,
claims, reports and faults, both backends and both gate modes:

| Theorem | States | Assumes |
|---|---|---|
| `TypeCorrect` | `TypeOK` and `WorkerShape` | - |
| `Bounded` | `InferencesBounded` | - |
| `Exclusive` | `OneInferencePerVideo` | `~SessionLoss` |
| `Fresh` `Transcripts` | `FreshStart` `CompletedHasTranscript` | - |
| `Durable` | `AudioDurable` | `~SessionLoss`, `~SkipCommitLoss` |
| `Refinement` | `ImplementsLifecycle` | `~SessionLoss`, `~SkipCommitLoss` |
| `JobsAreBacked` | `NoLostJob` | `~SessionLoss`, `~SkipCommitLoss` |
| `Limit` | `ActiveWithinLimit` | `~SessionLoss`, `~SkipCommitLoss` |
| `Inbox` | `InboxBounded` | `Backend = "local"` |

The two assumptions exclude exactly the two limits of the code named above. TLC
shows that `AudioDurable`, `NoLostJob`, `ImplementsLifecycle` and
`ActiveWithinLimit` fail when either is allowed (two workers, three attempts,
MinIO): a second worker, or a skip that is reopened, puts a job back whose place,
audio and message are gone. `FreshStart` and `CompletedHasTranscript` survive both.
All other faults are included everywhere: lost connections, crashes anywhere,
unconfirmed publications, lost commits, and a MinIO that fails or that recovery
takes to be empty because it did not answer.

The argument goes in layers (`PipelineInv`), each inductive given those before:

1. `TypeOK` and `WorkerShape`: an attached task is the delivery its worker holds.
2. `Starts`: for each video, what its status says before a worker or recovery may
   touch the job, and at its end. `FreshStart` alone is not inductive: a late
   delivery could move a row that was reserved anew to `processing`; `Untouched`
   says that there is no message, delivery or task of such a row, and
   `reconciling` that recovery meets no accepted job. Nothing here looks at locks,
   so it holds with lost sessions and lost commits.
3. `LockExclusive`: no lock is lost, so two working threads have different
   videos. `TypeOK` alone does not give it, since `Load` looks at the locks.
4. `Rows`: accepted jobs have path and audio, and where a task is decides what
   its row may say. It is the layer that needs `LockExclusive`: a second task of
   the video would delete the audio under a job that was put back to queued.
5. `Backing`: queued and processing jobs have a message that will come back. It
   needs one more case, a stray task of a job whose publication was not
   confirmed, because that task may make the job `processing`.
6. `Paid` stands beside them: inferences plus the tasks that have counted an
   attempt and not yet used it (`Coming`) never exceed the attempts of the row, and
   with those that read an allowed count (`AtGate`) never `MaxAttempts`. It must
   hold without locks, so it counts the tasks.

`Refinement` maps statuses to phases; each action is a step of
`JobLifecycle` or leaves phases and transcripts alone. For acquisition, upload and
maintenance `Starts` is enough; the worker's steps need `Rows`, because a skip or
a failure of a job that had moved on would leave the lifecycle.

`EnrichmentProofs`, for any finite channel, observations, pages, policy and faults:

| Theorem | States | Assumes |
|---|---|---|
| `SeenOnly` | `OnlyScanned` | - |
| `Narrows` | `ImplementsPipeline` | - |
| `AllowanceHolds` `RanksAreDense` | `AllowanceKept` `RanksDense` | - |
| `EnrichmentTypes` | `EnrichmentTypeOK` | - |
| `SelectedJobs` | `NoLostJob` `AudioDurable` `ActiveWithinLimit` | `~SessionLoss`, `~SkipCommitLoss` |

`EnrichmentInv` adds to the pipeline's `TypeOK` that snapshots exist where they
are pointed to (`SnapshotsOK`), that a row is owned by a scan that acquired it and
that acquisitions were seen. The rankings, and the order in which buckets are
tried, are strict total orders (`OrdersTotal`, `BucketsTotal`), so at most k
elements have fewer than k before them (`FewFirsts`), and when the last one tried
still found room, all of them have it (`RoomForAll`). This makes each selection
an `AcquisitionBatch` of `Pipeline`, or a stutter when nothing was free, and
`Pipeline`'s own theorems follow (`SelectedJobs`). An authorization `Fits` what
is left of the allowance, counted over the three buckets. In a strict total
order of n elements the positions are 0 to n - 1, an injection between finite
sets of one size (`PositionsDense`); that is why new ranks continue the old ones
without a gap.

`ChannelsProofs`, for any accounts, handles, videos, scans and rows:

| Theorem | States | Assumes |
|---|---|---|
| `ChannelsTypeCorrect` `OneRow` `ScansWithVideos` | `TypeOK` `UniqueIdentity` `SnapshotsInChannel` | - |
| `Consolidation` | `CorpusKept` | - |
| `Counters` | `CountsAgree` | - |
| `ImmutableIdentity` | `IdentityKept` | `~HandleReuse` |

`ChannelsInv` adds `RowsClean`: a row that does not exist has no id, and a row's
handle is one its account had. `UniqueIdentity` needs the first half, because a
new row takes a free one; `ImmutableIdentity` needs the second, together with
`HandlesApart` (no handle was two accounts'), to see that a row found by its
handle belongs to the account that sent it. Finding 3 is the run in which
`HandlesApart` fails.

`Counters` is about sums over all scans. `CountsAgree` counts them as a set:
`CountedNew` holds a numbered pair for each video that a scan counted as new, so
that the sum is a cardinality and needs no induction. `CountsInv` adds that the
set is finite. A page splits into videos the scan had seen, videos the corpus knew
and videos nobody knew; only the last add pairs, one for each
(`DeliverCounts`). Consolidation moves videos between rows and scans keep their
counters, so it changes neither side.

`KnowledgeProofs`, for any videos, captions, answers, modes, slots and threads:

| Theorem | States |
|---|---|
| `KnowledgeTypeCorrect` | `KnowledgeTypeOK` |
| `TranscriptsStay` | `TranscriptsKept` |
| `EvidenceKept` `ChildrenCovered` | `EvidenceAsAnalysed` `ChildrenMatchHash` |
| `DeltaEnds` | `DeltaActionable` |
| `ContentStays` | `ContentGrounded` |
| `PlaybooksGrounded` | `PlaybookEvidence` |

`AnalysesInv` says of each stored analysis that its evidence is its hash and that
its per-video half is whole, and that with the mode `all` every video of it still
has a transcript (transcripts stay). That is what makes a delta actionable: a
corpus that differs from the hash differs in a video that is still selected.
`RowsStay` says that a step never removes or rewrites what a pack or a playbook
cites. `EvidenceInv` follows a request from its reading to its answer: the records
it carries have the metrics it will be cached under and the content of its
analysis, or the analysis is of an older contract, and a contract never comes
back (`ContractsPast`).

`ViralDNAProofs`, for any number of videos, batches, captions, runs and faults:

| Theorem | States |
|---|---|
| `ViralTypeCorrect` | `ViralTypeOK` |
| `SemanticsCorrect` | `SemanticsOfInput` |
| `BackfillRepairs` `CanaryRepairs` | `BackfillConverges` `CanaryConverges` |

`BaseInv` ties phases, locks and rows together: a lock's owner is running, a row
that somebody else holds is its committed row. `SemanticsInv` adds what the canary
may rely on when it flushes: whoever else writes a row leaves its answer alone
and never completes it (`OthersAgree`), so the row the canary read has the output
columns of the row it writes to (`CanaryView`), and the two columns it does not
write agree with those it does.

`ConvergeInv` follows a clean run: it is alone, and the videos before the one it
is at are `Treated` in its own transaction, whatever the rows held when it began
(`Progress`). What the run read is still there when it writes, as nobody else
writes; a run that starts, a change of an input or a failure ends the cleanness
and with it the claim. At the commit the treated rows become the committed ones.

`CuratorProofs`, for any channels and pasted lists, any number of retries,
commands and failures:

| Theorem | States |
|---|---|
| `Types` | `CuratorTypeOK` |
| `SingleFlight` | `OneInFlight` |
| `AllFinishedOrTried` | `CompletedQueue` |
| `FinishedUntouched` | `FinishedStays` |
| `ScannedBeforeComplete` (`CuratorScanProofs`) | `CompletedScanned` |

Every operation of the queue is an operator from record to outcome, so most of
the proof is about records. `QueueOK` is what every saved queue satisfies: the list
is a strict total order, exactly the active channel is not at rest (`OneActive`),
waiting channels carry nothing over (`Untouched`), and a completed queue has tried
what it deferred (`AllTried`). `Keeps` adds that finished channels stay, and is
transitive, so it goes through the operations that call each other (`Placed`,
`Released`, `UpdateKeeps`). That `Find` finds a channel when there is one is
`FirstElement` of `Orders`. For these four theorems the page may be in any state
(`PageOK` only types it): one channel stays in flight and finished ones stay
whatever it sends.

`ScannedBeforeComplete` does rely on the page, since COMPLETE itself asks only that
no drain is pending. `Quiet` says of an operation that no record says more of its
scan after it than before; all do but five events (`LoudEvents`), and those touch
the active channel only. `EndsInv` then says: a record that is scanned, drains or is
complete belongs to a channel in `ended` or `stray`; a page whose drain began runs
one of those; and a page that did not end its scan finds no candidates of an
earlier drain on its record, so that announcing a scan, which takes the channel
out of `ended`, leaves nothing behind that says the contrary (`AnnounceEnds`). An
event about another channel than the page's, or of a run from before a reset, is on
the account of `stray` (`PostEnds`).

Only model-checked: the liveness properties `AcceptedResolved`, `ReservationEnds`
and `FinishedAudioReclaimed` (fairness and ENABLED are beyond the prover), and the
properties of the four runs that find them violated (of `IdentityKept` the theorem
proves what holds without recycled handles). Every other property of a passing run
is stated by a theorem.

## 6. Not modelled

- The status of a scan (`refresh_status`): no step of the backend reads it.
- Of the curator: the lease between two service workers, `wake` after a browser
  restart, a service worker that dies inside an operation, the capacity timer of
  the page, closing the tab, several tabs. A message that an earlier run of the
  same document had in flight when the tab was told to run again (`AUTO_RUN`) is
  not delivered to the new run.
- `retryCurrent`: the panel offers Retry only for an active channel with status
  `error` and a recoverable code (`panel.js:38`), which `handleFailure` never
  leaves; where it is offered its effect is that of Resume.
- `channel_intelligence_import_confirm` reads the corpus twice, for the stored
  hashes (`admin.py:1313`) and for its validation (`:1316`); `AnalysisConfirm` reads
  it once. The session keeps the captions of videos it has loaded and transcripts
  are only added, so in the mode `all` both reads see the same content. They can
  differ in metrics that moved away and back between the pack's export and the
  second read: then the stored performance hash, and in the ranked modes the
  selection, is that of the metrics in between (for the top modes the lookup at
  `:1349` may then raise, and nothing is stored).
- The handoff of WAV bytes from page to service worker, page scripts and panel
  (parsing and user interface).
- The Whisper child: `close` kills it and closes its pipe before anything else
  may ask, and the worker has one executor thread, so its timeout is a failure.
- Audio parsing, YAMNet and the providers: their verdicts and answers are
  nondeterministic. Validation of answers is a failure of the provider.
- Row locks held over several videos, and confirmations that overlap within one
  handler (`PROJECT.json` lists both as hazards no property covers).
- Sizes of WAVs, keys and the orphan listing of MinIO.
- Exports as files and HTML pages, migrations, settings, benchmark scripts. The
  ranges of the settings are the assumptions on the constants.
