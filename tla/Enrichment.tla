----------------------------- MODULE Enrichment -----------------------------
(***************************************************************************)
(* What a browser scan may acquire (backend/app/services.py, ranking.py):  *)
(* the snapshots a scan records, the ranking of the channel by its newest  *)
(* snapshots, the pool of priority videos, the scan's allowance of new     *)
(* transcripts and the batch of reservations these authorize.              *)
(*                                                                         *)
(* All scans are of one channel (module Channels: how a request finds its  *)
(* channel).  A video's metrics are its views and its engagement rate;     *)
(* the outlier score is views over the median, so it orders videos as the  *)
(* views do.  Medians are doubled and ratios are percentages, to stay in   *)
(* the integers.  What the pipeline does with a reservation is module      *)
(* Pipeline, whose steps stay as they are; only AcquisitionBatch, which    *)
(* takes any candidates, is replaced.                                      *)
(***************************************************************************)
EXTENDS Pipeline

CONSTANTS
  Observations,     \* what a scan may see of a video: sets of metrics
  Pages,            \* the sets of videos a scan may report at once
  Feasible,         \* videos whose duration may be transcribed
  Id,               \* the order of the videos' ids
  MinViews,         \* ENRICHMENT_MIN_VIEWS
  MinOutlier,       \* ENRICHMENT_MIN_OUTLIER_SCORE
  MedianMultiplier, \* INCREMENTAL_MEDIAN_MULTIPLIER
  MinDiscovered,    \* MIN_DISCOVERED_FOR_ADAPTIVE_INCREMENTAL
  PriorityPercent,  \* PRIORITY_RATIO
  TargetPercent,    \* ENRICHMENT_TARGET_RATIO
  MinNew, MaxNew,   \* ENRICHMENT_MIN_NEW, ENRICHMENT_MAX_NEW
  NoObservation     \* no snapshot

Metrics == [views : Nat, engagement : Nat]

ASSUME EnrichmentAssumption ==
  /\ Observations \in [Analyses -> [Videos -> SUBSET Metrics]] /\ NoObservation \notin Metrics
  /\ Pages \in [Analyses -> SUBSET ((SUBSET Videos) \ {{}})] /\ Feasible \subseteq Videos
  /\ Id \in [Videos -> Nat] /\ \A u, v \in Videos : Id[u] = Id[v] => u = v
  /\ {MinViews, MinOutlier, MedianMultiplier, MinDiscovered, MinNew} \subseteq Nat
  /\ MaxNew \in Nat \ {0}
  /\ PriorityPercent \in 0..100 /\ TargetPercent \in 1..100

VARIABLES
  snapshot,       \* the VideoSnapshot of a scan and a video
  newest,         \* the scan whose snapshot of a video was created last
  median,         \* twice analysis.median_views
  requested,      \* analysis.requested_transcripts
  rank            \* transcription_rank of an acquisition, else 0

scanVars == <<snapshot, newest, median>>
enrichmentVars == <<scanVars, requested, rank>>

(* The newest snapshot of a video is one that exists. *)
EnrichmentTypeOK ==
  /\ snapshot \in [Analyses -> [Videos -> Metrics \cup {NoObservation}]]
  /\ newest \in [Videos -> Analyses \cup {NoAnalysis}]
  /\ \A v \in Videos : newest[v] # NoAnalysis => snapshot[newest[v]][v] \in Metrics
  /\ median \in [Analyses -> Nat]
  /\ requested \in [Analyses -> Nat]
  /\ rank \in [Analyses -> [Videos -> Nat]]

EnrichmentInit ==
  /\ Init
  /\ snapshot = [a \in Analyses |-> [v \in Videos |-> NoObservation]]
  /\ newest = [v \in Videos |-> NoAnalysis]
  /\ median = [a \in Analyses |-> 0]
  /\ requested = [a \in Analyses |-> 0]
  /\ rank = [a \in Analyses |-> [v \in Videos |-> 0]]

Least(m, n) == IF m <= n THEN m ELSE n
Greatest(m, n) == IF m >= n THEN m ELSE n
Percent(p, n) == (p * n) \div 100
PercentUp(p, n) == (p * n + 99) \div 100

(* The first k elements of S in the strict order, a set of pairs. *)
Firsts(S, k, order) ==
  {v \in S : Cardinality({u \in S : <<u, v>> \in order}) < k}
-----------------------------------------------------------------------------
(* Scans and rankings *)

FaultyScanned(a) == {v \in Videos : \E b \in Analyses : snapshot[b][v] # NoObservation}

Scanned(a) == {v \in Videos : snapshot[a][v] # NoObservation}

(* latest_channel_rows: each video with the snapshot created last.  A replayed
   checkpoint changes the values of a snapshot, not when it was created. *)
LatestRows(snapshots, newests) ==
  [v \in {u \in Videos : newests[u] # NoAnalysis} |-> snapshots[newests[v]][v]]

Latest == LatestRows(snapshot, newest)

(* The k-th smallest view count. *)
KthViews(L, k) ==
  CHOOSE x \in {L[v].views : v \in DOMAIN L} :
    /\ Cardinality({v \in DOMAIN L : L[v].views < x}) < k
    /\ Cardinality({v \in DOMAIN L : L[v].views <= x}) >= k

(* Twice the median of the views; 0 for an empty channel. *)
TwiceMedian(L) ==
  LET n == Cardinality(DOMAIN L)
  IN  IF n = 0 THEN 0 ELSE KthViews(L, (n + 1) \div 2) + KthViews(L, n \div 2 + 1)

(* rank_snapshots, and the views and outlier buckets of diversified_selection. *)
ViewOrder(L) ==
  {p \in (DOMAIN L) \X (DOMAIN L) :
     LET u == L[p[1]]  v == L[p[2]] IN
       \/ u.views > v.views
       \/ u.views = v.views /\ u.engagement > v.engagement
       \/ u = v /\ Id[p[1]] < Id[p[2]]}

EngagementOrder(L) ==
  {p \in (DOMAIN L) \X (DOMAIN L) :
     LET u == L[p[1]]  v == L[p[2]] IN
       \/ u.engagement > v.engagement
       \/ u.engagement = v.engagement /\ u.views > v.views
       \/ u = v /\ Id[p[1]] < Id[p[2]]}
-----------------------------------------------------------------------------
(* Allowance *)

(* COMMITTED_ENRICHMENT_STATUSES. *)
CommittedStatuses == ActiveStatuses \cup TerminalStatuses

(* new_enrichment_used_ids: the work still committed to a. *)
Used(a) ==
  {v \in Videos : /\ <<a, v>> \in acquired /\ status[v] \in CommittedStatuses
                  /\ owner[v] = a
                  /\ status[v] = "reserved" => lease[v] = "active"}

(* The policy's allowance for a scan of n videos. *)
Allowance(n) ==
  Least(MaxNew, Least(n, Greatest(MinNew, PercentUp(TargetPercent, n))))

(* What new_enrichment_budget leaves; missing is not known before the scan is
   complete. *)
FaultyRemainingFinal(a, n, missing) ==
  Least(Allowance(n), Cardinality(missing)) - Cardinality(Pending(a))

RemainingPartial(a, n) == Allowance(n) - Cardinality(Used(a))

RemainingFinal(a, n, missing) ==
  Least(Allowance(n), Cardinality(missing)) - Cardinality(Used(a))
-----------------------------------------------------------------------------
(* Selection: enrichment_eligibility *)

Missing(S) ==
  {v \in S : v \notin transcript /\ status[v] \notin {"completed", "skipped"}}

(* Before the scan is complete: videos far above the median. *)
Incremental(S, L, twiceMedian) ==
  {v \in S \cap Feasible :
     2 * L[v].views >= Greatest(2 * MinViews, MedianMultiplier * twiceMedian)}

(* The scan is complete: priority_view_cutoff takes the views of the last of
   the top quartile, ties included; an outlier is in whatever its place. *)
Priority(S, L) ==
  LET target == PercentUp(PriorityPercent, Cardinality(S))
      top(v) == Cardinality({u \in S : L[u].views > L[v].views}) < target
      outlier(v) == /\ TwiceMedian(L) > 0 \/ MinOutlier = 0
                    /\ 2 * L[v].views >= MinOutlier * TwiceMedian(L)
  IN  {v \in S \cap Feasible : top(v) \/ outlier(v)}

(* diversified_selection: 60 % by views, 25 % by outlier score, the rest by
   engagement; the buckets always fill the budget. *)
Buckets(S, n, L) ==
  LET budget == Least(n, Cardinality(S))
      byViews == Firsts(S, Percent(60, budget), ViewOrder(L))
      byOutlier == Firsts(S \ byViews, Percent(25, budget), ViewOrder(L))
      rest == S \ (byViews \cup byOutlier)
  IN  <<byViews, byOutlier,
        Firsts(rest, budget - Percent(60, budget) - Percent(25, budget),
               EngagementOrder(L))>>

(* The order in which the buckets are tried. *)
BucketOrder(B, L) ==
  {p \in (DOMAIN L) \X (DOMAIN L) :
     \/ p[1] \in B[1] /\ (p[2] \in B[1] => p \in ViewOrder(L))
     \/ p[1] \in B[2] /\ p[2] \notin B[1] /\ (p[2] \in B[2] => p \in ViewOrder(L))
     \/ {p[1], p[2]} \subseteq B[3] /\ p \in EngagementOrder(L)}

(* An authorization: the videos that may be reserved and their order. *)
Authorization(videos, order) == [videos |-> videos, order |-> order]

AuthorizedPartial(a, S, L, twiceMedian, hasMore) ==
  LET pool == IF Cardinality(S) < MinDiscovered /\ hasMore THEN {}
              ELSE Incremental(S, L, twiceMedian)
  IN  Authorization(Firsts(Missing(pool) \ Used(a), RemainingPartial(a, Cardinality(S)),
                           ViewOrder(L)),
                    ViewOrder(L))

AuthorizedFinal(a, S, L) ==
  LET missing == Missing(Priority(S, L))
      B == Buckets(missing \ Used(a),
                   Greatest(0, RemainingFinal(a, Cardinality(S), missing)), L)
  IN  Authorization(UNION {B[i] : i \in 1..3}, BucketOrder(B, L))

Authorized(a, complete, hasMore) ==
  IF complete THEN AuthorizedFinal(a, Scanned(a), Latest)
  ELSE AuthorizedPartial(a, Scanned(a), Latest, median[a], hasMore)
-----------------------------------------------------------------------------
(* Operations *)

FaultyRecord(a, P, seen) ==
  /\ snapshot' = [snapshot EXCEPT ![a] =
                    [v \in Videos |-> IF v \in P /\ newest[v] \in {a, NoAnalysis}
                                       THEN seen[v] ELSE @[v]]]
  /\ newest' = [v \in Videos |-> IF v \in P \ Scanned(a) THEN a ELSE newest[v]]
  /\ UNCHANGED median

(* create_analysis for the page P of a: snapshots are added or overwritten,
   and the channel is ranked again. *)
Record(a, P, seen) ==
  /\ snapshot' = [snapshot EXCEPT ![a] =
                    [v \in Videos |-> IF v \in P THEN seen[v] ELSE @[v]]]
  /\ newest' = [v \in Videos |-> IF v \in P \ Scanned(a) THEN a ELSE newest[v]]
  /\ median' = [median EXCEPT ![a] = TwiceMedian(LatestRows(snapshot', newest'))]

(* ingest_checkpoint: durable discovery, no reservation. *)
Checkpoint(a, P, seen) ==
  /\ Record(a, P, seen)
  /\ UNCHANGED <<vars, requested, rank>>

FaultyRank(a, S, order) ==
  /\ rank' = [rank EXCEPT ![a] =
                [v \in Videos |->
                   IF v \in S
                     THEN requested[a] + 1 + Cardinality({u \in S : <<u, v>> \in order})
                     ELSE @[v]]]
  /\ requested' = [requested EXCEPT ![a] = @ + Cardinality(S)]

(* A reservation the scan had before keeps its rank; a new one gets the next. *)
Rank(a, S, order) ==
  LET new == {v \in S : <<a, v>> \notin acquired}
  IN  /\ rank' = [rank EXCEPT ![a] =
                    [v \in Videos |->
                       IF v \in new
                         THEN requested[a] + 1
                                + Cardinality({u \in new : <<u, v>> \in order})
                         ELSE @[v]]]
      /\ requested' = [requested EXCEPT ![a] = @ + Cardinality(new)]

ReserveRanked(a, S, order) ==
  /\ \A v \in S : claims[v] < MaxClaims
  /\ IF S = {} THEN UNCHANGED <<status, err, videoVars, claims, cooling, acquired>>
     ELSE Reserve(a, S)
  /\ Rank(a, S, order)
  /\ UNCHANGED <<attempts, path, queuedAt, transcript, audioVars, ready, faults,
                 acquisitionVars, workerVars>>

FaultyClaimable(a, auth) == auth.videos

(* The authorized videos whose claim succeeds: claim_video compares and sets. *)
Claimable(a, auth) == {v \in auth.videos : Reservable(a, v)}

CapacityFree == AudioUsed < MaxAudio /\ Cardinality(Active) < MaxJobs

(* ingest: POST /analyses records a scan and makes its first reservations.
   claim_video refuses, silently, when no place is left. *)
Ingest(a, P, seen) ==
  /\ FlockFree /\ CapacityFree
  /\ Scanned(a) = {}
  /\ Record(a, P, seen)
  /\ LET auth == AuthorizedFinal(a, P, LatestRows(snapshot', newest'))
         free == Claimable(a, auth)
         before(v) == {u \in free : <<u, v>> \in auth.order}
     IN  ReserveRanked(a,
           {v \in free : /\ Cardinality(before(v)) < BatchSize
                         /\ Cardinality(Active \cup before(v)) < MaxJobs},
           auth.order)

(* acquisition_batch: authorized videos are tried in order until the scan has
   BatchSize requests pending.  Capacity is asked before each try; a refusal
   rolls the whole batch back. *)
Batch(a, complete, hasMore) ==
  /\ FlockFree /\ CapacityFree
  /\ Scanned(a) # {} /\ Cardinality(Pending(a)) < BatchSize
  /\ LET auth == Authorized(a, complete, hasMore)
         room == BatchSize - Cardinality(Pending(a))
         S == Firsts(Claimable(a, auth), room, auth.order)
         tried == IF Cardinality(S) < room THEN auth.videos
                  ELSE S \cup {v \in auth.videos : \E u \in S : <<v, u>> \in auth.order}
     IN  /\ S # {}
         /\ \A v \in tried :
              Cardinality(Active \cup {u \in S : <<u, v>> \in auth.order}) < MaxJobs
         /\ ReserveRanked(a, S, auth.order)
  /\ UNCHANGED scanVars
-----------------------------------------------------------------------------
(* The rest of Pipeline's next-state relation. *)
Others ==
  \/ /\ \/ \E a \in Analyses, v \in Videos, c \in ReportCodes : SendReport(a, v, c)
        \/ \E r \in reports : DeliverReport(r) \/ ReportLost(r)
        \/ ReconcileAbort
        \/ \E v \in Videos :
             \/ Upload(v) \/ Maintain(v) \/ MaintenanceFails(v)
             \/ LeaseLapses(v) \/ CooldownElapses(v)
     /\ UNCHANGED workerVars
  \/ WorkerNext /\ UNCHANGED acquisitionVars
  \/ \E v \in Videos : Import(v)

Scan(a) ==
  \E P \in Pages[a] :
    \E seen \in [P -> UNION {Observations[a][v] : v \in P}] :
      /\ \A v \in P : seen[v] \in Observations[a][v]
      /\ Checkpoint(a, P, seen) \/ Ingest(a, P, seen)

EnrichmentNext ==
  \/ \E a \in Analyses :
       Scan(a) \/ \E complete, hasMore \in BOOLEAN : Batch(a, complete, hasMore)
  \/ Others /\ UNCHANGED enrichmentVars

enrichedVars == <<vars, enrichmentVars>>

EnrichmentSpec == EnrichmentInit /\ [][EnrichmentNext]_enrichedVars
-----------------------------------------------------------------------------
(* Properties *)

(* Ranking, budget and batch only narrow what Pipeline lets a scan reserve:
   every behaviour here is a behaviour of Pipeline, so what is proved of its
   jobs, audio and limits holds of the real selection. *)
ImplementsPipeline == Spec

(* A scan acquires only videos the browser saw in it: selection, which ranks
   the whole channel, never turns into a backfill of the channel. *)
OnlyScanned ==
  \A a \in Analyses, v \in Videos :
    <<a, v>> \in acquired => v \in Feasible /\ snapshot[a][v] # NoObservation

(* The ranks of a scan's acquisitions are 1 to requested_transcripts, each
   once, through expiry, failure reports and repeated reservation. *)
RanksDense ==
  \A a \in Analyses :
    LET mine == {v \in Videos : <<a, v>> \in acquired}
    IN  /\ {rank[a][v] : v \in mine} = 1..requested[a]
        /\ Cardinality(mine) = requested[a]

(* Reserving never takes a scan over its allowance, however many reservations
   expired, failed, or were transcribed elsewhere before. *)
AllowanceKept ==
  [][\A a \in Analyses :
       (\E v \in Videos : claims'[v] # claims[v] /\ owner'[v] = a)
         => Cardinality(Used(a)') <= Allowance(Cardinality(Scanned(a)'))]_enrichedVars

=============================================================================
