-------------------------- MODULE EnrichmentProofs --------------------------
(***************************************************************************)
(* Proofs about Enrichment: for every corpus, any observations, pages and  *)
(* policy, a scan reserves only what it saw, and every step of selection   *)
(* is a step of Pipeline, so the theorems of PipelineProofs hold of it.    *)
(***************************************************************************)
EXTENDS Enrichment, PipelineProofs, Orders

-----------------------------------------------------------------------------
(* The first k elements of an order *)

(* Whoever has fewer than k predecessors is among k. *)
LEMMA FewFirsts ==
  ASSUME NEW S \in SUBSET Videos, NEW order, NEW k \in Nat, StrictTotal(order, S)
  PROVE  Firsts(S, k, order) \subseteq S /\ Cardinality(Firsts(S, k, order)) <= k
<1> DEFINE F == Firsts(S, k, order)
           before(v) == {u \in S : <<u, v>> \in order}
<1>1. F \subseteq S
  BY DEF Firsts
<1>2. CASE F = {}
  BY <1>1, <1>2, FS_EmptySet
<1>3. CASE F # {}
  <2>1. IsFiniteSet(F) /\ StrictTotal(order, F)
    BY <1>1, FiniteVideos, TotalOnSubset
  <2>2. PICK m \in F : \A u \in F \ {m} : <<u, m>> \in order
    BY <1>3, <2>1, LastElement
  <2>3. F \ {m} \in SUBSET before(m) /\ before(m) \in SUBSET Videos
    BY <1>1, <2>2
  <2>4. Cardinality(before(m)) < k
    BY <2>2 DEF Firsts
  <2>5. /\ Cardinality(before(m)) \in Nat /\ Cardinality(F \ {m}) \in Nat
        /\ Cardinality(F \ {m}) <= Cardinality(before(m))
    BY <2>3, FiniteVideos
  <2>6. Cardinality(F \ {m}) = Cardinality(F) - 1 /\ Cardinality(F) \in Nat
    BY <2>1, FS_RemoveElement, FS_CardinalityType
  <2> HIDE DEF F, before
  <2>7. Cardinality(F) <= k
    BY <2>4, <2>5, <2>6
  <2> QED BY <1>1, <2>7 DEF F
<1> QED BY <1>2, <1>3

(* If there is a place left before each of S, there is room for all of them. *)
LEMMA RoomForAll ==
  ASSUME NEW S \in SUBSET Videos, S # {}, NEW order, StrictTotal(order, S),
         NEW T \in SUBSET Videos, S \subseteq T,
         \A v \in S : Cardinality(Active \cup {u \in T : <<u, v>> \in order}) < MaxJobs
  PROVE  Cardinality(Active \cup S) <= MaxJobs
<1>1. IsFiniteSet(S)
  BY FiniteVideos
<1>2. PICK m \in S : \A u \in S \ {m} : <<u, m>> \in order
  BY <1>1, LastElement
<1> DEFINE held == Active \cup {u \in T : <<u, m>> \in order}
<1>3. held \in SUBSET Videos /\ Active \cup S \in SUBSET (held \cup {m})
  BY <1>2 DEF Active
<1>4. IsFiniteSet(held) /\ Cardinality(held) \in Nat /\ Cardinality(held) < MaxJobs
  BY <1>2, <1>3, FiniteVideos
<1>5. /\ IsFiniteSet(held \cup {m})
      /\ Cardinality(held \cup {m}) \in {Cardinality(held), Cardinality(held) + 1}
  BY <1>4, FS_AddElement
<1>6. /\ Cardinality(Active \cup S) <= Cardinality(held \cup {m})
      /\ Cardinality(Active \cup S) \in Nat
  BY <1>3, FiniteVideos
<1> HIDE DEF held
<1> QED BY <1>4, <1>5, <1>6, CorpusAssumption

-----------------------------------------------------------------------------
(* Rankings and selections *)

Measured(L) == DOMAIN L \subseteq Videos /\ \A v \in DOMAIN L : L[v] \in Metrics

LEMMA OrdersTotal ==
  ASSUME NEW L, Measured(L)
  PROVE  StrictTotal(ViewOrder(L), DOMAIN L) /\ StrictTotal(EngagementOrder(L), DOMAIN L)
<1>1. \A v \in DOMAIN L :
        v \in Videos /\ L[v] = [views |-> L[v].views, engagement |-> L[v].engagement]
          /\ L[v].views \in Nat /\ L[v].engagement \in Nat
  BY DEF Measured, Metrics
<1>2. \A u, v \in DOMAIN L :
        L[u] = L[v] <=> L[u].views = L[v].views /\ L[u].engagement = L[v].engagement
  BY <1>1
<1>3. \A u, v \in DOMAIN L : Id[u] \in Nat /\ (Id[u] = Id[v] => u = v)
  BY <1>1, EnrichmentAssumption
<1>4. \A u, v \in DOMAIN L :
        <<u, v>> \in ViewOrder(L) <=>
          \/ L[u].views > L[v].views
          \/ L[u].views = L[v].views /\ L[u].engagement > L[v].engagement
          \/ L[u].views = L[v].views /\ L[u].engagement = L[v].engagement /\ Id[u] < Id[v]
  BY <1>2 DEF ViewOrder
<1>5. \A u, v \in DOMAIN L :
        <<u, v>> \in EngagementOrder(L) <=>
          \/ L[u].engagement > L[v].engagement
          \/ L[u].engagement = L[v].engagement /\ L[u].views > L[v].views
          \/ L[u].views = L[v].views /\ L[u].engagement = L[v].engagement /\ Id[u] < Id[v]
  BY <1>2 DEF EngagementOrder
<1>6. StrictTotal(ViewOrder(L), DOMAIN L)
  BY <1>1, <1>3, <1>4 DEF StrictTotal
<1>7. StrictTotal(EngagementOrder(L), DOMAIN L)
  BY <1>1, <1>3, <1>5 DEF StrictTotal
<1> QED BY <1>6, <1>7

(* The buckets divide what they take from S, and their order is total on it. *)
Taken(B) == UNION {B[i] : i \in 1..3}

LEMMA BucketsTotal ==
  ASSUME NEW L, Measured(L), NEW S \in SUBSET (DOMAIN L), NEW n
  PROVE  /\ Taken(Buckets(S, n, L)) \subseteq S
         /\ StrictTotal(BucketOrder(Buckets(S, n, L), L), Taken(Buckets(S, n, L)))
<1> DEFINE B == Buckets(S, n, L)
           taken == Taken(B)
           order == BucketOrder(B, L)
<1>1. /\ B[1] \subseteq S /\ B[2] \subseteq S \ B[1] /\ B[3] \subseteq S \ (B[1] \cup B[2])
      /\ taken = B[1] \cup B[2] \cup B[3]
  <2>1. /\ B[1] \subseteq S /\ B[2] \subseteq S \ B[1]
        /\ B[3] \subseteq S \ (B[1] \cup B[2])
    BY DEF Buckets, Firsts
  <2>2. 1..3 = {1, 2, 3}
    OBVIOUS
  <2> HIDE DEF B
  <2> QED BY <2>1, <2>2 DEF Taken
<1>2. taken \subseteq S
  BY <1>1
<1>3. /\ StrictTotal(ViewOrder(L), S)
      /\ StrictTotal(EngagementOrder(L), S)
  BY OrdersTotal, TotalOnSubset
<1> HIDE DEF B
<1>4. \A u, v \in S :
        <<u, v>> \in order <=>
          \/ u \in B[1] /\ (v \in B[1] => <<u, v>> \in ViewOrder(L))
          \/ u \in B[2] /\ v \notin B[1] /\ (v \in B[2] => <<u, v>> \in ViewOrder(L))
          \/ u \in B[3] /\ v \in B[3] /\ <<u, v>> \in EngagementOrder(L)
  BY DEF BucketOrder
<1> HIDE DEF order, taken
<1>5. \A x \in taken : <<x, x>> \notin order
  BY <1>1, <1>2, <1>3, <1>4 DEF StrictTotal
<1>6. \A x, y \in taken : x # y => <<x, y>> \in order \/ <<y, x>> \in order
  BY <1>1, <1>2, <1>3, <1>4 DEF StrictTotal
<1>7. \A x, y, z \in taken :
        <<x, y>> \in order /\ <<y, z>> \in order => <<x, z>> \in order
  <2> SUFFICES ASSUME NEW x \in taken, NEW y \in taken, NEW z \in taken,
                      <<x, y>> \in order, <<y, z>> \in order
               PROVE  <<x, z>> \in order
    OBVIOUS
  <2>1. x \in S /\ y \in S /\ z \in S
    BY <1>2
  <2>2. CASE x \in B[1]
    BY <1>1, <1>3, <1>4, <2>1, <2>2 DEF StrictTotal
  <2>3. CASE x \in B[2]
    BY <1>1, <1>3, <1>4, <2>1, <2>3 DEF StrictTotal
  <2>4. CASE x \in B[3]
    BY <1>1, <1>3, <1>4, <2>1, <2>4 DEF StrictTotal
  <2> QED BY <1>1, <2>2, <2>3, <2>4
<1>8. StrictTotal(order, taken)
  BY <1>5, <1>6, <1>7 DEF StrictTotal
<1> QED BY <1>2, <1>8 DEF B, order, taken

(* What a scan is authorized to reserve is feasible, was seen in it and is
   ordered. *)
Sound(auth, S) ==
  /\ auth.videos \subseteq S \cap Feasible
  /\ StrictTotal(auth.order, auth.videos)

LEMMA FinalSound ==
  ASSUME NEW a, NEW L, Measured(L), NEW S \in SUBSET (DOMAIN L)
  PROVE  Sound(AuthorizedFinal(a, S, L), S)
<1> DEFINE missing == Missing(Priority(S, L))
           pool == missing \ Used(a)
           n == Greatest(0, RemainingFinal(a, Cardinality(S), missing))
           B == Buckets(pool, n, L)
           taken == Taken(B)
<1>1. missing \subseteq S \cap Feasible
  BY DEF Missing, Priority
<1>2. pool \in SUBSET (DOMAIN L) /\ pool \subseteq S \cap Feasible
  BY <1>1
<1> HIDE DEF missing, pool, n
<1>3. taken \subseteq pool /\ StrictTotal(BucketOrder(B, L), taken)
  BY <1>2, BucketsTotal
<1>4. AuthorizedFinal(a, S, L) = [videos |-> taken, order |-> BucketOrder(B, L)]
  BY DEF AuthorizedFinal, Authorization, Taken, missing, pool, n
<1> HIDE DEF B, taken
<1> QED BY <1>2, <1>3, <1>4 DEF Sound

LEMMA PartialSound ==
  ASSUME NEW a, NEW L, Measured(L), NEW S \in SUBSET (DOMAIN L), NEW m,
         NEW hasMore \in BOOLEAN
  PROVE  Sound(AuthorizedPartial(a, S, L, m, hasMore), S)
<1> DEFINE auth == AuthorizedPartial(a, S, L, m, hasMore)
<1>1. auth.videos \subseteq S \cap Feasible /\ auth.order = ViewOrder(L)
  BY DEF AuthorizedPartial, Authorization, Firsts, Missing, Incremental
<1> HIDE DEF auth
<1>2. StrictTotal(ViewOrder(L), DOMAIN L) /\ auth.videos \in SUBSET (DOMAIN L)
  BY <1>1, OrdersTotal
<1>3. Sound(auth, S)
  BY <1>1, <1>2, TotalOnSubset DEF Sound
<1> QED BY <1>3 DEF auth

-----------------------------------------------------------------------------
(* Snapshots *)

(* A scan that saw a video left a newest snapshot of it, and whoever holds a
   video has acquired it. *)
SnapshotsOK ==
  /\ snapshot \in [Analyses -> [Videos -> Metrics \cup {NoObservation}]]
  /\ newest \in [Videos -> Analyses \cup {NoAnalysis}]
  /\ \A v \in Videos : newest[v] # NoAnalysis => snapshot[newest[v]][v] \in Metrics
  /\ \A a \in Analyses, v \in Videos :
       snapshot[a][v] # NoObservation => newest[v] # NoAnalysis

OwnersAcquired ==
  \A v \in Videos : owner[v] # NoAnalysis => <<owner[v], v>> \in acquired

LEMMA LatestMeasured ==
  ASSUME SnapshotsOK
  PROVE  Measured(Latest) /\ \A a \in Analyses : Scanned(a) \in SUBSET (DOMAIN Latest)
BY DEF SnapshotsOK, Measured, Latest, LatestRows, Scanned

LEMMA RecordKeeps ==
  ASSUME SnapshotsOK, NEW a \in Analyses, NEW P \in Pages[a],
         NEW seen \in [P -> UNION {Observations[a][v] : v \in P}], Record(a, P, seen)
  PROVE  /\ SnapshotsOK' /\ P # {} /\ P \subseteq Videos
         /\ \A b \in Analyses, v \in Videos :
              snapshot[b][v] # NoObservation => snapshot'[b][v] # NoObservation
         /\ \A v \in P : snapshot'[a][v] # NoObservation
<1>1. P # {} /\ P \subseteq Videos
  BY EnrichmentAssumption
<1>2. NoObservation \notin Metrics /\ NoAnalysis \notin Analyses
  BY EnrichmentAssumption, CorpusAssumption
<1>3. \A v \in P : seen[v] \in Metrics
  <2>1. UNION {Observations[a][v] : v \in P} \subseteq Metrics
    BY <1>1, EnrichmentAssumption
  <2> QED BY <2>1
<1>4. \A b \in Analyses, v \in Videos :
        snapshot'[b][v] = IF b = a /\ v \in P THEN seen[v] ELSE snapshot[b][v]
  BY DEF Record, SnapshotsOK
<1>5. snapshot' \in [Analyses -> [Videos -> Metrics \cup {NoObservation}]]
  BY <1>1, <1>3 DEF Record, SnapshotsOK
<1>6. /\ newest' \in [Videos -> Analyses \cup {NoAnalysis}]
      /\ \A v \in Videos : newest'[v] = IF v \in P \ Scanned(a) THEN a ELSE newest[v]
  BY DEF Record, SnapshotsOK
<1>7. \A v \in Videos : newest'[v] # NoAnalysis => snapshot'[newest'[v]][v] \in Metrics
  BY <1>1, <1>3, <1>4, <1>6 DEF SnapshotsOK
<1>8. \A b \in Analyses, v \in Videos :
        snapshot'[b][v] # NoObservation => newest'[v] # NoAnalysis
  BY <1>1, <1>2, <1>4, <1>6 DEF SnapshotsOK, Scanned
<1> QED BY <1>1, <1>2, <1>3, <1>4, <1>5, <1>6, <1>7, <1>8 DEF SnapshotsOK

-----------------------------------------------------------------------------
(* What the rest of the pipeline does to owners, acquisitions and claims *)

OwnersGiven ==
  /\ acquired' = acquired /\ claims' = claims
  /\ \A v \in Videos : owner'[v] \in {owner[v], NoAnalysis}

LEMMA WorkersGive ==
  ASSUME TypeOK, WorkerShape, WorkerNext PROVE OwnersGiven
<1> USE DEF OwnersGiven, TypeOK, CorpusTypeOK, corpusVars, videoVars, rowVars
<1>1. PICK w \in Workers : Work(w) \/ WorkerFails(w)
  BY DEF WorkerNext
<1>2. CASE \E v \in Videos : Deliver(w, v) \/ Start(w, v) \/ StartError(w, v)
  BY <1>2 DEF Deliver, Start, StartBusy, StartError, LoadTranscribed, LoadRefused, Load,
              Complete
<1>3. CASE Result(w)
  BY <1>3 DEF Result, ReadAttempts, Infer, SkipMusic, SkipSilent, Skip, Transcribed, Complete,
              FailTranscribed, FailTerminal, FailRetry, DeleteAudio, DeleteFails
<1>4. CASE DatabaseError(w) \/ DeleteUncommitted(w) \/ SkipUncommitted(w)
  BY <1>4 DEF DatabaseError, DeleteUncommitted, SkipUncommitted
<1>5. CASE Settle(w) \/ AnswerLost(w) \/ LoseConnection(w) \/ Crash(w) \/ DropSession(w)
  BY <1>5 DEF Settle, AnswerLost, LoseConnection, Crash, DropSession
<1> QED BY <1>1, <1>2, <1>3, <1>4, <1>5 DEF Work, WorkerFails

LEMMA OthersGive ==
  ASSUME TypeOK, WorkerShape, Others PROVE OwnersGiven
<1> USE DEF OwnersGiven, TypeOK, CorpusTypeOK, AcquisitionTypeOK, corpusVars, jobVars,
            videoVars, rowVars
<1>1. ASSUME NEW r \in reports, DeliverReport(r) PROVE OwnersGiven
  <2>1. r.video \in Videos
    BY DEF Report
  <2> QED BY <1>1, <2>1 DEF DeliverReport, Release
<1>2. ASSUME ReconcileAbort \/ \E r \in reports : ReportLost(r) PROVE OwnersGiven
  BY <1>2 DEF ReconcileAbort, ReportLost
<1>3. ASSUME NEW a \in Analyses, NEW v \in Videos, NEW c \in ReportCodes,
             SendReport(a, v, c)
      PROVE  OwnersGiven
  BY <1>3 DEF SendReport
<1>4. ASSUME NEW v \in Videos,
             Upload(v) \/ LeaseLapses(v) \/ CooldownElapses(v) \/ Import(v)
      PROVE  OwnersGiven
  BY <1>4 DEF Upload, ReceiveTranscribed, ReceiveAudio, Store, ReceiveCrash, ReceiveTorn,
              LeaseLapses, CooldownElapses, Import
<1>5. ASSUME NEW v \in Videos, Maintain(v) PROVE OwnersGiven
  BY <1>5 DEF Maintain, Enqueue, ReconcileStart, ReconcileRecover, ReconcileAbsent, Expire,
              CleanupAudio, CleanupPart
<1>6. ASSUME NEW v \in Videos, MaintenanceFails(v) PROVE OwnersGiven
  BY <1>6 DEF MaintenanceFails, PublishRefused, PublishUnconfirmed, ReconcileInvalid,
              ReconcileUnseen, Expire, CleanupFails, CleanupUncommitted
<1> QED BY <1>1, <1>2, <1>3, <1>4, <1>5, <1>6, WorkersGive DEF Others

LEMMA OthersStep ==
  ASSUME Others PROVE Next
BY DEF Others, Next, AcquisitionNext, Browse

-----------------------------------------------------------------------------
(* Every step of selection is a step of the pipeline *)

EnrichmentInv == TypeOK /\ WorkerShape /\ SnapshotsOK /\ OwnersAcquired /\ OnlyScanned

(* A step that reserves S for a. *)
Reserves(a, S) ==
  /\ [Next]_vars
  /\ acquired' = acquired \cup ({a} \X S)
  /\ \A v \in Videos : owner'[v] = IF v \in S THEN a ELSE owner[v]

LEMMA ReservedStep ==
  ASSUME TypeOK, NEW a \in Analyses, NEW S \in SUBSET Videos, NEW order,
         FlockFree, CapacityFree, \A v \in S : Reservable(a, v),
         Cardinality(Pending(a)) + Cardinality(S) <= BatchSize,
         S # {} => Cardinality(Active \cup S) <= MaxJobs,
         ReserveRanked(a, S, order)
  PROVE  Reserves(a, S)
<1>1. CASE S = {}
  <2>1. UNCHANGED vars
    BY <1>1 DEF ReserveRanked, vars, corpusVars, jobVars, videoVars, rowVars, audioVars
  <2>2. acquired' = acquired /\ owner' = owner
    BY <2>1 DEF vars, corpusVars, videoVars, rowVars
  <2> QED BY <1>1, <2>1, <2>2 DEF Reserves
<1>2. CASE S # {}
  <2>1. Reserve(a, S) /\ \A v \in S : claims[v] < MaxClaims
    BY <1>2 DEF ReserveRanked
  <2>2. HasRoom(S)
    BY <1>2 DEF HasRoom, CapacityFree
  <2>3. AcquisitionBatch(a) /\ UNCHANGED workerVars
    BY <1>2, <2>1, <2>2 DEF AcquisitionBatch, ReserveRanked
  <2>4. Next
    BY <2>3 DEF Next, AcquisitionNext, Browse
  <2>5. /\ acquired' = acquired \cup ({a} \X S)
        /\ \A v \in Videos : owner'[v] = IF v \in S THEN a ELSE owner[v]
    BY <2>1 DEF Reserve
  <2> QED BY <2>4, <2>5 DEF Reserves
<1> QED BY <1>1, <1>2

LEMMA BatchStep ==
  ASSUME EnrichmentInv, NEW a \in Analyses, NEW complete \in BOOLEAN,
         NEW hasMore \in BOOLEAN, Batch(a, complete, hasMore)
  PROVE  \E S \in SUBSET (Scanned(a) \cap Feasible) :
           /\ Reserves(a, S)
           /\ \E order : StrictTotal(order, S) /\ ReserveRanked(a, S, order)
           /\ S \subseteq Authorized(a, complete, hasMore).videos
<1> DEFINE auth == Authorized(a, complete, hasMore)
           room == BatchSize - Cardinality(Pending(a))
           free == Claimable(a, auth)
           S == Firsts(free, room, auth.order)
           tried == IF Cardinality(S) < room THEN auth.videos
                    ELSE S \cup {v \in auth.videos : \E u \in S : <<v, u>> \in auth.order}
<1>1. Sound(auth, Scanned(a))
  BY LatestMeasured, FinalSound, PartialSound DEF Authorized, EnrichmentInv
<1>2. /\ FlockFree /\ CapacityFree /\ Cardinality(Pending(a)) < BatchSize
      /\ S # {} /\ ReserveRanked(a, S, auth.order)
      /\ \A v \in tried :
           Cardinality(Active \cup {u \in S : <<u, v>> \in auth.order}) < MaxJobs
  BY DEF Batch
<1> HIDE DEF auth
<1>3. /\ free \subseteq auth.videos /\ free \in SUBSET Videos
      /\ \A v \in free : Reservable(a, v)
  BY <1>1 DEF Claimable, Sound, Scanned
<1>4. room \in Nat
  <2>1. Cardinality(Pending(a)) \in Nat
    BY FiniteVideos DEF Pending
  <2> QED BY <1>2, <2>1, CorpusAssumption
<1>5. StrictTotal(auth.order, free)
  BY <1>1, <1>3, TotalOnSubset DEF Sound
<1> HIDE DEF free, room
<1>6. S \subseteq free /\ Cardinality(S) <= room
  BY <1>3, <1>4, <1>5, FewFirsts
<1> HIDE DEF S
<1>7. S \subseteq tried
  BY <1>3, <1>6
<1>8. Cardinality(Active \cup S) <= MaxJobs
  <2>1. S \in SUBSET Videos /\ StrictTotal(auth.order, S)
    BY <1>3, <1>5, <1>6, TotalOnSubset
  <2>2. \A v \in S : Cardinality(Active \cup {u \in S : <<u, v>> \in auth.order}) < MaxJobs
    BY <1>2, <1>7
  <2> QED BY <1>2, <2>1, <2>2, RoomForAll
<1>9. Cardinality(Pending(a)) + Cardinality(S) <= BatchSize
  <2>1. Cardinality(Pending(a)) \in Nat /\ Cardinality(S) \in Nat
    BY <1>3, <1>6, FiniteVideos DEF Pending
  <2> QED BY <1>6, <2>1, CorpusAssumption DEF room
<1>10. S \in SUBSET (Scanned(a) \cap Feasible) /\ S \in SUBSET Videos
  BY <1>1, <1>3, <1>6 DEF Sound
<1>11. Reserves(a, S)
  BY <1>2, <1>3, <1>6, <1>8, <1>9, <1>10, ReservedStep DEF EnrichmentInv
<1>12. StrictTotal(auth.order, S)
  BY <1>3, <1>5, <1>6, TotalOnSubset
<1> QED BY <1>2, <1>3, <1>6, <1>10, <1>11, <1>12 DEF auth

LEMMA IngestStep ==
  ASSUME EnrichmentInv, NEW a \in Analyses, NEW P \in Pages[a],
         NEW seen \in [P -> UNION {Observations[a][v] : v \in P}], Ingest(a, P, seen)
  PROVE  /\ SnapshotsOK'
         /\ \E S \in SUBSET (P \cap Feasible) :
              /\ Reserves(a, S)
              /\ \E order : StrictTotal(order, S) /\ ReserveRanked(a, S, order)
              /\ S \subseteq AuthorizedFinal(a, P, LatestRows(snapshot', newest')).videos
<1> DEFINE L == LatestRows(snapshot', newest')
           auth == AuthorizedFinal(a, P, L)
           free == Claimable(a, auth)
           before(v) == {u \in free : <<u, v>> \in auth.order}
           S == {v \in free : /\ Cardinality(before(v)) < BatchSize
                              /\ Cardinality(Active \cup before(v)) < MaxJobs}
<1>1. /\ FlockFree /\ CapacityFree /\ Scanned(a) = {}
      /\ Record(a, P, seen) /\ ReserveRanked(a, S, auth.order)
  BY DEF Ingest
<1>2. SnapshotsOK' /\ P \subseteq Videos /\ \A v \in P : snapshot'[a][v] # NoObservation
  BY <1>1, RecordKeeps DEF EnrichmentInv
<1>3. Measured(L) /\ P \in SUBSET (DOMAIN L)
  BY <1>2 DEF SnapshotsOK, Measured, LatestRows
<1> HIDE DEF L
<1>4. Sound(auth, P)
  BY <1>3, FinalSound
<1> HIDE DEF auth
<1>5. /\ free \subseteq auth.videos /\ free \in SUBSET Videos
      /\ \A v \in free : Reservable(a, v)
  BY <1>2, <1>4 DEF Claimable, Sound
<1>6. StrictTotal(auth.order, free)
  BY <1>4, <1>5, TotalOnSubset DEF Sound
<1> HIDE DEF free
<1>7. S \subseteq free /\ S \in SUBSET Videos
  BY <1>5
<1>8. S \subseteq Firsts(free, BatchSize, auth.order)
  BY DEF Firsts
<1>9. S # {} => Cardinality(Active \cup S) <= MaxJobs
  <2>1. StrictTotal(auth.order, S)
    BY <1>6, <1>7, TotalOnSubset
  <2>2. \A v \in S : Cardinality(Active \cup {u \in free : <<u, v>> \in auth.order}) < MaxJobs
    OBVIOUS
  <2> HIDE DEF S
  <2> QED BY <1>5, <1>7, <2>1, <2>2, RoomForAll
<1> HIDE DEF S
<1>10. Cardinality(S) <= BatchSize
  <2>1. /\ Firsts(free, BatchSize, auth.order) \in SUBSET Videos
        /\ Cardinality(Firsts(free, BatchSize, auth.order)) <= BatchSize
    BY <1>5, <1>6, FewFirsts, CorpusAssumption
  <2>2. /\ Cardinality(S) \in Nat
        /\ Cardinality(Firsts(free, BatchSize, auth.order)) \in Nat
        /\ Cardinality(S) <= Cardinality(Firsts(free, BatchSize, auth.order))
    BY <1>8, <2>1, FiniteVideos
  <2> QED BY <2>1, <2>2, CorpusAssumption
<1>11. Pending(a) = {}
  BY <1>1, CorpusAssumption DEF EnrichmentInv, OwnersAcquired, OnlyScanned, Scanned, Pending
<1>12. Cardinality(Pending(a)) + Cardinality(S) <= BatchSize
  <2>1. Cardinality(Pending(a)) = 0 /\ Cardinality(S) \in Nat
    BY <1>7, <1>11, FS_EmptySet, FiniteVideos
  <2> QED BY <1>10, <2>1
<1>13. S \in SUBSET (P \cap Feasible)
  BY <1>4, <1>5, <1>7 DEF Sound
<1>14. Reserves(a, S)
  BY <1>1, <1>5, <1>7, <1>9, <1>12, ReservedStep DEF EnrichmentInv
<1>15. StrictTotal(auth.order, S)
  BY <1>5, <1>6, <1>7, TotalOnSubset
<1> QED BY <1>1, <1>2, <1>5, <1>7, <1>13, <1>14, <1>15 DEF auth, L

(* Reserving what was seen keeps the invariant. *)
LEMMA ReservesKeeps ==
  ASSUME EnrichmentInv, SnapshotsOK', NEW a \in Analyses, NEW S \in SUBSET Videos,
         Reserves(a, S),
         \A v \in S : v \in Feasible /\ snapshot'[a][v] # NoObservation,
         \A b \in Analyses, v \in Videos :
           snapshot[b][v] # NoObservation => snapshot'[b][v] # NoObservation
  PROVE  EnrichmentInv' /\ [Next]_vars
<1>1. [Next]_vars /\ TypeOK' /\ WorkerShape'
  BY TypeStep DEF Reserves, EnrichmentInv
<1>2. OwnersAcquired'
  BY DEF Reserves, EnrichmentInv, OwnersAcquired
<1>3. OnlyScanned'
  BY DEF Reserves, EnrichmentInv, OnlyScanned
<1> QED BY <1>1, <1>2, <1>3 DEF EnrichmentInv

LEMMA EnrichmentStep ==
  ASSUME EnrichmentInv, [EnrichmentNext]_enrichedVars
  PROVE  EnrichmentInv' /\ [Next]_vars
<1>1. ASSUME NEW a \in Analyses, Scan(a) PROVE EnrichmentInv' /\ [Next]_vars
  <2>p. PICK P \in Pages[a] :
          \E seen \in [P -> UNION {Observations[a][v] : v \in P}] :
            Checkpoint(a, P, seen) \/ Ingest(a, P, seen)
    BY <1>1 DEF Scan
  <2>1. PICK seen \in [P -> UNION {Observations[a][v] : v \in P}] :
          Checkpoint(a, P, seen) \/ Ingest(a, P, seen)
    BY <2>p
  <2>2. Record(a, P, seen)
    BY <2>1 DEF Checkpoint, Ingest
  <2>3. /\ SnapshotsOK' /\ P \subseteq Videos /\ \A v \in P : snapshot'[a][v] # NoObservation
        /\ \A b \in Analyses, v \in Videos :
             snapshot[b][v] # NoObservation => snapshot'[b][v] # NoObservation
    BY <2>2, RecordKeeps DEF EnrichmentInv
  <2>4. CASE Checkpoint(a, P, seen)
    <3>1. UNCHANGED vars
      BY <2>4 DEF Checkpoint
    <3>2. acquired' = acquired /\ owner' = owner
      BY <3>1 DEF vars, corpusVars, videoVars, rowVars
    <3>3. Reserves(a, {})
      BY <3>1, <3>2 DEF Reserves
    <3> QED BY <2>3, <3>3, ReservesKeeps
  <2>5. CASE Ingest(a, P, seen)
    <3>1. PICK S \in SUBSET (P \cap Feasible) : Reserves(a, S)
      BY <2>5, IngestStep
    <3> QED BY <2>3, <3>1, ReservesKeeps
  <2> QED BY <2>1, <2>4, <2>5
<1>2. ASSUME NEW a \in Analyses, NEW complete \in BOOLEAN, NEW hasMore \in BOOLEAN,
             Batch(a, complete, hasMore)
      PROVE  EnrichmentInv' /\ [Next]_vars
  <2>1. PICK S \in SUBSET (Scanned(a) \cap Feasible) : Reserves(a, S)
    BY <1>2, BatchStep
  <2>2. UNCHANGED scanVars
    BY <1>2 DEF Batch
  <2>3. SnapshotsOK' /\ snapshot' = snapshot
    BY <2>2 DEF scanVars, EnrichmentInv, SnapshotsOK
  <2> QED BY <2>1, <2>3, ReservesKeeps DEF Scanned
<1>3. CASE (Others /\ UNCHANGED enrichmentVars) \/ UNCHANGED enrichedVars
  <2>1. OwnersGiven /\ [Next]_vars
    BY <1>3, OthersGive, OthersStep
       DEF EnrichmentInv, OwnersGiven, enrichedVars, vars, corpusVars, videoVars, rowVars
  <2>2. UNCHANGED <<snapshot, newest>>
    BY <1>3 DEF enrichedVars, enrichmentVars, scanVars
  <2>3. TypeOK' /\ WorkerShape'
    BY <2>1, TypeStep DEF EnrichmentInv
  <2>4. SnapshotsOK' /\ OnlyScanned'
    BY <2>1, <2>2 DEF EnrichmentInv, SnapshotsOK, OnlyScanned, OwnersGiven
  <2>5. OwnersAcquired'
    BY <2>1 DEF EnrichmentInv, OwnersAcquired, OwnersGiven
  <2> QED BY <2>1, <2>3, <2>4, <2>5 DEF EnrichmentInv
<1> QED BY <1>1, <1>2, <1>3 DEF EnrichmentNext

LEMMA EnrichmentStart == EnrichmentInit => EnrichmentInv
<1> SUFFICES ASSUME EnrichmentInit PROVE EnrichmentInv
  OBVIOUS
<1>1. Init /\ TypeOK /\ WorkerShape
  BY TypeInit DEF EnrichmentInit, Init, WorkerInit, WorkerShape
<1>2. SnapshotsOK
  BY DEF EnrichmentInit, SnapshotsOK
<1>3. OwnersAcquired /\ OnlyScanned
  BY <1>1 DEF Init, CorpusInit, OwnersAcquired, OnlyScanned
<1> QED BY <1>1, <1>2, <1>3 DEF EnrichmentInv

LEMMA EnrichmentInvariant == EnrichmentSpec => []EnrichmentInv
BY EnrichmentStart, EnrichmentStep, PTL DEF EnrichmentSpec

(* A scan acquires only feasible videos that the browser saw in it, although
   the whole channel is ranked and other scans come in between. *)
THEOREM SeenOnly == EnrichmentSpec => []OnlyScanned
<1>1. EnrichmentInv => OnlyScanned
  BY DEF EnrichmentInv
<1> QED BY <1>1, EnrichmentInvariant, PTL

(* Rankings, allowances, buckets and batches only narrow what Pipeline lets a
   scan reserve: its limits on places and batches hold of the real selection. *)
THEOREM Narrows == EnrichmentSpec => ImplementsPipeline
<1>1. EnrichmentInit => Init
  BY DEF EnrichmentInit
<1>2. EnrichmentInv /\ [EnrichmentNext]_enrichedVars => [Next]_vars
  BY EnrichmentStep
<1> QED BY <1>1, <1>2, EnrichmentInvariant, PTL
          DEF EnrichmentSpec, ImplementsPipeline, Spec

(* So jobs that selection made are backed by messages, keep their audio and
   their places stay within the limit. *)
THEOREM SelectedJobs ==
  ASSUME ~SessionLoss, ~SkipCommitLoss
  PROVE  EnrichmentSpec => [](NoLostJob /\ AudioDurable /\ ActiveWithinLimit)
BY Narrows, JobsAreBacked, Durable, Limit, PTL DEF ImplementsPipeline

-----------------------------------------------------------------------------
(* Type correctness: the median and the ranks are numbers *)

LEMMA MostViewed ==
  ASSUME NEW L, Measured(L), NEW S \in SUBSET (DOMAIN L), S # {}
  PROVE  \E m \in S : \A u \in S : L[u].views <= L[m].views
<1> DEFINE R == {p \in S \X S : <<p[2], p[1]>> \in ViewOrder(L)}
<1>1. StrictTotal(ViewOrder(L), S)
  BY OrdersTotal, TotalOnSubset
<1>2. StrictTotal(R, S)
  BY <1>1 DEF StrictTotal
<1>3. IsFiniteSet(S)
  BY FiniteVideos DEF Measured
<1>4. PICK m \in S : \A u \in S \ {m} : <<u, m>> \in R
  <2> HIDE DEF R
  <2> QED BY <1>2, <1>3, LastElement
<1>5. \A u \in S : L[u].views \in Nat
  BY DEF Measured, Metrics
<1>6. \A u \in S \ {m} : L[u].views <= L[m].views
  <2> SUFFICES ASSUME NEW u \in S \ {m} PROVE L[u].views <= L[m].views
    OBVIOUS
  <2>1. <<m, u>> \in ViewOrder(L)
    BY <1>4
  <2>2. L[m].views > L[u].views \/ L[m].views = L[u].views \/ L[m] = L[u]
    BY <2>1 DEF ViewOrder
  <2> QED BY <1>5, <2>2
<1> QED BY <1>5, <1>6

LEMMA KthIsNatural ==
  ASSUME NEW L, Measured(L), NEW k \in 1..Cardinality(DOMAIN L)
  PROVE  KthViews(L, k) \in Nat
<1> DEFINE D == DOMAIN L
           Below(x) == {v \in D : L[v].views < x}
           AtMost(x) == {v \in D : L[v].views <= x}
           T == {v \in D : Cardinality(AtMost(L[v].views)) >= k}
<1>1. /\ \A v \in D : L[v].views \in Nat
      /\ \A x : Below(x) \in SUBSET D /\ AtMost(x) \in SUBSET D
      /\ D \in SUBSET Videos
  BY DEF Measured, Metrics
<1>2. IsFiniteSet(D) /\ Cardinality(D) \in Nat /\ k \in Nat \ {0}
  BY <1>1, FiniteVideos
<1>3. D # {}
  BY <1>2, FS_EmptySet
<1>4. T # {}
  <2>1. PICK m \in D : \A u \in D : L[u].views <= L[m].views
    BY <1>3, MostViewed
  <2>2. AtMost(L[m].views) = D
    BY <2>1
  <2> QED BY <2>2, <1>2
<1>5. PICK w \in T : \A u \in T \ {w} : <<u, w>> \in ViewOrder(L)
  <2>1. T \in SUBSET D /\ IsFiniteSet(T)
    BY <1>2, FS_Subset
  <2>2. StrictTotal(ViewOrder(L), T)
    BY <2>1, OrdersTotal, TotalOnSubset
  <2> HIDE DEF T
  <2> QED BY <1>4, <2>1, <2>2, LastElement
<1>6. Cardinality(Below(L[w].views)) < k
  <2>1. CASE Below(L[w].views) = {}
    <3>1. Cardinality(Below(L[w].views)) = 0
      BY <2>1, FS_EmptySet
    <3> HIDE DEF Below
    <3> QED BY <1>2, <3>1
  <2>2. CASE Below(L[w].views) # {}
    <3>1. PICK b \in Below(L[w].views) :
            \A u \in Below(L[w].views) : L[u].views <= L[b].views
      BY <1>1, <2>2, MostViewed
    <3>2. b \in D /\ w \in D /\ L[b].views < L[w].views
      OBVIOUS
    <3>3. ASSUME b \in T PROVE FALSE
      <4>1. b # w
        BY <1>1, <3>2
      <4>2. <<b, w>> \in ViewOrder(L)
        BY <1>5, <3>3, <4>1
      <4>3. L[b].views > L[w].views \/ L[b].views = L[w].views \/ L[b] = L[w]
        BY <4>2 DEF ViewOrder
      <4> QED BY <1>1, <3>2, <4>3
    <3>4. Below(L[w].views) = AtMost(L[b].views)
      BY <1>1, <3>1, <3>2
    <3>5. Cardinality(AtMost(L[b].views)) \in Nat
      BY <1>1, FiniteVideos
    <3>6. ~(Cardinality(AtMost(L[b].views)) >= k)
      BY <3>2, <3>3
    <3> HIDE DEF AtMost, Below
    <3> QED BY <1>2, <3>4, <3>5, <3>6
  <2> QED BY <2>1, <2>2
<1>7. /\ L[w].views \in {L[v].views : v \in D} /\ Cardinality(Below(L[w].views)) < k
      /\ Cardinality(AtMost(L[w].views)) >= k
  BY <1>6
<1> HIDE DEF T
<1>8. KthViews(L, k) \in {L[v].views : v \in D}
  BY <1>7 DEF KthViews
<1> QED BY <1>1, <1>8

LEMMA MedianIsNatural ==
  ASSUME NEW L, Measured(L) PROVE TwiceMedian(L) \in Nat
<1> DEFINE n == Cardinality(DOMAIN L)
<1>1. n \in Nat
  BY FiniteVideos DEF Measured
<1>2. CASE n = 0
  BY <1>2 DEF TwiceMedian
<1>3. CASE n # 0
  <2>1. (n + 1) \div 2 \in 1..n /\ n \div 2 + 1 \in 1..n
    <3> HIDE DEF n
    <3> QED BY <1>1, <1>3
  <2>2. KthViews(L, (n + 1) \div 2) \in Nat /\ KthViews(L, n \div 2 + 1) \in Nat
    BY <2>1, KthIsNatural
  <2> QED BY <1>3, <2>2 DEF TwiceMedian
<1> QED BY <1>2, <1>3

RanksOK ==
  requested \in [Analyses -> Nat] /\ rank \in [Analyses -> [Videos -> Nat]]

LEMMA RankTypes ==
  ASSUME RanksOK, NEW a \in Analyses, NEW S \in SUBSET Videos, NEW order,
         ReserveRanked(a, S, order)
  PROVE  RanksOK'
<1> DEFINE new == {v \in S : <<a, v>> \notin acquired}
<1>1. /\ Cardinality(new) \in Nat
      /\ \A v \in Videos : Cardinality({u \in new : <<u, v>> \in order}) \in Nat
  BY FiniteVideos
<1>2. /\ rank' = [rank EXCEPT ![a] =
                    [v \in Videos |->
                       IF v \in new
                         THEN requested[a] + 1
                                + Cardinality({u \in new : <<u, v>> \in order})
                         ELSE rank[a][v]]]
      /\ requested' = [requested EXCEPT ![a] = requested[a] + Cardinality(new)]
  BY DEF ReserveRanked, Rank, RanksOK
<1> HIDE DEF new
<1>3. requested' \in [Analyses -> Nat]
  BY <1>1, <1>2 DEF RanksOK
<1>4. [v \in Videos |->
         IF v \in new
           THEN requested[a] + 1 + Cardinality({u \in new : <<u, v>> \in order})
           ELSE rank[a][v]] \in [Videos -> Nat]
  BY <1>1 DEF RanksOK
<1>5. rank' \in [Analyses -> [Videos -> Nat]]
  BY <1>2, <1>4 DEF RanksOK
<1> QED BY <1>3, <1>5 DEF RanksOK

NumbersOK == RanksOK /\ median \in [Analyses -> Nat]

LEMMA NumbersStep ==
  ASSUME EnrichmentInv, NumbersOK, [EnrichmentNext]_enrichedVars PROVE NumbersOK'
<1>1. ASSUME NEW a \in Analyses, Scan(a) PROVE NumbersOK'
  <2>p. PICK P \in Pages[a] :
          \E seen \in [P -> UNION {Observations[a][v] : v \in P}] :
            Checkpoint(a, P, seen) \/ Ingest(a, P, seen)
    BY <1>1 DEF Scan
  <2>1. PICK seen \in [P -> UNION {Observations[a][v] : v \in P}] :
          Checkpoint(a, P, seen) \/ Ingest(a, P, seen)
    BY <2>p
  <2>2. Record(a, P, seen)
    BY <2>1 DEF Checkpoint, Ingest
  <2>3. SnapshotsOK' /\ P \subseteq Videos
    BY <2>2, RecordKeeps DEF EnrichmentInv
  <2> DEFINE L == LatestRows(snapshot', newest')
  <2>4. Measured(L)
    BY <2>3 DEF SnapshotsOK, Measured, LatestRows
  <2>5. median' = [median EXCEPT ![a] = TwiceMedian(L)]
    BY <2>2 DEF Record
  <2> HIDE DEF L
  <2>6. median' \in [Analyses -> Nat]
    BY <2>4, <2>5, MedianIsNatural DEF NumbersOK
  <2>7. CASE Checkpoint(a, P, seen)
    BY <2>6, <2>7 DEF Checkpoint, NumbersOK, RanksOK
  <2>8. CASE Ingest(a, P, seen)
    <3>1. \E S \in SUBSET (P \cap Feasible) : \E order : ReserveRanked(a, S, order)
      BY <2>8, IngestStep
    <3>2. RanksOK'
      BY <2>3, <3>1, RankTypes DEF NumbersOK
    <3> QED BY <2>6, <3>2 DEF NumbersOK
  <2> QED BY <2>1, <2>7, <2>8
<1>2. ASSUME NEW a \in Analyses, NEW complete \in BOOLEAN, NEW hasMore \in BOOLEAN,
             Batch(a, complete, hasMore)
      PROVE  NumbersOK'
  <2>1. \E S \in SUBSET Videos : \E order : ReserveRanked(a, S, order)
    BY <1>2, BatchStep DEF Scanned
  <2>2. RanksOK'
    BY <2>1, RankTypes DEF NumbersOK
  <2>3. median' = median
    BY <1>2 DEF Batch, scanVars
  <2> QED BY <2>2, <2>3 DEF NumbersOK
<1>3. CASE UNCHANGED enrichmentVars \/ UNCHANGED enrichedVars
  BY <1>3 DEF enrichedVars, enrichmentVars, scanVars, NumbersOK, RanksOK
<1> QED BY <1>1, <1>2, <1>3 DEF EnrichmentNext

(* The newest snapshot of a video exists; medians, ranks and counters stay
   numbers. *)
THEOREM EnrichmentTypes == EnrichmentSpec => []EnrichmentTypeOK
<1>1. EnrichmentInit => NumbersOK
  BY DEF EnrichmentInit, NumbersOK, RanksOK
<1>2. EnrichmentInv /\ NumbersOK /\ [EnrichmentNext]_enrichedVars => NumbersOK'
  BY NumbersStep
<1>3. EnrichmentInv /\ NumbersOK => EnrichmentTypeOK
  BY DEF EnrichmentInv, SnapshotsOK, NumbersOK, RanksOK, EnrichmentTypeOK
<1> QED BY <1>1, <1>2, <1>3, EnrichmentInvariant, PTL DEF EnrichmentSpec

-----------------------------------------------------------------------------
(* The allowance *)

LEMMA UnionFits ==
  ASSUME NEW S \in SUBSET Videos, NEW T \in SUBSET Videos
  PROVE  /\ S \cup T \in SUBSET Videos
         /\ Cardinality(S \cup T) \in Nat /\ Cardinality(S) \in Nat /\ Cardinality(T) \in Nat
         /\ Cardinality(S \cup T) <= Cardinality(S) + Cardinality(T)
<1>1. IsFiniteSet(S) /\ IsFiniteSet(T)
  BY FiniteVideos
<1>2. Cardinality(S \cup T) = Cardinality(S) + Cardinality(T) - Cardinality(S \cap T)
  BY <1>1, FS_Union
<1>3. /\ Cardinality(S \cup T) \in Nat /\ Cardinality(S) \in Nat /\ Cardinality(T) \in Nat
      /\ Cardinality(S \cap T) \in Nat
  <2>1. S \cup T \in SUBSET Videos /\ S \cap T \in SUBSET Videos
    OBVIOUS
  <2> QED BY <2>1, FiniteVideos
<1> QED BY <1>2, <1>3

(* A final authorization is no larger than what is left of the allowance. *)
LEMMA BucketsFit ==
  ASSUME NEW L, Measured(L), NEW S \in SUBSET (DOMAIN L), NEW n \in Nat
  PROVE  Cardinality(Taken(Buckets(S, n, L))) <= n
<1> DEFINE budget == Least(n, Cardinality(S))
           B == Buckets(S, n, L)
<1>1. S \in SUBSET Videos /\ Cardinality(S) \in Nat
  BY FiniteVideos DEF Measured
<1>2. budget \in Nat /\ budget <= n
  BY <1>1 DEF Least
<1>3. StrictTotal(ViewOrder(L), S) /\ StrictTotal(EngagementOrder(L), S)
  BY OrdersTotal, TotalOnSubset
<1> DEFINE k1 == Percent(60, budget)
           k2 == Percent(25, budget)
           k3 == budget - Percent(60, budget) - Percent(25, budget)
<1>4. k1 \in Nat /\ k2 \in Nat /\ k3 \in Nat /\ k1 + k2 + k3 = budget
  <2> HIDE DEF budget
  <2> QED BY <1>2 DEF Percent
<1>5. /\ B[1] = Firsts(S, k1, ViewOrder(L))
      /\ B[2] = Firsts(S \ B[1], k2, ViewOrder(L))
      /\ B[3] = Firsts(S \ (B[1] \cup B[2]), k3, EngagementOrder(L))
  BY DEF Buckets
<1> HIDE DEF k1, k2, k3, budget, B
<1>6. /\ B[1] \in SUBSET Videos /\ Cardinality(B[1]) <= k1
      /\ B[2] \in SUBSET Videos /\ Cardinality(B[2]) <= k2
      /\ B[3] \in SUBSET Videos /\ Cardinality(B[3]) <= k3
  <2>1. S \ B[1] \in SUBSET S /\ S \ (B[1] \cup B[2]) \in SUBSET S
    OBVIOUS
  <2>2. /\ StrictTotal(ViewOrder(L), S \ B[1])
        /\ StrictTotal(EngagementOrder(L), S \ (B[1] \cup B[2]))
    BY <1>3, <2>1, TotalOnSubset
  <2> QED BY <1>1, <1>3, <1>4, <1>5, <2>1, <2>2, FewFirsts
<1>7. Taken(B) = B[1] \cup B[2] \cup B[3]
  <2>1. 1..3 = {1, 2, 3}
    OBVIOUS
  <2> QED BY <2>1 DEF Taken
<1>8. /\ Cardinality(Taken(B)) \in Nat
      /\ Cardinality(Taken(B)) <= Cardinality(B[1]) + Cardinality(B[2]) + Cardinality(B[3])
      /\ \A i \in {1, 2, 3} : Cardinality(B[i]) \in Nat
  <2> DEFINE two == B[1] \cup B[2]
  <2>1. /\ two \in SUBSET Videos /\ Cardinality(two) \in Nat
        /\ Cardinality(two) <= Cardinality(B[1]) + Cardinality(B[2])
        /\ Cardinality(B[1]) \in Nat /\ Cardinality(B[2]) \in Nat
    BY <1>6, UnionFits
  <2>2. Taken(B) = two \cup B[3]
    BY <1>7
  <2> HIDE DEF two
  <2>3. /\ Cardinality(Taken(B)) \in Nat /\ Cardinality(B[3]) \in Nat
        /\ Cardinality(Taken(B)) <= Cardinality(two) + Cardinality(B[3])
    BY <1>6, <2>1, <2>2, UnionFits
  <2> QED BY <2>1, <2>3
<1>9. Cardinality(Taken(B)) <= n
  BY <1>2, <1>4, <1>6, <1>8
<1> QED BY <1>9 DEF B

(* An authorization contains nothing that is committed to a already, and no
   more than is left of an allowance for n videos. *)
Fits(auth, a, n) ==
  /\ auth.videos \in SUBSET Videos /\ auth.videos \cap Used(a) = {}
  /\ auth.videos # {} =>
       Cardinality(auth.videos) + Cardinality(Used(a)) <= Allowance(n)

LEMMA AllowanceNat == ASSUME NEW n \in Nat PROVE Allowance(n) \in Nat
<1>1. PercentUp(TargetPercent, n) \in Nat
  BY EnrichmentAssumption DEF PercentUp
<1> QED BY <1>1, EnrichmentAssumption DEF Allowance, Least, Greatest

LEMMA FinalFits ==
  ASSUME NEW a, NEW L, Measured(L), NEW S \in SUBSET (DOMAIN L)
  PROVE  Fits(AuthorizedFinal(a, S, L), a, Cardinality(S))
<1> DEFINE missing == Missing(Priority(S, L))
           pool == missing \ Used(a)
           left == RemainingFinal(a, Cardinality(S), missing)
           n == Greatest(0, left)
           B == Buckets(pool, n, L)
<1>1. pool \in SUBSET (DOMAIN L) /\ pool \cap Used(a) = {} /\ missing \in SUBSET Videos
  BY DEF Missing, Priority, Measured
<1>2. /\ Cardinality(S) \in Nat /\ Cardinality(missing) \in Nat
      /\ Cardinality(Used(a)) \in Nat /\ Allowance(Cardinality(S)) \in Nat
  <2>1. S \in SUBSET Videos /\ Used(a) \in SUBSET Videos
    BY DEF Measured, Used
  <2> QED BY <1>1, <2>1, FiniteVideos, AllowanceNat
<1>3. left \in Int /\ left <= Allowance(Cardinality(S)) - Cardinality(Used(a))
  BY <1>2 DEF RemainingFinal, Least
<1> HIDE DEF missing, pool, left
<1>4. n \in Nat /\ (n > 0 => n = left)
  BY <1>3 DEF Greatest
<1> HIDE DEF n
<1>5. Taken(B) \subseteq pool /\ Cardinality(Taken(B)) <= n
  BY <1>1, <1>4, BucketsTotal, BucketsFit
<1> HIDE DEF B
<1>6. AuthorizedFinal(a, S, L).videos = Taken(B)
  BY DEF AuthorizedFinal, Authorization, Taken, missing, pool, left, n, B
<1>7. Taken(B) \in SUBSET Videos /\ Taken(B) \cap Used(a) = {}
  BY <1>1, <1>5 DEF Measured
<1>8. Taken(B) # {} => Cardinality(Taken(B)) \in Nat \ {0}
  BY <1>7, FiniteVideos, FS_EmptySet
<1>9. Taken(B) # {} => Cardinality(Taken(B)) + Cardinality(Used(a)) <= Allowance(Cardinality(S))
  BY <1>2, <1>3, <1>4, <1>5, <1>8
<1> QED BY <1>6, <1>7, <1>9 DEF Fits

LEMMA PartialFits ==
  ASSUME NEW a, NEW L, Measured(L), NEW S \in SUBSET (DOMAIN L), NEW m,
         NEW hasMore \in BOOLEAN
  PROVE  Fits(AuthorizedPartial(a, S, L, m, hasMore), a, Cardinality(S))
<1> DEFINE from == IF Cardinality(S) < MinDiscovered /\ hasMore THEN {}
                   ELSE Incremental(S, L, m)
           pool == Missing(from) \ Used(a)
           left == RemainingPartial(a, Cardinality(S))
           F == Firsts(pool, left, ViewOrder(L))
<1>1. pool \in SUBSET (DOMAIN L) /\ pool \cap Used(a) = {} /\ pool \in SUBSET Videos
  BY DEF Missing, Incremental, Measured
<1>2. AuthorizedPartial(a, S, L, m, hasMore).videos = F
  BY DEF AuthorizedPartial, Authorization
<1> HIDE DEF from, pool
<1>3. /\ Cardinality(Used(a)) \in Nat /\ Allowance(Cardinality(S)) \in Nat
      /\ left = Allowance(Cardinality(S)) - Cardinality(Used(a))
  <2>1. S \in SUBSET Videos /\ Used(a) \in SUBSET Videos
    BY DEF Measured, Used
  <2> QED BY <2>1, FiniteVideos, AllowanceNat DEF RemainingPartial
<1> HIDE DEF left
<1>4. F \subseteq pool
  BY DEF Firsts
<1>5. F # {} => left \in Nat
  <2>1. \A v \in pool : Cardinality({u \in pool : <<u, v>> \in ViewOrder(L)}) \in Nat
    BY <1>1, FiniteVideos
  <2>2. ASSUME NEW v \in F PROVE left \in Nat
    <3>1. v \in pool /\ Cardinality({u \in pool : <<u, v>> \in ViewOrder(L)}) < left
      BY <2>2 DEF Firsts
    <3> QED BY <1>3, <2>1, <3>1
  <2> HIDE DEF F
  <2> QED BY <2>2
<1>6. left \in Nat => Cardinality(F) <= left
  <2>1. StrictTotal(ViewOrder(L), pool)
    BY <1>1, OrdersTotal, TotalOnSubset
  <2> QED BY <1>1, <2>1, FewFirsts
<1> HIDE DEF F
<1>7. F \in SUBSET Videos /\ Cardinality(F) \in Nat
  BY <1>1, <1>4, FiniteVideos
<1>8. F # {} => Cardinality(F) + Cardinality(Used(a)) <= Allowance(Cardinality(S))
  BY <1>3, <1>5, <1>6, <1>7
<1> QED BY <1>1, <1>2, <1>4, <1>7, <1>8 DEF Fits

AllowanceStep ==
  \A a \in Analyses :
    (\E v \in Videos : claims'[v] # claims[v] /\ owner'[v] = a)
      => Cardinality(Used(a)') <= Allowance(Cardinality(Scanned(a)'))

LEMMA ReservesWithin ==
  ASSUME EnrichmentInv, NEW a \in Analyses, NEW S \in SUBSET Videos, NEW order, NEW auth,
         Reserves(a, S), ReserveRanked(a, S, order), S \subseteq auth.videos,
         Fits(auth, a, Cardinality(Scanned(a)'))
  PROVE  AllowanceStep
<1> SUFFICES ASSUME NEW b \in Analyses, NEW w \in Videos, claims'[w] # claims[w],
                    owner'[w] = b
             PROVE  Cardinality(Used(b)') <= Allowance(Cardinality(Scanned(b)'))
  BY DEF AllowanceStep
<1>1. S # {}
  BY DEF ReserveRanked
<1>2. Reserve(a, S)
  BY <1>1 DEF ReserveRanked
<1>3. w \in S /\ b = a
  BY <1>2 DEF Reserve, EnrichmentInv, TypeOK, CorpusTypeOK
<1>4. Used(a)' \subseteq Used(a) \cup S
  BY <1>2 DEF Reserve, Used, EnrichmentInv, TypeOK, CorpusTypeOK
<1>5. /\ auth.videos \in SUBSET Videos /\ auth.videos # {}
      /\ Cardinality(auth.videos) + Cardinality(Used(a))
           <= Allowance(Cardinality(Scanned(a)'))
  BY <1>1 DEF Fits
<1>6. /\ Used(a) \in SUBSET Videos /\ Used(a)' \in SUBSET (Used(a) \cup S)
      /\ Scanned(a)' \in SUBSET Videos
  BY <1>4 DEF Used, Scanned
<1>7. /\ Cardinality(Used(a) \cup S) \in Nat /\ Cardinality(Used(a)) \in Nat
      /\ Used(a) \cup S \in SUBSET Videos
      /\ Cardinality(Used(a) \cup S) <= Cardinality(Used(a)) + Cardinality(S)
  BY <1>6, UnionFits
<1>8. /\ Cardinality(Used(a)') \in Nat
      /\ Cardinality(Used(a)') <= Cardinality(Used(a) \cup S)
  BY <1>6, <1>7, FiniteVideos
<1>9. /\ Cardinality(S) \in Nat /\ Cardinality(auth.videos) \in Nat
      /\ Cardinality(S) <= Cardinality(auth.videos)
  BY <1>5, FiniteVideos
<1>10. Allowance(Cardinality(Scanned(a)')) \in Nat
  BY <1>6, FiniteVideos, AllowanceNat
<1> QED BY <1>3, <1>5, <1>7, <1>8, <1>9, <1>10

LEMMA AllowanceNext ==
  ASSUME EnrichmentInv, [EnrichmentNext]_enrichedVars PROVE AllowanceStep
<1>1. ASSUME NEW a \in Analyses, Scan(a) PROVE AllowanceStep
  <2>p. PICK P \in Pages[a] :
          \E seen \in [P -> UNION {Observations[a][v] : v \in P}] :
            Checkpoint(a, P, seen) \/ Ingest(a, P, seen)
    BY <1>1 DEF Scan
  <2>1. PICK seen \in [P -> UNION {Observations[a][v] : v \in P}] :
          Checkpoint(a, P, seen) \/ Ingest(a, P, seen)
    BY <2>p
  <2>2. CASE Checkpoint(a, P, seen)
    <3>1. claims' = claims
      BY <2>2 DEF Checkpoint, vars, corpusVars
    <3> QED BY <3>1 DEF AllowanceStep
  <2>3. CASE Ingest(a, P, seen)
    <3> DEFINE L == LatestRows(snapshot', newest')
               auth == AuthorizedFinal(a, P, L)
    <3>1. Record(a, P, seen) /\ Scanned(a) = {}
      BY <2>3 DEF Ingest
    <3>2. /\ SnapshotsOK' /\ P \subseteq Videos
          /\ \A v \in P : snapshot'[a][v] # NoObservation
      BY <3>1, RecordKeeps DEF EnrichmentInv
    <3>3. Scanned(a)' = P
      BY <3>1, <3>2 DEF Scanned, Record, EnrichmentInv, SnapshotsOK
    <3>4. Measured(L) /\ P \in SUBSET (DOMAIN L)
      BY <3>2 DEF SnapshotsOK, Measured, LatestRows
    <3>5. PICK S \in SUBSET (P \cap Feasible) :
            /\ Reserves(a, S) /\ \E order : ReserveRanked(a, S, order)
            /\ S \subseteq auth.videos
      BY <2>3, IngestStep
    <3> HIDE DEF L
    <3>6. Fits(auth, a, Cardinality(Scanned(a)'))
      BY <3>3, <3>4, FinalFits
    <3> HIDE DEF auth
    <3>7. S \in SUBSET Videos
      BY <3>2
    <3> QED BY <3>5, <3>6, <3>7, ReservesWithin
  <2> QED BY <2>1, <2>2, <2>3
<1>2. ASSUME NEW a \in Analyses, NEW complete \in BOOLEAN, NEW hasMore \in BOOLEAN,
             Batch(a, complete, hasMore)
      PROVE  AllowanceStep
  <2> DEFINE auth == Authorized(a, complete, hasMore)
  <2>1. PICK S \in SUBSET (Scanned(a) \cap Feasible) :
          /\ Reserves(a, S) /\ \E order : ReserveRanked(a, S, order)
          /\ S \subseteq auth.videos
    BY <1>2, BatchStep
  <2>2. Scanned(a)' = Scanned(a)
    BY <1>2 DEF Batch, scanVars, Scanned
  <2>3. Measured(Latest) /\ Scanned(a) \in SUBSET (DOMAIN Latest)
    BY LatestMeasured DEF EnrichmentInv
  <2>4. Fits(auth, a, Cardinality(Scanned(a)))
    BY <2>3, FinalFits, PartialFits DEF Authorized
  <2> HIDE DEF auth
  <2>5. S \in SUBSET Videos
    BY DEF Scanned
  <2> QED BY <2>1, <2>2, <2>4, <2>5, ReservesWithin
<1>3. CASE (Others /\ UNCHANGED enrichmentVars) \/ UNCHANGED enrichedVars
  <2>1. claims' = claims
    BY <1>3, OthersGive DEF EnrichmentInv, OwnersGiven, enrichedVars, vars, corpusVars
  <2> QED BY <2>1 DEF AllowanceStep
<1> QED BY <1>1, <1>2, <1>3 DEF EnrichmentNext

(* No reservation takes a scan over its allowance, however its earlier
   reservations ended and whoever resolved its videos meanwhile. *)
THEOREM AllowanceHolds == EnrichmentSpec => AllowanceKept
<1>1. EnrichmentInv /\ [EnrichmentNext]_enrichedVars => [AllowanceStep]_enrichedVars
  BY AllowanceNext
<1>2. AllowanceKept <=> [][AllowanceStep]_enrichedVars
  BY DEF AllowanceKept, AllowanceStep
<1> QED BY <1>1, <1>2, EnrichmentInvariant, PTL DEF EnrichmentSpec

-----------------------------------------------------------------------------
(* Ranks *)

Position(S, v, order) == Cardinality({u \in S : <<u, v>> \in order})

(* In a strict total order the positions of n elements are 0 to n - 1. *)
LEMMA PositionsDense ==
  ASSUME NEW S \in SUBSET Videos, NEW order, StrictTotal(order, S)
  PROVE  {Position(S, v, order) : v \in S} = 0..(Cardinality(S) - 1)
<1> DEFINE n == Cardinality(S)
           before(v) == {u \in S : <<u, v>> \in order}
           f == [v \in S |-> Position(S, v, order)]
<1>1. /\ IsFiniteSet(S) /\ n \in Nat
      /\ \A v \in S : IsFiniteSet(before(v)) /\ Cardinality(before(v)) \in Nat
  BY FiniteVideos
<1>2. ASSUME NEW v \in S PROVE f[v] \in 0..(n - 1)
  <2>1. before(v) \in SUBSET (S \ {v}) /\ S \ {v} \in SUBSET Videos
    BY DEF StrictTotal
  <2>2. /\ Cardinality(before(v)) <= Cardinality(S \ {v})
        /\ Cardinality(S \ {v}) = n - 1
    BY <1>1, <2>1, FiniteVideos, FS_RemoveElement
  <2>3. f[v] = Cardinality(before(v))
    BY DEF Position
  <2> HIDE DEF f, n, before
  <2> QED BY <1>1, <2>2, <2>3
<1>3. ASSUME NEW u \in S, NEW v \in S, <<u, v>> \in order PROVE f[u] < f[v]
  <2>1. before(u) \cup {u} \in SUBSET before(v) /\ u \notin before(u)
    BY <1>3 DEF StrictTotal
  <2>2. Cardinality(before(u) \cup {u}) = Cardinality(before(u)) + 1
    BY <1>1, <2>1, FS_AddElement
  <2>3. Cardinality(before(u) \cup {u}) <= Cardinality(before(v))
    BY <1>1, <2>1, FS_Subset
  <2>4. f[u] = Cardinality(before(u)) /\ f[v] = Cardinality(before(v))
    BY DEF Position
  <2> HIDE DEF f, before
  <2> QED BY <1>1, <2>2, <2>3, <2>4
<1>4. ASSUME NEW u \in S, NEW v \in S, u # v PROVE f[u] # f[v]
  <2>1. <<u, v>> \in order \/ <<v, u>> \in order
    BY <1>4 DEF StrictTotal
  <2>2. f[u] \in Int /\ f[v] \in Int
    BY <1>2
  <2> HIDE DEF f
  <2> QED BY <1>3, <2>1, <2>2
<1>5. f \in [S -> 0..(n - 1)]
  <2>1. f = [v \in S |-> f[v]]
    OBVIOUS
  <2> HIDE DEF f, n
  <2> QED BY <1>2, <2>1
<1>6. f \in Injection(S, 0..(n - 1))
  <2> HIDE DEF f, n
  <2> QED BY <1>4, <1>5 DEF Injection, IsInjective
<1>7. IsFiniteSet(0..(n - 1)) /\ Cardinality(0..(n - 1)) = n
  <2> HIDE DEF n
  <2> QED BY <1>1, FS_Interval
<1>8. f \in Surjection(S, 0..(n - 1))
  BY <1>6, <1>7, FS_Injection
<1>9. \A k \in 0..(n - 1) : \E v \in S : f[v] = k
  <2> HIDE DEF f, n
  <2> QED BY <1>8 DEF Surjection
<1>10. {f[v] : v \in S} = 0..(n - 1)
  <2> HIDE DEF f, n
  <2> QED BY <1>2, <1>9
<1>11. {Position(S, v, order) : v \in S} = {f[v] : v \in S}
  OBVIOUS
<1> QED BY <1>10, <1>11

Mine(a) == {v \in Videos : <<a, v>> \in acquired}

LEMMA RanksStay ==
  ASSUME RanksDense, UNCHANGED <<acquired, rank, requested>> PROVE RanksDense'
BY DEF RanksDense

LEMMA RanksGrow ==
  ASSUME EnrichmentInv, NumbersOK, RanksDense, NEW a \in Analyses, NEW S \in SUBSET Videos,
         NEW order, StrictTotal(order, S), Reserves(a, S), ReserveRanked(a, S, order)
  PROVE  RanksDense'
<1> DEFINE new == {v \in S : <<a, v>> \notin acquired}
           r == requested[a]
           n == Cardinality(new)
<1>1. new \in SUBSET Videos /\ n \in Nat /\ r \in Nat
  BY FiniteVideos DEF NumbersOK, RanksOK
<1>2. /\ {rank[a][v] : v \in Mine(a)} = 1..r /\ Cardinality(Mine(a)) = r
      /\ Mine(a) \in SUBSET Videos
  BY DEF RanksDense, Mine
<1>3. \A b \in Analyses : Mine(b)' = IF b = a THEN Mine(b) \cup new ELSE Mine(b)
  BY DEF Reserves, Mine
<1>4. Mine(a) \cap new = {}
  BY DEF Mine
<1>5. /\ \A b \in Analyses \ {a} : rank'[b] = rank[b] /\ requested'[b] = requested[b]
      /\ requested'[a] = r + n
      /\ \A v \in Videos :
           rank'[a][v] = IF v \in new THEN r + 1 + Position(new, v, order) ELSE rank[a][v]
  BY DEF ReserveRanked, Rank, NumbersOK, RanksOK, Position
<1>6. {Position(new, v, order) : v \in new} = 0..(n - 1)
  <2>1. StrictTotal(order, new)
    BY TotalOnSubset
  <2> HIDE DEF new
  <2> QED BY <1>1, <2>1, PositionsDense
<1> HIDE DEF new, r, n
<1>7. {rank'[a][v] : v \in new} = (r + 1)..(r + n)
  <2>1. \A v \in new : rank'[a][v] \in (r + 1)..(r + n)
    BY <1>1, <1>5, <1>6
  <2>2. ASSUME NEW k \in (r + 1)..(r + n) PROVE \E v \in new : rank'[a][v] = k
    <3>1. k - r - 1 \in 0..(n - 1) /\ k = r + 1 + (k - r - 1)
      BY <1>1
    <3>2. PICK v \in new : Position(new, v, order) = k - r - 1
      BY <1>6, <3>1
    <3> QED BY <1>1, <1>5, <3>1, <3>2
  <2> QED BY <2>1, <2>2
<1>8. {rank'[a][v] : v \in Mine(a)} = 1..r
  BY <1>2, <1>4, <1>5
<1>9. {rank'[a][v] : v \in Mine(a) \cup new} = 1..(r + n)
  BY <1>1, <1>7, <1>8
<1>10. Cardinality(Mine(a) \cup new) = r + n
  <2>1. IsFiniteSet(Mine(a)) /\ IsFiniteSet(new)
    BY <1>1, <1>2, FiniteVideos
  <2>2. Cardinality(Mine(a) \cup new) = r + n - Cardinality({})
    BY <1>2, <1>4, <2>1, FS_Union DEF n
  <2> QED BY <1>1, <2>2, FS_EmptySet
<1>11. ASSUME NEW b \in Analyses
       PROVE  /\ {rank'[b][v] : v \in Mine(b)'} = 1..requested'[b]
              /\ Cardinality(Mine(b)') = requested'[b]
  <2>1. CASE b = a
    <3>1. Mine(a)' = Mine(a) \cup new /\ requested'[a] = r + n
      BY <1>3, <1>5
    <3>2. {rank'[a][v] : v \in Mine(a)'} = 1..requested'[a]
      BY <1>9, <3>1
    <3> QED BY <1>10, <2>1, <3>1, <3>2
  <2>2. CASE b # a
    <3>1. /\ {rank[b][v] : v \in Mine(b)} = 1..requested[b]
          /\ Cardinality(Mine(b)) = requested[b]
      BY DEF RanksDense, Mine
    <3> QED BY <1>3, <1>5, <2>2, <3>1
  <2> QED BY <2>1, <2>2
<1> QED BY <1>11 DEF RanksDense, Mine

LEMMA RanksNext ==
  ASSUME EnrichmentInv, NumbersOK, RanksDense, [EnrichmentNext]_enrichedVars
  PROVE  RanksDense'
<1>1. ASSUME NEW a \in Analyses, Scan(a) PROVE RanksDense'
  <2>p. PICK P \in Pages[a] :
          \E seen \in [P -> UNION {Observations[a][v] : v \in P}] :
            Checkpoint(a, P, seen) \/ Ingest(a, P, seen)
    BY <1>1 DEF Scan
  <2>1. PICK seen \in [P -> UNION {Observations[a][v] : v \in P}] :
          Checkpoint(a, P, seen) \/ Ingest(a, P, seen)
    BY <2>p
  <2>2. CASE Checkpoint(a, P, seen)
    <3>1. UNCHANGED <<acquired, rank, requested>>
      BY <2>2 DEF Checkpoint, vars, corpusVars, rowVars
    <3> QED BY <3>1, RanksStay
  <2>3. CASE Ingest(a, P, seen)
    <3>1. PICK S \in SUBSET (P \cap Feasible) :
            /\ Reserves(a, S)
            /\ \E order : StrictTotal(order, S) /\ ReserveRanked(a, S, order)
      BY <2>3, IngestStep
    <3>2. S \in SUBSET Videos
      BY EnrichmentAssumption
    <3> QED BY <3>1, <3>2, RanksGrow
  <2> QED BY <2>1, <2>2, <2>3
<1>2. ASSUME NEW a \in Analyses, NEW complete \in BOOLEAN, NEW hasMore \in BOOLEAN,
             Batch(a, complete, hasMore)
      PROVE  RanksDense'
  <2>1. PICK S \in SUBSET (Scanned(a) \cap Feasible) :
          /\ Reserves(a, S)
          /\ \E order : StrictTotal(order, S) /\ ReserveRanked(a, S, order)
    BY <1>2, BatchStep
  <2>2. S \in SUBSET Videos
    BY DEF Scanned
  <2> QED BY <2>1, <2>2, RanksGrow
<1>3. CASE Others /\ UNCHANGED enrichmentVars
  <2>1. UNCHANGED <<acquired, rank, requested>>
    BY <1>3, OthersGive DEF EnrichmentInv, OwnersGiven, enrichmentVars
  <2> QED BY <2>1, RanksStay
<1>4. CASE UNCHANGED enrichedVars
  <2>1. UNCHANGED <<acquired, rank, requested>>
    BY <1>4 DEF enrichedVars, enrichmentVars, vars, corpusVars, rowVars
  <2> QED BY <2>1, RanksStay
<1> QED BY <1>1, <1>2, <1>3, <1>4 DEF EnrichmentNext

LEMMA RanksStart == EnrichmentInit => RanksDense
<1> SUFFICES ASSUME EnrichmentInit, NEW a \in Analyses
             PROVE  /\ {rank[a][v] : v \in Mine(a)} = 1..requested[a]
                    /\ Cardinality(Mine(a)) = requested[a]
  BY DEF RanksDense, Mine
<1>1. Mine(a) = {} /\ requested[a] = 0
  BY DEF EnrichmentInit, Init, CorpusInit, Mine
<1>2. 1..0 = {} /\ Cardinality({}) = 0
  BY FS_EmptySet
<1> QED BY <1>1, <1>2

(* transcription_rank of a scan's acquisitions is a permutation of 1 to
   requested_transcripts, through expiry, reports and repeated reservation. *)
THEOREM RanksAreDense == EnrichmentSpec => []RanksDense
<1>1. EnrichmentInit => NumbersOK
  BY DEF EnrichmentInit, NumbersOK, RanksOK
<1>2. EnrichmentInv /\ NumbersOK /\ [EnrichmentNext]_enrichedVars => NumbersOK'
  BY NumbersStep
<1>3. EnrichmentInv /\ NumbersOK /\ RanksDense /\ [EnrichmentNext]_enrichedVars
        => RanksDense'
  BY RanksNext
<1> QED BY <1>1, <1>2, <1>3, RanksStart, EnrichmentInvariant, PTL DEF EnrichmentSpec

=============================================================================
