----------------------------- MODULE Knowledge -----------------------------
(***************************************************************************)
(* The research back office of one channel: external analyses of exported  *)
(* Research Packs, incremental updates, historical transcript imports,     *)
(* private content packs, strategic playbooks and personal strategies      *)
(* (backend/app/admin.py, knowledge_engine.py, strategist.py).             *)
(*                                                                         *)
(* Every import is previewed first: a dry run stores the parsed file under *)
(* a single-use token in process memory, and a later request confirms it   *)
(* against the corpus as it then is.  Between the two the corpus moves: a  *)
(* transcript is committed, a scan rewrites a caption or the metrics.  A   *)
(* hash is modelled by what it is computed from.  Playbooks and strategies *)
(* are written after a provider call, so their handler takes several       *)
(* steps; the other handlers run their queries back to back and are one.   *)
(* One of them, the import of an analysis, reads the corpus twice in one   *)
(* session (admin.py:1313, 1316); it reads it once here.                   *)
(***************************************************************************)
EXTENDS Integers, Sequences, FiniteSets

CONSTANTS
  Videos,          \* TikTok ids of the channel's videos, ordered as numbers
  Captions,        \* captions a scan may deliver
  Views,           \* view counts a scan may deliver
  Answers,         \* different analyses an external analyst may return
  Modes,           \* the selection modes in use
  TopSize,         \* the N of the topN selections
  PriorityTarget,  \* how many videos priority_view_cutoff asks for
  Slots,           \* preview tokens alive at once
  Threads,         \* requests waiting for the strategist at once
  None,            \* no transcript, no token, no request
  MaxAnalyses,     \* bound on analyses stored
  MaxChanges,      \* bound on changes of the corpus and of the contract
  MaxRequests      \* bound on previews made and strategist requests begun

ASSUME KnowledgeAssumption ==
  /\ Videos \subseteq Nat /\ Views \subseteq Nat
  /\ Modes \subseteq {"all", "recommended", "top"}
  /\ TopSize \in Nat /\ PriorityTarget \in Nat
  /\ None \notin {"whisper", "imported"}
  /\ MaxAnalyses \in Nat /\ MaxChanges \in Nat /\ MaxRequests \in Nat

VARIABLES
  text,        \* the one transcript of a video, by its provenance, or None
  caption,     \* semantic metadata a scan refreshes
  views,       \* the latest snapshot's metrics
  contract,    \* ANALYSIS_CONTRACT_VERSION of the running deployment
  analyses,    \* channel_intelligence_analyses in order of created_at
  shown,       \* the analysis with the latest updated_at, 0 when there is none
  tokens,      \* what each live preview token stands for
  threads,     \* playbook and strategy requests in progress
  playbooks,   \* channel_strategic_playbooks
  strategies,  \* private_personal_strategies
  packs,       \* private_content_packs
  changes,     \* changes of the corpus and the contract so far
  requests     \* previews and strategist requests so far

corpus == <<text, caption, views, changes>>
products == <<playbooks, strategies, packs>>
vars == <<text, caption, views, contract, analyses, shown, tokens, threads,
          playbooks, strategies, packs, changes, requests>>

-----------------------------------------------------------------------------
(* What a Research Pack contains.                                          *)

FaultyTranscribed == Videos

Transcribed == {v \in Videos : text[v] # None}

(* priority_view_cutoff, with the outlier threshold out of reach.          *)
Priority ==
  {v \in Videos : Cardinality({w \in Videos : views[w] > views[v]}) < PriorityTarget}

Before(v, w) == views[v] > views[w] \/ (views[v] = views[w] /\ v < w)

Selection(mode) ==
  CASE mode = "all" -> Transcribed
    [] mode = "recommended" -> Transcribed \cap Priority
    [] mode = "top" ->
         {v \in Transcribed :
            Cardinality({w \in Transcribed : Before(w, v)}) < TopSize}

SemanticVideo(v) == <<text[v], caption[v]>>
SemanticHash(mode) == [v \in Selection(mode) |-> SemanticVideo(v)]
PerformanceHash(mode) == [v \in Selection(mode) |-> views[v]]
ResearchPack(mode) ==
  [mode |-> mode, sem |-> SemanticHash(mode), perf |-> PerformanceHash(mode)]

-----------------------------------------------------------------------------
(* Freshness of an analysis against the corpus.                            *)

Newest == analyses[Len(analyses)]

Freshness(a) ==
  CASE a.contract # contract -> "CONTRACT_STALE"
    [] a.contract = contract /\ a.sem # SemanticHash(a.mode) -> "SEMANTIC_DELTA"
    [] a.contract = contract /\ a.sem = SemanticHash(a.mode) ->
         IF a.perf # PerformanceHash(a.mode) THEN "PERFORMANCE_CHANGED" ELSE "FRESH"

FaultyChangedIds(a) == Selection(a.mode) \ DOMAIN a.children

ChangedIds(a) ==
  {v \in Selection(a.mode) :
     ~(v \in DOMAIN a.children /\ a.children[v] = SemanticVideo(v))}

Delta(a) == IF Freshness(a) = "SEMANTIC_DELTA" THEN ChangedIds(a) ELSE {}

Insert(a) ==
  /\ analyses' = Append(analyses, a)
  /\ shown' = Len(analyses) + 1

-----------------------------------------------------------------------------
(* The tables start empty; the corpus has scanned videos only.             *)

Idle == [step |-> "idle"]

Init ==
  /\ text = [v \in Videos |-> None]
  /\ caption \in [Videos -> Captions]
  /\ views \in [Videos -> Views]
  /\ contract = 0
  /\ analyses = <<>>
  /\ shown = 0
  /\ tokens = [s \in Slots |-> None]
  /\ threads = [t \in Threads |-> Idle]
  /\ playbooks = {}
  /\ strategies = {}
  /\ packs = {}
  /\ changes = 0
  /\ requests = 0

Begin == requests < MaxRequests /\ requests' = requests + 1

(* The worker commits a transcript: it never replaces one.                 *)
Transcribe(v) ==
  /\ changes < MaxChanges
  /\ text[v] = None
  /\ text' = [text EXCEPT ![v] = "whisper"]
  /\ changes' = changes + 1
  /\ UNCHANGED <<requests, caption, views, contract, analyses, shown, tokens,
                 threads, products>>

(* A scan delivers another caption or other metrics of a known video.      *)
Rescan(v, c, n) ==
  /\ changes < MaxChanges
  /\ caption' = [caption EXCEPT ![v] = c]
  /\ views' = [views EXCEPT ![v] = n]
  /\ <<caption, views>>' # <<caption, views>>
  /\ changes' = changes + 1
  /\ UNCHANGED <<requests, text, contract, analyses, shown, tokens, threads,
                 products>>

(* A deployment changes the prompt or the schema.  It restarts the         *)
(* process: the previews and the requests in progress are gone.            *)
Deploy ==
  /\ changes < MaxChanges
  /\ contract' = contract + 1
  /\ changes' = changes + 1
  /\ tokens' = [s \in Slots |-> None]
  /\ threads' = [t \in Threads |-> Idle]
  /\ UNCHANGED <<requests, text, caption, views, analyses, shown, products>>

-----------------------------------------------------------------------------
(* Preview tokens.  A new preview may take the slot of one that was        *)
(* abandoned: too old, taken by a request for another channel, or refused  *)
(* by a check of its confirmation, which pops the token before it checks.  *)

Store(s, value) ==
  /\ Begin
  /\ tokens' = [tokens EXCEPT ![s] = value]
  /\ UNCHANGED <<corpus, contract, analyses, shown, threads, products>>

(* _take_pending_*: a token confirms once.                                 *)
Take(s, kind) ==
  /\ tokens[s] # None
  /\ tokens[s].kind = kind
  /\ tokens' = [tokens EXCEPT ![s] = None]

(* dry_run_import keeps the rows of videos that have no transcript.        *)
HistoryDryRun(s, file) ==
  LET new == {v \in file : text[v] = None}
  IN  new # {} /\ Store(s, [kind |-> "history", rows |-> new])

FaultyAbsent(v) == TRUE

Absent(v) == text[v] = None

(* import_confirm: every row is checked again under the video's lock.      *)
HistoryConfirm(s) ==
  /\ Take(s, "history")
  /\ text' = [v \in Videos |->
                IF v \in tokens[s].rows /\ Absent(v) THEN "imported" ELSE text[v]]
  /\ UNCHANGED <<requests, caption, views, changes, contract, analyses, shown,
                 threads, products>>

-----------------------------------------------------------------------------
(* Import of the analysis of a Research Pack.                              *)

Historical(pack) == {i \in 1..Len(analyses) : analyses[i].pack = pack}

FaultyPackImportable(pack, answer) == Historical(pack) = {}

(* dry_run_channel_intelligence_import: the pack must be one that can be   *)
(* exported now, and its history is never overwritten.                     *)
PackImportable(pack, answer) ==
  /\ \E mode \in Modes : Selection(mode) # {} /\ pack = ResearchPack(mode)
  /\ \A i \in Historical(pack) : analyses[i].answer = answer

AnalysisDryRun(s, mode, answer) ==
  /\ PackImportable(ResearchPack(mode), answer)
  /\ Store(s, [kind |-> "analysis", pack |-> ResearchPack(mode), answer |-> answer])

(* Hashes are computed from the live selection, not taken from the file.   *)
AnalysisConfirm(s) ==
  /\ Take(s, "analysis")
  /\ LET pack == tokens[s].pack IN
     /\ PackImportable(pack, tokens[s].answer)
     /\ IF Historical(pack) # {} THEN UNCHANGED <<analyses, shown>>
        ELSE /\ Len(analyses) < MaxAnalyses
             /\ Insert([mode |-> pack.mode, pack |-> pack, answer |-> tokens[s].answer,
                        seen |-> pack.sem, contract |-> contract,
                        sem |-> SemanticHash(pack.mode),
                        perf |-> PerformanceHash(pack.mode),
                        children |-> SemanticHash(pack.mode)])
  /\ UNCHANGED <<requests, corpus, contract, threads, products>>

-----------------------------------------------------------------------------
(* Incremental update: the delta of the newest analysis only.              *)

UpdateFile(answer) ==
  [base |-> Len(analyses), target |-> SemanticHash(Newest.mode),
   videos |-> Delta(Newest), answer |-> answer]

(* validate_channel_update: base, target and delta must be the live ones.  *)
UpdateValid(file) ==
  /\ analyses # <<>>
  /\ Delta(Newest) # {}
  /\ file = UpdateFile(file.answer)

UpdateDryRun(s, answer) ==
  /\ analyses # <<>>
  /\ UpdateValid(UpdateFile(answer))
  /\ Store(s, [kind |-> "update", file |-> UpdateFile(answer)])

FaultyMergedChildren(prior, delta) ==
  [v \in DOMAIN prior.children \cup delta |->
     IF v \in DOMAIN prior.children THEN prior.children[v] ELSE SemanticVideo(v)]

(* Analyses of videos outside the delta are carried over with the hash of  *)
(* the content they were made from.                                        *)
MergedChildren(prior, delta) ==
  [v \in DOMAIN prior.children \cup delta |->
     IF v \in delta THEN SemanticVideo(v) ELSE prior.children[v]]

UpdateConfirm(s) ==
  /\ Take(s, "update")
  /\ UpdateValid(tokens[s].file)
  /\ Len(analyses) < MaxAnalyses
  /\ Insert([mode |-> Newest.mode, pack |-> tokens[s].file,
             answer |-> tokens[s].file.answer, seen |-> tokens[s].file.target,
             contract |-> contract, sem |-> SemanticHash(Newest.mode),
             perf |-> PerformanceHash(Newest.mode),
             children |-> MergedChildren(Newest, Delta(Newest))])
  /\ UNCHANGED <<requests, corpus, contract, threads, products>>

-----------------------------------------------------------------------------
(* Private content packs, checked against the analysis shown at dry run.   *)

Grounded(cites, i) == cites # {} /\ cites \subseteq DOMAIN analyses[i].children

ContentDryRun(s, cites) ==
  /\ shown # 0
  /\ Grounded(cites, shown)
  /\ Store(s, [kind |-> "content", analysis |-> shown, cites |-> cites])

FaultySource(s) == shown

(* The pack is linked to the analysis of its preview.                      *)
Source(s) == tokens[s].analysis

ContentConfirm(s) ==
  /\ Take(s, "content")
  /\ LET i == tokens[s].analysis
         cites == tokens[s].cites
     IN  /\ Grounded(cites, i)
         /\ packs' = IF \E p \in packs : p.cites = cites THEN packs
                     ELSE packs \cup {[analysis |-> Source(s), cites |-> cites]}
  /\ UNCHANGED <<requests, corpus, contract, analyses, shown, threads,
                 playbooks, strategies>>

-----------------------------------------------------------------------------
(* Playbooks and strategies.  A request keeps the analysis row as it read  *)
(* it and the records of the selection as they were when it selected them. *)

Records(mode) == [sem |-> SemanticHash(mode), perf |-> PerformanceHash(mode)]

Cached(i, perf) == {p \in playbooks : p.analysis = i /\ p.perf = perf}

(* generate_channel_playbook up to its first write.                        *)
PlaybookRead(t) ==
  /\ Begin
  /\ threads[t] = Idle
  /\ analyses # <<>>
  /\ Freshness(Newest) # "SEMANTIC_DELTA"
  /\ threads' = [threads EXCEPT ![t] =
       [step |-> "touch", path |-> "playbook", analysis |-> Len(analyses),
        changed |-> Freshness(Newest) = "PERFORMANCE_CHANGED",
        perf |-> Newest.perf, records |-> Records(Newest.mode)]]
  /\ UNCHANGED <<corpus, contract, analyses, shown, tokens, products>>

FaultyCacheKey(th) ==
  IF th.changed THEN PerformanceHash(analyses[th.analysis].mode) ELSE th.perf

CacheKey(th) == IF th.changed THEN th.records.perf ELSE th.perf

(* The performance hash moves to the state the records were read in; its   *)
(* commit is an update of the row.  Then the cache is looked up.           *)
PlaybookTouch(t) ==
  /\ threads[t].step = "touch"
  /\ LET th == threads[t]
         key == CacheKey(th)
     IN  /\ IF th.changed
            THEN /\ analyses' = [analyses EXCEPT ![th.analysis].perf = key]
                 /\ shown' = th.analysis
            ELSE UNCHANGED <<analyses, shown>>
         /\ threads' = [threads EXCEPT ![t] =
              IF Cached(th.analysis, key) # {} THEN Idle
              ELSE [th EXCEPT !.step = "generate", !.perf = key]]
  /\ UNCHANGED <<requests, corpus, contract, tokens, products>>

(* generate_personal_strategy: with a playbook of the newest analysis the  *)
(* private call follows; without one the playbook is generated first, from *)
(* the selection as it is now, whatever the analysis's freshness.          *)
StrategyRead(t) ==
  /\ Begin
  /\ threads[t] = Idle
  /\ analyses # <<>>
  /\ threads' = [threads EXCEPT ![t] =
       [step |-> IF Cached(Len(analyses), Newest.perf) # {} THEN "advise" ELSE "generate",
        path |-> "strategy", analysis |-> Len(analyses), changed |-> FALSE,
        perf |-> Newest.perf, records |-> Records(Newest.mode)]]
  /\ UNCHANGED <<corpus, contract, analyses, shown, tokens, products>>

(* The provider answered.  uq_channel_playbook_cache refuses a second row  *)
(* of the same key: that request ends with 503.  A strategy request goes   *)
(* on with the selection read again.                                       *)
PlaybookStore(t) ==
  /\ threads[t].step = "generate"
  /\ LET th == threads[t] IN
     IF Cached(th.analysis, th.perf) # {}
     THEN threads' = [threads EXCEPT ![t] = Idle] /\ UNCHANGED playbooks
     ELSE /\ playbooks' = playbooks \cup
               {[analysis |-> th.analysis, perf |-> th.perf, path |-> th.path,
                 records |-> th.records]}
          /\ threads' = [threads EXCEPT ![t] =
               IF th.path = "playbook" THEN Idle
               ELSE [th EXCEPT !.step = "advise",
                               !.records = Records(analyses[th.analysis].mode)]]
  /\ UNCHANGED <<requests, corpus, contract, analyses, shown, tokens,
                 strategies, packs>>

(* The private call answered; payload_sha256 is unique.                    *)
StrategyStore(t) ==
  /\ threads[t].step = "advise"
  /\ \E p \in Cached(threads[t].analysis, threads[t].perf) :
       strategies' = strategies \cup {[playbook |-> p, records |-> threads[t].records]}
  /\ threads' = [threads EXCEPT ![t] = Idle]
  /\ UNCHANGED <<requests, corpus, contract, analyses, shown, tokens,
                 playbooks, packs>>

(* The provider failed or answered outside its contract: 503, no row.      *)
ProviderFails(t) ==
  /\ threads[t].step \in {"generate", "advise"}
  /\ threads' = [threads EXCEPT ![t] = Idle]
  /\ UNCHANGED <<requests, corpus, contract, analyses, shown, tokens,
                 products>>

-----------------------------------------------------------------------------
Next ==
  \/ \E v \in Videos : Transcribe(v)
  \/ \E v \in Videos, c \in Captions, n \in Views : Rescan(v, c, n)
  \/ Deploy
  \/ \E s \in Slots, file \in SUBSET Videos : HistoryDryRun(s, file)
  \/ \E s \in Slots : HistoryConfirm(s)
  \/ \E s \in Slots, mode \in Modes, answer \in Answers : AnalysisDryRun(s, mode, answer)
  \/ \E s \in Slots : AnalysisConfirm(s)
  \/ \E s \in Slots, answer \in Answers : UpdateDryRun(s, answer)
  \/ \E s \in Slots : UpdateConfirm(s)
  \/ \E s \in Slots, cites \in SUBSET Videos : ContentDryRun(s, cites)
  \/ \E s \in Slots : ContentConfirm(s)
  \/ \E t \in Threads : PlaybookRead(t)
  \/ \E t \in Threads : PlaybookTouch(t)
  \/ \E t \in Threads : StrategyRead(t)
  \/ \E t \in Threads : PlaybookStore(t)
  \/ \E t \in Threads : StrategyStore(t)
  \/ \E t \in Threads : ProviderFails(t)

Spec == Init /\ [][Next]_vars

-----------------------------------------------------------------------------
(* Properties.                                                             *)

Provenances == {"whisper", "imported"}
SemanticMaps == UNION {[S -> Provenances \X Captions] : S \in SUBSET Videos}
PerformanceMaps == UNION {[S -> Views] : S \in SUBSET Videos}
PackIds == [mode : Modes, sem : SemanticMaps, perf : PerformanceMaps]
UpdateFiles == [base : 0..MaxAnalyses, target : SemanticMaps,
                videos : SUBSET Videos, answer : Answers]
AnalysisRows ==
  [mode : Modes, pack : PackIds \cup UpdateFiles, answer : Answers,
   seen : SemanticMaps, contract : 0..MaxChanges, sem : SemanticMaps,
   perf : PerformanceMaps, children : SemanticMaps]
RecordSets == [sem : SemanticMaps, perf : PerformanceMaps]
Playbooks == [analysis : 1..MaxAnalyses, perf : PerformanceMaps,
              path : {"playbook", "strategy"}, records : RecordSets]
Previews ==
  [kind : {"history"}, rows : SUBSET Videos]
  \cup [kind : {"analysis"}, pack : PackIds, answer : Answers]
  \cup [kind : {"update"}, file : UpdateFiles]
  \cup [kind : {"content"}, analysis : 1..MaxAnalyses, cites : SUBSET Videos]
Requests ==
  [step : {"touch", "generate", "advise"}, path : {"playbook", "strategy"},
   analysis : 1..MaxAnalyses, changed : BOOLEAN, perf : PerformanceMaps,
   records : RecordSets]

(* The shape of every row, preview and request; a reference to an analysis *)
(* is to one that exists.                                                  *)
KnowledgeTypeOK ==
  /\ text \in [Videos -> {None} \cup Provenances]
  /\ caption \in [Videos -> Captions]
  /\ views \in [Videos -> Views]
  /\ contract \in 0..changes
  /\ analyses \in Seq(AnalysisRows) /\ Len(analyses) <= MaxAnalyses
  /\ shown \in 0..Len(analyses)
  /\ tokens \in [Slots -> {None} \cup Previews]
  /\ threads \in [Threads -> {Idle} \cup Requests]
  /\ playbooks \subseteq Playbooks
  /\ strategies \subseteq [playbook : playbooks, records : RecordSets]
  /\ packs \subseteq [analysis : 1..Len(analyses), cites : SUBSET Videos]
  /\ changes \in 0..MaxChanges /\ requests \in 0..MaxRequests
  /\ \A s \in Slots : (tokens[s] # None /\ tokens[s].kind = "content")
                       => tokens[s].analysis <= Len(analyses)
  /\ \A t \in Threads : threads[t] # Idle => threads[t].analysis <= Len(analyses)
  /\ \A p \in playbooks : p.analysis <= Len(analyses)

(* An analysis is attached only to the evidence its analyst was given: the *)
(* semantic corpus recorded with it is the one in the pack or the update   *)
(* target of its file, although the corpus may move between the preview    *)
(* and the confirmation (admin.py:1316).                                   *)
EvidenceAsAnalysed ==
  \A i \in 1..Len(analyses) : analyses[i].seen = analyses[i].sem

(* The per-video half of every analysis covers the corpus its hash stands  *)
(* for, each video analysed in exactly that content: after any chain of    *)
(* imports and incremental updates an analysis with the corpus's hash has  *)
(* no video left to analyse.                                               *)
ChildrenMatchHash ==
  \A i \in 1..Len(analyses) :
    \A v \in DOMAIN analyses[i].sem :
      v \in DOMAIN analyses[i].children /\ analyses[i].children[v] = analyses[i].sem[v]

(* A semantic delta can be worked on: for a selection no video leaves, the *)
(* state that blocks playbooks (admin.py:1027) always comes with videos to *)
(* export, so that an update can end it.                                   *)
DeltaActionable ==
  (analyses # <<>> /\ Newest.mode = "all" /\ Freshness(Newest) = "SEMANTIC_DELTA")
    => Delta(Newest) # {}

(* A transcript is never replaced: the import rechecks each video at the   *)
(* confirmation, when the worker may have committed one since the preview. *)
TranscriptsKept == [][\A v \in Videos : text[v] # None => text'[v] = text[v]]_vars

(* A private content pack stays linked to the analysis it was validated    *)
(* against: every video it cites was analysed there, although a newer      *)
(* analysis may have become the shown one before the confirmation.         *)
ContentGrounded ==
  \A p \in packs : p.cites \subseteq DOMAIN analyses[p.analysis].children

(* The technical endpoint's playbooks were generated from the state they   *)
(* are cached under, although metrics move while requests wait: the        *)
(* records have the key's metrics, and the content of the analysis unless  *)
(* the contract had changed (admin.py:1026-1030).                          *)
PlaybookEvidence ==
  \A p \in playbooks : p.path = "playbook" =>
    /\ p.records.perf = p.perf
       \/ analyses[p.analysis].contract # contract
    /\ p.records.sem = analyses[p.analysis].sem
       \/ analyses[p.analysis].contract # contract

=============================================================================
