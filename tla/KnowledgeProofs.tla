-------------------------- MODULE KnowledgeProofs --------------------------
(***************************************************************************)
(* Proofs about module Knowledge, for every set of videos, captions,       *)
(* selection modes, slots and requests, and for every bound.               *)
(***************************************************************************)
EXTENDS Knowledge, SequenceTheorems, TLAPS

LEMMA SelectionVideos ==
  ASSUME NEW mode \in Modes
  PROVE  Selection(mode) \subseteq Videos
BY KnowledgeAssumption DEF Selection, Transcribed

(* A hash is a map of its type, over the selection. *)
LEMMA HashTypes ==
  ASSUME KnowledgeTypeOK, NEW mode \in Modes
  PROVE  /\ SemanticHash(mode) \in SemanticMaps /\ DOMAIN SemanticHash(mode) = Selection(mode)
         /\ PerformanceHash(mode) \in PerformanceMaps
         /\ Records(mode) \in RecordSets
         /\ ResearchPack(mode) \in PackIds
<1>1. \A v \in Selection(mode) : v \in Videos /\ text[v] \in Provenances
  <2>1. Selection(mode) \subseteq Transcribed
    BY KnowledgeAssumption DEF Selection
  <2> QED BY <2>1 DEF Transcribed, KnowledgeTypeOK
<1>2. \A v \in Selection(mode) : SemanticVideo(v) \in Provenances \X Captions
  BY <1>1 DEF SemanticVideo, KnowledgeTypeOK
<1>3. SemanticHash(mode) \in [Selection(mode) -> Provenances \X Captions]
  BY <1>2 DEF SemanticHash
<1>4. PerformanceHash(mode) \in [Selection(mode) -> Views]
  BY <1>1 DEF PerformanceHash, KnowledgeTypeOK
<1>5. SemanticHash(mode) \in SemanticMaps
  BY <1>1, <1>3 DEF SemanticMaps
<1>6. PerformanceHash(mode) \in PerformanceMaps
  BY <1>1, <1>4 DEF PerformanceMaps
<1> QED BY <1>3, <1>5, <1>6 DEF Records, RecordSets, ResearchPack, PackIds

LEMMA NewestRow ==
  ASSUME KnowledgeTypeOK, analyses # <<>>
  PROVE  /\ Newest \in AnalysisRows /\ Newest.mode \in Modes /\ Newest.perf \in PerformanceMaps
         /\ Newest.children \in SemanticMaps
         /\ Len(analyses) \in 1..MaxAnalyses
         /\ Newest = analyses[Len(analyses)]
<1>1. Len(analyses) \in Nat \ {0} /\ Len(analyses) <= MaxAnalyses
  BY DEF KnowledgeTypeOK
<1>2. Newest \in AnalysisRows
  BY <1>1 DEF Newest, KnowledgeTypeOK
<1> QED BY <1>1, <1>2, KnowledgeAssumption DEF AnalysisRows, Newest

LEMMA DeltaVideos ==
  ASSUME KnowledgeTypeOK, analyses # <<>>
  PROVE  Delta(Newest) \subseteq Videos
BY NewestRow, SelectionVideos DEF Delta, ChangedIds

(* Values of the types, once for every handler that leaves them alone. *)
CorpusOK ==
  /\ text \in [Videos -> {None} \cup Provenances]
  /\ caption \in [Videos -> Captions]
  /\ views \in [Videos -> Views]
  /\ contract \in 0..changes
  /\ changes \in 0..MaxChanges /\ requests \in 0..MaxRequests

AnalysesOK ==
  /\ analyses \in Seq(AnalysisRows) /\ Len(analyses) <= MaxAnalyses
  /\ shown \in 0..Len(analyses)

TokensOK ==
  /\ tokens \in [Slots -> {None} \cup Previews]
  /\ \A s \in Slots : (tokens[s] # None /\ tokens[s].kind = "content")
                       => tokens[s].analysis <= Len(analyses)

ThreadsOK ==
  /\ threads \in [Threads -> {Idle} \cup Requests]
  /\ \A t \in Threads : threads[t] # Idle => threads[t].analysis <= Len(analyses)

ProductsOK ==
  /\ playbooks \subseteq Playbooks
  /\ strategies \subseteq [playbook : playbooks, records : RecordSets]
  /\ packs \subseteq [analysis : 1..Len(analyses), cites : SUBSET Videos]
  /\ \A p \in playbooks : p.analysis <= Len(analyses)

LEMMA TypeOKParts ==
  /\ KnowledgeTypeOK <=> CorpusOK /\ AnalysesOK /\ TokensOK /\ ThreadsOK /\ ProductsOK
  /\ KnowledgeTypeOK' <=> CorpusOK' /\ AnalysesOK' /\ TokensOK' /\ ThreadsOK' /\ ProductsOK'
BY DEF KnowledgeTypeOK, CorpusOK, AnalysesOK, TokensOK, ThreadsOK, ProductsOK

LEMMA MoreAnalyses ==
  ASSUME KnowledgeTypeOK, AnalysesOK', Len(analyses) <= Len(analyses)'
  PROVE  /\ UNCHANGED tokens => TokensOK'
         /\ UNCHANGED threads => ThreadsOK'
         /\ UNCHANGED products => ProductsOK'
<1> USE DEF KnowledgeTypeOK
<1>0. Len(analyses) \in Nat /\ Len(analyses)' \in Nat
  BY DEF AnalysesOK
<1>1. ASSUME UNCHANGED tokens PROVE TokensOK'
  <2>1. ASSUME NEW s \in Slots, tokens[s] # None, tokens[s].kind = "content"
        PROVE  tokens[s].analysis <= Len(analyses)'
    <3>1. tokens[s].analysis \in Nat /\ tokens[s].analysis <= Len(analyses)
      BY <2>1, KnowledgeAssumption DEF Previews
    <3> QED BY <1>0, <3>1
  <2> QED BY <1>1, <2>1 DEF TokensOK
<1>2. ASSUME UNCHANGED threads PROVE ThreadsOK'
  <2>1. ASSUME NEW t \in Threads, threads[t] # Idle
        PROVE  threads[t].analysis <= Len(analyses)'
    <3>1. threads[t].analysis \in Nat /\ threads[t].analysis <= Len(analyses)
      BY <2>1, KnowledgeAssumption DEF Requests
    <3> QED BY <1>0, <3>1
  <2> QED BY <1>2, <2>1 DEF ThreadsOK
<1>3. ASSUME UNCHANGED products PROVE ProductsOK'
  <2>1. ASSUME NEW p \in playbooks PROVE p.analysis <= Len(analyses)'
    <3>1. p.analysis \in Nat /\ p.analysis <= Len(analyses)
      BY <2>1, KnowledgeAssumption DEF Playbooks
    <3> QED BY <1>0, <3>1
  <2>2. 1..Len(analyses) \subseteq 1..Len(analyses)'
    BY <1>0
  <2>3. packs \subseteq [analysis : 1..Len(analyses)', cites : SUBSET Videos]
    BY <2>2
  <2> QED BY <1>3, <2>1, <2>3 DEF ProductsOK, products
<1> QED BY <1>1, <1>2, <1>3

LEMMA TypeInit == Init => KnowledgeTypeOK
<1> SUFFICES ASSUME Init PROVE KnowledgeTypeOK
  OBVIOUS
<1>1. CorpusOK
  BY KnowledgeAssumption DEF Init, CorpusOK
<1>2. AnalysesOK
  BY KnowledgeAssumption DEF Init, AnalysesOK
<1>3. TokensOK /\ ThreadsOK /\ ProductsOK
  BY DEF Init, TokensOK, ThreadsOK, ProductsOK
<1> QED BY <1>1, <1>2, <1>3, TypeOKParts

(* Corpus *)
LEMMA TypeCorpus ==
  ASSUME KnowledgeTypeOK,
         \/ \E v \in Videos : Transcribe(v)
         \/ \E v \in Videos, c \in Captions, n \in Views : Rescan(v, c, n)
         \/ Deploy
  PROVE  KnowledgeTypeOK'
<1>1. CASE \E v \in Videos : Transcribe(v)
  BY <1>1, KnowledgeAssumption DEF Transcribe, KnowledgeTypeOK, products, Provenances
<1>2. CASE \E v \in Videos, c \in Captions, n \in Views : Rescan(v, c, n)
  BY <1>2, KnowledgeAssumption DEF Rescan, KnowledgeTypeOK, products
<1>3. CASE Deploy
  <2>1. CorpusOK'
    BY <1>3, KnowledgeAssumption DEF Deploy, KnowledgeTypeOK, CorpusOK
  <2>2. UNCHANGED <<analyses, shown, products>>
    BY <1>3 DEF Deploy
  <2>3. TokensOK' /\ ThreadsOK'
    BY <1>3 DEF Deploy, TokensOK, ThreadsOK
  <2> QED BY <2>1, <2>2, <2>3, TypeOKParts DEF AnalysesOK, ProductsOK, products
<1> QED BY <1>1, <1>2, <1>3

LEMMA TypeStore ==
  ASSUME KnowledgeTypeOK, NEW s \in Slots, NEW value \in Previews,
         value.kind = "content" => value.analysis <= Len(analyses), Store(s, value)
  PROVE  KnowledgeTypeOK'
<1>1. CorpusOK'
  BY KnowledgeAssumption DEF Store, Begin, corpus, KnowledgeTypeOK, CorpusOK
<1>2. UNCHANGED <<analyses, shown, threads, products>> /\ tokens' = [tokens EXCEPT ![s] = value]
  BY DEF Store
<1>3. TokensOK'
  BY <1>2, TypeOKParts DEF TokensOK
<1> QED BY <1>1, <1>2, <1>3, TypeOKParts DEF AnalysesOK, ThreadsOK, ProductsOK, products

LEMMA TypePreviews ==
  ASSUME KnowledgeTypeOK, NEW s \in Slots,
         \/ \E file \in SUBSET Videos : HistoryDryRun(s, file)
         \/ \E mode \in Modes, answer \in Answers : AnalysisDryRun(s, mode, answer)
         \/ \E answer \in Answers : UpdateDryRun(s, answer)
         \/ \E cites \in SUBSET Videos : ContentDryRun(s, cites)
  PROVE  KnowledgeTypeOK'
<1>1. ASSUME NEW file \in SUBSET Videos, HistoryDryRun(s, file) PROVE KnowledgeTypeOK'
  <2> DEFINE value == [kind |-> "history", rows |-> {v \in file : text[v] = None}]
  <2>1. value \in Previews /\ value.kind # "content" /\ Store(s, value)
    BY <1>1 DEF HistoryDryRun, Previews
  <2> HIDE DEF value
  <2> QED BY <2>1, TypeStore
<1>2. ASSUME NEW mode \in Modes, NEW answer \in Answers, AnalysisDryRun(s, mode, answer)
      PROVE  KnowledgeTypeOK'
  <2> DEFINE value == [kind |-> "analysis", pack |-> ResearchPack(mode), answer |-> answer]
  <2>1. value \in Previews /\ value.kind # "content" /\ Store(s, value)
    BY <1>2, HashTypes DEF AnalysisDryRun, Previews
  <2> HIDE DEF value
  <2> QED BY <2>1, TypeStore
<1>3. ASSUME NEW answer \in Answers, UpdateDryRun(s, answer) PROVE KnowledgeTypeOK'
  <2> DEFINE value == [kind |-> "update", file |-> UpdateFile(answer)]
  <2>1. UpdateFile(answer) \in UpdateFiles
    <3>1. Newest.mode \in Modes /\ Len(analyses) \in 1..MaxAnalyses /\ Delta(Newest) \subseteq Videos
      BY <1>3, NewestRow, DeltaVideos DEF UpdateDryRun
    <3>2. SemanticHash(Newest.mode) \in SemanticMaps
      BY <3>1, HashTypes
    <3>3. Len(analyses) \in 0..MaxAnalyses
      BY <3>1, KnowledgeAssumption
    <3> QED BY <3>1, <3>2, <3>3 DEF UpdateFile, UpdateFiles
  <2>2. value \in Previews /\ value.kind # "content" /\ Store(s, value)
    BY <1>3, <2>1 DEF UpdateDryRun, Previews
  <2> HIDE DEF value
  <2> QED BY <2>2, TypeStore
<1>4. ASSUME NEW cites \in SUBSET Videos, ContentDryRun(s, cites) PROVE KnowledgeTypeOK'
  <2> DEFINE value == [kind |-> "content", analysis |-> shown, cites |-> cites]
  <2>1. shown \in 1..MaxAnalyses /\ shown <= Len(analyses)
    BY <1>4, KnowledgeAssumption DEF ContentDryRun, KnowledgeTypeOK
  <2>2. value \in Previews /\ value.analysis <= Len(analyses) /\ Store(s, value)
    BY <1>4, <2>1 DEF ContentDryRun, Previews
  <2> HIDE DEF value
  <2> QED BY <2>2, TypeStore
<1> QED BY <1>1, <1>2, <1>3, <1>4

(* A token that is taken. *)
LEMMA Taken ==
  ASSUME KnowledgeTypeOK, NEW s \in Slots, NEW kind, Take(s, kind)
  PROVE  /\ TokensOK' \/ ~UNCHANGED analyses
         /\ tokens' \in [Slots -> {None} \cup Previews]
         /\ \A x \in Slots : tokens'[x] \in {None, tokens[x]}
         /\ tokens[s] \in Previews /\ tokens[s].kind = kind
         /\ kind = "history" => tokens[s].rows \in SUBSET Videos
         /\ kind = "analysis" => tokens[s].pack \in PackIds /\ tokens[s].answer \in Answers
         /\ kind = "update" => tokens[s].file \in UpdateFiles
         /\ kind = "content" => /\ tokens[s].cites \in SUBSET Videos
                                /\ tokens[s].analysis \in 1..Len(analyses)
<1>1. /\ tokens[s] # None /\ tokens[s].kind = kind /\ tokens[s] \in {None} \cup Previews
      /\ tokens' = [tokens EXCEPT ![s] = None]
      /\ tokens \in [Slots -> {None} \cup Previews]
  BY DEF Take, KnowledgeTypeOK
<1>2. tokens[s] \in Previews
  BY <1>1
<1>3. /\ kind = "history" => tokens[s].rows \in SUBSET Videos
      /\ kind = "analysis" => tokens[s].pack \in PackIds /\ tokens[s].answer \in Answers
      /\ kind = "update" => tokens[s].file \in UpdateFiles
      /\ kind = "content" => tokens[s].cites \in SUBSET Videos /\ tokens[s].analysis \in 1..MaxAnalyses
  BY <1>1, <1>2 DEF Previews
<1>4. kind = "content" => tokens[s].analysis \in 1..Len(analyses)
  BY <1>1, <1>3, KnowledgeAssumption DEF KnowledgeTypeOK
<1>5. UNCHANGED analyses => TokensOK'
  BY <1>1, TypeOKParts DEF TokensOK
<1> QED BY <1>1, <1>2, <1>3, <1>4, <1>5

(* A row that is stored. *)
LEMMA TypeInsert ==
  ASSUME KnowledgeTypeOK, NEW a \in AnalysisRows, Len(analyses) < MaxAnalyses, Insert(a)
  PROVE  AnalysesOK' /\ Len(analyses)' = Len(analyses) + 1
BY KnowledgeAssumption DEF KnowledgeTypeOK, Insert, AnalysesOK

LEMMA TypeHistory ==
  ASSUME KnowledgeTypeOK, NEW s \in Slots, HistoryConfirm(s)
  PROVE  KnowledgeTypeOK'
<1>1. /\ text' = [v \in Videos |->
                   IF v \in tokens[s].rows /\ Absent(v) THEN "imported" ELSE text[v]]
      /\ UNCHANGED <<requests, caption, views, changes, contract, analyses, shown,
                     threads, products>>
      /\ Take(s, "history")
  BY DEF HistoryConfirm
<1>2. CorpusOK' /\ AnalysesOK' /\ ThreadsOK' /\ ProductsOK'
  BY <1>1, TypeOKParts DEF CorpusOK, AnalysesOK, ThreadsOK, ProductsOK, products, Provenances
<1> QED BY <1>1, <1>2, Taken, TypeOKParts

AnalysisRow(pack, answer) ==
  [mode |-> pack.mode, pack |-> pack, answer |-> answer, seen |-> pack.sem,
   contract |-> contract, sem |-> SemanticHash(pack.mode),
   perf |-> PerformanceHash(pack.mode), children |-> SemanticHash(pack.mode)]

UpdateRow(file) ==
  [mode |-> Newest.mode, pack |-> file, answer |-> file.answer, seen |-> file.target,
   contract |-> contract, sem |-> SemanticHash(Newest.mode),
   perf |-> PerformanceHash(Newest.mode),
   children |-> MergedChildren(Newest, Delta(Newest))]

LEMMA AnalysisConfirmed ==
  ASSUME KnowledgeTypeOK, NEW s \in Slots, AnalysisConfirm(s)
  PROVE  LET pack == tokens[s].pack
             row == AnalysisRow(pack, tokens[s].answer)
         IN  /\ pack \in PackIds /\ pack.mode \in Modes /\ pack.sem = SemanticHash(pack.mode)
             /\ row \in AnalysisRows
             /\ \/ UNCHANGED <<analyses, shown>>
                \/ Len(analyses) < MaxAnalyses /\ Insert(row)
<1> DEFINE pack == tokens[s].pack
<1>1. /\ Take(s, "analysis") /\ PackImportable(pack, tokens[s].answer)
      /\ \/ UNCHANGED <<analyses, shown>>
         \/ Len(analyses) < MaxAnalyses /\ Insert(AnalysisRow(pack, tokens[s].answer))
  BY DEF AnalysisConfirm, AnalysisRow
<1>2. pack \in PackIds /\ tokens[s].answer \in Answers
  BY <1>1, Taken
<1>3. PICK mode \in Modes : pack = ResearchPack(mode)
  BY <1>1 DEF PackImportable
<1>4. pack.mode = mode /\ pack.sem = SemanticHash(mode)
  BY <1>3 DEF ResearchPack
<1>5. contract \in 0..MaxChanges
  BY KnowledgeAssumption DEF KnowledgeTypeOK
<1> HIDE DEF pack
<1>6. AnalysisRow(pack, tokens[s].answer) \in AnalysisRows
  BY <1>2, <1>4, <1>5, HashTypes DEF AnalysisRow, AnalysisRows
<1> QED BY <1>1, <1>2, <1>3, <1>4, <1>6 DEF pack

(* What an update carries over and analyses again covers its selection in the
   content of today. *)
LEMMA Merged ==
  ASSUME KnowledgeTypeOK, analyses # <<>>, Delta(Newest) # {}
  PROVE  LET merged == MergedChildren(Newest, Delta(Newest))
         IN  /\ merged \in SemanticMaps
             /\ DOMAIN merged = DOMAIN Newest.children \cup Delta(Newest)
             /\ \A v \in Selection(Newest.mode) :
                  v \in DOMAIN merged /\ merged[v] = SemanticVideo(v)
<1> DEFINE prior == Newest
           delta == Delta(Newest)
<1>1. delta = ChangedIds(prior) /\ prior.mode \in Modes /\ delta \subseteq Selection(prior.mode)
  BY NewestRow DEF Delta, ChangedIds
<1>2. PICK S \in SUBSET Videos : prior.children \in [S -> Provenances \X Captions]
  BY NewestRow DEF SemanticMaps
<1>3. \A v \in delta : v \in Videos /\ SemanticVideo(v) \in Provenances \X Captions
  <2>1. Selection(prior.mode) \subseteq Transcribed
    BY <1>1, KnowledgeAssumption DEF Selection
  <2>2. delta \subseteq Transcribed
    BY <1>1, <2>1
  <2> QED BY <2>2 DEF Transcribed, SemanticVideo, KnowledgeTypeOK, Provenances
<1> HIDE DEF delta, prior
<1>4. MergedChildren(prior, delta) \in [S \cup delta -> Provenances \X Captions]
  BY <1>2, <1>3 DEF MergedChildren
<1>5. S \cup delta \in SUBSET Videos /\ DOMAIN prior.children = S
  BY <1>2, <1>3
<1>6. MergedChildren(prior, delta) \in SemanticMaps
  BY <1>4, <1>5 DEF SemanticMaps
<1>7. ASSUME NEW v \in Selection(prior.mode)
      PROVE  /\ v \in S \cup delta
             /\ MergedChildren(prior, delta)[v] = SemanticVideo(v)
  <2>1. CASE v \in delta
    BY <1>5, <2>1 DEF MergedChildren
  <2>2. CASE v \notin delta
    <3>1. v \in S /\ prior.children[v] = SemanticVideo(v)
      BY <1>1, <1>5, <1>7, <2>2 DEF ChangedIds
    <3> QED BY <1>5, <2>2, <3>1 DEF MergedChildren
  <2> QED BY <2>1, <2>2
<1> QED BY <1>4, <1>5, <1>6, <1>7 DEF prior, delta

LEMMA UpdateConfirmed ==
  ASSUME KnowledgeTypeOK, NEW s \in Slots, UpdateConfirm(s)
  PROVE  LET file == tokens[s].file
         IN  /\ analyses # <<>> /\ Delta(Newest) # {}
             /\ file.target = SemanticHash(Newest.mode)
             /\ UpdateRow(file) \in AnalysisRows
             /\ Len(analyses) < MaxAnalyses /\ Insert(UpdateRow(file))
<1> DEFINE file == tokens[s].file
<1>1. /\ Take(s, "update") /\ UpdateValid(file)
      /\ Len(analyses) < MaxAnalyses /\ Insert(UpdateRow(file))
  BY DEF UpdateConfirm, UpdateRow
<1>2. file \in UpdateFiles
  BY <1>1, Taken
<1> HIDE DEF file
<1>3. analyses # <<>> /\ Delta(Newest) # {} /\ file.target = SemanticHash(Newest.mode)
  BY <1>1 DEF UpdateValid, UpdateFile
<1>4. contract \in 0..MaxChanges
  BY KnowledgeAssumption DEF KnowledgeTypeOK
<1>5. UpdateRow(file) \in AnalysisRows
  BY <1>2, <1>3, <1>4, HashTypes, NewestRow, Merged DEF UpdateRow, AnalysisRows, UpdateFiles
<1> QED BY <1>1, <1>3, <1>5 DEF file

LEMMA TypeAnalyses ==
  ASSUME KnowledgeTypeOK, NEW s \in Slots, AnalysisConfirm(s) \/ UpdateConfirm(s)
  PROVE  KnowledgeTypeOK'
<1>1. /\ UNCHANGED <<requests, corpus, contract, threads, products>>
      /\ Take(s, "analysis") \/ Take(s, "update")
  BY DEF AnalysisConfirm, UpdateConfirm
<1>2. \/ UNCHANGED <<analyses, shown>>
      \/ \E a \in AnalysisRows : Len(analyses) < MaxAnalyses /\ Insert(a)
  BY AnalysisConfirmed, UpdateConfirmed
<1>3. AnalysesOK' /\ Len(analyses) <= Len(analyses)'
  <2>1. Len(analyses) \in Nat
    BY DEF KnowledgeTypeOK
  <2>2. CASE UNCHANGED <<analyses, shown>>
    BY <2>1, <2>2 DEF KnowledgeTypeOK, AnalysesOK
  <2>3. ASSUME NEW a \in AnalysisRows, Len(analyses) < MaxAnalyses, Insert(a)
        PROVE  AnalysesOK' /\ Len(analyses) <= Len(analyses)'
    BY <2>1, <2>3, TypeInsert
  <2> QED BY <1>2, <2>2, <2>3
<1>4. TokensOK'
  <2>1. /\ tokens' \in [Slots -> {None} \cup Previews]
        /\ \A x \in Slots : tokens'[x] \in {None, tokens[x]}
    BY <1>1, Taken
  <2>2. ASSUME NEW x \in Slots, tokens'[x] # None, tokens'[x].kind = "content"
        PROVE  tokens'[x].analysis <= Len(analyses)'
    <3>1. /\ tokens'[x] = tokens[x] /\ tokens[x] \in Previews
          /\ tokens[x].analysis <= Len(analyses)
      BY <2>1, <2>2 DEF KnowledgeTypeOK
    <3>2. tokens[x].analysis \in Nat
      BY <2>2, <3>1, KnowledgeAssumption DEF Previews
    <3> QED BY <1>3, <3>1, <3>2 DEF KnowledgeTypeOK, AnalysesOK
  <2> QED BY <2>1, <2>2 DEF TokensOK
<1>5. ThreadsOK' /\ ProductsOK'
  BY <1>1, <1>3, MoreAnalyses
<1>6. CorpusOK'
  BY <1>1, TypeOKParts DEF CorpusOK, corpus
<1> QED BY <1>3, <1>4, <1>5, <1>6, TypeOKParts

LEMMA TypeContent ==
  ASSUME KnowledgeTypeOK, NEW s \in Slots, ContentConfirm(s)
  PROVE  /\ KnowledgeTypeOK'
         /\ \A p \in packs' \ packs :
              p.analysis \in 1..Len(analyses) /\ p.cites \subseteq DOMAIN analyses[p.analysis].children
<1> DEFINE p == [analysis |-> tokens[s].analysis, cites |-> tokens[s].cites]
<1>1. /\ Take(s, "content") /\ Grounded(p.cites, p.analysis) /\ packs' \in {packs, packs \cup {p}}
      /\ UNCHANGED <<requests, corpus, contract, analyses, shown, threads, playbooks, strategies>>
  BY DEF ContentConfirm, Source
<1>2. p \in [analysis : 1..Len(analyses), cites : SUBSET Videos]
  BY <1>1, Taken
<1> HIDE DEF p
<1>3. ProductsOK'
  BY <1>1, <1>2, TypeOKParts DEF ProductsOK
<1>4. CorpusOK' /\ AnalysesOK' /\ ThreadsOK'
  BY <1>1, TypeOKParts DEF CorpusOK, AnalysesOK, ThreadsOK, corpus
<1>5. KnowledgeTypeOK'
  BY <1>1, <1>3, <1>4, Taken, TypeOKParts
<1> QED BY <1>1, <1>2, <1>5 DEF Grounded

(* Requests *)
LEMMA TypeThreads ==
  ASSUME KnowledgeTypeOK, NEW t \in Threads, NEW next \in {Idle} \cup Requests,
         next # Idle => next.analysis <= Len(analyses),
         threads' = [threads EXCEPT ![t] = next], UNCHANGED <<corpus, contract, tokens>>,
         requests' \in 0..MaxRequests
  PROVE  /\ CorpusOK'
         /\ UNCHANGED analyses => TokensOK' /\ ThreadsOK'
<1>1. CorpusOK'
  BY TypeOKParts DEF CorpusOK, corpus
<1>2. ASSUME UNCHANGED analyses PROVE TokensOK' /\ ThreadsOK'
  BY <1>2, TypeOKParts DEF TokensOK, ThreadsOK
<1> QED BY <1>1, <1>2

LEMMA TypeReads ==
  ASSUME KnowledgeTypeOK, NEW t \in Threads, PlaybookRead(t) \/ StrategyRead(t)
  PROVE  KnowledgeTypeOK'
<1>1. /\ analyses # <<>> /\ Begin
      /\ UNCHANGED <<corpus, contract, analyses, shown, tokens, products>>
      /\ \E step \in {"touch", "generate", "advise"}, path \in {"playbook", "strategy"},
            changed \in BOOLEAN :
           threads' = [threads EXCEPT ![t] =
             [step |-> step, path |-> path, analysis |-> Len(analyses), changed |-> changed,
              perf |-> Newest.perf, records |-> Records(Newest.mode)]]
  BY DEF PlaybookRead, StrategyRead
<1>2. PICK step \in {"touch", "generate", "advise"}, path \in {"playbook", "strategy"},
           changed \in BOOLEAN :
        threads' = [threads EXCEPT ![t] =
          [step |-> step, path |-> path, analysis |-> Len(analyses), changed |-> changed,
           perf |-> Newest.perf, records |-> Records(Newest.mode)]]
  BY <1>1
<1> DEFINE next == [step |-> step, path |-> path, analysis |-> Len(analyses), changed |-> changed,
                    perf |-> Newest.perf, records |-> Records(Newest.mode)]
<1>3. next \in Requests /\ next.analysis <= Len(analyses)
  BY <1>1, NewestRow, HashTypes DEF Requests
<1>4. requests' \in 0..MaxRequests
  BY <1>1, KnowledgeAssumption DEF Begin, KnowledgeTypeOK
<1>5. threads' = [threads EXCEPT ![t] = next]
  BY <1>2
<1> HIDE DEF next
<1>6. CorpusOK' /\ TokensOK' /\ ThreadsOK'
  BY <1>1, <1>3, <1>4, <1>5, TypeThreads
<1>7. AnalysesOK' /\ ProductsOK'
  BY <1>1, TypeOKParts DEF AnalysesOK, ProductsOK, products
<1> QED BY <1>6, <1>7, TypeOKParts

LEMMA RequestFields ==
  ASSUME KnowledgeTypeOK, NEW t \in Threads, threads[t] # Idle
  PROVE  /\ threads[t] \in Requests /\ threads[t].analysis \in 1..Len(analyses)
         /\ threads[t].analysis \in 1..MaxAnalyses
         /\ threads[t].perf \in PerformanceMaps /\ threads[t].records \in RecordSets
         /\ threads[t].records.perf \in PerformanceMaps
         /\ threads[t].path \in {"playbook", "strategy"}
         /\ analyses[threads[t].analysis] \in AnalysisRows
         /\ analyses[threads[t].analysis].mode \in Modes
<1>1. threads[t] \in Requests /\ threads[t].analysis <= Len(analyses)
  BY DEF KnowledgeTypeOK
<1>2. threads[t].analysis \in 1..Len(analyses) /\ Len(analyses) \in Nat
  BY <1>1, KnowledgeAssumption DEF Requests, KnowledgeTypeOK
<1>3. analyses[threads[t].analysis] \in AnalysisRows
  BY <1>2 DEF KnowledgeTypeOK
<1> QED BY <1>1, <1>2, <1>3 DEF Requests, RecordSets, AnalysisRows

(* A performance hash that moves leaves the rest of every row. *)
LEMMA Touched ==
  ASSUME KnowledgeTypeOK, NEW i \in 1..Len(analyses), NEW key \in PerformanceMaps,
         analyses' = [analyses EXCEPT ![i].perf = key], shown' = i
  PROVE  /\ AnalysesOK' /\ Len(analyses)' = Len(analyses)
         /\ \A j \in 1..Len(analyses) :
              /\ analyses'[j].sem = analyses[j].sem /\ analyses'[j].seen = analyses[j].seen
              /\ analyses'[j].children = analyses[j].children
              /\ analyses'[j].contract = analyses[j].contract
              /\ analyses'[j].mode = analyses[j].mode
<1>1. analyses \in Seq(AnalysisRows) /\ Len(analyses) \in Nat /\ analyses[i] \in AnalysisRows
  BY DEF KnowledgeTypeOK
<1> DEFINE row == [analyses[i] EXCEPT !.perf = key]
<1>2. /\ row \in AnalysisRows /\ row.sem = analyses[i].sem /\ row.seen = analyses[i].seen
      /\ row.children = analyses[i].children /\ row.contract = analyses[i].contract
      /\ row.mode = analyses[i].mode
  BY <1>1 DEF AnalysisRows
<1>3. analyses' = [analyses EXCEPT ![i] = row]
  OBVIOUS
<1> HIDE DEF row
<1>4. analyses' \in Seq(AnalysisRows) /\ Len(analyses)' = Len(analyses)
  BY <1>1, <1>2, <1>3
<1>5. \A j \in 1..Len(analyses) : analyses'[j] = IF j = i THEN row ELSE analyses[j]
  BY <1>1, <1>3
<1>6. AnalysesOK'
  BY <1>1, <1>4 DEF AnalysesOK, KnowledgeTypeOK
<1> QED BY <1>2, <1>4, <1>5, <1>6

LEMMA TypeTouch ==
  ASSUME KnowledgeTypeOK, NEW t \in Threads, PlaybookTouch(t)
  PROVE  KnowledgeTypeOK'
<1> DEFINE th == threads[t]
           key == CacheKey(th)
           later == [th EXCEPT !.step = "generate", !.perf = key]
           next == IF Cached(th.analysis, key) # {} THEN Idle ELSE later
<1>1. /\ th.step = "touch" /\ UNCHANGED <<requests, corpus, contract, tokens, products>>
      /\ IF th.changed
           THEN analyses' = [analyses EXCEPT ![th.analysis].perf = key] /\ shown' = th.analysis
           ELSE UNCHANGED <<analyses, shown>>
      /\ threads' = [threads EXCEPT ![t] = next]
  BY DEF PlaybookTouch
<1>2. th # Idle
  BY <1>1 DEF Idle
<1>3. th \in Requests /\ th.analysis \in 1..Len(analyses) /\ key \in PerformanceMaps
  BY <1>2, RequestFields DEF CacheKey
<1> HIDE DEF th, key
<1>4. later \in Requests /\ later.analysis = th.analysis
  BY <1>3 DEF Requests
<1> HIDE DEF later
<1>5. next \in {Idle} \cup Requests /\ (next # Idle => next.analysis <= Len(analyses))
  BY <1>3, <1>4
<1> HIDE DEF next
<1>6. AnalysesOK' /\ Len(analyses)' = Len(analyses)
  BY <1>1, <1>3, Touched, TypeOKParts DEF AnalysesOK
<1>7. TokensOK' /\ ProductsOK'
  BY <1>1, <1>6, MoreAnalyses DEF KnowledgeTypeOK
<1>8. ThreadsOK'
  BY <1>1, <1>5, <1>6, TypeOKParts DEF ThreadsOK
<1>9. CorpusOK'
  BY <1>1, TypeOKParts DEF CorpusOK, corpus
<1> QED BY <1>6, <1>7, <1>8, <1>9, TypeOKParts

LEMMA TypeAnswers ==
  ASSUME KnowledgeTypeOK, NEW t \in Threads,
         PlaybookStore(t) \/ StrategyStore(t) \/ ProviderFails(t)
  PROVE  KnowledgeTypeOK'
<1> DEFINE th == threads[t]
           again == [th EXCEPT !.step = "advise", !.records = Records(analyses[th.analysis].mode)]
           book == [analysis |-> th.analysis, perf |-> th.perf, path |-> th.path,
                    records |-> th.records]
<1>1. /\ th # Idle /\ UNCHANGED <<requests, corpus, contract, analyses, shown, tokens, packs>>
      /\ \/ threads' = [threads EXCEPT ![t] = Idle]
         \/ threads' = [threads EXCEPT ![t] = again]
      /\ playbooks' \in {playbooks, playbooks \cup {book}}
      /\ \/ UNCHANGED strategies
         \/ /\ UNCHANGED playbooks
            /\ \E p \in Cached(th.analysis, th.perf) :
                 strategies' = strategies \cup {[playbook |-> p, records |-> th.records]}
  BY DEF PlaybookStore, StrategyStore, ProviderFails, Idle, products
<1>2. /\ th \in Requests /\ th.analysis \in 1..Len(analyses) /\ th.analysis \in 1..MaxAnalyses
      /\ th.perf \in PerformanceMaps /\ th.records \in RecordSets
      /\ th.path \in {"playbook", "strategy"}
      /\ Records(analyses[th.analysis].mode) \in RecordSets /\ Len(analyses) \in Nat
  BY <1>1, RequestFields, HashTypes DEF KnowledgeTypeOK
<1> HIDE DEF th
<1>3. again \in Requests /\ again.analysis = th.analysis
  BY <1>2 DEF Requests
<1>4. book \in Playbooks /\ book.analysis <= Len(analyses)
  BY <1>2 DEF Playbooks
<1> HIDE DEF again, book
<1>5. CorpusOK' /\ TokensOK' /\ ThreadsOK'
  <2>1. PICK next \in {Idle, again} : threads' = [threads EXCEPT ![t] = next]
    BY <1>1
  <2>2. next \in {Idle} \cup Requests /\ (next # Idle => next.analysis <= Len(analyses))
    BY <1>2, <1>3, <2>1
  <2>3. requests' \in 0..MaxRequests
    BY <1>1 DEF KnowledgeTypeOK
  <2> QED BY <1>1, <2>1, <2>2, <2>3, TypeThreads
<1>6. AnalysesOK'
  BY <1>1, TypeOKParts DEF AnalysesOK
<1>7. ProductsOK'
  <2>1. playbooks' \subseteq Playbooks /\ \A p \in playbooks' : p.analysis <= Len(analyses)
    BY <1>1, <1>4, TypeOKParts DEF ProductsOK
  <2>2. strategies' \subseteq [playbook : playbooks', records : RecordSets]
    <3>1. CASE UNCHANGED strategies
      BY <1>1, <3>1, TypeOKParts DEF ProductsOK
    <3>2. CASE ~UNCHANGED strategies
      <4>1. PICK p \in Cached(th.analysis, th.perf) :
              strategies' = strategies \cup {[playbook |-> p, records |-> th.records]}
        BY <1>1, <3>2
      <4>2. p \in playbooks /\ UNCHANGED playbooks
        BY <1>1, <3>2, <4>1 DEF Cached
      <4> QED BY <1>2, <4>1, <4>2, TypeOKParts DEF ProductsOK
    <3> QED BY <3>1, <3>2
  <2> QED BY <1>1, <2>1, <2>2, TypeOKParts DEF ProductsOK
<1> QED BY <1>5, <1>6, <1>7, TypeOKParts

LEMMA TypeNext == KnowledgeTypeOK /\ [Next]_vars => KnowledgeTypeOK'
<1> SUFFICES ASSUME KnowledgeTypeOK, [Next]_vars PROVE KnowledgeTypeOK'
  OBVIOUS
<1>1. CASE UNCHANGED vars
  BY <1>1 DEF vars, KnowledgeTypeOK
<1>2. CASE Next
  <2>1. CASE \/ \E v \in Videos : Transcribe(v)
             \/ \E v \in Videos, c \in Captions, n \in Views : Rescan(v, c, n)
             \/ Deploy
    BY <2>1, TypeCorpus
  <2>2. ASSUME NEW s \in Slots,
               \/ \E file \in SUBSET Videos : HistoryDryRun(s, file)
               \/ \E mode \in Modes, answer \in Answers : AnalysisDryRun(s, mode, answer)
               \/ \E answer \in Answers : UpdateDryRun(s, answer)
               \/ \E cites \in SUBSET Videos : ContentDryRun(s, cites)
        PROVE  KnowledgeTypeOK'
    BY <2>2, TypePreviews
  <2>3. ASSUME NEW s \in Slots,
               HistoryConfirm(s) \/ AnalysisConfirm(s) \/ UpdateConfirm(s) \/ ContentConfirm(s)
        PROVE  KnowledgeTypeOK'
    BY <2>3, TypeHistory, TypeAnalyses, TypeContent
  <2>4. ASSUME NEW t \in Threads,
               \/ PlaybookRead(t) \/ PlaybookTouch(t) \/ StrategyRead(t)
               \/ PlaybookStore(t) \/ StrategyStore(t) \/ ProviderFails(t)
        PROVE  KnowledgeTypeOK'
    BY <2>4, TypeReads, TypeTouch, TypeAnswers
  <2> QED BY <1>2, <2>1, <2>2, <2>3, <2>4 DEF Next
<1> QED BY <1>1, <1>2

(* Type correctness; a reference to an analysis is to one that exists. *)
THEOREM KnowledgeTypeCorrect == Spec => []KnowledgeTypeOK
BY TypeInit, TypeNext, PTL DEF Spec

-----------------------------------------------------------------------------
(* Analyses *)

(* An insert leaves the rows that are there. *)
LEMMA InsertKeeps ==
  ASSUME KnowledgeTypeOK, NEW a \in AnalysisRows, Insert(a)
  PROVE  /\ Len(analyses)' = Len(analyses) + 1 /\ Len(analyses) \in Nat
         /\ \A i \in 1..Len(analyses) : analyses'[i] = analyses[i]
         /\ analyses'[Len(analyses) + 1] = a
         /\ analyses' # <<>> /\ Newest' = a
<1>1. analyses \in Seq(AnalysisRows) /\ Len(analyses) \in Nat /\ analyses' = Append(analyses, a)
  BY DEF KnowledgeTypeOK, Insert
<1>2. Len(analyses)' = Len(analyses) + 1 /\ analyses'[Len(analyses) + 1] = a
  BY <1>1
<1>3. \A i \in 1..Len(analyses) : analyses'[i] = analyses[i]
  BY <1>1
<1>4. analyses' # <<>>
  BY <1>1, <1>2
<1> QED BY <1>1, <1>2, <1>3, <1>4 DEF Newest

(* The row of a confirmed import or update is of the corpus of its file, and
   covers it. *)
Attached(a) ==
  /\ a.seen = a.sem
  /\ \A v \in DOMAIN a.sem : v \in DOMAIN a.children /\ a.children[v] = a.sem[v]

(* An analysis of every transcribed video analysed those of its hash, which
   stay transcribed. *)
Whole(a) == a.mode = "all" => DOMAIN a.children = DOMAIN a.sem /\ DOMAIN a.sem \subseteq Transcribed

AnalysesInv ==
  \A i \in 1..Len(analyses) : Attached(analyses[i]) /\ Whole(analyses[i])

LEMMA ConfirmedRow ==
  ASSUME KnowledgeTypeOK, AnalysesInv, NEW s \in Slots, AnalysisConfirm(s) \/ UpdateConfirm(s)
  PROVE  \/ UNCHANGED analyses
         \/ \E a \in AnalysisRows : Insert(a) /\ Attached(a) /\ Whole(a)
<1>1. CASE AnalysisConfirm(s)
  <2> DEFINE pack == tokens[s].pack
             row == AnalysisRow(pack, tokens[s].answer)
  <2>1. /\ pack.mode \in Modes /\ pack.sem = SemanticHash(pack.mode) /\ row \in AnalysisRows
        /\ UNCHANGED analyses \/ Insert(row)
    BY <1>1, AnalysisConfirmed
  <2>2. /\ row.seen = pack.sem /\ row.sem = SemanticHash(pack.mode)
        /\ row.children = SemanticHash(pack.mode) /\ row.mode = pack.mode
    BY DEF AnalysisRow
  <2> HIDE DEF row, pack
  <2>3. Attached(row)
    BY <2>1, <2>2 DEF Attached
  <2>4. Whole(row)
    BY <2>1, <2>2, HashTypes DEF Whole, Selection
  <2> QED BY <2>1, <2>3, <2>4
<1>2. CASE UpdateConfirm(s)
  <2> DEFINE file == tokens[s].file
             row == UpdateRow(file)
             merged == MergedChildren(Newest, Delta(Newest))
  <2>1. /\ analyses # <<>> /\ Delta(Newest) # {} /\ file.target = SemanticHash(Newest.mode)
        /\ row \in AnalysisRows /\ Insert(row)
    BY <1>2, UpdateConfirmed
  <2>2. /\ row.seen = file.target /\ row.sem = SemanticHash(Newest.mode)
        /\ row.children = merged /\ row.mode = Newest.mode
    BY DEF UpdateRow
  <2>3. /\ DOMAIN merged = DOMAIN Newest.children \cup Delta(Newest)
        /\ \A v \in Selection(Newest.mode) : v \in DOMAIN merged /\ merged[v] = SemanticVideo(v)
    BY <2>1, Merged
  <2>4. /\ DOMAIN SemanticHash(Newest.mode) = Selection(Newest.mode)
        /\ \A v \in Selection(Newest.mode) : SemanticHash(Newest.mode)[v] = SemanticVideo(v)
        /\ Delta(Newest) \subseteq Selection(Newest.mode)
    BY DEF SemanticHash, Delta, ChangedIds
  <2> HIDE DEF row, file, merged
  <2>5. Attached(row)
    BY <2>1, <2>2, <2>3, <2>4 DEF Attached
  <2>6. Whole(Newest)
    BY <2>1, NewestRow DEF AnalysesInv
  <2>7. Whole(row)
    BY <2>2, <2>3, <2>4, <2>6 DEF Whole, Selection
  <2> QED BY <2>1, <2>5, <2>7
<1> QED BY <1>1, <1>2

(* What the steps outside the handlers that write analyses, packs and playbooks
   leave alone. *)
LEMMA StepKinds ==
  ASSUME [Next]_vars
  PROVE  \/ UNCHANGED <<text, contract, analyses, threads, playbooks, packs>>
         \/ /\ \/ \E v \in Videos : Transcribe(v)
               \/ \E s \in Slots : HistoryConfirm(s)
            /\ UNCHANGED <<contract, analyses, threads, playbooks, packs>>
         \/ Deploy
         \/ \E s \in Slots : AnalysisConfirm(s) \/ UpdateConfirm(s)
         \/ \E s \in Slots : ContentConfirm(s)
         \/ \E t \in Threads :
              \/ PlaybookRead(t) \/ PlaybookTouch(t) \/ StrategyRead(t)
              \/ PlaybookStore(t) \/ StrategyStore(t) \/ ProviderFails(t)
<1> DEFINE Quiet == UNCHANGED <<text, contract, analyses, threads, playbooks, packs>>
<1>1. ASSUME NEW s \in Slots, NEW value, Store(s, value) PROVE Quiet
  BY <1>1 DEF Store, corpus, products
<1>2. ASSUME NEW s \in Slots,
             \/ \E file \in SUBSET Videos : HistoryDryRun(s, file)
             \/ \E mode \in Modes, answer \in Answers : AnalysisDryRun(s, mode, answer)
             \/ \E answer \in Answers : UpdateDryRun(s, answer)
             \/ \E cites \in SUBSET Videos : ContentDryRun(s, cites)
      PROVE  Quiet
  <2> HIDE DEF Quiet
  <2> QED BY <1>1, <1>2 DEF HistoryDryRun, AnalysisDryRun, UpdateDryRun, ContentDryRun
<1>3. ASSUME NEW v \in Videos, NEW c \in Captions, NEW n \in Views, Rescan(v, c, n)
      PROVE  Quiet
  BY <1>3 DEF Rescan, products
<1>4. UNCHANGED vars => Quiet
  BY DEF vars
<1>5. ASSUME NEW v \in Videos, Transcribe(v)
      PROVE  UNCHANGED <<contract, analyses, threads, playbooks, packs>>
  BY <1>5 DEF Transcribe, products
<1>6. ASSUME NEW s \in Slots, HistoryConfirm(s)
      PROVE  UNCHANGED <<contract, analyses, threads, playbooks, packs>>
  BY <1>6 DEF HistoryConfirm, products
<1> QED BY <1>2, <1>3, <1>4, <1>5, <1>6 DEF Next

(* A step adds an analysis that was confirmed, moves one performance hash, or
   leaves them. *)
LEMMA AnalysesStep ==
  ASSUME KnowledgeTypeOK, AnalysesInv, [Next]_vars
  PROVE  \/ UNCHANGED analyses
         \/ \E a \in AnalysisRows : Insert(a) /\ Attached(a) /\ Whole(a) /\ UNCHANGED text
         \/ /\ Len(analyses)' = Len(analyses) /\ UNCHANGED text
            /\ \A j \in 1..Len(analyses) :
                 /\ analyses'[j].sem = analyses[j].sem /\ analyses'[j].seen = analyses[j].seen
                 /\ analyses'[j].children = analyses[j].children
                 /\ analyses'[j].contract = analyses[j].contract
                 /\ analyses'[j].mode = analyses[j].mode
<1>1. ASSUME NEW s \in Slots, AnalysisConfirm(s) \/ UpdateConfirm(s)
      PROVE  \/ UNCHANGED analyses
             \/ \E a \in AnalysisRows : Insert(a) /\ Attached(a) /\ Whole(a) /\ UNCHANGED text
  <2>1. UNCHANGED text
    BY <1>1 DEF AnalysisConfirm, UpdateConfirm, corpus
  <2> QED BY <1>1, <2>1, ConfirmedRow
<1>2. ASSUME NEW t \in Threads, PlaybookTouch(t), ~UNCHANGED analyses
      PROVE  /\ Len(analyses)' = Len(analyses) /\ UNCHANGED text
             /\ \A j \in 1..Len(analyses) :
                  /\ analyses'[j].sem = analyses[j].sem /\ analyses'[j].seen = analyses[j].seen
                  /\ analyses'[j].children = analyses[j].children
                  /\ analyses'[j].contract = analyses[j].contract
                  /\ analyses'[j].mode = analyses[j].mode
  <2> DEFINE key == CacheKey(threads[t])
  <2>1. /\ threads[t] # Idle /\ UNCHANGED text
        /\ analyses' = [analyses EXCEPT ![threads[t].analysis].perf = key]
        /\ shown' = threads[t].analysis
    BY <1>2 DEF PlaybookTouch, Idle, corpus
  <2>2. threads[t].analysis \in 1..Len(analyses) /\ key \in PerformanceMaps
    BY <2>1, RequestFields DEF CacheKey
  <2> HIDE DEF key
  <2> QED BY <2>1, <2>2, Touched
<1>3. ASSUME NEW s \in Slots, ContentConfirm(s) PROVE UNCHANGED analyses
  BY <1>3 DEF ContentConfirm
<1>4. ASSUME NEW t \in Threads,
             PlaybookRead(t) \/ StrategyRead(t) \/ PlaybookStore(t) \/ StrategyStore(t)
               \/ ProviderFails(t)
      PROVE  UNCHANGED analyses
  BY <1>4 DEF PlaybookRead, StrategyRead, PlaybookStore, StrategyStore, ProviderFails
<1>5. Deploy => UNCHANGED analyses
  BY DEF Deploy
<1> QED BY <1>1, <1>2, <1>3, <1>4, <1>5, StepKinds

(* Transcripts stay. *)
KeepsTranscripts == \A v \in Videos : text[v] # None => text'[v] = text[v]

LEMMA NextKeepsTranscripts == KnowledgeTypeOK /\ [Next]_vars => KeepsTranscripts
<1> SUFFICES ASSUME KnowledgeTypeOK, [Next]_vars PROVE KeepsTranscripts
  OBVIOUS
<1>1. ASSUME NEW w \in Videos, Transcribe(w) PROVE KeepsTranscripts
  BY <1>1 DEF Transcribe, KeepsTranscripts, KnowledgeTypeOK
<1>2. ASSUME NEW s \in Slots, HistoryConfirm(s) PROVE KeepsTranscripts
  BY <1>2 DEF HistoryConfirm, Absent, KeepsTranscripts, KnowledgeTypeOK
<1>3. CASE UNCHANGED text
  BY <1>3 DEF KeepsTranscripts
<1>4. ASSUME NEW s \in Slots, AnalysisConfirm(s) \/ UpdateConfirm(s) \/ ContentConfirm(s)
      PROVE  UNCHANGED text
  BY <1>4 DEF AnalysisConfirm, UpdateConfirm, ContentConfirm, corpus
<1>5. ASSUME NEW t \in Threads,
             \/ PlaybookRead(t) \/ PlaybookTouch(t) \/ StrategyRead(t)
             \/ PlaybookStore(t) \/ StrategyStore(t) \/ ProviderFails(t)
      PROVE  UNCHANGED text
  BY <1>5 DEF PlaybookRead, PlaybookTouch, StrategyRead, PlaybookStore, StrategyStore,
     ProviderFails, corpus
<1>6. Deploy => UNCHANGED text
  BY DEF Deploy
<1> QED BY <1>1, <1>2, <1>3, <1>4, <1>5, <1>6, StepKinds

(* No import replaces a transcript, whatever was committed since its preview. *)
THEOREM TranscriptsStay == Spec => TranscriptsKept
<1>1. TranscriptsKept <=> [][KeepsTranscripts]_vars
  BY DEF TranscriptsKept, KeepsTranscripts
<1>2. KnowledgeTypeOK /\ [Next]_vars => [KeepsTranscripts]_vars
  BY NextKeepsTranscripts
<1> QED BY <1>1, <1>2, TypeInit, TypeNext, PTL DEF Spec

LEMMA AnalysesInit == Init => AnalysesInv
BY DEF Init, AnalysesInv

LEMMA AnalysesNext == KnowledgeTypeOK /\ AnalysesInv /\ [Next]_vars => AnalysesInv'
<1> SUFFICES ASSUME KnowledgeTypeOK, AnalysesInv, [Next]_vars PROVE AnalysesInv'
  OBVIOUS
<1>1. Transcribed \subseteq Transcribed'
  BY NextKeepsTranscripts DEF KeepsTranscripts, Transcribed
<1>2. CASE UNCHANGED analyses
  BY <1>1, <1>2 DEF AnalysesInv, Attached, Whole
<1>3. ASSUME NEW a \in AnalysisRows, Insert(a), Attached(a), Whole(a), UNCHANGED text
      PROVE  AnalysesInv'
  BY <1>1, <1>3, InsertKeeps DEF AnalysesInv, Attached, Whole
<1>4. CASE /\ Len(analyses)' = Len(analyses)
           /\ \A j \in 1..Len(analyses) :
                /\ analyses'[j].sem = analyses[j].sem /\ analyses'[j].seen = analyses[j].seen
                /\ analyses'[j].children = analyses[j].children
                /\ analyses'[j].mode = analyses[j].mode
  BY <1>1, <1>4 DEF AnalysesInv, Attached, Whole
<1> QED BY <1>2, <1>3, <1>4, AnalysesStep

(* An analysis is stored with the corpus its analyst was given. *)
THEOREM EvidenceKept == Spec => []EvidenceAsAnalysed
<1>1. AnalysesInv => EvidenceAsAnalysed
  BY DEF AnalysesInv, Attached, EvidenceAsAnalysed
<1> QED BY <1>1, TypeInit, TypeNext, AnalysesInit, AnalysesNext, PTL DEF Spec

(* After any chain of imports and updates the analyses of the videos are of the
   content the hash stands for. *)
THEOREM ChildrenCovered == Spec => []ChildrenMatchHash
<1>1. AnalysesInv => ChildrenMatchHash
  BY DEF AnalysesInv, Attached, ChildrenMatchHash
<1> QED BY <1>1, TypeInit, TypeNext, AnalysesInit, AnalysesNext, PTL DEF Spec

LEMMA WholeDelta == KnowledgeTypeOK /\ AnalysesInv => DeltaActionable
<1> SUFFICES ASSUME KnowledgeTypeOK, AnalysesInv, analyses # <<>>, Newest.mode = "all",
                    Freshness(Newest) = "SEMANTIC_DELTA", Delta(Newest) = {}
             PROVE  FALSE
  BY DEF DeltaActionable
<1> DEFINE a == Newest
<1>1. /\ Attached(a) /\ DOMAIN a.children = DOMAIN a.sem /\ DOMAIN a.sem \subseteq Transcribed
      /\ a.sem \in SemanticMaps
  BY NewestRow DEF AnalysesInv, Whole, AnalysisRows
<1>2. a.sem # SemanticHash("all")
  BY DEF Freshness
<1>3. Selection("all") = Transcribed
  BY DEF Selection
<1>4. \A v \in Transcribed : v \in DOMAIN a.children /\ a.children[v] = SemanticVideo(v)
  BY <1>3 DEF Delta, ChangedIds
<1> HIDE DEF a
<1>5. DOMAIN a.sem = Transcribed /\ \A v \in Transcribed : a.sem[v] = SemanticVideo(v)
  BY <1>1, <1>4 DEF Attached
<1>6. a.sem = [v \in Transcribed |-> SemanticVideo(v)]
  <2>1. PICK S \in SUBSET Videos : a.sem \in [S -> Provenances \X Captions]
    BY <1>1 DEF SemanticMaps
  <2> QED BY <1>5, <2>1
<1> QED BY <1>2, <1>3, <1>6 DEF SemanticHash

(* The state that blocks playbooks always comes with videos to export. *)
THEOREM DeltaEnds == Spec => []DeltaActionable
BY WholeDelta, TypeInit, TypeNext, AnalysesInit, AnalysesNext, PTL DEF Spec

-----------------------------------------------------------------------------
(* Content packs and playbooks *)

(* Rows of analyses are there for good, with the videos, the corpus and the
   contract they were stored with. *)
RowsStay ==
  /\ Len(analyses) <= Len(analyses)'
  /\ \A i \in 1..Len(analyses) :
       /\ i \in 1..Len(analyses)'
       /\ analyses'[i].children = analyses[i].children
       /\ analyses'[i].sem = analyses[i].sem
       /\ analyses'[i].contract = analyses[i].contract

LEMMA NextRowsStay == KnowledgeTypeOK /\ AnalysesInv /\ [Next]_vars => RowsStay
<1> SUFFICES ASSUME KnowledgeTypeOK, AnalysesInv, [Next]_vars PROVE RowsStay
  OBVIOUS
<1>1. Len(analyses) \in Nat
  BY DEF KnowledgeTypeOK
<1>2. CASE UNCHANGED analyses
  BY <1>1, <1>2 DEF RowsStay
<1>3. ASSUME NEW a \in AnalysisRows, Insert(a) PROVE RowsStay
  BY <1>1, <1>3, InsertKeeps DEF RowsStay
<1>4. CASE /\ Len(analyses)' = Len(analyses)
           /\ \A j \in 1..Len(analyses) :
                /\ analyses'[j].sem = analyses[j].sem
                /\ analyses'[j].children = analyses[j].children
                /\ analyses'[j].contract = analyses[j].contract
  BY <1>1, <1>4 DEF RowsStay
<1> QED BY <1>2, <1>3, <1>4, AnalysesStep

LEMMA OnlyContentPacks ==
  [Next]_vars => UNCHANGED packs \/ \E s \in Slots : ContentConfirm(s)
<1> SUFFICES ASSUME [Next]_vars PROVE UNCHANGED packs \/ \E s \in Slots : ContentConfirm(s)
  OBVIOUS
<1> USE DEF products
<1>1. ASSUME NEW s \in Slots, AnalysisConfirm(s) \/ UpdateConfirm(s) PROVE UNCHANGED packs
  BY <1>1 DEF AnalysisConfirm, UpdateConfirm
<1>2. ASSUME NEW t \in Threads,
             \/ PlaybookRead(t) \/ PlaybookTouch(t) \/ StrategyRead(t)
             \/ PlaybookStore(t) \/ StrategyStore(t) \/ ProviderFails(t)
      PROVE  UNCHANGED packs
  BY <1>2 DEF PlaybookRead, PlaybookTouch, StrategyRead, PlaybookStore, StrategyStore, ProviderFails
<1>3. Deploy => UNCHANGED packs
  BY DEF Deploy
<1> QED BY <1>1, <1>2, <1>3, StepKinds

LEMMA ContentNext ==
  KnowledgeTypeOK /\ AnalysesInv /\ ContentGrounded /\ [Next]_vars => ContentGrounded'
<1> SUFFICES ASSUME KnowledgeTypeOK, AnalysesInv, ContentGrounded, [Next]_vars,
                    NEW p \in packs'
             PROVE  p.cites \subseteq DOMAIN analyses'[p.analysis].children
  BY DEF ContentGrounded
<1>1. CASE p \in packs
  <2>1. p.analysis \in 1..Len(analyses)
    BY <1>1 DEF KnowledgeTypeOK
  <2> QED BY <1>1, <2>1, NextRowsStay DEF RowsStay, ContentGrounded
<1>2. CASE p \notin packs
  <2>1. PICK s \in Slots : ContentConfirm(s)
    BY <1>2, OnlyContentPacks
  <2>2. p.analysis \in 1..Len(analyses) /\ p.cites \subseteq DOMAIN analyses[p.analysis].children
    BY <1>2, <2>1, TypeContent
  <2> QED BY <2>2, NextRowsStay DEF RowsStay
<1> QED BY <1>1, <1>2

(* A content pack cites only videos of the analysis it is linked to. *)
THEOREM ContentStays == Spec => []ContentGrounded
<1>1. Init => ContentGrounded
  BY DEF Init, ContentGrounded
<1> QED BY <1>1, TypeInit, TypeNext, AnalysesInit, AnalysesNext, ContentNext, PTL DEF Spec
-----------------------------------------------------------------------------
(* What a technical request holds: unless the contract has changed, the records
   it read are of the analysis's content, and the key it will look up or store
   under is their metrics. *)
RequestEvidence(th) ==
  \/ analyses[th.analysis].contract # contract
  \/ /\ th.records.sem = analyses[th.analysis].sem
     /\ (th.step = "touch" /\ th.changed) \/ th.perf = th.records.perf

ThreadsEvidence == \A t \in Threads :
  threads[t] # Idle /\ threads[t].path = "playbook" => RequestEvidence(threads[t])

ContractsPast == \A i \in 1..Len(analyses) : analyses[i].contract <= contract

EvidenceInv == ThreadsEvidence /\ ContractsPast /\ PlaybookEvidence

(* A step that is no deployment keeps the evidence of what is there. *)
LEMMA BookStays ==
  ASSUME KnowledgeTypeOK, EvidenceInv, RowsStay, UNCHANGED contract,
         NEW p \in playbooks, p.path = "playbook"
  PROVE  /\ p.records.perf = p.perf \/ analyses'[p.analysis].contract # contract
         /\ p.records.sem = analyses'[p.analysis].sem
              \/ analyses'[p.analysis].contract # contract
<1>1. p.analysis \in 1..Len(analyses)
  BY DEF KnowledgeTypeOK, Playbooks
<1> QED BY <1>1 DEF RowsStay, EvidenceInv, PlaybookEvidence

LEMMA RequestStays ==
  ASSUME KnowledgeTypeOK, EvidenceInv, RowsStay, UNCHANGED contract,
         NEW t \in Threads, threads[t] # Idle, threads[t].path = "playbook",
         UNCHANGED threads[t]
  PROVE  RequestEvidence(threads[t])'
<1>1. threads[t].analysis \in 1..Len(analyses)
  BY RequestFields
<1>2. RequestEvidence(threads[t])
  BY DEF EvidenceInv, ThreadsEvidence
<1> QED BY <1>1, <1>2 DEF RowsStay, RequestEvidence

LEMMA ContractsNext ==
  ASSUME KnowledgeTypeOK, AnalysesInv, ContractsPast, [Next]_vars
  PROVE  ContractsPast' /\ (UNCHANGED contract \/ Deploy)
<1>1. UNCHANGED contract \/ Deploy
  <2>1. ASSUME NEW s \in Slots, AnalysisConfirm(s) \/ UpdateConfirm(s) \/ ContentConfirm(s)
        PROVE  UNCHANGED contract
    BY <2>1 DEF AnalysisConfirm, UpdateConfirm, ContentConfirm
  <2>2. ASSUME NEW t \in Threads,
               \/ PlaybookRead(t) \/ PlaybookTouch(t) \/ StrategyRead(t)
               \/ PlaybookStore(t) \/ StrategyStore(t) \/ ProviderFails(t)
        PROVE  UNCHANGED contract
    BY <2>2 DEF PlaybookRead, PlaybookTouch, StrategyRead, PlaybookStore, StrategyStore,
       ProviderFails
  <2> QED BY <2>1, <2>2, StepKinds
<1>2. contract \in Nat /\ contract' \in Nat /\ contract <= contract'
  BY <1>1, KnowledgeAssumption DEF KnowledgeTypeOK, Deploy
<1>3. ASSUME NEW i \in 1..Len(analyses)
      PROVE  analyses[i].contract \in Nat /\ analyses[i].contract <= contract
  <2>1. analyses[i] \in AnalysisRows
    BY DEF KnowledgeTypeOK
  <2> QED BY <2>1, KnowledgeAssumption DEF ContractsPast, AnalysisRows
<1>4. ASSUME Len(analyses)' = Len(analyses) PROVE ContractsPast'
  BY <1>2, <1>3, <1>4, NextRowsStay DEF RowsStay, ContractsPast
<1>5. ASSUME NEW s \in Slots, AnalysisConfirm(s) \/ UpdateConfirm(s) PROVE ContractsPast'
  <2>1. ASSUME NEW pack, NEW answer PROVE AnalysisRow(pack, answer).contract = contract
    BY DEF AnalysisRow
  <2>2. ASSUME NEW file PROVE UpdateRow(file).contract = contract
    BY DEF UpdateRow
  <2>3. \/ UNCHANGED analyses
        \/ \E a \in AnalysisRows : a.contract = contract /\ Insert(a)
    BY <1>5, <2>1, <2>2, AnalysisConfirmed, UpdateConfirmed
  <2>4. ASSUME NEW a \in AnalysisRows, a.contract = contract, Insert(a) PROVE ContractsPast'
    BY <1>2, <1>3, <2>4, InsertKeeps DEF ContractsPast
  <2> QED BY <1>4, <2>3, <2>4
<1>6. ASSUME ~\E s \in Slots : AnalysisConfirm(s) \/ UpdateConfirm(s)
      PROVE  Len(analyses)' = Len(analyses)
  <2>1. ASSUME NEW s \in Slots, ContentConfirm(s) PROVE UNCHANGED analyses
    BY <2>1 DEF ContentConfirm
  <2>2. ASSUME NEW t \in Threads,
               \/ PlaybookRead(t) \/ StrategyRead(t)
               \/ PlaybookStore(t) \/ StrategyStore(t) \/ ProviderFails(t)
        PROVE  UNCHANGED analyses
    BY <2>2 DEF PlaybookRead, StrategyRead, PlaybookStore, StrategyStore, ProviderFails
  <2>3. ASSUME NEW t \in Threads, PlaybookTouch(t) PROVE Len(analyses)' = Len(analyses)
    BY <2>3 DEF PlaybookTouch, KnowledgeTypeOK
  <2>4. Deploy => UNCHANGED analyses
    BY DEF Deploy
  <2> QED BY <1>6, <2>1, <2>2, <2>3, <2>4, StepKinds
<1> QED BY <1>1, <1>4, <1>5, <1>6

(* A request that read the analysis: fresh, its metrics have changed, or its
   contract. *)
LEMMA ReadEvidence ==
  ASSUME KnowledgeTypeOK, NEW t \in Threads, PlaybookRead(t)
  PROVE  RequestEvidence(threads[t])'
<1> DEFINE th == [step |-> "touch", path |-> "playbook", analysis |-> Len(analyses),
                  changed |-> Freshness(Newest) = "PERFORMANCE_CHANGED",
                  perf |-> Newest.perf, records |-> Records(Newest.mode)]
<1>1. /\ threads' = [threads EXCEPT ![t] = th] /\ UNCHANGED <<analyses, contract>>
      /\ analyses # <<>> /\ Freshness(Newest) # "SEMANTIC_DELTA"
  BY DEF PlaybookRead
<1>2. threads'[t] = th
  BY <1>1 DEF KnowledgeTypeOK
<1>3. \/ Newest.contract # contract
      \/ /\ Newest.sem = SemanticHash(Newest.mode)
         /\ \/ Freshness(Newest) = "PERFORMANCE_CHANGED"
            \/ Newest.perf = PerformanceHash(Newest.mode)
  BY <1>1 DEF Freshness
<1>4. /\ th.analysis = Len(analyses) /\ th.step = "touch" /\ th.perf = Newest.perf
      /\ th.records.sem = SemanticHash(Newest.mode)
      /\ th.records.perf = PerformanceHash(Newest.mode)
      /\ Freshness(Newest) = "PERFORMANCE_CHANGED" => th.changed
  BY DEF Records
<1> HIDE DEF th
<1>5. RequestEvidence(th)
  BY <1>3, <1>4 DEF RequestEvidence, Newest
<1> QED BY <1>1, <1>2, <1>5 DEF RequestEvidence

LEMMA EvidenceNext ==
  KnowledgeTypeOK /\ AnalysesInv /\ EvidenceInv /\ [Next]_vars => EvidenceInv'
<1> SUFFICES ASSUME KnowledgeTypeOK, AnalysesInv, EvidenceInv, [Next]_vars PROVE EvidenceInv'
  OBVIOUS
<1>1. ContractsPast' /\ (UNCHANGED contract \/ Deploy) /\ RowsStay
  BY ContractsNext, NextRowsStay DEF EvidenceInv
<1>2. CASE Deploy
  <2>1. ThreadsEvidence'
    BY <1>2 DEF Deploy, ThreadsEvidence
  <2>2. ASSUME NEW p \in playbooks PROVE analyses'[p.analysis].contract # contract'
    <3>1. p.analysis \in 1..Len(analyses) /\ contract \in Nat
      BY KnowledgeAssumption DEF KnowledgeTypeOK, Playbooks
    <3>2. analyses[p.analysis].contract \in Nat /\ analyses[p.analysis].contract <= contract
      <4>1. analyses[p.analysis] \in AnalysisRows
        BY <3>1 DEF KnowledgeTypeOK
      <4> QED BY <3>1, <4>1, KnowledgeAssumption DEF EvidenceInv, ContractsPast, AnalysisRows
    <3> QED BY <1>2, <3>1, <3>2 DEF Deploy
  <2>3. PlaybookEvidence'
    BY <1>2, <2>2 DEF Deploy, PlaybookEvidence, products
  <2> QED BY <1>1, <2>1, <2>3 DEF EvidenceInv
<1>3. ASSUME UNCHANGED <<contract, threads, playbooks>> PROVE EvidenceInv'
  <2>1. ThreadsEvidence'
    BY <1>1, <1>3, RequestStays DEF ThreadsEvidence
  <2>2. PlaybookEvidence'
    BY <1>1, <1>3, BookStays DEF PlaybookEvidence
  <2> QED BY <1>1, <2>1, <2>2 DEF EvidenceInv
<1>4. ASSUME NEW t \in Threads, UNCHANGED <<contract, playbooks>>,
             \A u \in Threads \ {t} : threads'[u] = threads[u],
             threads'[t] = Idle \/ threads'[t].path # "playbook" \/ RequestEvidence(threads[t])'
      PROVE  EvidenceInv'
  <2>1. ThreadsEvidence'
    BY <1>1, <1>4, RequestStays DEF ThreadsEvidence
  <2>2. PlaybookEvidence'
    BY <1>1, <1>4, BookStays DEF PlaybookEvidence
  <2> QED BY <1>1, <2>1, <2>2 DEF EvidenceInv
<1>5. ASSUME NEW t \in Threads, PlaybookRead(t) PROVE EvidenceInv'
  <2>1. /\ UNCHANGED <<contract, playbooks>>
        /\ \A u \in Threads \ {t} : threads'[u] = threads[u]
    BY <1>5 DEF PlaybookRead, KnowledgeTypeOK, products
  <2> QED BY <1>4, <1>5, <2>1, ReadEvidence
<1>6. ASSUME NEW t \in Threads, StrategyRead(t) PROVE EvidenceInv'
  BY <1>4, <1>6 DEF StrategyRead, KnowledgeTypeOK, products
<1>7. ASSUME NEW t \in Threads, PlaybookTouch(t) PROVE EvidenceInv'
  <2> DEFINE th == threads[t]
             key == CacheKey(th)
             later == [th EXCEPT !.step = "generate", !.perf = key]
  <2>1. /\ th.step = "touch" /\ UNCHANGED <<contract, playbooks>>
        /\ \A u \in Threads \ {t} : threads'[u] = threads[u]
        /\ threads'[t] = Idle \/ threads'[t] = later
    BY <1>7 DEF PlaybookTouch, KnowledgeTypeOK, products
  <2>2. th # Idle /\ th \in Requests /\ th.analysis \in 1..Len(analyses)
    BY <2>1, RequestFields DEF Idle
  <2>3. /\ later.analysis = th.analysis /\ later.path = th.path
        /\ later.records = th.records /\ later.perf = key /\ later.step = "generate"
    BY <2>2 DEF Requests
  <2>4. ASSUME threads'[t] = later, th.path = "playbook" PROVE RequestEvidence(threads[t])'
    <3>1. RequestEvidence(th)
      BY <2>2, <2>4 DEF EvidenceInv, ThreadsEvidence
    <3>2. (th.records.sem = analyses[th.analysis].sem /\ key = th.records.perf)
            \/ analyses[th.analysis].contract # contract
      BY <2>1, <3>1 DEF RequestEvidence, CacheKey
    <3> HIDE DEF later, key
    <3> QED BY <1>1, <2>1, <2>2, <2>3, <2>4, <3>2 DEF RequestEvidence, RowsStay
  <2> HIDE DEF later
  <2> QED BY <1>4, <2>1, <2>3, <2>4
<1>8. ASSUME NEW t \in Threads, StrategyStore(t) \/ ProviderFails(t) PROVE EvidenceInv'
  BY <1>4, <1>8 DEF StrategyStore, ProviderFails, KnowledgeTypeOK, products
<1>9. ASSUME NEW t \in Threads, PlaybookStore(t) PROVE EvidenceInv'
  <2> DEFINE th == threads[t]
             again == [th EXCEPT !.step = "advise", !.records = Records(analyses[th.analysis].mode)]
             book == [analysis |-> th.analysis, perf |-> th.perf, path |-> th.path,
                      records |-> th.records]
  <2>1. /\ th.step = "generate" /\ UNCHANGED <<contract, analyses>>
        /\ playbooks' \in {playbooks, playbooks \cup {book}}
        /\ \A u \in Threads \ {t} : threads'[u] = threads[u]
        /\ threads'[t] = Idle \/ (threads'[t] = again /\ th.path # "playbook")
    BY <1>9 DEF PlaybookStore, KnowledgeTypeOK
  <2>2. th # Idle /\ th \in Requests /\ th.analysis \in 1..Len(analyses)
    BY <2>1, RequestFields DEF Idle
  <2>3. again.path = th.path
    BY <2>2 DEF Requests
  <2> HIDE DEF again
  <2>4. ThreadsEvidence'
    BY <1>1, <2>1, <2>3, RequestStays DEF ThreadsEvidence
  <2>5. ASSUME th.path = "playbook"
        PROVE  \/ analyses[th.analysis].contract # contract
               \/ /\ th.records.sem = analyses[th.analysis].sem
                  /\ th.records.perf = th.perf
    BY <2>1, <2>2, <2>5 DEF EvidenceInv, ThreadsEvidence, RequestEvidence
  <2>6. PlaybookEvidence'
    <3>1. SUFFICES ASSUME NEW p \in playbooks', p.path = "playbook"
                   PROVE  /\ p.records.perf = p.perf \/ analyses[p.analysis].contract # contract
                          /\ p.records.sem = analyses[p.analysis].sem
                               \/ analyses[p.analysis].contract # contract
      BY <2>1 DEF PlaybookEvidence
    <3>2. CASE p \in playbooks
      BY <3>1, <3>2 DEF EvidenceInv, PlaybookEvidence
    <3>3. CASE p = book
      BY <2>5, <3>1, <3>3
    <3> QED BY <2>1, <3>1, <3>2, <3>3
  <2> QED BY <1>1, <2>4, <2>6 DEF EvidenceInv
<1>10. ASSUME NEW s \in Slots, AnalysisConfirm(s) \/ UpdateConfirm(s) \/ ContentConfirm(s)
       PROVE  UNCHANGED <<contract, threads, playbooks>>
  BY <1>10 DEF AnalysisConfirm, UpdateConfirm, ContentConfirm, products
<1> QED BY <1>2, <1>3, <1>5, <1>6, <1>7, <1>8, <1>9, <1>10, StepKinds

(* A playbook of the technical endpoint is generated from the records it is
   cached under, though metrics move while its requests wait. *)
THEOREM PlaybooksGrounded == Spec => []PlaybookEvidence
<1>1. Init => EvidenceInv
  BY DEF Init, EvidenceInv, ThreadsEvidence, ContractsPast, PlaybookEvidence
<1>2. EvidenceInv => PlaybookEvidence
  BY DEF EvidenceInv
<1> QED BY <1>1, <1>2, TypeInit, TypeNext, AnalysesInit, AnalysesNext, EvidenceNext, PTL DEF Spec

=============================================================================
