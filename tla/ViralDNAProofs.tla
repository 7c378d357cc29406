--------------------------- MODULE ViralDNAProofs ---------------------------
(***************************************************************************)
(* Proofs about module ViralDNA: type correctness, that the semantic       *)
(* columns of a row stay the answer to the input whose hash is beside      *)
(* them, and that a run that was alone repairs every row, for every number *)
(* of videos, batch size, set of captions and bounds.                      *)
(***************************************************************************)
EXTENDS ViralDNA, TLAPS

(* An UPDATE yields a row, and each column is the new one when it differs from
   the one that was read. *)
LEMMA MergeRow ==
  ASSUME NEW row \in Row, NEW view \in Row, NEW new \in Row
  PROVE  /\ Merge(row, view, new) \in Row
         /\ Merge(row, view, new).status =
              IF new.status # view.status THEN new.status ELSE row.status
         /\ Merge(row, view, new).values =
              IF new.values # view.values THEN new.values ELSE row.values
         /\ Merge(row, view, new).semHash =
              IF new.semHash # view.semHash THEN new.semHash ELSE row.semHash
         /\ Merge(row, view, new).hash =
              IF new.hash # view.hash THEN new.hash ELSE row.hash
BY DEF Merge, Row

LEMMA FeaturesRow ==
  ASSUME NEW row \in Row, NEW in \in Input
  PROVE  /\ Features(row, in) \in Row
         /\ Features(row, in).hash = in
         /\ Features(row, in).status # "completed"
         /\ Features(row, in).values = row.values
         /\ Features(row, in).semHash = row.semHash
BY DEF Features, Row, Input, Statuses

LEMMA InsertedRow ==
  ASSUME NEW in \in Input
  PROVE  /\ Inserted(in) \in Row
         /\ Inserted(in).hash = in
         /\ Inserted(in).status # "completed"
         /\ Inserted(in).values = None
         /\ Inserted(in).semHash = None
BY DEF Inserted, Features, Row, Input, Statuses

LEMMA AnswerRow ==
  ASSUME NEW row \in Row, NEW c \in Captions
  PROVE  /\ Completed(row, c) \in Row
         /\ Completed(row, c).status = "completed"
         /\ Completed(row, c).values = c
         /\ Completed(row, c).semHash = c
         /\ Cleared(row) \in Row
         /\ Cleared(row).status = "failed"
         /\ Cleared(row).values = None
         /\ Cleared(row).semHash = None
         /\ Completed(row, c).hash = row.hash
         /\ Cleared(row).hash = row.hash
BY DEF Completed, Cleared, Row, Statuses

LEMMA RowIsSomething ==
  ASSUME NEW row \in Row
  PROVE  row # NoRow
<1>1. "caption" \in DOMAIN row
  BY DEF Row
<1>2. "caption" \notin DOMAIN NoRow
  BY DEF NoRow
<1> QED BY <1>1, <1>2
-----------------------------------------------------------------------------
(* Where the runs are: a run that works on a video has its inputs, the canary
   knows its captions, and a locked row is there. *)
RunsOK ==
  \A r \in Names :
    /\ runs[r].phase \in {"inputs", "row", "ensured"} =>
         runs[r].at \in Videos /\ runs[r].seen \in Input
    /\ runs[r].phase = "row" /\ runs[r].view # NoRow => rows[runs[r].at] # NoRow
    /\ runs[r].phase = "ensured" =>
         /\ r = "canary" /\ runs[r].view # NoRow
         /\ rows[runs[r].at] # NoRow \/ lock[runs[r].at] = r
    /\ r = "canary" /\ Running(r) => runs[r].captions \in [Videos -> Captions]

RowsOK ==
  \A v \in Videos :
    /\ lock[v] = None => work[v] = rows[v]
    /\ rows[v] # NoRow \/ lock[v] # None => work[v] # NoRow
    /\ lock[v] # None => Running(lock[v])

BaseInv == ViralTypeOK /\ RunsOK /\ RowsOK

LEMMA InputNowType ==
  ASSUME ViralTypeOK, NEW v \in Videos
  PROVE  InputNow(v) \in Input
BY DEF ViralTypeOK, InputNow, Input, SelectGlobal, Selected

LEMMA TypeParts ==
  ASSUME ViralTypeOK, UNCHANGED inputs,
         rows' \in [Videos -> Row \cup {NoRow}], work' \in [Videos -> Row \cup {NoRow}],
         lock' \in [Videos -> Names \cup {None}], runs' \in [Names -> Run],
         UNCHANGED spent \/ spent' \in [changes : 0..MaxChanges, runs : 0..MaxRuns,
                                        faults : 0..MaxFaults]
  PROVE  ViralTypeOK'
BY DEF ViralTypeOK, inputs

LEMMA SetRun ==
  ASSUME ViralTypeOK, NEW r \in Names, NEW run \in Run, Set(r, run)
  PROVE  /\ runs' \in [Names -> Run] /\ runs'[r] = run
         /\ \A s \in Names : s # r => runs'[s] = runs[s]
BY DEF ViralTypeOK, Set

LEMMA RunFields ==
  ASSUME ViralTypeOK, NEW r \in Names
  PROVE  /\ runs[r] \in Run
         /\ runs[r].phase \in {"idle", "next", "inputs", "row", "ensured", "done"}
         /\ runs[r].at \in 1..Count + 1 /\ runs[r].clean \in BOOLEAN
         /\ runs[r].captions \in [Videos -> Captions \cup {None}]
         /\ runs[r].seen \in Input \cup {None} /\ runs[r].view \in Row \cup {NoRow}
BY DEF ViralTypeOK, Run

LEMMA SpentMore ==
  ASSUME ViralTypeOK
  PROVE  /\ spent.changes < MaxChanges /\ spent' = [spent EXCEPT !.changes = @ + 1]
              => spent' \in [changes : 0..MaxChanges, runs : 0..MaxRuns, faults : 0..MaxFaults]
         /\ spent.runs < MaxRuns /\ spent' = [spent EXCEPT !.runs = @ + 1]
              => spent' \in [changes : 0..MaxChanges, runs : 0..MaxRuns, faults : 0..MaxFaults]
         /\ Fault => spent' \in [changes : 0..MaxChanges, runs : 0..MaxRuns, faults : 0..MaxFaults]
BY ViralAssumption DEF ViralTypeOK, Fault

LEMMA UncleanRuns ==
  ASSUME ViralTypeOK
  PROVE  /\ Unclean \in [Names -> Run]
         /\ \A r \in Names :
              /\ Unclean[r].phase = runs[r].phase /\ Unclean[r].at = runs[r].at
              /\ Unclean[r].seen = runs[r].seen /\ Unclean[r].view = runs[r].view
              /\ Unclean[r].captions = runs[r].captions /\ Unclean[r].clean = FALSE
<1>1. ASSUME NEW r \in Names
      PROVE  /\ [runs[r] EXCEPT !.clean = FALSE] \in Run
             /\ [runs[r] EXCEPT !.clean = FALSE].phase = runs[r].phase
             /\ [runs[r] EXCEPT !.clean = FALSE].at = runs[r].at
             /\ [runs[r] EXCEPT !.clean = FALSE].seen = runs[r].seen
             /\ [runs[r] EXCEPT !.clean = FALSE].view = runs[r].view
             /\ [runs[r] EXCEPT !.clean = FALSE].captions = runs[r].captions
             /\ [runs[r] EXCEPT !.clean = FALSE].clean = FALSE
  BY <1>1, RunFields DEF Run
<1>2. \A r \in Names : Unclean[r] = [runs[r] EXCEPT !.clean = FALSE]
  BY DEF Unclean
<1>3. Unclean \in [Names -> Run]
  BY <1>1 DEF Unclean
<1> QED BY <1>1, <1>2, <1>3, ZenonT(40)

LEMMA BaseInit == ViralInit => BaseInv
<1> SUFFICES ASSUME ViralInit PROVE BaseInv
  OBVIOUS
<1>1. ViralTypeOK
  <2>1. runs \in [Names -> Run]
    BY ViralAssumption DEF ViralInit, Run, Videos
  <2>2. spent \in [changes : 0..MaxChanges, runs : 0..MaxRuns, faults : 0..MaxFaults]
    BY ViralAssumption DEF ViralInit
  <2>3. assessed \in [Videos -> SUBSET {"legacy", "current"}]
    BY DEF ViralInit
  <2> QED BY <2>1, <2>2, <2>3 DEF ViralInit, ViralTypeOK
<1>2. RunsOK
  BY DEF ViralInit, RunsOK, Running
<1>3. RowsOK
  BY DEF ViralInit, RowsOK
<1> QED BY <1>1, <1>2, <1>3 DEF BaseInv

LEMMA BaseStart ==
  ASSUME BaseInv, NEW r \in Names, Start(r)
  PROVE  BaseInv'
<1> USE DEF BaseInv
<1> DEFINE alone == \A s \in Names \ {r} : ~Running(s)
           captions == IF r = "canary" THEN caption ELSE runs[r].captions
           run == [runs[r] EXCEPT !.phase = "next", !.captions = captions, !.clean = alone]
<1>0. alone \in BOOLEAN /\ captions \in [Videos -> Captions \cup {None}]
  BY RunFields DEF ViralTypeOK
<1>1. /\ run \in Run /\ run.phase = "next" /\ run.captions = captions
      /\ run.seen = runs[r].seen /\ run.view = runs[r].view
  <2> HIDE DEF alone, captions
  <2> QED BY <1>0, RunFields DEF Run
<1>2. runs' = [Unclean EXCEPT ![r] = run] /\ UNCHANGED <<inputs, rows, work, lock>>
  BY DEF Start
<1> HIDE DEF run
<1>3. ViralTypeOK'
  <2>1. runs' \in [Names -> Run]
    BY <1>1, <1>2, UncleanRuns
  <2>2. spent' \in [changes : 0..MaxChanges, runs : 0..MaxRuns, faults : 0..MaxFaults]
    BY SpentMore DEF Start
  <2> QED BY <1>2, <2>1, <2>2, TypeParts DEF ViralTypeOK
<1>4. /\ runs'[r] = run
      /\ \A s \in Names : s # r => runs'[s] = Unclean[s]
  BY <1>2, UncleanRuns
<1>5. \A s \in Names : s # r =>
        /\ runs'[s].phase = runs[s].phase /\ runs'[s].at = runs[s].at
        /\ runs'[s].seen = runs[s].seen /\ runs'[s].view = runs[s].view
        /\ runs'[s].captions = runs[s].captions
  BY <1>4, UncleanRuns
<1>6. RunsOK'
  BY <1>1, <1>2, <1>4, <1>5 DEF RunsOK, Running, ViralTypeOK
<1>7. RowsOK'
  BY <1>1, <1>2, <1>4, <1>5 DEF RowsOK, Running, ViralTypeOK
<1> QED BY <1>3, <1>6, <1>7

LEMMA BaseReadInputs ==
  ASSUME BaseInv, NEW r \in Names, ReadInputs(r)
  PROVE  BaseInv'
<1> USE DEF BaseInv
<1> DEFINE v == runs[r].at
           c == IF r = "canary" THEN runs[r].captions[v] ELSE caption[v]
           seen == [InputNow(v) EXCEPT !.caption = c]
           run == [runs[r] EXCEPT !.phase = "inputs", !.seen = seen]
<1>1. v \in Videos
  BY ViralAssumption, RunFields DEF ReadInputs, CommitDue, Videos
<1>2. c \in Captions
  BY <1>1 DEF ReadInputs, ViralTypeOK, RunsOK, Running
<1>3. seen \in Input
  BY <1>1, <1>2, InputNowType DEF Input
<1>4. Set(r, run) /\ UNCHANGED <<inputs, rows, work, lock, spent>> /\ runs[r].phase = "next"
  BY DEF ReadInputs
<1>5. run \in Run /\ run.phase = "inputs" /\ run.at = v /\ run.seen = seen
        /\ run.captions = runs[r].captions
  <2> HIDE DEF seen
  <2> QED BY <1>3, RunFields DEF Run
<1> HIDE DEF run, seen, c, v
<1>6. ViralTypeOK'
  BY <1>4, <1>5, SetRun, TypeParts DEF ViralTypeOK
<1>7. RunsOK'
  BY <1>1, <1>3, <1>4, <1>5, SetRun DEF RunsOK, Running
<1>8. RowsOK'
  BY <1>4, <1>5, SetRun DEF RowsOK, ViralTypeOK, Running
<1> QED BY <1>6, <1>7, <1>8

LEMMA BaseReadRow ==
  ASSUME BaseInv, NEW r \in Names, ReadRow(r)
  PROVE  BaseInv'
<1> USE DEF BaseInv
<1> DEFINE run == [runs[r] EXCEPT !.phase = "row", !.view = rows[runs[r].at]]
<1>1. runs[r].at \in Videos /\ runs[r].seen \in Input /\ runs[r].phase = "inputs"
  BY DEF ReadRow, RunsOK
<1>2. Set(r, run) /\ UNCHANGED <<inputs, rows, work, lock, spent>>
  BY DEF ReadRow
<1>3. /\ run \in Run /\ run.phase = "row" /\ run.at = runs[r].at /\ run.seen = runs[r].seen
      /\ run.captions = runs[r].captions /\ run.view = rows[runs[r].at]
  <2>1. runs[r] \in Run /\ rows[runs[r].at] \in Row \cup {NoRow}
    BY <1>1, RunFields DEF ViralTypeOK
  <2> QED BY <2>1 DEF Run
<1> HIDE DEF run
<1>4. ViralTypeOK'
  BY <1>2, <1>3, SetRun, TypeParts DEF ViralTypeOK
<1>5. RunsOK'
  BY <1>1, <1>2, <1>3, SetRun DEF RunsOK, Running
<1>6. RowsOK'
  BY <1>1, <1>2, <1>3, SetRun DEF RowsOK, ViralTypeOK, Running
<1> QED BY <1>4, <1>5, <1>6

(* The next state of a run that is done with phase A of its video, or with the
   video. *)
LEMMA OnwardRun ==
  ASSUME ViralTypeOK, NEW r \in Names, runs[r].at \in Videos
  PROVE  /\ Onward(r) \in Run /\ Onward(r).phase = "next"
         /\ Onward(r).captions = runs[r].captions /\ Onward(r).at = runs[r].at + 1
         /\ Onward(r).clean = runs[r].clean
<1>1. runs[r].at + 1 \in 1..Count + 1
  BY ViralAssumption DEF Videos
<1> QED BY <1>1, RunFields DEF Onward, Run

LEMMA EnsuredRun ==
  ASSUME ViralTypeOK, NEW r \in Names, runs[r].at \in Videos, NEW row \in Row
  PROVE  /\ Ensured(r, row) \in Run
         /\ Ensured(r, row).captions = runs[r].captions
         /\ Ensured(r, row).clean = runs[r].clean
         /\ r = "canary" =>
              /\ Ensured(r, row).phase = "ensured" /\ Ensured(r, row).at = runs[r].at
              /\ Ensured(r, row).seen = runs[r].seen /\ Ensured(r, row).view = row
         /\ r # "canary" => Ensured(r, row) = Onward(r)
<1>1. CASE r = "canary"
  <2> DEFINE run == [runs[r] EXCEPT !.phase = "ensured", !.view = row]
  <2>1. /\ run \in Run /\ run.captions = runs[r].captions /\ run.clean = runs[r].clean
        /\ run.phase = "ensured" /\ run.at = runs[r].at /\ run.seen = runs[r].seen
        /\ run.view = row
    BY RunFields DEF Run
  <2> QED BY <1>1, <2>1 DEF Ensured
<1>2. CASE r # "canary"
  BY <1>2, OnwardRun DEF Ensured
<1> QED BY <1>1, <1>2

LEMMA BaseFlush ==
  ASSUME BaseInv, NEW r \in Names, NEW new \in Row, NEW next \in Run,
         runs[r].phase \in {"row", "ensured"}, runs[r].view # NoRow,
         next.captions = runs[r].captions,
         \/ next.phase = "next"
         \/ /\ next.phase = "ensured" /\ r = "canary" /\ next.view # NoRow
            /\ next.at = runs[r].at /\ next.seen = runs[r].seen,
         Flush(r, new, next)
  PROVE  BaseInv'
<1> USE DEF BaseInv
<1> DEFINE v == runs[r].at
           row == Merge(work[v], runs[r].view, new)
<1>1. v \in Videos /\ runs[r].seen \in Input
  BY DEF RunsOK
<1>2. work[v] \in Row /\ runs[r].view \in Row
  <2>1. work[v] # NoRow
    BY <1>1, ViralAssumption DEF RunsOK, RowsOK, Names
  <2> QED BY <1>1, <2>1, RunFields DEF ViralTypeOK
<1>3. row \in Row /\ row # NoRow
  BY <1>2, MergeRow, RowIsSomething
<1>4. /\ \/ UNCHANGED <<work, lock>>
         \/ /\ lock[v] \in {None, r}
            /\ work' = [work EXCEPT ![v] = row] /\ lock' = [lock EXCEPT ![v] = r]
      /\ Set(r, next) /\ UNCHANGED <<inputs, rows, spent>>
  BY DEF Flush
<1> HIDE DEF row, v
<1>5. ViralTypeOK'
  <2>1. work' \in [Videos -> Row \cup {NoRow}] /\ lock' \in [Videos -> Names \cup {None}]
    BY <1>3, <1>4 DEF ViralTypeOK
  <2> QED BY <1>4, <2>1, SetRun, TypeParts DEF ViralTypeOK
<1>6. /\ runs'[r] = next /\ \A s \in Names : s # r => runs'[s] = runs[s]
      /\ Running(r)
  BY <1>4, SetRun DEF Running
<1>7. RunsOK'
  <2>1. ASSUME NEW s \in Names, s # r, runs[s].phase = "ensured"
        PROVE  rows[runs[s].at] # NoRow \/ lock'[runs[s].at] = s
    <3>1. runs[s].at \in Videos /\ (rows[runs[s].at] # NoRow \/ lock[runs[s].at] = s)
      BY <2>1 DEF RunsOK
    <3> QED BY <1>4, <2>1, <3>1, ViralAssumption DEF ViralTypeOK, Names
  <2>2. next.phase = "ensured" => rows[v] # NoRow \/ lock'[v] = r
    BY <1>1, <1>4, <1>6 DEF RunsOK, ViralTypeOK, v
  <2> QED BY <1>1, <1>4, <1>6, <2>1, <2>2 DEF RunsOK, Running, v
<1>8. RowsOK'
  <2>1. ASSUME NEW w \in Videos
        PROVE  /\ lock'[w] = None => work'[w] = rows[w]
               /\ rows[w] # NoRow \/ lock'[w] # None => work'[w] # NoRow
               /\ lock'[w] # None => lock'[w] = r \/ lock'[w] = lock[w]
    BY <1>1, <1>3, <1>4, ViralAssumption DEF RowsOK, ViralTypeOK, Names
  <2>2. ASSUME NEW w \in Videos, lock'[w] # None
        PROVE  Running(lock[w])'
    BY <1>6, <2>1, <2>2 DEF RowsOK, Running, ViralTypeOK
  <2> QED BY <1>4, <2>1, <2>2 DEF RowsOK
<1> QED BY <1>5, <1>7, <1>8

LEMMA BaseUpsert ==
  ASSUME BaseInv, NEW r \in Names, Upsert(r)
  PROVE  BaseInv'
<1> USE DEF BaseInv
<1> DEFINE view == runs[r].view
           new == IF SameInput(view, runs[r].seen) THEN view ELSE Features(view, runs[r].seen)
<1>1. /\ runs[r].phase = "row" /\ view # NoRow /\ view \in Row
      /\ runs[r].at \in Videos /\ runs[r].seen \in Input
  BY RunFields DEF Upsert, RunsOK
<1>2. new \in Row
  BY <1>1, FeaturesRow
<1>3. Flush(r, new, Ensured(r, new))
  BY DEF Upsert
<1>4. new # NoRow
  BY <1>2, RowIsSomething
<1> HIDE DEF new
<1> QED BY <1>1, <1>2, <1>3, <1>4, EnsuredRun, OnwardRun, BaseFlush

LEMMA BaseExtract ==
  ASSUME BaseInv, Extract
  PROVE  BaseInv'
<1> USE DEF BaseInv
<1> DEFINE r == "canary"
           view == runs[r].view
           c == runs[r].seen.caption
<1>1. r \in Names
  BY DEF Names
<1>2. /\ runs[r].phase = "ensured" /\ view # NoRow /\ view \in Row
      /\ runs[r].at \in Videos /\ c \in Captions
  BY <1>1, RunFields DEF Extract, RunsOK, Input
<1>3. PICK new \in {view, Completed(view, c), Cleared(view)} : Flush(r, new, Onward(r))
  BY DEF Extract, Answers
<1>4. new \in Row
  BY <1>2, <1>3, AnswerRow
<1> HIDE DEF r
<1> QED BY <1>1, <1>2, <1>3, <1>4, OnwardRun, BaseFlush

LEMMA BaseInsert ==
  ASSUME BaseInv, NEW r \in Names, Insert(r)
  PROVE  BaseInv'
<1> USE DEF BaseInv
<1> DEFINE v == runs[r].at
           row == IF rows[v] = NoRow THEN Inserted(runs[r].seen) ELSE rows[v]
           next == Ensured(r, row)
<1>1. v \in Videos /\ runs[r].seen \in Input /\ runs[r].phase = "row" /\ lock[v] = None
  BY DEF Insert, RunsOK
<1>2. row \in Row /\ row # NoRow
  BY <1>1, InsertedRow, RowIsSomething DEF ViralTypeOK
<1>3. /\ \/ rows[v] # NoRow /\ UNCHANGED <<work, lock>>
         \/ work' = [work EXCEPT ![v] = row] /\ lock' = [lock EXCEPT ![v] = r]
      /\ Set(r, next) /\ UNCHANGED <<inputs, rows, spent>>
  BY DEF Insert
<1> HIDE DEF row
<1>4. /\ next \in Run /\ next.captions = runs[r].captions
      /\ \/ next.phase = "next"
         \/ /\ next.phase = "ensured" /\ r = "canary" /\ next.view # NoRow
            /\ next.at = v /\ next.seen = runs[r].seen
  BY <1>1, <1>2, EnsuredRun, OnwardRun
<1> HIDE DEF next, v
<1>5. ViralTypeOK'
  <2>1. work' \in [Videos -> Row \cup {NoRow}] /\ lock' \in [Videos -> Names \cup {None}]
    BY <1>2, <1>3 DEF ViralTypeOK
  <2> QED BY <1>3, <1>4, <2>1, SetRun, TypeParts DEF ViralTypeOK
<1>6. /\ runs'[r] = next /\ \A s \in Names : s # r => runs'[s] = runs[s]
      /\ Running(r)
  BY <1>1, <1>3, <1>4, SetRun DEF Running
<1>7. RunsOK'
  <2>1. ASSUME NEW s \in Names, s # r, runs[s].phase = "ensured"
        PROVE  rows[runs[s].at] # NoRow \/ lock'[runs[s].at] = s
    <3>1. runs[s].at \in Videos /\ (rows[runs[s].at] # NoRow \/ lock[runs[s].at] = s)
      BY <2>1 DEF RunsOK
    <3>2. lock[runs[s].at] = s => runs[s].at # v
      BY <1>1, <2>1, ViralAssumption DEF RowsOK, RunsOK, ViralTypeOK, Names
    <3> QED BY <1>3, <3>1, <3>2 DEF ViralTypeOK
  <2>2. next.phase = "ensured" => rows[v] # NoRow \/ lock'[v] = r
    BY <1>1, <1>3 DEF ViralTypeOK
  <2> QED BY <1>1, <1>3, <1>4, <1>6, <2>1, <2>2 DEF RunsOK, Running, v
<1>8. RowsOK'
  <2>1. ASSUME NEW w \in Videos
        PROVE  /\ lock'[w] = None => work'[w] = rows[w]
               /\ rows[w] # NoRow \/ lock'[w] # None => work'[w] # NoRow
               /\ lock'[w] # None => lock'[w] = r \/ lock'[w] = lock[w]
    BY <1>1, <1>2, <1>3, ViralAssumption DEF RowsOK, ViralTypeOK, Names
  <2>2. ASSUME NEW w \in Videos, lock'[w] # None
        PROVE  Running(lock[w])'
    BY <1>4, <1>6, <2>1, <2>2 DEF RowsOK, Running, ViralTypeOK
  <2> QED BY <1>3, <2>1, <2>2 DEF RowsOK
<1> QED BY <1>5, <1>7, <1>8

LEMMA OverRun ==
  ASSUME ViralTypeOK, NEW r \in Names, NEW phase \in {"idle", "done"}
  PROVE  /\ Over(r, phase) \in Run /\ Over(r, phase).phase = phase
         /\ Over(r, phase).clean => phase = "done" /\ runs[r].clean
<1>1. (phase = "done" /\ runs[r].clean) \in BOOLEAN
  OBVIOUS
<1>2. 1 \in 1..Count + 1 /\ [v \in Videos |-> None] \in [Videos -> Captions \cup {None}]
  BY ViralAssumption
<1> DEFINE clean == phase = "done" /\ runs[r].clean
           captions == [v \in Videos |-> None]
<1>3. /\ Over(r, phase) = [phase |-> phase, at |-> 1, captions |-> captions, seen |-> None,
                           view |-> NoRow, clean |-> clean]
      /\ clean \in BOOLEAN /\ captions \in [Videos -> Captions \cup {None}]
  BY <1>1, <1>2 DEF Over
<1>4. clean => phase = "done" /\ runs[r].clean
  OBVIOUS
<1> HIDE DEF clean, captions
<1> QED BY <1>2, <1>3, <1>4 DEF Run

LEMMA BaseCommit ==
  ASSUME BaseInv, NEW r \in Names, Commit(r)
  PROVE  BaseInv'
<1> USE DEF BaseInv
<1>1. /\ \A v \in Videos : rows'[v] = IF lock[v] = r THEN work[v] ELSE rows[v]
      /\ \A v \in Videos : lock'[v] = IF lock[v] = r THEN None ELSE lock[v]
      /\ rows' \in [Videos -> Row \cup {NoRow}] /\ lock' \in [Videos -> Names \cup {None}]
      /\ UNCHANGED <<inputs, work, spent>>
  BY DEF Commit, Committed, Released, ViralTypeOK
<1>2. \/ UNCHANGED runs
      \/ Set(r, Over(r, "done"))
  BY DEF Commit
<1>3. /\ runs' \in [Names -> Run]
      /\ \A s \in Names : runs'[s] = runs[s] \/ (s = r /\ runs'[s].phase = "done")
  BY <1>2, SetRun, OverRun DEF ViralTypeOK
<1>4. ViralTypeOK'
  BY <1>1, <1>3, TypeParts DEF ViralTypeOK
<1>5. RunsOK'
  <2>1. ASSUME NEW s \in Names, runs'[s] = runs[s], runs[s].phase \in {"inputs", "row", "ensured"}
        PROVE  /\ rows[runs[s].at] # NoRow => rows'[runs[s].at] # NoRow
               /\ runs[s].phase = "ensured" =>
                    rows'[runs[s].at] # NoRow \/ lock'[runs[s].at] = s
    BY <1>1, <2>1 DEF RunsOK, RowsOK, Commit
  <2> QED BY <1>3, <2>1 DEF RunsOK, Running
<1>6. RowsOK'
  <2>1. ASSUME NEW v \in Videos
        PROVE  /\ lock'[v] = None => work'[v] = rows'[v]
               /\ rows'[v] # NoRow \/ lock'[v] # None => work'[v] # NoRow
               /\ lock'[v] # None => lock'[v] = lock[v] /\ lock[v] # r
    BY <1>1, ViralAssumption DEF RowsOK, Names
  <2>2. ASSUME NEW v \in Videos, lock'[v] # None
        PROVE  Running(lock[v])'
    BY <1>1, <1>3, <2>1, <2>2 DEF RowsOK, Running, ViralTypeOK
  <2> QED BY <2>1, <2>2 DEF RowsOK
<1> QED BY <1>4, <1>5, <1>6

LEMMA BaseRaise ==
  ASSUME BaseInv, Raise
  PROVE  BaseInv'
<1> USE DEF BaseInv
<1> DEFINE r == "backfill"
           run == [Onward(r) EXCEPT !.clean = FALSE]
<1>1. r \in Names /\ runs[r].at \in Videos /\ runs[r].phase = "row"
  BY DEF Raise, RunsOK, Names
<1>2. run \in Run /\ run.phase = "next" /\ run.captions = runs[r].captions
  BY <1>1, OnwardRun DEF Run
<1>3. Set(r, run) /\ UNCHANGED <<inputs, rows, work, lock>> /\ Fault
  BY DEF Raise
<1> HIDE DEF run, r
<1>4. ViralTypeOK'
  BY <1>1, <1>2, <1>3, SetRun, SpentMore, TypeParts DEF ViralTypeOK
<1>5. RunsOK'
  BY <1>1, <1>2, <1>3, SetRun DEF RunsOK, Running
<1>6. RowsOK'
  BY <1>1, <1>2, <1>3, SetRun DEF RowsOK, Running, ViralTypeOK
<1> QED BY <1>4, <1>5, <1>6

LEMMA BaseKill ==
  ASSUME BaseInv, NEW r \in Names, Kill(r)
  PROVE  BaseInv'
<1> USE DEF BaseInv
<1>1. /\ \A v \in Videos : work'[v] = IF lock[v] = r THEN rows[v] ELSE work[v]
      /\ \A v \in Videos : lock'[v] = IF lock[v] = r THEN None ELSE lock[v]
      /\ work' \in [Videos -> Row \cup {NoRow}] /\ lock' \in [Videos -> Names \cup {None}]
      /\ UNCHANGED <<inputs, rows>> /\ Fault /\ Set(r, Over(r, "idle"))
  BY DEF Kill, Released, ViralTypeOK
<1>2. /\ runs' \in [Names -> Run] /\ runs'[r].phase = "idle"
      /\ \A s \in Names : s # r => runs'[s] = runs[s]
  BY <1>1, SetRun, OverRun
<1>3. ViralTypeOK'
  BY <1>1, <1>2, SpentMore, TypeParts DEF ViralTypeOK
<1>4. RunsOK'
  BY <1>1, <1>2 DEF RunsOK, Running
<1>5. RowsOK'
  <2>1. ASSUME NEW v \in Videos
        PROVE  /\ lock'[v] = None => work'[v] = rows'[v]
               /\ rows'[v] # NoRow \/ lock'[v] # None => work'[v] # NoRow
               /\ lock'[v] # None => lock'[v] = lock[v] /\ lock[v] # r
    BY <1>1, ViralAssumption DEF RowsOK, Names
  <2>2. ASSUME NEW v \in Videos, lock'[v] # None
        PROVE  Running(lock[v])'
    BY <1>1, <1>2, <2>1, <2>2 DEF RowsOK, Running, ViralTypeOK
  <2> QED BY <2>1, <2>2 DEF RowsOK
<1> QED BY <1>3, <1>4, <1>5

LEMMA BaseChange ==
  ASSUME BaseInv, Change
  PROVE  BaseInv'
<1> USE DEF BaseInv
<1>1. /\ runs' \in [Names -> Run]
      /\ \A r \in Names :
           /\ runs'[r].phase = runs[r].phase /\ runs'[r].at = runs[r].at
           /\ runs'[r].seen = runs[r].seen /\ runs'[r].view = runs[r].view
           /\ runs'[r].captions = runs[r].captions /\ runs'[r].clean = FALSE
  BY UncleanRuns DEF Change
<1>2. UNCHANGED <<rows, work, lock>>
  BY DEF Change
<1>3. /\ caption' \in [Videos -> Captions] /\ transcribed' \in [Videos -> BOOLEAN]
      /\ assessed' \in [Videos -> SUBSET {"legacy", "current"}]
  <2>1. PICK v \in Videos :
          \/ /\ \E c \in Captions \ {caption[v]} : caption' = [caption EXCEPT ![v] = c]
             /\ UNCHANGED <<transcribed, assessed>>
          \/ /\ transcribed' = [transcribed EXCEPT ![v] = TRUE]
             /\ UNCHANGED <<caption, assessed>>
          \/ /\ assessed' = [assessed EXCEPT ![v] = @ \cup {"current"}]
             /\ UNCHANGED <<caption, transcribed>>
    BY DEF Change
  <2>2. assessed[v] \cup {"current"} \in SUBSET {"legacy", "current"}
    BY DEF ViralTypeOK
  <2> DEFINE x == assessed[v] \cup {"current"}
  <2>3. CASE assessed' = [assessed EXCEPT ![v] = x] /\ UNCHANGED <<caption, transcribed>>
    <3> HIDE DEF x
    <3> QED BY <2>2, <2>3 DEF ViralTypeOK, x
  <2>4. CASE ~(assessed' = [assessed EXCEPT ![v] = x] /\ UNCHANGED <<caption, transcribed>>)
    <3>1. UNCHANGED assessed
      BY <2>1, <2>4
    <3> QED BY <2>1, <2>4, <3>1 DEF ViralTypeOK
  <2> QED BY <2>3, <2>4
<1>4. spent' \in [changes : 0..MaxChanges, runs : 0..MaxRuns, faults : 0..MaxFaults]
  BY SpentMore DEF Change
<1>5. ViralTypeOK'
  BY <1>1, <1>2, <1>3, <1>4 DEF ViralTypeOK
<1>6. RunsOK'
  BY <1>1, <1>2 DEF RunsOK, Running
<1>7. RowsOK'
  BY <1>1, <1>2 DEF RowsOK, Running, ViralTypeOK
<1> QED BY <1>5, <1>6, <1>7

LEMMA BaseNext == BaseInv /\ [ViralNext]_viralVars => BaseInv'
<1> SUFFICES ASSUME BaseInv, [ViralNext]_viralVars PROVE BaseInv'
  OBVIOUS
<1>1. ASSUME NEW r \in Names,
             Start(r) \/ ReadInputs(r) \/ ReadRow(r) \/ Insert(r) \/ Upsert(r) \/ Commit(r) \/ Kill(r)
      PROVE  BaseInv'
  BY <1>1, BaseStart, BaseReadInputs, BaseReadRow, BaseInsert, BaseUpsert, BaseCommit, BaseKill
<1>2. CASE Extract \/ Raise \/ Change
  BY <1>2, BaseExtract, BaseRaise, BaseChange
<1>3. CASE UNCHANGED viralVars
  BY <1>3 DEF viralVars, inputs, BaseInv, ViralTypeOK, RunsOK, RowsOK, Running
<1> QED BY <1>1, <1>2, <1>3 DEF ViralNext

(* Type correctness of the Viral DNA rows and of the runs that write them. *)
THEOREM ViralTypeCorrect == ViralSpec => []ViralTypeOK
<1>1. BaseInv => ViralTypeOK
  BY DEF BaseInv
<1> QED BY <1>1, BaseInit, BaseNext, PTL DEF ViralSpec

-----------------------------------------------------------------------------
(* Semantics *)

(* What SemanticsOfInput says of a row. *)
Answered(row) ==
  row # NoRow => row.values = row.semHash /\ (row.status = "completed" => row.values # None)

(* Only the canary answers: what another run has locked differs from the
   committed row in no output column, and is completed only if that row is. *)
OthersAgree ==
  \A v \in Videos : lock[v] # "canary" /\ work[v] # NoRow =>
    /\ rows[v] = NoRow => work[v].values = None /\ work[v].semHash = None
                            /\ work[v].status # "completed"
    /\ rows[v] # NoRow =>
         /\ work[v].values = rows[v].values /\ work[v].semHash = rows[v].semHash
         /\ work[v].status = "completed" => rows[v].status = "completed"

(* The row the canary read has the output columns of the row it will write, and
   is completed if that one still is. *)
CanaryView ==
  LET view == runs["canary"].view
      v == runs["canary"].at
  IN  runs["canary"].phase \in {"row", "ensured"} /\ view # NoRow =>
        /\ work[v].values = view.values /\ work[v].semHash = view.semHash
        /\ work[v].status = "completed" => view.status = "completed"
        /\ lock[v] # "canary" => (rows[v].status = "completed" => view.status = "completed")

(* The canary holds only videos it has worked on. *)
CanaryLocks ==
  \A v \in Videos : lock[v] = "canary" =>
    v < runs["canary"].at \/ (v = runs["canary"].at /\ runs["canary"].phase = "ensured")

SemanticsInv ==
  /\ \A v \in Videos : Answered(rows[v]) /\ Answered(work[v])
  /\ OthersAgree /\ CanaryView /\ CanaryLocks

LEMMA SemanticsInit == ViralInit => SemanticsInv
BY ViralAssumption DEF ViralInit, SemanticsInv, Answered, OthersAgree, CanaryView, CanaryLocks, Names

(* A step that leaves rows, work and lock alone, and the canary as it is or
   without a view of a row. *)
LEMMA SemanticsQuiet ==
  ASSUME BaseInv, SemanticsInv, UNCHANGED <<rows, work, lock>>,
         runs'["canary"].at = runs["canary"].at \/ ~Running("canary"),
         \/ /\ runs'["canary"].phase = runs["canary"].phase
            /\ runs'["canary"].view = runs["canary"].view
         \/ runs'["canary"].phase \in {"inputs", "next"} /\ runs["canary"].phase # "ensured"
  PROVE  SemanticsInv'
<1>1. CanaryLocks'
  BY ViralAssumption DEF CanaryLocks, SemanticsInv, BaseInv, RowsOK, Names
<1>2. CanaryView'
  BY DEF CanaryView, SemanticsInv, Running
<1> QED BY <1>1, <1>2 DEF SemanticsInv, Answered, OthersAgree

LEMMA SemanticsStart ==
  ASSUME BaseInv, SemanticsInv, NEW r \in Names, Start(r) PROVE SemanticsInv'
<1>1. /\ runs' = [Unclean EXCEPT ![r] = [runs[r] EXCEPT
           !.phase = "next", !.captions = IF r = "canary" THEN caption ELSE @,
           !.clean = \A s \in Names \ {r} : ~Running(s)]]
      /\ ~Running(r) /\ UNCHANGED <<rows, work, lock>>
  BY DEF Start
<1>2. CASE r = "canary"
  <2>1. runs'["canary"].phase = "next"
    BY <1>1, <1>2, UncleanRuns, RunFields DEF Run, BaseInv
  <2> QED BY <1>1, <1>2, <2>1, SemanticsQuiet DEF Running
<1>3. CASE r # "canary"
  <2>1. "canary" \in Names /\ runs'["canary"] = Unclean["canary"]
    BY <1>1, <1>3, UncleanRuns DEF BaseInv, Names
  <2>2. /\ Unclean["canary"].phase = runs["canary"].phase
        /\ Unclean["canary"].at = runs["canary"].at
        /\ Unclean["canary"].seen = runs["canary"].seen
        /\ Unclean["canary"].view = runs["canary"].view
    BY <2>1, UncleanRuns DEF BaseInv
  <2> QED BY <1>1, <2>1, <2>2, SemanticsQuiet
<1> QED BY <1>2, <1>3

LEMMA SemanticsReadInputs ==
  ASSUME BaseInv, SemanticsInv, NEW r \in Names, ReadInputs(r) PROVE SemanticsInv'
<1>1. /\ \E x : runs' = [runs EXCEPT ![r] = [runs[r] EXCEPT !.phase = "inputs", !.seen = x]]
      /\ runs[r].phase = "next" /\ UNCHANGED <<rows, work, lock>>
  BY DEF ReadInputs, Set
<1>2. PICK x : runs' = [runs EXCEPT ![r] = [runs[r] EXCEPT !.phase = "inputs", !.seen = x]]
  BY <1>1
<1>3. CASE r = "canary"
  <2>1. runs'["canary"].at = runs["canary"].at /\ runs'["canary"].phase = "inputs"
    BY <1>2, <1>3, RunFields DEF BaseInv, ViralTypeOK, Run
  <2> QED BY <1>1, <1>3, <2>1, SemanticsQuiet
<1>4. CASE r # "canary"
  <2>1. runs'["canary"] = runs["canary"]
    BY <1>2, <1>4 DEF BaseInv, ViralTypeOK, Names
  <2> QED BY <1>1, <2>1, SemanticsQuiet
<1> QED BY <1>3, <1>4

LEMMA SemanticsReadRow ==
  ASSUME BaseInv, SemanticsInv, NEW r \in Names, ReadRow(r) PROVE SemanticsInv'
<1> USE DEF BaseInv
<1>1. /\ runs' = [runs EXCEPT ![r] = [runs[r] EXCEPT !.phase = "row", !.view = rows[runs[r].at]]]
      /\ runs[r].phase = "inputs" /\ UNCHANGED <<rows, work, lock>>
      /\ runs[r].at \in Videos
  BY DEF ReadRow, Set, RunsOK
<1>2. CASE r # "canary"
  <2>1. runs'["canary"] = runs["canary"]
    BY <1>1, <1>2 DEF ViralTypeOK, Names
  <2> QED BY <1>1, <2>1, SemanticsQuiet
<1>3. CASE r = "canary"
  <2> DEFINE v == runs["canary"].at
  <2>1. /\ runs'["canary"].phase = "row" /\ runs'["canary"].at = v
        /\ runs'["canary"].view = rows[v]
    BY <1>1, <1>3, RunFields DEF ViralTypeOK, Run
  <2>2. lock[v] # "canary"
    BY <1>1, <1>3, ViralAssumption, RunFields DEF SemanticsInv, CanaryLocks, Videos
  <2>3. CanaryView'
    BY <1>1, <1>3, <2>1, <2>2 DEF CanaryView, SemanticsInv, OthersAgree, RowsOK
  <2>4. CanaryLocks'
    BY <1>1, <1>3, <2>1 DEF CanaryLocks, SemanticsInv
  <2> QED BY <1>1, <2>3, <2>4 DEF SemanticsInv, Answered, OthersAgree
<1> QED BY <1>2, <1>3

(* A backfill's flush changes no output column and completes nothing. *)
LEMMA SemanticsBackfill ==
  ASSUME BaseInv, SemanticsInv, Upsert("backfill") PROVE SemanticsInv'
<1> USE DEF BaseInv
<1> DEFINE r == "backfill"
           v == runs[r].at
           view == runs[r].view
           new == IF SameInput(view, runs[r].seen) THEN view ELSE Features(view, runs[r].seen)
           row == Merge(work[v], view, new)
<1>1. /\ r \in Names /\ v \in Videos /\ runs[r].seen \in Input
      /\ view \in Row /\ rows[v] # NoRow
  BY RunFields DEF Upsert, RunsOK, Names
<1>2. /\ new \in Row /\ new.values = view.values /\ new.semHash = view.semHash
      /\ new = view \/ new.status # "completed"
  BY <1>1, FeaturesRow
<1>3. work[v] \in Row
  BY <1>1 DEF RowsOK, ViralTypeOK
<1>4. /\ row.values = work[v].values /\ row.semHash = work[v].semHash
      /\ row.status = "completed" => work[v].status = "completed"
  <2> HIDE DEF new
  <2> QED BY <1>1, <1>2, <1>3, MergeRow
<1>5. /\ \/ UNCHANGED <<work, lock>>
         \/ /\ lock[v] \in {None, r}
            /\ work' = [work EXCEPT ![v] = row] /\ lock' = [lock EXCEPT ![v] = r]
      /\ Set(r, Ensured(r, new)) /\ UNCHANGED rows
  BY DEF Upsert, Flush
<1> HIDE DEF new, row
<1>6. Ensured(r, new) \in Run
  BY <1>1, <1>2, EnsuredRun
<1>7. runs'["canary"] = runs["canary"] /\ "canary" \in Names
  BY <1>1, <1>5, <1>6, SetRun DEF Names
<1>8. CASE UNCHANGED <<work, lock>>
  BY <1>5, <1>7, <1>8, SemanticsQuiet
<1>9. CASE ~UNCHANGED <<work, lock>>
  <2>1. /\ lock[v] \in {None, r}
        /\ work' = [work EXCEPT ![v] = row] /\ lock' = [lock EXCEPT ![v] = r]
    BY <1>5, <1>9
  <2>2. lock[v] # "canary"
    BY <2>1, ViralAssumption
  <2>3. ASSUME NEW w \in Videos PROVE Answered(rows'[w]) /\ Answered(work'[w])
    BY <1>1, <1>3, <1>4, <1>5, <2>1, RowIsSomething DEF Answered, SemanticsInv, ViralTypeOK
  <2>4. OthersAgree'
    BY <1>1, <1>3, <1>4, <1>5, <2>1, <2>2, RowIsSomething DEF OthersAgree, SemanticsInv, ViralTypeOK
  <2>5. CanaryView'
    BY <1>1, <1>4, <1>5, <1>7, <2>1, <2>2 DEF CanaryView, SemanticsInv, ViralTypeOK
  <2>6. CanaryLocks'
    BY <1>1, <1>5, <1>7, <2>1, <2>2 DEF CanaryLocks, SemanticsInv, ViralTypeOK
  <2> QED BY <2>3, <2>4, <2>5, <2>6 DEF SemanticsInv
<1> QED BY <1>8, <1>9

(* The canary's phase A: its view goes on as what it flushed. *)
LEMMA SemanticsCanary ==
  ASSUME BaseInv, SemanticsInv, Upsert("canary") PROVE SemanticsInv'
<1> USE DEF BaseInv
<1> DEFINE r == "canary"
           v == runs[r].at
           view == runs[r].view
           new == IF SameInput(view, runs[r].seen) THEN view ELSE Features(view, runs[r].seen)
           row == Merge(work[v], view, new)
<1>1. /\ r \in Names /\ v \in Videos /\ runs[r].seen \in Input
      /\ view \in Row /\ rows[v] # NoRow /\ view # NoRow /\ runs[r].phase = "row"
  BY RunFields DEF Upsert, RunsOK, Names
<1>2. /\ new \in Row /\ new.values = view.values /\ new.semHash = view.semHash
      /\ new = view \/ new.status # "completed"
  BY <1>1, FeaturesRow
<1>3. work[v] \in Row
  BY <1>1 DEF RowsOK, ViralTypeOK
<1>4. /\ row.values = work[v].values /\ row.semHash = work[v].semHash
      /\ row.status = "completed" => work[v].status = "completed" /\ new.status = view.status
  <2> HIDE DEF new
  <2> QED BY <1>1, <1>2, <1>3, MergeRow
<1>5. /\ \/ new = view /\ UNCHANGED <<work, lock>>
         \/ /\ lock[v] \in {None, r}
            /\ work' = [work EXCEPT ![v] = row] /\ lock' = [lock EXCEPT ![v] = r]
      /\ Set(r, Ensured(r, new)) /\ UNCHANGED rows
  BY DEF Upsert, Flush
<1> HIDE DEF new, row
<1>6. /\ runs'[r].phase = "ensured" /\ runs'[r].at = v /\ runs'[r].view = new
  BY <1>1, <1>2, <1>5, EnsuredRun, SetRun
<1>7. ASSUME NEW w \in Videos PROVE Answered(rows'[w]) /\ Answered(work'[w])
  BY <1>1, <1>3, <1>4, <1>5, RowIsSomething DEF Answered, SemanticsInv, ViralTypeOK
<1>8. OthersAgree'
  BY <1>1, <1>3, <1>4, <1>5, ViralAssumption DEF OthersAgree, SemanticsInv, ViralTypeOK
<1>9. CanaryView'
  BY <1>1, <1>2, <1>4, <1>5, <1>6 DEF CanaryView, SemanticsInv, ViralTypeOK
<1>10. CanaryLocks'
  BY <1>1, <1>5, <1>6 DEF CanaryLocks, SemanticsInv, ViralTypeOK
<1> QED BY <1>7, <1>8, <1>9, <1>10 DEF SemanticsInv

(* Phase B: an answer fills both output columns with the caption, a failure
   empties both; in either case beside what the row of today has. *)
LEMMA SemanticsExtract ==
  ASSUME BaseInv, SemanticsInv, Extract PROVE SemanticsInv'
<1> USE DEF BaseInv
<1> DEFINE r == "canary"
           v == runs[r].at
           view == runs[r].view
           c == runs[r].seen.caption
<1>1. /\ r \in Names /\ v \in Videos /\ c \in Captions /\ c # None
      /\ view \in Row /\ view # NoRow /\ runs[r].phase = "ensured"
  <2>1. r \in Names /\ runs[r].phase = "ensured"
    BY DEF Extract, Names
  <2>2. v \in Videos /\ runs[r].seen \in Input /\ view # NoRow
    BY <2>1 DEF RunsOK
  <2> QED BY <2>1, <2>2, RunFields, ViralAssumption DEF Input
<1>2. work[v] \in Row
  BY <1>1, ViralAssumption DEF RunsOK, RowsOK, ViralTypeOK, Names
<1>3. PICK new \in {view, Completed(view, c), Cleared(view)} : Flush(r, new, Onward(r))
  BY DEF Extract, Answers
<1> DEFINE row == Merge(work[v], view, new)
<1>4. new \in Row
  <2>1. view \in Row /\ Completed(view, c) \in Row /\ Cleared(view) \in Row
    BY <1>1, AnswerRow
  <2> QED BY <1>3, <2>1
<1>5. new # view => row \in Row /\ Answered(row)
  <2>1. /\ work[v].values = view.values /\ work[v].semHash = view.semHash
        /\ work[v].status = "completed" => view.status = "completed"
    BY <1>1 DEF SemanticsInv, CanaryView
  <2>2. CASE new = Completed(view, c)
    <3>1. new.values = c /\ new.semHash = c
      BY <1>1, <2>2, AnswerRow
    <3>2. row \in Row /\ row.values = c /\ row.semHash = c
      BY <1>1, <1>2, <1>4, <2>1, <3>1, MergeRow
    <3> QED BY <1>1, <3>2 DEF Answered
  <2>3. CASE new = Cleared(view)
    <3>1. row \in Row /\ row.values = None /\ row.semHash = None /\ row.status # "completed"
      BY <1>1, <1>2, <2>1, <2>3, AnswerRow, MergeRow
    <3> QED BY <3>1 DEF Answered
  <2> QED BY <1>3, <2>2, <2>3
<1>6. /\ \/ new = view /\ UNCHANGED <<work, lock>>
         \/ /\ new # view /\ lock[v] \in {None, r}
            /\ work' = [work EXCEPT ![v] = row] /\ lock' = [lock EXCEPT ![v] = r]
      /\ Set(r, Onward(r)) /\ UNCHANGED rows
  BY <1>3 DEF Flush
<1>7. /\ runs'[r].phase = "next" /\ runs'[r].at = v + 1 /\ v \in Nat
  BY <1>1, <1>6, OnwardRun, SetRun DEF Videos
<1> HIDE DEF row, v
<1>8. ASSUME NEW w \in Videos PROVE Answered(rows'[w]) /\ Answered(work'[w])
  BY <1>1, <1>5, <1>6 DEF SemanticsInv, ViralTypeOK
<1>9. OthersAgree'
  BY <1>1, <1>6 DEF OthersAgree, SemanticsInv, ViralTypeOK
<1>10. CanaryView'
  BY <1>7 DEF CanaryView
<1>11. CanaryLocks'
  <2>1. ASSUME NEW w \in Videos, lock'[w] = "canary" PROVE w < v + 1
    <3>1. w = v \/ lock[w] = "canary"
      BY <1>1, <1>6, <2>1 DEF ViralTypeOK
    <3>2. w = v \/ w < v
      BY <3>1 DEF SemanticsInv, CanaryLocks, v
    <3> QED BY <1>7, <3>2 DEF Videos
  <2> QED BY <1>7, <2>1 DEF CanaryLocks
<1> QED BY <1>8, <1>9, <1>10, <1>11 DEF SemanticsInv

(* An insert begins with empty output columns; the loser of two inserts keeps
   the committed row. *)
LEMMA SemanticsInsert ==
  ASSUME BaseInv, SemanticsInv, NEW r \in Names, Insert(r) PROVE SemanticsInv'
<1> USE DEF BaseInv
<1> DEFINE v == runs[r].at
           row == Inserted(runs[r].seen)
<1>1. /\ v \in Videos /\ runs[r].seen \in Input /\ runs[r].phase = "row"
      /\ lock[v] = None /\ work[v] = rows[v]
  BY DEF Insert, RunsOK, RowsOK
<1>2. /\ row \in Row /\ row.status # "completed" /\ row.values = None /\ row.semHash = None
      /\ row # NoRow
  BY <1>1, InsertedRow, RowIsSomething
<1>3. \/ /\ rows[v] = NoRow
         /\ work' = [work EXCEPT ![v] = row] /\ lock' = [lock EXCEPT ![v] = r]
         /\ Set(r, Ensured(r, row)) /\ UNCHANGED rows
      \/ /\ rows[v] # NoRow /\ Set(r, Ensured(r, rows[v])) /\ UNCHANGED <<rows, work, lock>>
  BY DEF Insert
<1> HIDE DEF row
<1>4. CASE rows[v] = NoRow
  <2>1. /\ work' = [work EXCEPT ![v] = row] /\ lock' = [lock EXCEPT ![v] = r]
        /\ Set(r, Ensured(r, row)) /\ UNCHANGED rows
    BY <1>3, <1>4
  <2>2. ASSUME NEW w \in Videos PROVE Answered(rows'[w]) /\ Answered(work'[w])
    BY <1>1, <1>2, <2>1 DEF Answered, SemanticsInv, ViralTypeOK
  <2>3. OthersAgree'
    BY <1>1, <1>2, <1>4, <2>1 DEF OthersAgree, SemanticsInv, ViralTypeOK
  <2>4. CASE r = "canary"
    <3>1. /\ runs'[r].phase = "ensured" /\ runs'[r].at = v /\ runs'[r].view = row
      BY <1>1, <1>2, <2>1, <2>4, EnsuredRun, SetRun
    <3>2. CanaryView'
      BY <1>1, <1>2, <2>1, <2>4, <3>1 DEF CanaryView, ViralTypeOK
    <3>3. CanaryLocks'
      BY <1>1, <2>1, <2>4, <3>1 DEF CanaryLocks, SemanticsInv, ViralTypeOK
    <3> QED BY <2>2, <2>3, <3>2, <3>3 DEF SemanticsInv
  <2>5. CASE r # "canary"
    <3>1. runs'["canary"] = runs["canary"] /\ "canary" \in Names
      BY <1>1, <1>2, <2>1, <2>5, EnsuredRun, SetRun DEF Names
    <3>2. runs["canary"].phase \in {"row", "ensured"} /\ runs["canary"].view # NoRow
            => runs["canary"].at \in Videos /\ runs["canary"].at # v
      BY <1>1, <1>4, <3>1, ViralAssumption DEF RunsOK, Names
    <3>3. CanaryView'
      BY <1>1, <2>1, <2>5, <3>1, <3>2 DEF CanaryView, SemanticsInv, ViralTypeOK
    <3>4. CanaryLocks'
      BY <1>1, <2>1, <2>5, <3>1 DEF CanaryLocks, SemanticsInv, ViralTypeOK
    <3> QED BY <2>2, <2>3, <3>3, <3>4 DEF SemanticsInv
  <2> QED BY <2>4, <2>5
<1>5. CASE rows[v] # NoRow
  <2>1. Set(r, Ensured(r, rows[v])) /\ UNCHANGED <<rows, work, lock>> /\ rows[v] \in Row
    BY <1>1, <1>3, <1>5 DEF ViralTypeOK
  <2>2. CASE r = "canary"
    <3>1. /\ runs'[r].phase = "ensured" /\ runs'[r].at = v /\ runs'[r].view = rows[v]
      BY <1>1, <2>1, <2>2, EnsuredRun, SetRun
    <3>2. CanaryView'
      BY <1>1, <2>1, <2>2, <3>1 DEF CanaryView
    <3>3. CanaryLocks'
      BY <1>1, <2>1, <2>2, <3>1 DEF CanaryLocks, SemanticsInv
    <3> QED BY <2>1, <3>2, <3>3 DEF SemanticsInv, Answered, OthersAgree
  <2>3. CASE r # "canary"
    <3>1. runs'["canary"] = runs["canary"]
      BY <1>1, <2>1, <2>3, EnsuredRun, SetRun DEF Names
    <3> QED BY <2>1, <3>1, SemanticsQuiet
  <2> QED BY <2>2, <2>3
<1> QED BY <1>4, <1>5

LEMMA SemanticsCommit ==
  ASSUME BaseInv, SemanticsInv, NEW r \in Names, Commit(r) PROVE SemanticsInv'
<1> USE DEF BaseInv
<1>1. /\ \A v \in Videos : /\ rows'[v] = IF lock[v] = r THEN work[v] ELSE rows[v]
                           /\ lock'[v] = IF lock[v] = r THEN None ELSE lock[v]
      /\ UNCHANGED work /\ runs[r].phase = "next"
  BY DEF Commit, Committed, Released
<1>2. ASSUME NEW v \in Videos PROVE Answered(rows'[v]) /\ Answered(work'[v])
  BY <1>1 DEF SemanticsInv
<1>3. OthersAgree'
  BY <1>1, ViralAssumption DEF OthersAgree, SemanticsInv, RowsOK, Names
<1>4. CASE r = "canary"
  <2>1. /\ runs'["canary"].phase \notin {"row", "ensured"}
        /\ \A v \in Videos : lock'[v] # "canary"
    <3>1. runs'["canary"].phase \notin {"row", "ensured"}
      BY <1>1, <1>4 DEF Commit, Set, Over, ViralTypeOK
    <3>2. \A v \in Videos : lock'[v] # "canary"
      BY <1>1, <1>4, ViralAssumption
    <3> QED BY <3>1, <3>2
  <2> QED BY <1>2, <1>3, <2>1 DEF SemanticsInv, CanaryView, CanaryLocks
<1>5. CASE r # "canary"
  <2>1. runs'["canary"] = runs["canary"]
    BY <1>5 DEF Commit, Set, ViralTypeOK, Names
  <2>2. CanaryView'
    <3>1. ASSUME runs["canary"].phase \in {"row", "ensured"}, runs["canary"].view # NoRow
          PROVE  LET v == runs["canary"].at
                 IN  lock'[v] # "canary" => (rows'[v].status = "completed" => runs["canary"].view.status = "completed")
      BY <1>1, <1>5, <3>1 DEF CanaryView, SemanticsInv, RunsOK, Names
    <3> QED BY <1>1, <2>1, <3>1 DEF CanaryView, SemanticsInv
  <2>3. CanaryLocks'
    BY <1>1, <1>5, <2>1, ViralAssumption DEF CanaryLocks, SemanticsInv
  <2> QED BY <1>2, <1>3, <2>2, <2>3 DEF SemanticsInv
<1> QED BY <1>4, <1>5

(* What a killed backfill had written was no output column; what a killed canary
   had written, it alone could see. *)
LEMMA SemanticsKill ==
  ASSUME BaseInv, SemanticsInv, NEW r \in Names, Kill(r) PROVE SemanticsInv'
<1> USE DEF BaseInv
<1>1. /\ \A v \in Videos : /\ work'[v] = IF lock[v] = r THEN rows[v] ELSE work[v]
                           /\ lock'[v] = IF lock[v] = r THEN None ELSE lock[v]
      /\ UNCHANGED rows
  BY DEF Kill, Released
<1>2. ASSUME NEW v \in Videos PROVE Answered(rows'[v]) /\ Answered(work'[v])
  BY <1>1 DEF SemanticsInv
<1>3. OthersAgree'
  BY <1>1, ViralAssumption DEF OthersAgree, SemanticsInv, Names
<1>4. CASE r = "canary"
  <2>1. /\ runs'["canary"].phase \notin {"row", "ensured"}
        /\ \A v \in Videos : lock'[v] # "canary"
    <3>1. runs'["canary"].phase \notin {"row", "ensured"}
      BY <1>4 DEF Kill, Set, Over, ViralTypeOK
    <3>2. \A v \in Videos : lock'[v] # "canary"
      BY <1>1, <1>4, ViralAssumption
    <3> QED BY <3>1, <3>2
  <2> QED BY <1>2, <1>3, <2>1 DEF SemanticsInv, CanaryView, CanaryLocks
<1>5. CASE r # "canary"
  <2>1. runs'["canary"] = runs["canary"]
    BY <1>5 DEF Kill, Set, ViralTypeOK, Names
  <2>2. CanaryView'
    <3> DEFINE v == runs["canary"].at
               view == runs["canary"].view
    <3>1. SUFFICES ASSUME runs["canary"].phase \in {"row", "ensured"}, view # NoRow
                   PROVE  /\ work'[v].values = view.values /\ work'[v].semHash = view.semHash
                          /\ work'[v].status = "completed" => view.status = "completed"
                          /\ lock'[v] # "canary" => (rows'[v].status = "completed" => view.status = "completed")
      BY <2>1 DEF CanaryView
    <3>2. v \in Videos
      BY <3>1 DEF RunsOK, Names
    <3>3. /\ work[v].values = view.values /\ work[v].semHash = view.semHash
          /\ work[v].status = "completed" => view.status = "completed"
          /\ lock[v] # "canary" => (rows[v].status = "completed" => view.status = "completed")
      BY <3>1 DEF CanaryView, SemanticsInv
    <3>4. CASE lock[v] = r
      <4>1. rows[v] # NoRow /\ work[v] # NoRow
        BY <1>5, <3>1, <3>2, <3>4, ViralAssumption DEF RunsOK, RowsOK, Names
      <4>2. work[v].values = rows[v].values /\ work[v].semHash = rows[v].semHash
        BY <1>5, <3>2, <3>4, <4>1 DEF OthersAgree, SemanticsInv
      <4> QED BY <1>1, <1>5, <3>2, <3>3, <3>4, <4>2
    <3>5. CASE lock[v] # r
      BY <1>1, <3>2, <3>3, <3>5
    <3> QED BY <3>4, <3>5
  <2>3. CanaryLocks'
    BY <1>1, <1>5, <2>1, ViralAssumption DEF CanaryLocks, SemanticsInv
  <2> QED BY <1>2, <1>3, <2>2, <2>3 DEF SemanticsInv
<1> QED BY <1>4, <1>5

LEMMA SemanticsRaise ==
  ASSUME BaseInv, SemanticsInv, Raise PROVE SemanticsInv'
<1>1. runs'["canary"] = runs["canary"] /\ UNCHANGED <<rows, work, lock>>
  BY DEF Raise, Set, BaseInv, ViralTypeOK, Names
<1> QED BY <1>1, SemanticsQuiet

LEMMA SemanticsChange ==
  ASSUME BaseInv, SemanticsInv, Change PROVE SemanticsInv'
<1>1. runs' = Unclean /\ UNCHANGED <<rows, work, lock>>
  BY DEF Change
<1>2. /\ runs'["canary"].at = runs["canary"].at /\ runs'["canary"].phase = runs["canary"].phase
      /\ runs'["canary"].view = runs["canary"].view
  BY <1>1, UncleanRuns DEF BaseInv, Names
<1> QED BY <1>1, <1>2, SemanticsQuiet

LEMMA SemanticsNext == BaseInv /\ SemanticsInv /\ [ViralNext]_viralVars => SemanticsInv'
<1> SUFFICES ASSUME BaseInv, SemanticsInv, [ViralNext]_viralVars PROVE SemanticsInv'
  OBVIOUS
<1>1. ASSUME NEW r \in Names,
             Start(r) \/ ReadInputs(r) \/ ReadRow(r) \/ Insert(r) \/ Upsert(r) \/ Commit(r) \/ Kill(r)
      PROVE  SemanticsInv'
  BY <1>1, SemanticsStart, SemanticsReadInputs, SemanticsReadRow, SemanticsInsert,
     SemanticsBackfill, SemanticsCanary, SemanticsCommit, SemanticsKill DEF Names
<1>2. CASE Extract \/ Raise \/ Change
  BY <1>2, SemanticsExtract, SemanticsRaise, SemanticsChange
<1>3. CASE UNCHANGED viralVars
  BY <1>3, SemanticsQuiet DEF viralVars, inputs
<1> QED BY <1>1, <1>2, <1>3 DEF ViralNext

(* The output columns answer the input whose hash stands beside them, whatever
   two overlapping runs read before they wrote. *)
THEOREM SemanticsCorrect == ViralSpec => []SemanticsOfInput
<1>1. SemanticsInv => SemanticsOfInput
  BY DEF SemanticsInv, SemanticsOfInput, Answered
<1> QED BY <1>1, BaseInit, BaseNext, SemanticsInit, SemanticsNext, PTL DEF ViralSpec

-----------------------------------------------------------------------------
(* Convergence *)

(* A row a clean run is done with: of the inputs of today and, after a canary,
   completed for the caption of today or failed and empty. *)
Treated(r, row, v) ==
  /\ row # NoRow /\ row.hash = InputNow(v)
  /\ r = "canary" => \/ row.status = "completed" /\ row.values = caption[v]
                     \/ row.status = "failed" /\ row.values = None

Same(a, b) ==
  a.hash = b.hash /\ a.status = b.status /\ a.values = b.values /\ a.semHash = b.semHash

(* A clean run that goes on: what it read is what is there, the videos before
   the one it is at are done, and it has written no video after. *)
Progress(r) ==
  LET run == runs[r]
  IN  /\ \A v \in Videos : lock[v] = r => v < run.at \/ (v = run.at /\ run.phase = "ensured")
      /\ \A v \in Videos : v < run.at => Treated(r, work[v], v)
      /\ r = "canary" => run.captions = caption
      /\ run.phase \in {"inputs", "row", "ensured"} => run.seen = InputNow(run.at)
      /\ run.phase = "row" => run.view = rows[run.at]
      /\ run.phase = "ensured" => Same(run.view, work[run.at]) /\ run.view.hash = run.seen

CleanRun(r) ==
  /\ Running(r) => Progress(r)
  /\ runs[r].phase = "done" => \A v \in Videos : Treated(r, rows[v], v)

(* A clean run that began is alone; the next one starts with the first video. *)
ConvergeInv ==
  \A r \in Names :
    /\ ~Running(r) => runs[r].at = 1
    /\ runs[r].clean /\ runs[r].phase # "idle" =>
         CleanRun(r) /\ \A s \in Names \ {r} : ~Running(s)

(* A step of one run cannot disturb a clean run of the other kind. *)
LEMMA ByRun ==
  ASSUME BaseInv, ConvergeInv, NEW r \in Names, Running(r), NEW run \in Run, Set(r, run),
         run.phase \in {"idle", "done"} => run.at = 1,
         run.clean => run.phase # "idle" /\ runs[r].clean,
         run.clean /\ Progress(r) => CleanRun(r)'
  PROVE  ConvergeInv'
<1>1. /\ runs'[r] = run /\ \A s \in Names : s # r => runs'[s] = runs[s]
  BY SetRun DEF BaseInv
<1>2. ASSUME NEW s \in Names, s # r
      PROVE  /\ ~Running(s)' => runs'[s].at = 1
             /\ ~(runs'[s].clean /\ runs'[s].phase # "idle")
  BY <1>1, <1>2 DEF ConvergeInv, Running
<1>3. ~Running(r)' => runs'[r].at = 1
  BY <1>1 DEF Running
<1>4. ASSUME runs'[r].clean
      PROVE  CleanRun(r)' /\ \A s \in Names \ {r} : ~Running(s)'
  <2>1. runs[r].clean /\ runs[r].phase # "idle"
    BY <1>1, <1>4 DEF Running
  <2>2. CleanRun(r) /\ \A s \in Names \ {r} : ~Running(s)
    BY <2>1 DEF ConvergeInv
  <2>3. Progress(r)
    BY <2>2 DEF CleanRun
  <2> QED BY <1>1, <1>4, <2>2, <2>3 DEF Running
<1> QED BY <1>1, <1>2, <1>3, <1>4 DEF ConvergeInv

LEMMA ConvergeInit == ViralInit => ConvergeInv
BY DEF ViralInit, ConvergeInv, Running

LEMMA ConvergeStart ==
  ASSUME BaseInv, ConvergeInv, NEW r \in Names, Start(r) PROVE ConvergeInv'
<1> USE DEF BaseInv
<1> DEFINE alone == \A s \in Names \ {r} : ~Running(s)
           captions == IF r = "canary" THEN caption ELSE runs[r].captions
           run == [runs[r] EXCEPT !.phase = "next", !.captions = captions, !.clean = alone]
<1>1. /\ runs' = [Unclean EXCEPT ![r] = run] /\ UNCHANGED <<inputs, rows, work, lock>>
      /\ ~Running(r)
  BY DEF Start
<1>2. /\ run.phase = "next" /\ run.captions = captions /\ run.clean = alone
      /\ run.at = runs[r].at
  <2> HIDE DEF alone, captions
  <2> QED BY RunFields DEF Run
<1> HIDE DEF run
<1>3. runs'[r] = run /\ \A s \in Names : s # r => runs'[s] = Unclean[s]
  BY <1>1, UncleanRuns
<1>4. ASSUME NEW s \in Names, s # r
      PROVE  /\ runs'[s].phase = runs[s].phase /\ runs'[s].at = runs[s].at
             /\ ~runs'[s].clean
  BY <1>3, <1>4, UncleanRuns
<1>5. run.at = 1
  BY <1>1, <1>2 DEF ConvergeInv
<1>6. ASSUME alone
      PROVE  CleanRun(r)' /\ \A s \in Names \ {r} : ~Running(s)'
  <2>1. \A v \in Videos : lock[v] = None
    BY <1>1, <1>6 DEF RowsOK, ViralTypeOK
  <2>2. \A v \in Videos : ~(v < 1)
    BY DEF Videos
  <2>3. r \in {"backfill", "canary"} /\ r # None
    BY ViralAssumption DEF Names
  <2>4. caption' = caption
    BY <1>1 DEF inputs
  <2>5. Progress(r)'
    BY <1>1, <1>2, <1>3, <1>5, <2>1, <2>2, <2>3, <2>4 DEF Progress
  <2>6. CleanRun(r)'
    BY <1>2, <1>3, <2>5 DEF CleanRun
  <2> QED BY <1>4, <1>6, <2>6 DEF Running
<1>7. Running(r)' /\ runs'[r].clean = alone
  BY <1>2, <1>3 DEF Running
<1>8. ASSUME NEW s \in Names, s # r PROVE ~Running(s)' => runs'[s].at = 1
  BY <1>4, <1>8 DEF ConvergeInv, Running
<1> QED BY <1>4, <1>6, <1>7, <1>8 DEF ConvergeInv

LEMMA InputStays ==
  ASSUME UNCHANGED inputs, NEW v \in Videos
  PROVE  InputNow(v)' = InputNow(v) /\ caption' = caption
BY DEF inputs, InputNow

LEMMA ConvergeReadInputs ==
  ASSUME BaseInv, ConvergeInv, NEW r \in Names, ReadInputs(r) PROVE ConvergeInv'
<1> USE DEF BaseInv
<1> DEFINE v == runs[r].at
           c == IF r = "canary" THEN runs[r].captions[v] ELSE caption[v]
           seen == [InputNow(v) EXCEPT !.caption = c]
           run == [runs[r] EXCEPT !.phase = "inputs", !.seen = seen]
<1>1. /\ v \in Videos /\ runs[r].phase = "next" /\ Running(r)
      /\ Set(r, run) /\ UNCHANGED <<inputs, rows, work, lock, spent>>
  BY ViralAssumption, RunFields DEF ReadInputs, CommitDue, Videos, Running
<1>2. c \in Captions
  BY <1>1 DEF ViralTypeOK, RunsOK
<1>3. seen \in Input
  BY <1>1, <1>2, InputNowType DEF Input
<1>4. /\ run \in Run /\ run.phase = "inputs" /\ run.at = v /\ run.seen = seen
      /\ run.captions = runs[r].captions /\ run.clean = runs[r].clean
  <2> HIDE DEF seen
  <2> QED BY <1>3, RunFields DEF Run
<1>5. ASSUME Progress(r)
      PROVE  CleanRun(r)'
  <2>1. c = caption[v]
    BY <1>5 DEF Progress
  <2>2. seen = InputNow(v)
    BY <2>1 DEF InputNow
  <2> HIDE DEF run, seen, c
  <2>3. runs'[r] = run
    BY <1>1, <1>4, SetRun
  <2>4. Progress(r)'
    <3>1. \A w \in Videos : InputNow(w)' = InputNow(w)
      BY <1>1, InputStays
    <3>2. caption' = caption
      BY <1>1 DEF inputs
    <3> QED BY <1>1, <1>4, <1>5, <2>2, <2>3, <3>1, <3>2 DEF Progress, Treated
  <2> QED BY <1>4, <2>3, <2>4 DEF CleanRun
<1> HIDE DEF run
<1> QED BY <1>1, <1>4, <1>5, ByRun

LEMMA ConvergeReadRow ==
  ASSUME BaseInv, ConvergeInv, NEW r \in Names, ReadRow(r) PROVE ConvergeInv'
<1> USE DEF BaseInv
<1> DEFINE run == [runs[r] EXCEPT !.phase = "row", !.view = rows[runs[r].at]]
<1>1. /\ runs[r].at \in Videos /\ runs[r].phase = "inputs" /\ Running(r)
      /\ Set(r, run) /\ UNCHANGED <<inputs, rows, work, lock, spent>>
  BY DEF ReadRow, RunsOK, Running
<1>2. /\ run \in Run /\ run.phase = "row" /\ run.at = runs[r].at /\ run.seen = runs[r].seen
      /\ run.captions = runs[r].captions /\ run.view = rows[runs[r].at]
      /\ run.clean = runs[r].clean
  <2>1. runs[r] \in Run /\ rows[runs[r].at] \in Row \cup {NoRow}
    BY <1>1, RunFields DEF ViralTypeOK
  <2> QED BY <2>1 DEF Run
<1> HIDE DEF run
<1>3. ASSUME Progress(r)
      PROVE  CleanRun(r)'
  <2>1. runs'[r] = run
    BY <1>1, <1>2, SetRun
  <2>2. \A w \in Videos : InputNow(w)' = InputNow(w)
    BY <1>1, InputStays
  <2>3. caption' = caption
    BY <1>1 DEF inputs
  <2>4. Progress(r)'
    BY <1>1, <1>2, <1>3, <2>1, <2>2, <2>3 DEF Progress, Treated
  <2> QED BY <1>2, <2>1, <2>4 DEF CleanRun
<1> QED BY <1>1, <1>2, <1>3, ByRun

LEMMA ConvergeRaise ==
  ASSUME BaseInv, ConvergeInv, Raise PROVE ConvergeInv'
<1> USE DEF BaseInv
<1> DEFINE r == "backfill"
           run == [Onward(r) EXCEPT !.clean = FALSE]
<1>1. r \in Names /\ runs[r].at \in Videos /\ Running(r)
  BY DEF Raise, RunsOK, Names, Running
<1>2. run \in Run /\ run.phase = "next" /\ run.clean = FALSE
  BY <1>1, OnwardRun DEF Run
<1>3. Set(r, run)
  BY DEF Raise
<1> HIDE DEF run, r
<1> QED BY <1>1, <1>2, <1>3, ByRun

LEMMA ConvergeKill ==
  ASSUME BaseInv, ConvergeInv, NEW r \in Names, Kill(r) PROVE ConvergeInv'
<1> USE DEF BaseInv
<1> DEFINE run == Over(r, "idle")
<1>1. Running(r) /\ Set(r, run)
  BY DEF Kill
<1>2. run \in Run /\ run.phase = "idle" /\ ~run.clean
  BY OverRun
<1>3. run.at = 1
  BY DEF Over
<1> HIDE DEF run
<1> QED BY <1>1, <1>2, <1>3, ByRun

LEMMA ConvergeChange ==
  ASSUME BaseInv, ConvergeInv, Change PROVE ConvergeInv'
<1>1. \A r \in Names : /\ runs'[r].phase = runs[r].phase /\ runs'[r].at = runs[r].at
                       /\ runs'[r].clean = FALSE
  BY UncleanRuns DEF Change, BaseInv
<1> QED BY <1>1 DEF ConvergeInv, Running

LEMMA ConvergeCommit ==
  ASSUME BaseInv, ConvergeInv, NEW r \in Names, Commit(r) PROVE ConvergeInv'
<1> USE DEF BaseInv
<1>1. /\ \A v \in Videos : /\ rows'[v] = IF lock[v] = r THEN work[v] ELSE rows[v]
                           /\ lock'[v] = IF lock[v] = r THEN None ELSE lock[v]
      /\ UNCHANGED <<inputs, work, spent>> /\ runs[r].phase = "next" /\ Running(r)
  BY DEF Commit, Committed, Released, Running
<1>2. /\ \A w \in Videos : InputNow(w)' = InputNow(w)
      /\ caption' = caption
  BY <1>1, InputStays DEF inputs
<1>3. CASE runs[r].at > Count
  <2> DEFINE run == Over(r, "done")
  <2>1. Set(r, run)
    BY <1>3 DEF Commit
  <2>2. run \in Run /\ run.phase = "done" /\ (run.clean => runs[r].clean)
    BY OverRun
  <2>3. run.at = 1
    BY DEF Over
  <2> HIDE DEF run
  <2>4. ASSUME run.clean, Progress(r)
        PROVE  CleanRun(r)'
    <3>1. runs'[r] = run
      BY <2>1, <2>2, SetRun
    <3>2. \A s \in Names \ {r} : ~Running(s)
      BY <1>1, <2>2, <2>4 DEF ConvergeInv
    <3>3. \A v \in Videos : lock[v] \in {None, r}
      BY <3>2 DEF RowsOK, ViralTypeOK
    <3>4. \A v \in Videos : rows'[v] = work[v]
      BY <1>1, <3>3 DEF RowsOK
    <3>5. \A v \in Videos : v < runs[r].at
      BY <1>3, RunFields, ViralAssumption DEF Videos
    <3>6. \A v \in Videos : Treated(r, rows'[v], v)
      BY <2>4, <3>4, <3>5 DEF Progress
    <3>7. \A v \in Videos : Treated(r, rows[v], v)'
      BY <1>2, <3>6 DEF Treated
    <3> QED BY <2>2, <3>1, <3>7 DEF CleanRun, Running
  <2> QED BY <1>1, <2>1, <2>2, <2>3, <2>4, ByRun
<1>4. CASE ~(runs[r].at > Count)
  <2>1. UNCHANGED runs
    BY <1>4 DEF Commit
  <2>2. runs[r] \in Run /\ Set(r, runs[r])
    BY <2>1, RunFields DEF ViralTypeOK, Set
  <2>3. ASSUME Progress(r)
        PROVE  CleanRun(r)'
    <3>1. \A v \in Videos : lock'[v] # r
      BY <1>1, ViralAssumption DEF Names
    <3>2. Progress(r)'
      BY <1>1, <1>2, <2>1, <2>3, <3>1 DEF Progress, Treated
    <3> QED BY <1>1, <2>1, <3>2 DEF CleanRun
  <2> QED BY <1>1, <2>2, <2>3, ByRun
<1> QED BY <1>3, <1>4

(* Phase A of a video ends with a row of the inputs that were read. *)
LEMMA PhaseADone ==
  ASSUME BaseInv, NEW r \in Names, runs[r].at \in Videos, runs[r].phase = "row", Progress(r),
         NEW new \in Row, new.hash = InputNow(runs[r].at),
         Set(r, Ensured(r, new)), UNCHANGED <<inputs, rows>>,
         \/ UNCHANGED <<work, lock>> /\ work[runs[r].at] = new
         \/ \E row \in Row : /\ Same(row, new) /\ work' = [work EXCEPT ![runs[r].at] = row]
                             /\ lock' = [lock EXCEPT ![runs[r].at] = r]
  PROVE  CleanRun(r)'
<1> USE DEF BaseInv
<1> DEFINE v == runs[r].at
           run == Ensured(r, new)
<1>1. /\ run \in Run /\ run.captions = runs[r].captions
      /\ r = "canary" => run.phase = "ensured" /\ run.at = v /\ run.seen = runs[r].seen
                           /\ run.view = new
      /\ r # "canary" => run.phase = "next" /\ run.at = v + 1
  BY EnsuredRun, OnwardRun
<1> HIDE DEF run
<1>2. runs'[r] = run
  BY <1>1, SetRun DEF run
<1>3. \A w \in Videos : InputNow(w)' = InputNow(w)
  BY InputStays
<1>4. caption' = caption
  BY DEF inputs
<1>5. work'[v] # NoRow /\ Same(work'[v], new)
  BY RowIsSomething DEF Same, ViralTypeOK
<1>6. \A w \in Videos : w # v => work'[w] = work[w] /\ lock'[w] = lock[w]
  BY DEF ViralTypeOK
<1>7. v \in Nat /\ \A w \in Videos : w \in Nat
  BY DEF Videos
<1>8. CASE r = "canary"
  <2>1. \A w \in Videos : lock'[w] = r => w < v \/ w = v
    BY <1>6 DEF Progress
  <2>2. \A w \in Videos : w < v => Treated(r, work'[w], w)
    BY <1>6, <1>7 DEF Progress
  <2>3. run.seen = InputNow(v) /\ new.hash = run.seen /\ run.captions = caption
    BY <1>1, <1>8 DEF Progress
  <2>4. Same(run.view, work'[v])
    BY <1>1, <1>5, <1>8 DEF Same
  <2>5. Progress(r)'
    BY <1>1, <1>2, <1>3, <1>4, <1>8, <2>1, <2>2, <2>3, <2>4 DEF Progress, Treated
  <2> QED BY <1>1, <1>2, <1>8, <2>5 DEF CleanRun
<1>9. CASE r # "canary"
  <2>1. \A w \in Videos : lock'[w] = r => w < v + 1
    BY <1>6, <1>7 DEF Progress
  <2>2. \A w \in Videos : w < v + 1 => Treated(r, work'[w], w)
    <3>1. Treated(r, work'[v], v)
      BY <1>5, <1>9 DEF Treated, Same
    <3>2. \A w \in Videos : w < v => Treated(r, work'[w], w)
      BY <1>6, <1>7 DEF Progress
    <3> QED BY <1>7, <3>1, <3>2
  <2>3. Progress(r)'
    BY <1>1, <1>2, <1>3, <1>4, <1>9, <2>1, <2>2 DEF Progress, Treated
  <2> QED BY <1>1, <1>2, <1>9, <2>3 DEF CleanRun
<1> QED BY <1>8, <1>9

(* A clean run that reads a row reads what is there to be written. *)
LEMMA ViewIsThere ==
  ASSUME BaseInv, ConvergeInv, NEW r \in Names, runs[r].clean, runs[r].phase = "row"
  PROVE  /\ Progress(r) /\ runs[r].at \in Videos /\ runs[r].view = rows[runs[r].at]
         /\ work[runs[r].at] = rows[runs[r].at] /\ runs[r].seen = InputNow(runs[r].at)
<1> USE DEF BaseInv
<1>1. runs[r].at \in Videos /\ Running(r)
  BY DEF RunsOK, Running
<1>2. Progress(r) /\ \A s \in Names \ {r} : ~Running(s)
  BY <1>1 DEF ConvergeInv, CleanRun
<1>3. lock[runs[r].at] # r
  BY <1>1, <1>2 DEF Progress, Videos
<1>4. lock[runs[r].at] = None
  BY <1>1, <1>2, <1>3 DEF RowsOK, ViralTypeOK
<1> QED BY <1>1, <1>2, <1>4 DEF Progress, RowsOK

LEMMA ConvergeUpsert ==
  ASSUME BaseInv, ConvergeInv, NEW r \in Names, Upsert(r) PROVE ConvergeInv'
<1> USE DEF BaseInv
<1> DEFINE v == runs[r].at
           view == runs[r].view
           new == IF SameInput(view, runs[r].seen) THEN view ELSE Features(view, runs[r].seen)
           row == Merge(work[v], view, new)
           run == Ensured(r, new)
<1>1. /\ runs[r].phase = "row" /\ view # NoRow /\ view \in Row /\ Running(r)
      /\ v \in Videos /\ runs[r].seen \in Input
  BY RunFields DEF Upsert, RunsOK, Running
<1>2. new \in Row /\ new.hash = runs[r].seen
  BY <1>1, FeaturesRow DEF SameInput
<1>3. /\ \/ new = view /\ UNCHANGED <<work, lock>>
         \/ work' = [work EXCEPT ![v] = row] /\ lock' = [lock EXCEPT ![v] = r]
      /\ Set(r, run) /\ UNCHANGED <<inputs, rows>>
  BY DEF Upsert, Flush
<1> HIDE DEF new
<1>4. /\ run \in Run /\ run.clean = runs[r].clean /\ run.phase \in {"next", "ensured"}
  BY <1>1, <1>2, EnsuredRun, OnwardRun
<1>5. ASSUME runs[r].clean, Progress(r)
      PROVE  CleanRun(r)'
  <2>1. view = rows[v] /\ work[v] = view /\ runs[r].seen = InputNow(v)
    BY <1>1, <1>5, ViewIsThere
  <2>2. row \in Row /\ Same(row, new)
    BY <1>1, <1>2, <2>1, MergeRow DEF Same
  <2> HIDE DEF row
  <2> QED BY <1>1, <1>2, <1>3, <1>5, <2>1, <2>2, PhaseADone
<1> HIDE DEF run
<1> QED BY <1>1, <1>3, <1>4, <1>5, ByRun

LEMMA ConvergeInsert ==
  ASSUME BaseInv, ConvergeInv, NEW r \in Names, Insert(r) PROVE ConvergeInv'
<1> USE DEF BaseInv
<1> DEFINE v == runs[r].at
           new == IF rows[v] = NoRow THEN Inserted(runs[r].seen) ELSE rows[v]
           run == Ensured(r, new)
<1>1. /\ runs[r].phase = "row" /\ runs[r].view = NoRow /\ Running(r)
      /\ v \in Videos /\ runs[r].seen \in Input
  BY DEF Insert, RunsOK, Running
<1>2. new \in Row /\ (rows[v] = NoRow => new.hash = runs[r].seen)
  BY <1>1, InsertedRow DEF ViralTypeOK
<1>3. /\ rows[v] = NoRow => work' = [work EXCEPT ![v] = new] /\ lock' = [lock EXCEPT ![v] = r]
      /\ Set(r, run) /\ UNCHANGED <<inputs, rows>>
  BY DEF Insert
<1> HIDE DEF new
<1>4. /\ run \in Run /\ run.clean = runs[r].clean /\ run.phase \in {"next", "ensured"}
  BY <1>1, <1>2, EnsuredRun, OnwardRun
<1>5. ASSUME runs[r].clean, Progress(r)
      PROVE  CleanRun(r)'
  <2>1. rows[v] = NoRow /\ runs[r].seen = InputNow(v)
    BY <1>1, <1>5, ViewIsThere
  <2>2. Same(new, new)
    BY DEF Same
  <2> QED BY <1>1, <1>2, <1>3, <1>5, <2>1, <2>2, PhaseADone
<1> HIDE DEF run
<1> QED BY <1>1, <1>3, <1>4, <1>5, ByRun

(* Phase B ends with a row that is completed for the caption, or failed. *)
LEMMA ConvergeExtract ==
  ASSUME BaseInv, SemanticsInv, ConvergeInv, Extract PROVE ConvergeInv'
<1> USE DEF BaseInv
<1> DEFINE r == "canary"
           v == runs[r].at
           view == runs[r].view
           c == runs[r].seen.caption
           run == Onward(r)
<1>1. /\ r \in Names /\ v \in Videos /\ c \in Captions /\ c # None /\ runs[r].seen \in Input
      /\ view \in Row /\ view # NoRow /\ runs[r].phase = "ensured" /\ Running(r)
  <2>1. r \in Names /\ runs[r].phase = "ensured"
    BY DEF Extract, Names
  <2>2. v \in Videos /\ runs[r].seen \in Input /\ view # NoRow
    BY <2>1 DEF RunsOK
  <2> QED BY <2>1, <2>2, RunFields, ViralAssumption DEF Input, Running
<1>2. PICK new \in {view, Completed(view, c), Cleared(view)} :
        /\ Flush(r, new, run)
        /\ new = view => SemanticUnchanged(view, c) \/ new \in {Completed(view, c), Cleared(view)}
  BY DEF Extract, Answers
<1> DEFINE row == Merge(work[v], view, new)
<1>3. new \in Row /\ new.hash = view.hash
  BY <1>1, <1>2, AnswerRow
<1>4. /\ \/ new = view /\ UNCHANGED <<work, lock>>
         \/ work' = [work EXCEPT ![v] = row] /\ lock' = [lock EXCEPT ![v] = r]
      /\ Set(r, run) /\ UNCHANGED <<inputs, rows>>
  BY <1>2 DEF Flush
<1>5. /\ run \in Run /\ run.phase = "next" /\ run.captions = runs[r].captions
      /\ run.at = v + 1 /\ run.clean = runs[r].clean
  BY <1>1, OnwardRun
<1> HIDE DEF run
<1>6. ASSUME Progress(r)
      PROVE  CleanRun(r)'
  <2>1. /\ Same(view, work[v]) /\ view.hash = InputNow(v) /\ runs[r].seen = InputNow(v)
        /\ work[v] \in Row /\ work[v] # NoRow
    BY <1>1, <1>6, ViralAssumption DEF Progress, RunsOK, RowsOK, ViralTypeOK, Names
  <2>2. c = caption[v]
    BY <2>1 DEF InputNow
  <2>3. \/ new.status = "completed" /\ new.values = c
        \/ new.status = "failed" /\ new.values = None
    <3>1. CASE new \in {Completed(view, c), Cleared(view)}
      BY <1>1, <3>1, AnswerRow
    <3>2. CASE new = view /\ SemanticUnchanged(view, c)
      BY <1>1, <2>1, <3>2 DEF SemanticUnchanged, Same, SemanticsInv, Answered
    <3> QED BY <1>2, <3>1, <3>2
  <2>4. row \in Row /\ Same(row, new)
    <3>1. /\ row \in Row
          /\ row.status = IF new.status # view.status THEN new.status ELSE work[v].status
          /\ row.values = IF new.values # view.values THEN new.values ELSE work[v].values
          /\ row.semHash = IF new.semHash # view.semHash THEN new.semHash ELSE work[v].semHash
          /\ row.hash = IF new.hash # view.hash THEN new.hash ELSE work[v].hash
      BY <1>1, <1>3, <2>1, MergeRow
    <3> HIDE DEF row
    <3> QED BY <2>1, <3>1 DEF Same
  <2> HIDE DEF row
  <2>5. work'[v] # NoRow /\ Same(work'[v], new)
    BY <1>1, <1>4, <2>1, <2>4, RowIsSomething DEF ViralTypeOK, Same
  <2>6. \A w \in Videos : w # v => work'[w] = work[w] /\ lock'[w] = lock[w]
    BY <1>4 DEF ViralTypeOK
  <2>7. v \in Nat /\ \A w \in Videos : w \in Nat
    BY <1>1 DEF Videos
  <2>8. \A w \in Videos : InputNow(w)' = InputNow(w)
    BY <1>4, InputStays
  <2>9. caption' = caption /\ runs'[r] = run
    BY <1>1, <1>4, <1>5, SetRun DEF inputs
  <2>10. \A w \in Videos : lock'[w] = r => w < v + 1
    BY <1>6, <2>6, <2>7 DEF Progress
  <2>11. \A w \in Videos : w < v + 1 => Treated(r, work'[w], w)
    <3>1. Treated(r, work'[v], v)
      BY <1>3, <2>1, <2>2, <2>3, <2>5 DEF Treated, Same
    <3>2. \A w \in Videos : w < v => Treated(r, work'[w], w)
      BY <1>6, <2>6, <2>7 DEF Progress
    <3> QED BY <2>7, <3>1, <3>2
  <2>12. run.captions = caption
    BY <1>5, <1>6 DEF Progress
  <2> HIDE DEF v, view, c
  <2>13. Progress(r)'
    BY <1>5, <2>8, <2>9, <2>10, <2>11, <2>12 DEF Progress, Treated
  <2> QED BY <1>5, <2>9, <2>13 DEF CleanRun
<1> HIDE DEF row, r
<1> QED BY <1>1, <1>4, <1>5, <1>6, ByRun

LEMMA ConvergeNext ==
  BaseInv /\ SemanticsInv /\ ConvergeInv /\ [ViralNext]_viralVars => ConvergeInv'
<1> SUFFICES ASSUME BaseInv, SemanticsInv, ConvergeInv, [ViralNext]_viralVars PROVE ConvergeInv'
  OBVIOUS
<1>1. ASSUME NEW r \in Names,
             Start(r) \/ ReadInputs(r) \/ ReadRow(r) \/ Insert(r) \/ Upsert(r) \/ Commit(r) \/ Kill(r)
      PROVE  ConvergeInv'
  BY <1>1, ConvergeStart, ConvergeReadInputs, ConvergeReadRow, ConvergeInsert, ConvergeUpsert,
     ConvergeCommit, ConvergeKill
<1>2. CASE Extract \/ Raise \/ Change
  BY <1>2, ConvergeExtract, ConvergeRaise, ConvergeChange
<1>3. CASE UNCHANGED viralVars
  BY <1>3 DEF viralVars, inputs, ConvergeInv, CleanRun, Progress, Running, Treated, InputNow
<1> QED BY <1>1, <1>2, <1>3 DEF ViralNext

LEMMA Converging == ViralSpec => []ConvergeInv
BY BaseInit, BaseNext, SemanticsInit, SemanticsNext, ConvergeInit, ConvergeNext, PTL DEF ViralSpec

(* A backfill that ran alone leaves no row of earlier inputs, whatever stale
   writers, kills and failures came before it. *)
THEOREM BackfillRepairs == ViralSpec => []BackfillConverges
<1>1. ConvergeInv => BackfillConverges
  BY DEF ConvergeInv, CleanRun, Treated, BackfillConverges, Names
<1> QED BY <1>1, Converging, PTL

(* A canary that ran alone leaves every row answered for the caption of today,
   or failed and empty. *)
THEOREM CanaryRepairs == ViralSpec => []CanaryConverges
<1>1. ConvergeInv => CanaryConverges
  BY DEF ConvergeInv, CleanRun, Treated, CanaryConverges, Names
<1> QED BY <1>1, Converging, PTL

=============================================================================
