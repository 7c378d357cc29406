------------------------------ MODULE ViralDNA ------------------------------
(***************************************************************************)
(* The viral_dna rows (app/viral_dna.py): deterministic features of phase  *)
(* A and the provider's reading of phase B, one row per video, written by  *)
(* two operations that may overlap: the backfill, which commits batch by   *)
(* batch (ops/backfill_viral_dna.py), and the canary, one transaction over *)
(* its videos that calls the provider in between                           *)
(* (ops/semantic_viral_dna_canary.py).                                     *)
(*                                                                         *)
(* A run reads the inputs of a video, then the row, and flushes later: the *)
(* UPDATE the ORM sends writes the columns that differ from the row it     *)
(* read, not from the row that is there.  PostgreSQL keeps a written row   *)
(* locked until the writer commits; readers see the committed row.         *)
(*                                                                         *)
(* A hash is the tuple of values it is of.  Extractor, provider, model and *)
(* prompt do not change; the transcript of a video is written once, so the *)
(* caption alone tells two semantic inputs apart; the output columns are   *)
(* the caption they answer.                                                *)
(***************************************************************************)
EXTENDS Naturals

CONSTANTS
  Count,            \* the number of videos, in the order of their ids
  Batch,            \* batch_size
  Captions, None,
  MaxChanges,       \* changes of the inputs of the rows (bound)
  MaxRuns,          \* runs, of either kind (bound)
  MaxFaults         \* videos that raise and runs that are killed (bound)

ASSUME ViralAssumption ==
  /\ {Count, Batch} \subseteq Nat \ {0}
  /\ {MaxChanges, MaxRuns, MaxFaults} \subseteq Nat
  /\ None \notin Captions \cup {"backfill", "canary"}

VARIABLES
  caption, transcribed, assessed,   \* of each video; assessed: classifier versions
  rows,       \* the committed rows
  work,       \* the rows with what their lockers wrote
  lock,       \* the run that wrote a row and has not committed
  runs,       \* the backfill and the canary
  spent       \* changes, runs and faults so far

inputs == <<caption, transcribed, assessed>>
viralVars == <<caption, transcribed, assessed, rows, work, lock, runs, spent>>

Videos == 1..Count
Names == {"backfill", "canary"}
Selected == {None, "legacy", "current"}
Statuses == {"not_requested", "skipped_no_transcript", "completed", "failed"}

(* The inputs phase A hashes. *)
Input == [caption : Captions, transcript : BOOLEAN, assessment : Selected]

(* Of the columns of phase A, those that repeat one input each. *)
Row ==
  [hash : Input, caption : Captions, transcript : BOOLEAN, assessment : Selected,
   status : Statuses, semHash : Captions \cup {None}, values : Captions \cup {None}]

NoRow == [hash |-> None]

(* clean: no other run, no change of an input and no failure since it began. *)
Run ==
  [phase : {"idle", "next", "inputs", "row", "ensured", "done"},
   at : 1..Count + 1,
   captions : [Videos -> Captions \cup {None}],     \* read when the canary began
   seen : Input \cup {None}, view : Row \cup {NoRow},
   clean : BOOLEAN]

ViralTypeOK ==
  /\ caption \in [Videos -> Captions]
  /\ transcribed \in [Videos -> BOOLEAN]
  /\ assessed \in [Videos -> SUBSET {"legacy", "current"}]
  /\ rows \in [Videos -> Row \cup {NoRow}]
  /\ work \in [Videos -> Row \cup {NoRow}]
  /\ lock \in [Videos -> Names \cup {None}]
  /\ runs \in [Names -> Run]
  /\ spent \in [changes : 0..MaxChanges, runs : 0..MaxRuns, faults : 0..MaxFaults]
-----------------------------------------------------------------------------
(* Rows *)

(* select_global_audio_assessment: the active classifier's before any other. *)
SelectGlobal(assessments) ==
  IF "current" \in assessments THEN "current"
  ELSE IF "legacy" \in assessments THEN "legacy" ELSE None

InputNow(v) ==
  [caption |-> caption[v], transcript |-> transcribed[v], assessment |-> SelectGlobal(assessed[v])]

(* compute_deterministic_features: every column of phase A, and the status. *)
Features(row, in) ==
  [row EXCEPT !.hash = in, !.caption = in.caption, !.transcript = in.transcript,
              !.assessment = in.assessment,
              !.status = IF in.transcript THEN "not_requested" ELSE "skipped_no_transcript"]

Inserted(in) ==
  Features([hash |-> in, caption |-> in.caption, transcript |-> in.transcript,
            assessment |-> in.assessment, status |-> "not_requested",
            semHash |-> None, values |-> None], in)

(* Mutants: phase A compares no assessment; a failure leaves the hash, or no
   status. *)
FaultySameInput(row, in) == row.hash.caption = in.caption /\ row.hash.transcript = in.transcript
FaultyHashKept(row) == [row EXCEPT !.values = None, !.status = "failed"]
FaultyNoStatus(row) == [row EXCEPT !.values = None, !.semHash = None, !.status = None]

(* upsert_viral_dna: the row is of these inputs already. *)
SameInput(row, in) == row.hash = in

(* _clear_semantic_values, after a provider that failed. *)
Cleared(row) == [row EXCEPT !.values = None, !.semHash = None, !.status = "failed"]

Completed(row, c) == [row EXCEPT !.values = c, !.semHash = c, !.status = "completed"]

FaultySemanticUnchanged(row, c) == row.status = "completed"

SemanticUnchanged(row, c) == row.status = "completed" /\ row.semHash = c

(* The UPDATE: the columns that are not as they were read. *)
Merge(row, view, new) == [f \in DOMAIN row |-> IF new[f] # view[f] THEN new[f] ELSE row[f]]
-----------------------------------------------------------------------------
(* Runs *)

Set(r, run) == runs' = [runs EXCEPT ![r] = run]

Running(r) == runs[r].phase \notin {"idle", "done"}

(* The run goes on with the next video, or it is over. *)
Onward(r) == [runs[r] EXCEPT !.phase = "next", !.at = @ + 1, !.seen = None, !.view = NoRow]
Over(r, phase) == [phase |-> phase, at |-> 1, captions |-> [v \in Videos |-> None],
                   seen |-> None, view |-> NoRow, clean |-> phase = "done" /\ runs[r].clean]

Unclean == [r \in Names |-> [runs[r] EXCEPT !.clean = FALSE]]

(* A run begins; the canary requires its transcripts and reads its videos,
   which its session keeps. *)
Start(r) ==
  /\ ~Running(r) /\ spent.runs < MaxRuns
  /\ r = "canary" => \A v \in Videos : transcribed[v]
  /\ runs' = [Unclean EXCEPT ![r] = [runs[r] EXCEPT
                !.phase = "next", !.captions = IF r = "canary" THEN caption ELSE @,
                !.clean = \A s \in Names \ {r} : ~Running(s)]]
  /\ spent' = [spent EXCEPT !.runs = @ + 1]
  /\ UNCHANGED <<inputs, rows, work, lock>>

(* The canary commits at its end, the backfill after each batch that wrote. *)
CommitDue(r) ==
  \/ runs[r].at > Count
  \/ r = "backfill" /\ (runs[r].at - 1) % Batch = 0 /\ \E v \in Videos : lock[v] = r

(* extract_viral_dna_for_video: the inputs, then the row. *)
ReadInputs(r) ==
  /\ runs[r].phase = "next" /\ ~CommitDue(r)
  /\ LET v == runs[r].at
         c == IF r = "canary" THEN runs[r].captions[v] ELSE caption[v]
     IN Set(r, [runs[r] EXCEPT !.phase = "inputs", !.seen = [InputNow(v) EXCEPT !.caption = c]])
  /\ UNCHANGED <<inputs, rows, work, lock, spent>>

ReadRow(r) ==
  /\ runs[r].phase = "inputs"
  /\ Set(r, [runs[r] EXCEPT !.phase = "row", !.view = rows[runs[r].at]])
  /\ UNCHANGED <<inputs, rows, work, lock, spent>>

(* Phase A of a video ends: the canary goes on with phase B. *)
Ensured(r, row) ==
  IF r = "canary" THEN [runs[r] EXCEPT !.phase = "ensured", !.view = row]
  ELSE Onward(r)

(* flush: it waits for the run that has the row, and keeps it until it commits. *)
Flush(r, new, next) ==
  LET v == runs[r].at
  IN /\ IF new = runs[r].view THEN UNCHANGED <<work, lock>>
        ELSE /\ lock[v] \in {None, r}
             /\ work' = [work EXCEPT ![v] = Merge(work[v], runs[r].view, new)]
             /\ lock' = [lock EXCEPT ![v] = r]
     /\ Set(r, next)
     /\ UNCHANGED <<inputs, rows, spent>>

(* upsert_viral_dna, a row that was not there: the unique constraint waits for
   a competing insert and keeps the winner's row. *)
Insert(r) ==
  LET v == runs[r].at
      row == Inserted(runs[r].seen)
  IN /\ runs[r].phase = "row" /\ runs[r].view = NoRow
     /\ lock[v] = None
     /\ IF rows[v] = NoRow
        THEN /\ work' = [work EXCEPT ![v] = row]
             /\ lock' = [lock EXCEPT ![v] = r]
             /\ Set(r, Ensured(r, row))
        ELSE Set(r, Ensured(r, rows[v])) /\ UNCHANGED <<work, lock>>
     /\ UNCHANGED <<inputs, rows, spent>>

(* upsert_viral_dna, a row that was there. *)
Upsert(r) ==
  /\ runs[r].phase = "row" /\ runs[r].view # NoRow
  /\ LET view == runs[r].view
         new == IF SameInput(view, runs[r].seen) THEN view ELSE Features(view, runs[r].seen)
     IN  Flush(r, new, Ensured(r, new))

(* What the provider makes of a row: an answer to the caption, or nothing when it
   raises or its output breaks the contract of validate_semantic_output. *)
Answers(view, c) == {Completed(view, c), Cleared(view)}

(* extract_semantic_viral_dna_for_video: the same input is not extracted again. *)
Extract ==
  LET view == runs["canary"].view
      c == runs["canary"].seen.caption
  IN /\ runs["canary"].phase = "ensured"
     /\ \E new \in IF SemanticUnchanged(view, c) THEN {view} ELSE Answers(view, c) :
          Flush("canary", new, Onward("canary"))

Committed(r) == [v \in Videos |-> IF lock[v] = r THEN work[v] ELSE rows[v]]
Released(r) == [v \in Videos |-> IF lock[v] = r THEN None ELSE lock[v]]

Commit(r) ==
  /\ runs[r].phase = "next" /\ CommitDue(r)
  /\ rows' = Committed(r) /\ lock' = Released(r)
  /\ IF runs[r].at > Count THEN Set(r, Over(r, "done")) ELSE UNCHANGED runs
  /\ UNCHANGED <<inputs, work, spent>>

Fault == spent.faults < MaxFaults /\ spent' = [spent EXCEPT !.faults = @ + 1]

(* A video of the backfill raises: its savepoint is rolled back, the next one
   follows. *)
Raise ==
  /\ runs["backfill"].phase = "row" /\ Fault
  /\ Set("backfill", [Onward("backfill") EXCEPT !.clean = FALSE])
  /\ UNCHANGED <<inputs, rows, work, lock>>

(* A run ends without its last commit. *)
Kill(r) ==
  /\ Running(r) /\ Fault
  /\ lock' = Released(r) /\ Set(r, Over(r, "idle"))
  /\ work' = [v \in Videos |-> IF lock[v] = r THEN rows[v] ELSE work[v]]
  /\ UNCHANGED <<inputs, rows>>
-----------------------------------------------------------------------------
(* The scans and the worker that change what the rows are derived from. *)
Change ==
  /\ spent.changes < MaxChanges /\ spent' = [spent EXCEPT !.changes = @ + 1]
  /\ \E v \in Videos :
       \/ /\ \E c \in Captions \ {caption[v]} : caption' = [caption EXCEPT ![v] = c]
          /\ UNCHANGED <<transcribed, assessed>>
       \/ /\ ~transcribed[v] /\ transcribed' = [transcribed EXCEPT ![v] = TRUE]
          /\ UNCHANGED <<caption, assessed>>
       \/ /\ "current" \notin assessed[v]
          /\ assessed' = [assessed EXCEPT ![v] = @ \cup {"current"}]
          /\ UNCHANGED <<caption, transcribed>>
  /\ runs' = Unclean
  /\ UNCHANGED <<rows, work, lock>>

ViralInit ==
  /\ caption \in [Videos -> Captions]
  /\ transcribed \in [Videos -> BOOLEAN]
  /\ assessed \in [Videos -> {{}, {"legacy"}}]
  /\ rows = [v \in Videos |-> NoRow] /\ work = rows
  /\ lock = [v \in Videos |-> None]
  /\ runs = [r \in Names |-> [phase |-> "idle", at |-> 1, captions |-> [v \in Videos |-> None],
                              seen |-> None, view |-> NoRow, clean |-> FALSE]]
  /\ spent = [changes |-> 0, runs |-> 0, faults |-> 0]

ViralNext ==
  \/ \E r \in Names :
       Start(r) \/ ReadInputs(r) \/ ReadRow(r) \/ Insert(r) \/ Upsert(r) \/ Commit(r) \/ Kill(r)
  \/ Extract \/ Raise \/ Change

ViralSpec == ViralInit /\ [][ViralNext]_viralVars
-----------------------------------------------------------------------------
(* Properties *)

(* The output columns are the provider's answer to the very input whose hash
   stands beside them, though a backfill may have rewritten the row between
   the reading, the call and the flush; a completed row has both. *)
SemanticsOfInput ==
  \A v \in Videos : rows[v] # NoRow =>
    /\ rows[v].values = rows[v].semHash
    /\ rows[v].status = "completed" => rows[v].values # None

(* A backfill repairs whatever stale writers, kills and failures left: when it
   ran alone and nothing changed or failed meanwhile, every video has a row and
   each row is of the inputs of today. *)
BackfillConverges ==
  runs["backfill"].phase = "done" /\ runs["backfill"].clean =>
    \A v \in Videos : rows[v] # NoRow /\ rows[v].hash = InputNow(v)

(* So does a canary, for both phases: its rows are completed for the caption of
   today, or say failed and hold no answer. *)
CanaryConverges ==
  runs["canary"].phase = "done" /\ runs["canary"].clean =>
    \A v \in Videos :
      /\ rows[v] # NoRow /\ rows[v].hash = InputNow(v)
      /\ \/ rows[v].status = "completed" /\ rows[v].values = caption[v]
         \/ rows[v].status = "failed" /\ rows[v].values = None

=============================================================================
