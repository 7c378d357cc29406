---------------------------- MODULE JobLifecycle ----------------------------
(***************************************************************************)
(* What the pipeline promises about one job, without queues, locks, files  *)
(* or crashes: a video is claimed and given back any number of times until *)
(* its audio is accepted; accepted audio is never given back, it ends in   *)
(* one of three results; a failure or a skip ends there unless somebody    *)
(* brings a transcript; and a completed job has a transcript, for good.    *)
(***************************************************************************)
CONSTANT Videos

VARIABLES
  phase,          \* where the job of each video is
  written         \* videos with a transcript

vars == <<phase, written>>

Phases == {"unclaimed", "reserved", "accepted", "completed", "failed", "skipped"}

TypeOK == phase \in [Videos -> Phases] /\ written \subseteq Videos

Init == phase = [v \in Videos |-> "unclaimed"] /\ written = {}

Goto(v, p) == phase' = [phase EXCEPT ![v] = p]

(* A scan reserves several videos at once. *)
Claim ==
  /\ \E S \in SUBSET {v \in Videos : phase[v] = "unclaimed"} :
       phase' = [v \in Videos |-> IF v \in S THEN "reserved" ELSE phase[v]]
  /\ UNCHANGED written

GiveBack(v) ==
  /\ phase[v] = "reserved" /\ Goto(v, "unclaimed")
  /\ UNCHANGED written

(* Also from unclaimed: recovery may find the audio of a reservation that was
   given back a moment ago. *)
Accept(v) ==
  /\ phase[v] \in {"unclaimed", "reserved"} /\ Goto(v, "accepted")
  /\ UNCHANGED written

(* With a transcript a job completes from any phase. *)
Complete(v) ==
  /\ Goto(v, "completed") /\ written' = written \cup {v}

(* Attempts used up, or recovered audio that does not validate. *)
Fail(v) ==
  /\ phase[v] \in {"unclaimed", "reserved", "accepted"} /\ Goto(v, "failed")
  /\ UNCHANGED written

(* Neither skip looks for a transcript that arrived during the inference, so
   it may overwrite a completion; nothing else leaves completed. *)
Skip(v) ==
  /\ phase[v] \in {"accepted", "completed"} /\ Goto(v, "skipped")
  /\ UNCHANGED written

Import(v) == written' = written \cup {v} /\ UNCHANGED phase

Next ==
  \/ Claim
  \/ \E v \in Videos :
       GiveBack(v) \/ Accept(v) \/ Complete(v) \/ Fail(v) \/ Skip(v) \/ Import(v)

Spec == Init /\ [][Next]_vars

=============================================================================
