------------------------------- MODULE ScanJob -------------------------------
(***************************************************************************)
(* What one scan promises to whoever started it, whatever the threads do:  *)
(* it accounts for each target at most once, leaves a target unprobed only *)
(* after a cancel, and ends with the outcome "complete" only if it probed  *)
(* them all.  ScanWorker implements it; ScanEngine is built on it.         *)
(* (ScanEngine.h: "configure, start, (pause/resume/cancel), finished".)    *)
(***************************************************************************)

CONSTANT Targets

VARIABLES
  probed,       \* targets whose probe is reported
  skipped,      \* targets reported without a probe
  cancelAsked,  \* a cancel was requested
  outcome       \* "running", or how the scan ended

jobVars == <<probed, skipped, cancelAsked, outcome>>

JobTypeOK ==
  /\ probed \subseteq Targets
  /\ skipped \subseteq Targets
  /\ cancelAsked \in BOOLEAN
  /\ outcome \in {"running", "complete", "canceled"}

JobInit ==
  /\ probed = {}
  /\ skipped = {}
  /\ cancelAsked = FALSE
  /\ outcome = "running"

Probe(t) ==
  /\ outcome = "running"
  /\ t \notin probed \cup skipped
  /\ probed' = probed \cup {t}
  /\ UNCHANGED <<skipped, cancelAsked, outcome>>

Skip(t) ==
  /\ outcome = "running"
  /\ cancelAsked
  /\ t \notin probed \cup skipped
  /\ skipped' = skipped \cup {t}
  /\ UNCHANGED <<probed, cancelAsked, outcome>>

AskCancel ==
  /\ cancelAsked' = TRUE
  /\ UNCHANGED <<probed, skipped, outcome>>

Complete ==
  /\ outcome = "running"
  /\ ~cancelAsked
  /\ probed = Targets
  /\ outcome' = "complete"
  /\ UNCHANGED <<probed, skipped, cancelAsked>>

GiveUp ==
  /\ outcome = "running"
  /\ cancelAsked
  /\ outcome' = "canceled"
  /\ UNCHANGED <<probed, skipped, cancelAsked>>

JobNext ==
  \/ \E t \in Targets : Probe(t) \/ Skip(t)
  \/ AskCancel
  \/ Complete \/ GiveUp

JobSafety == JobInit /\ [][JobNext]_jobVars

(* A job that was canceled, or has nothing left to probe, ends; one that is *)
(* paused need not go on.                                                   *)
JobSpec == JobSafety /\ WF_jobVars(Complete \/ GiveUp)
=============================================================================
