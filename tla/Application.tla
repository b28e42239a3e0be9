---------------------------- MODULE Application ----------------------------
(***************************************************************************)
(* The processes of one user, from main() to their end: src/src/app/main.cpp *)
(* over the log (LogFiles) and the settings (Settings), which they share.   *)
(* A process logs before it asks whether another one runs.                 *)
(***************************************************************************)
EXTENDS LogFiles, Settings

CONSTANT Budgets  \* bounds: lines logged by windows, and changes and scans in them

VARIABLES
  stage,       \* process |-> how far main() has come
  listening,   \* the processes that listen under the name of the instance
  left,        \* what is left of one of the budgets
  overlapped,  \* history: a process found nobody while another was about to listen
  together     \* history: two windows were open at a time

main == <<stage, listening, overlapped, together>>
appVars == <<logVars, settingsVars, main, left>>

Stages == {"off", "opened", "starting", "claiming", "second", "window", "over"}

AppInit ==
  /\ LogInit
  /\ SettingsInit
  /\ stage = [p \in Processes |-> "off"]
  /\ listening = {}
  /\ left \in Budgets
  /\ overlapped = FALSE
  /\ together = FALSE

Goes(p, from, to) == stage[p] = from /\ stage' = [stage EXCEPT ![p] = to]
Spend(what) == left[what] > 0 /\ left' = [left EXCEPT ![what] = @ - 1]

-----------------------------------------------------------------------------
(* main() *)

Start(p) ==
  /\ Goes(p, "off", "opened")
  /\ Open(p)
  /\ UNCHANGED <<settingsVars, listening, overlapped, together, left>>

(* "PacNScanner starting" *)
SayStarting(p) ==
  /\ Goes(p, "opened", "starting")
  /\ Say(p)
  /\ UNCHANGED <<settingsVars, listening, overlapped, together, left>>

(* claimSingleInstance(): asks, and if nobody answers listens.  The name    *)
(* holds the path of the home directory, which makes it a path of           *)
(* directories that do not exist where names of servers are files: there    *)
(* nobody ever answers and listen() fails, which goes unnoticed.            *)
Probe(p) ==
  /\ logging[p] = "quiet"
  /\ \/ /\ listening # {}
        /\ Goes(p, "starting", "second")
     \/ /\ listening = {}
        /\ Goes(p, "starting", "claiming")
  /\ overlapped' =
       (overlapped \/ (stage'[p] = "claiming" /\ \E q \in Others(p) : stage[q] = "claiming"))
  /\ UNCHANGED <<logVars, settingsVars, listening, together, left>>

(* fault: the window opens without a server. *)
KeepSilent(p) == UNCHANGED listening
Listen(p) == listening' = IF platform = "windows" THEN listening \cup {p} ELSE listening

OpenMainWindow(p) ==
  /\ Goes(p, "claiming", "window")
  /\ Listen(p)
  /\ OpenWindow(p)
  /\ together' = (together \/ \E q \in Processes : stage[q] = "window")
  /\ UNCHANGED <<logVars, overlapped, left>>

(* "Another instance is running": the end of the process. *)
SayAnother(p) ==
  /\ Goes(p, "second", "over")
  /\ Say(p)
  /\ UNCHANGED <<settingsVars, listening, overlapped, together, left>>

-----------------------------------------------------------------------------
(* The window; its log lines come from any of its threads. *)

SayLine(p) ==
  /\ stage[p] = "window"
  /\ Spend("lines")
  /\ Say(p)
  /\ UNCHANGED <<settingsVars, main>>

RotateLog(p) == Rotate(p) /\ UNCHANGED <<settingsVars, main, left>>

UseWindow(p) ==
  /\ stage[p] = "window"
  /\ Touch(p) \/ StartScan(p) \/ EditSettings(p)
  /\ Spend("changes")
  /\ UNCHANGED <<logVars, main>>

FollowWindow(p) ==
  /\ stage[p] = "window"
  /\ FinishScan(p) \/ OpenSettings(p) \/ AcceptSettings(p) \/ RejectSettings(p) \/ Sync(p)
  /\ UNCHANGED <<logVars, main, left>>

-----------------------------------------------------------------------------
(* The end *)

(* The last process to say "Another instance is running" closes its log. *)
EndSecond(p) ==
  /\ stage[p] = "over" /\ HeldBy(p) # 0 /\ logging[p] = "quiet"
  /\ CloseLog(p)
  /\ UNCHANGED <<settingsVars, main, left>>

Quit(p) ==
  /\ Goes(p, "window", "over")
  /\ logging[p] = "quiet"
  /\ Window(p).dialog = NoDialog
  /\ CloseWindow(p)
  /\ CloseLog(p)
  /\ listening' = listening \ {p}
  /\ UNCHANGED <<overlapped, together, left>>

Crash(p) ==
  /\ stage[p] \notin {"off", "over"}
  /\ stage' = [stage EXCEPT ![p] = "over"]
  /\ LoseWindow(p)
  /\ CloseLog(p)
  /\ listening' = listening \ {p}
  /\ UNCHANGED <<overlapped, together, left>>

AppNext ==
  \E p \in Processes :
    \/ Start(p) \/ SayStarting(p) \/ Probe(p) \/ OpenMainWindow(p) \/ SayAnother(p)
    \/ SayLine(p) \/ RotateLog(p) \/ UseWindow(p) \/ FollowWindow(p)
    \/ EndSecond(p) \/ Quit(p) \/ Crash(p)

AppSpec == AppInit /\ [][AppNext]_appVars

-----------------------------------------------------------------------------
(* Properties *)

(* Where names of servers work, two windows are open at a time only if two  *)
(* starts overlapped: both asked before either listened, the one window     *)
(* that crashed or quit in between included.  (claimSingleInstance())       *)
SequentialStartsAreSingle == together => platform = "posix" \/ overlapped

(* What was last confirmed, by OK in the dialog or by the start of a scan,  *)
(* is what the next process reads, whichever of both came while the other   *)
(* was under way; unless windows were open together, or one crashed before  *)
(* its settings reached the file.  (SettingsStore, SettingsDialog::save())  *)
ChoicesSurvive ==
  (\A p \in Processes : Window(p) = NoWindow) /\ ~together /\ ~unsaved => stored = chosen
=============================================================================
