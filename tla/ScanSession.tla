----------------------------- MODULE ScanSession -----------------------------
(***************************************************************************)
(* A scan as the main window conducts it (src/src/ui/MainWindow.cpp:        *)
(* 416-531 and 680-692): the buttons, the menu, the tray, the periodic     *)
(* timer and the confirmation of large scans, over ScanEngine.             *)
(*                                                                         *)
(* QMessageBox::question runs an event loop of its own: while it is open   *)
(* the user reaches nothing else of the window, but the timer, the tray    *)
(* and the events of the engine are handled, so that onStartScan() may be  *)
(* on the stack more than once.  The boxes are answered innermost first.   *)
(***************************************************************************)
EXTENDS ScanEngine, FiniteSets

CONSTANT MaxQuestions  \* bound: how many boxes may be open

VARIABLES
  questions,     \* onStartScan() calls that wait for an answer
  closed,        \* closeEvent() was accepted
  startEnabled,  \* startBtn_ is enabled; pauseBtn_ and stopBtn_ are not
  button,        \* the text of pauseBtn_
  workerPaused,  \* paused_ of the worker
  handled        \* the hosts reported to the table since its last clear()

controls == <<startEnabled, button>>
window == <<questions, closed, controls, workerPaused, handled>>
sessionVars == <<vars, window>>

SessionInit ==
  /\ Init
  /\ questions = 0
  /\ closed = FALSE
  /\ startEnabled = TRUE
  /\ button = "Pause"
  /\ workerPaused = FALSE
  /\ handled = 0

-----------------------------------------------------------------------------
(* onStartScan() *)

(* fault: the table is not emptied for the next scan. *)
KeepTable == UNCHANGED handled
ClearTable == handled' = 0

(* The end of onStartScan(): the table is cleared whether or not the engine *)
(* will start, which it does not while it runs.                             *)
EngineStarts ==
  IF running THEN UNCHANGED <<vars, workerPaused>>
  ELSE (StartFirst \/ StartAgain) /\ workerPaused' = FALSE
ClearAndStart ==
  /\ ClearTable
  /\ EngineStarts
  /\ UNCHANGED <<closed, controls>>

Dispatching == gui = "ready" /\ ~inFinished
OnStartScan == Dispatching /\ ~running

StartScan ==
  /\ OnStartScan
  /\ questions = 0
  /\ ClearAndStart
  /\ UNCHANGED questions

(* A large scan; while a box is open the targets cannot be edited, so only  *)
(* another box can follow.                                                  *)
AskToStart ==
  /\ OnStartScan
  /\ questions < MaxQuestions
  /\ questions' = questions + 1
  /\ UNCHANGED <<vars, closed, controls, workerPaused, handled>>

AnswerYes ==
  /\ Dispatching
  /\ ~closed
  /\ questions > 0
  /\ questions' = questions - 1
  /\ ClearAndStart

AnswerNo ==
  /\ Dispatching
  /\ questions > 0
  /\ questions' = questions - 1
  /\ UNCHANGED <<vars, closed, controls, workerPaused, handled>>

-----------------------------------------------------------------------------
(* Pause and stop, by button, menu or shortcut: the menu entries are never  *)
(* disabled.                                                                *)

UserReaches == Dispatching /\ questions = 0 /\ ~closed

(* The text of the button decides. *)
PauseResume ==
  /\ UserReaches
  /\ running
  /\ workerPaused' = (button = "Pause")
  /\ button' = IF button = "Pause" THEN "Resume" ELSE "Pause"
  /\ UNCHANGED <<vars, questions, closed, startEnabled, handled>>

StopScan ==
  /\ UserReaches
  /\ running
  /\ Cancel
  /\ workerPaused' = FALSE
  /\ UNCHANGED <<questions, closed, controls, handled>>

-----------------------------------------------------------------------------
(* The events of the engine *)

(* fault: the text of the button is left as the last scan left it. *)
KeepText == UNCHANGED button
ResetText == button' = "Pause"

ScanStarted ==
  /\ DeliverProgress
  /\ Head(mailbox).kind = "started"
  /\ startEnabled' = FALSE
  /\ ResetText
  /\ UNCHANGED <<questions, closed, workerPaused, handled>>

HostReported ==
  /\ DeliverProgress
  /\ Head(mailbox).kind = "progress"
  /\ handled' = handled + 1
  /\ UNCHANGED <<questions, closed, controls, workerPaused>>

(* fault: a canceled scan leaves the buttons as they are. *)
EnablesUnlessCanceled == startEnabled' = (startEnabled \/ outcome # "canceled")
EnablesStart == startEnabled' = TRUE

ScanFinished ==
  /\ DeliverFinished
  /\ EnablesStart
  /\ UNCHANGED <<questions, closed, button, workerPaused, handled>>

EventStep == ScanStarted \/ HostReported \/ ScanFinished

(* The engine's own steps, in the GUI thread and in the scan's. *)
EngineReturns == (Restart \/ FinishedReturns \/ Destroyed) /\ UNCHANGED window
ScanGoesOn == ThreadStep /\ UNCHANGED window
ScanReports == ReportHost /\ UNCHANGED window

-----------------------------------------------------------------------------

(* closeEvent() of a window that is not kept in the tray. *)
CloseWindow ==
  /\ Dispatching
  /\ ~closed
  /\ closed' = TRUE
  /\ IF running THEN Cancel /\ workerPaused' = FALSE
     ELSE UNCHANGED <<vars, workerPaused>>
  /\ UNCHANGED <<questions, controls, handled>>

(* The event loops end, open boxes count as answered with No, and the       *)
(* window is destroyed.                                                     *)
LeaveProgram ==
  /\ closed
  /\ Destroy
  /\ questions' = 0
  /\ UNCHANGED <<closed, controls, workerPaused, handled>>

UserStep ==
  \/ StartScan \/ AskToStart \/ AnswerYes \/ AnswerNo
  \/ PauseResume \/ StopScan \/ CloseWindow \/ LeaveProgram

SessionNext == EventStep \/ EngineReturns \/ ScanGoesOn \/ ScanReports \/ UserStep

(* As in ScanEngine: threads are scheduled and event loops run, those of    *)
(* the boxes included.  The user does nothing for certain.                  *)
SessionSpec ==
  /\ SessionInit /\ [][SessionNext]_sessionVars
  /\ WF_sessionVars(ScanGoesOn)
  /\ WF_sessionVars(EventStep \/ EngineReturns)

-----------------------------------------------------------------------------
(* Safety *)

Reports == Cardinality(probed \cup skipped)
Pending(kind) == {i \in DOMAIN mailbox : mailbox[i].kind = kind}
StartIsHandled == running /\ thread # "starting" /\ Pending("started") = {}

(* Start is disabled only while the engine runs, and is so from the moment  *)
(* the start is handled: a late event of one scan never unlocks or locks    *)
(* the buttons of another.                                                  *)
ButtonsFollowScan ==
  gui # "gone" => /\ ~startEnabled => running
                  /\ StartIsHandled => ~startEnabled

(* A button that offers Resume stands for a paused scan, whatever was       *)
(* pressed in this scan and the last, until the scan is stopped.  The       *)
(* reverse does not hold: a pause from the menu before the start is handled *)
(* has its text reset.                                                      *)
ResumeMeansPaused ==
  StartIsHandled /\ button = "Resume" /\ ~cancelAsked => workerPaused

(* The table of a running scan holds nothing of an earlier one: no more     *)
(* than the worker reported, less what is still queued.                     *)
TableIsOfThisScan ==
  running => handled + Cardinality(Pending("progress")) <= Reports

(* USER_GUIDE.md: the device table shows every discovered device.  Stated   *)
(* for the moment the scan is over and the table is stored.                 *)
TableIsComplete == inFinished => handled = Reports

-----------------------------------------------------------------------------
(* Liveness *)

(* A stopped scan gives the Start button back, paused or not and with boxes *)
(* open, or the program ends.                                               *)
StopGivesStartBack ==
  running /\ cancelAsked ~> (startEnabled /\ ~running) \/ gui = "gone"
=============================================================================
