----------------------------- MODULE ScanEngine -----------------------------
(***************************************************************************)
(* pacn::ScanEngine (src/src/core/ScanEngine.cpp): the object in the GUI   *)
(* thread that starts a scan in a thread of its own, hands on its events   *)
(* and takes it down.  The scan is a ScanJob, which ScanWorker implements; *)
(* its events reach the engine through the event queue of the GUI thread,  *)
(* which executes one handler at a time.  Of the events, started and       *)
(* finished are told apart; "progress" stands for all the others.          *)
(*                                                                         *)
(* pause() and resume() only call the worker and are ScanWorker's; here    *)
(* they show as scans that may stay without progress.                      *)
(***************************************************************************)
EXTENDS Integers, Sequences

CONSTANTS
  Targets,  \* the targets of every run
  MaxRuns   \* bound: how many times start() creates a worker

ASSUME MaxRunsAssumption == MaxRuns \in Nat \ {0}

VARIABLES
  running,    \* running_
  thread,     \* thread_ and what it executes; worker_ exists when it does
  quitAsked,  \* QThread: quit() was called since start()
  gui,        \* what the GUI thread executes
  inFinished, \* the handler of finished is on the GUI thread's stack
  mailbox,    \* the queued events addressed to the engine
  run,        \* history: the number of workers created
  heard,      \* history: the number of finished signals emitted
  probed, skipped, cancelAsked, outcome  \* the current worker's scan

Job == INSTANCE ScanJob
job == <<probed, skipped, cancelAsked, outcome>>
engine == <<running, gui, inFinished, run, heard>>
vars == <<engine, thread, quitAsked, mailbox, job>>

Event == [run : Nat, kind : {"started", "progress", "finished"}]

TypeOK ==
  /\ running \in BOOLEAN
  /\ thread \in {"none", "starting", "working", "summarized", "returned",
                 "looping", "ended"}
  /\ quitAsked \in BOOLEAN
  /\ gui \in {"ready", "joinStart", "joinDestroy", "gone"}
  /\ inFinished \in BOOLEAN
  /\ mailbox \in Seq(Event)
  /\ run \in 0 .. MaxRuns
  /\ heard \in 0 .. MaxRuns
  /\ Job!JobTypeOK

Init ==
  /\ running = FALSE
  /\ thread = "none"
  /\ quitAsked = FALSE
  /\ gui = "ready"
  /\ inFinished = FALSE
  /\ mailbox = <<>>
  /\ run = 0
  /\ heard = 0
  /\ Job!JobInit

Post(kind) == mailbox' = Append(mailbox, [run |-> run, kind |-> kind])

-----------------------------------------------------------------------------
(* Tests and effects of the steps below; those marked "fault" are slips     *)
(* that no step makes and that the properties are shown to notice.          *)

(* fault: start() relies on teardown() instead of testing running_.         *)
AnyTime == TRUE
(* start() returns at once while a scan runs. *)
MayStart == ~running

(* fault: cancel() declares the scan over. *)
CancelStops == running' = FALSE
(* cancel() leaves running_ to the finished handler. *)
CancelKeepsRunning == UNCHANGED running

(* fault: teardown() does not cancel the worker. *)
TeardownWithoutCancel == UNCHANGED cancelAsked
(* The requestCancel() of teardown(). *)
TeardownCancels == cancelAsked' = TRUE

(* fault: run() is queued to the event loop that quit() prevents. *)
RunsInLoop == ~quitAsked
(* QThread::started calls run() directly in the new thread: a quit() that   *)
(* comes first does not keep it from running.                               *)
RunsAtOnce == TRUE

(* if (thread_) thread_->quit(): whichever thread there is by now. *)
QuitsThread == quitAsked' = (quitAsked \/ thread # "none")

(* fault: finished is handed on without clearing running_ first, and a slot *)
(* that starts the next scan is refused.                                    *)
FinishedKeepsRunning == UNCHANGED running
FinishedClearsRunning == running' = FALSE

(* fault: run() emits finished where it notices a cancel, and at its end.   *)
PostFinishedTwice ==
  LET e == [run |-> run, kind |-> "finished"]
  IN mailbox' = mailbox \o (IF cancelAsked THEN <<e, e>> ELSE <<e>>)
(* run() emits finished once, whatever the outcome. *)
PostFinished == Post("finished")

(* fault: quit() without wait(), the thread being left to end by itself.    *)
NotJoined == TRUE
(* thread_->wait() has returned.                                            *)
Joined == thread = "ended"

-----------------------------------------------------------------------------
(* The GUI thread *)

(* The end of start(): a new worker and a new thread. *)
CreateWorker ==
  /\ run < MaxRuns
  /\ run' = run + 1
  /\ running' = TRUE
  /\ thread' = "starting"
  /\ quitAsked' = FALSE
  /\ probed' = {} /\ skipped' = {} /\ cancelAsked' = FALSE
  /\ outcome' = "running"

(* start(), up to thread_->wait() when there is a thread to tear down. *)
StartFirst ==
  /\ gui = "ready"
  /\ MayStart
  /\ thread = "none"
  /\ CreateWorker
  /\ UNCHANGED <<gui, inFinished, heard, mailbox>>

StartAgain ==
  /\ gui = "ready"
  /\ MayStart
  /\ thread # "none"
  /\ run < MaxRuns
  /\ TeardownCancels
  /\ quitAsked' = TRUE
  /\ gui' = "joinStart"
  /\ UNCHANGED <<running, inFinished, run, heard, thread, mailbox, probed,
                 skipped, outcome>>

(* wait() returns; worker and thread are deleted and replaced.  Events the  *)
(* deleted worker posted stay in the queue.                                 *)
Restart ==
  /\ gui = "joinStart"
  /\ Joined
  /\ CreateWorker
  /\ gui' = "ready"
  /\ UNCHANGED <<inFinished, heard, mailbox>>

Cancel ==
  /\ gui = "ready"
  /\ thread # "none"
  /\ cancelAsked' = TRUE
  /\ CancelKeepsRunning
  /\ UNCHANGED <<gui, inFinished, run, heard, thread, quitAsked, mailbox,
                 probed, skipped, outcome>>

(* The event loop hands the next event to the engine. *)
DeliverProgress ==
  /\ gui = "ready" /\ ~inFinished
  /\ mailbox # <<>>
  /\ Head(mailbox).kind # "finished"
  /\ mailbox' = Tail(mailbox)
  /\ UNCHANGED <<engine, thread, quitAsked, job>>

(* The lambda connected to finished: running_ is cleared and the slots of   *)
(* finished are called; they may use the engine, start() included.          *)
DeliverFinished ==
  /\ gui = "ready" /\ ~inFinished
  /\ mailbox # <<>>
  /\ Head(mailbox).kind = "finished"
  /\ mailbox' = Tail(mailbox)
  /\ FinishedClearsRunning
  /\ heard' = heard + 1
  /\ inFinished' = TRUE
  /\ UNCHANGED <<gui, run, thread, quitAsked, job>>

FinishedReturns ==
  /\ gui = "ready" /\ inFinished
  /\ QuitsThread
  /\ inFinished' = FALSE
  /\ UNCHANGED <<running, gui, run, heard, thread, mailbox, job>>

(* ~ScanEngine(), up to wait() and after it; the events still queued for    *)
(* the engine vanish with it.  A slot of finished uses deleteLater().       *)
Destroy ==
  /\ gui = "ready" /\ ~inFinished
  /\ IF thread = "none"
     THEN gui' = "gone" /\ running' = FALSE /\ mailbox' = <<>>
          /\ UNCHANGED <<cancelAsked, quitAsked>>
     ELSE gui' = "joinDestroy" /\ TeardownCancels /\ quitAsked' = TRUE
          /\ UNCHANGED <<running, mailbox>>
  /\ UNCHANGED <<inFinished, run, heard, thread, probed, skipped, outcome>>

Destroyed ==
  /\ gui = "joinDestroy"
  /\ Joined
  /\ thread' = "none"
  /\ running' = FALSE
  /\ mailbox' = <<>>
  /\ gui' = "gone"
  /\ UNCHANGED <<inFinished, run, heard, quitAsked, job>>

-----------------------------------------------------------------------------
(* The scan's thread *)

RunBegins ==
  /\ thread = "starting"
  /\ RunsAtOnce
  /\ thread' = "working"
  /\ Post("started")
  /\ UNCHANGED <<engine, quitAsked, job>>

(* A host is reported; its events are posted while run() is still in        *)
(* waitForDone() (ScanWorker: NoTaskOutlivesRun).                           *)
ReportHost ==
  /\ thread = "working"
  /\ \E t \in Targets : Job!Probe(t) \/ Job!Skip(t)
  /\ Post("progress")
  /\ UNCHANGED <<engine, thread, quitAsked>>

JobEnds ==
  /\ thread = "working"
  /\ Job!Complete \/ Job!GiveUp
  /\ thread' = "summarized"
  /\ UNCHANGED <<engine, quitAsked, mailbox>>

RunReturns ==
  /\ thread = "summarized"
  /\ PostFinished
  /\ thread' = "returned"
  /\ UNCHANGED <<engine, quitAsked, job>>

(* QThread::exec() returns at once if quit() was called before it.          *)
EnterLoop ==
  /\ thread = "returned"
  /\ thread' = IF quitAsked THEN "ended" ELSE "looping"
  /\ UNCHANGED <<engine, quitAsked, mailbox, job>>

LeaveLoop ==
  /\ thread = "looping"
  /\ quitAsked
  /\ thread' = "ended"
  /\ UNCHANGED <<engine, quitAsked, mailbox, job>>

ThreadStep == RunBegins \/ JobEnds \/ RunReturns \/ EnterLoop \/ LeaveLoop
GuiStep ==
  Restart \/ DeliverProgress \/ DeliverFinished \/ FinishedReturns \/ Destroyed

Next ==
  \/ StartFirst \/ StartAgain \/ Cancel \/ Destroy
  \/ GuiStep \/ ThreadStep \/ ReportHost

(* The threads are scheduled and the event loop runs.  A scan may be paused *)
(* for ever, so reporting hosts is not fair: what ends it is JobEnds, fair  *)
(* as ScanJob promises.  Nobody has to start, cancel or destroy.            *)
Spec == Init /\ [][Next]_vars /\ WF_vars(ThreadStep) /\ WF_vars(GuiStep)

-----------------------------------------------------------------------------
(* Safety *)

(* No event of a scan that is over reaches the slots during the next one:   *)
(* the queue keeps events of deleted workers, so this rests on finished     *)
(* being the last event and on start() refusing while a scan runs.          *)
NoStaleEvents ==
  running => \A i \in DOMAIN mailbox : mailbox[i].run = run

(* isRunning() is false only when no host is being scanned: start() neither *)
(* cuts a scan short nor waits for its hosts in the GUI thread.             *)
IdleMeansEnded ==
  ~running /\ thread # "none" => outcome # "running"

(* Every scan started is followed by one finished before the next begins.   *)
OneFinishedPerRun ==
  gui \in {"ready", "joinStart"} => heard = IF running THEN run - 1 ELSE run

(* A worker is deleted only when its run() has returned, its outcome known  *)
(* and its finished posted: also when quit() hit a thread that had just     *)
(* been started from a slot of finished, and when it was paused.            *)
FinishedPosted ==
  heard = run \/ \E i \in DOMAIN mailbox :
                   mailbox[i] = [run |-> run, kind |-> "finished"]
WorkerOutlivesRun ==
  [][thread # "none" /\ (thread' = "none" \/ run' # run) =>
       outcome # "running" /\ FinishedPosted]_vars

-----------------------------------------------------------------------------
(* Liveness *)

(* The destructor returns, whatever the scan is doing, paused or not. *)
DestroyReturns == gui = "joinDestroy" ~> gui = "gone"

(* A canceled scan is reported as finished, or the engine is destroyed;     *)
(* also when the thread was told to quit before it ran.                     *)
CancelIsHeard == running /\ cancelAsked ~> ~running
=============================================================================
