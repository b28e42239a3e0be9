--------------------------- MODULE ScanEngine_proofs ---------------------------
(***************************************************************************)
(* Proofs of the safety properties of ScanEngine, for any targets and any  *)
(* number of scans.  What makes them inductive is where the finished event *)
(* may be: at the end of the queue, from the return of run() on, until its *)
(* handler clears running_; an idle engine has an empty queue.             *)
(***************************************************************************)
EXTENDS ScanEngine, SequenceTheorems, TLAPS

RunReturned == thread \in {"returned", "looping", "ended"}

IdleInv == ~running /\ gui # "gone" =>
             mailbox = <<>> /\ heard = run /\ (thread = "none" \/ RunReturned)
BusyInv == running =>
             /\ thread # "none" /\ gui \in {"ready", "joinDestroy"}
             /\ heard = run - 1
             /\ \A i \in DOMAIN mailbox : mailbox[i].run = run
FinishedAtEnd == \A i \in DOMAIN mailbox :
                   mailbox[i].kind = "finished" => i = Len(mailbox) /\ RunReturned
FinishedAwaited == running /\ RunReturned =>
                     Len(mailbox) > 0 /\ mailbox[Len(mailbox)].kind = "finished"
OutcomeKnown == thread = "summarized" \/ RunReturned => outcome # "running"
GoneInv == gui = "gone" => ~running /\ mailbox = <<>> /\ thread = "none"
JoinInv == gui = "joinStart" => ~running /\ thread # "none"

EngineInv ==
  /\ TypeOK
  /\ IdleInv /\ BusyInv /\ FinishedAtEnd /\ FinishedAwaited
  /\ OutcomeKnown /\ GoneInv /\ JoinInv

LEMMA EngineInit == Init => EngineInv
<1> SUFFICES ASSUME Init PROVE EngineInv
  OBVIOUS
<1>1. mailbox = <<>> /\ mailbox \in Seq(Event)
  BY EmptySeq DEF Init
<1>2. run = 0 /\ heard = 0 /\ 0 \in 0 .. MaxRuns
  BY MaxRunsAssumption DEF Init
<1>3. TypeOK
  BY <1>1, <1>2 DEF Init, TypeOK, Job!JobInit, Job!JobTypeOK
<1>4. IdleInv /\ BusyInv /\ FinishedAtEnd /\ FinishedAwaited
  BY DEF Init, IdleInv, BusyInv, FinishedAtEnd, FinishedAwaited, RunReturned
<1>5. OutcomeKnown /\ GoneInv /\ JoinInv
  BY DEF Init, OutcomeKnown, GoneInv, JoinInv, RunReturned
<1> QED BY <1>3, <1>4, <1>5 DEF EngineInv

(* Posting an event appends it; delivering one takes the first away.        *)
LEMMA Posting ==
  ASSUME NEW kind \in {"started", "progress", "finished"},
         mailbox \in Seq(Event), run \in Nat, Post(kind)
  PROVE  /\ mailbox' \in Seq(Event)
         /\ Len(mailbox') = Len(mailbox) + 1
         /\ Len(mailbox) \in Nat
         /\ DOMAIN mailbox' = 1 .. Len(mailbox) + 1
         /\ DOMAIN mailbox = 1 .. Len(mailbox)
         /\ \A i \in 1 .. Len(mailbox) : mailbox'[i] = mailbox[i]
         /\ mailbox'[Len(mailbox) + 1] = [run |-> run, kind |-> kind]
<1>1. [run |-> run, kind |-> kind] \in Event
  BY DEF Event
<1> QED BY <1>1, AppendProperties DEF Post

LEMMA Delivering ==
  ASSUME mailbox \in Seq(Event), mailbox # <<>>, mailbox' = Tail(mailbox)
  PROVE  /\ mailbox' \in Seq(Event)
         /\ Len(mailbox) \in Nat \ {0}
         /\ Len(mailbox') = Len(mailbox) - 1
         /\ DOMAIN mailbox' = 1 .. Len(mailbox) - 1
         /\ DOMAIN mailbox = 1 .. Len(mailbox)
         /\ Head(mailbox) = mailbox[1]
         /\ \A i \in 1 .. Len(mailbox) - 1 : mailbox'[i] = mailbox[i + 1]
BY HeadTailProperties, LenProperties, EmptySeq

-----------------------------------------------------------------------------

(* A new worker finds the queue of an idle engine empty. *)
LEMMA WorkerCreated ==
  ASSUME EngineInv, ~running, gui \in {"ready", "joinStart"}, CreateWorker,
         gui' = "ready", UNCHANGED <<inFinished, heard, mailbox>>
  PROVE  EngineInv'
<1>1. mailbox = <<>> /\ heard = run
  BY DEF EngineInv, IdleInv
<1>2. TypeOK'
  <2>1. run' \in 0 .. MaxRuns /\ heard' \in 0 .. MaxRuns
    BY MaxRunsAssumption DEF EngineInv, TypeOK, CreateWorker
  <2>2. Job!JobTypeOK'
    BY DEF CreateWorker, Job!JobTypeOK
  <2> QED BY <2>1, <2>2 DEF EngineInv, TypeOK, CreateWorker
<1>3. IdleInv' /\ BusyInv' /\ FinishedAtEnd' /\ FinishedAwaited'
  BY <1>1 DEF EngineInv, TypeOK, CreateWorker, IdleInv, BusyInv, FinishedAtEnd,
              FinishedAwaited, RunReturned
<1>4. OutcomeKnown' /\ GoneInv' /\ JoinInv'
  BY DEF CreateWorker, OutcomeKnown, GoneInv, JoinInv, RunReturned
<1> QED BY <1>2, <1>3, <1>4 DEF EngineInv

(* Steps of the GUI thread that leave the queue alone. *)
LEMMA GuiKeepsInv ==
  ASSUME EngineInv, StartAgain \/ Cancel \/ FinishedReturns
  PROVE  EngineInv'
<1>1. TypeOK'
  BY DEF EngineInv, TypeOK, StartAgain, Cancel, FinishedReturns, TeardownCancels,
         CancelKeepsRunning, QuitsThread, job, Job!JobTypeOK
<1>2. IdleInv' /\ BusyInv' /\ FinishedAtEnd' /\ FinishedAwaited'
  BY DEF EngineInv, StartAgain, Cancel, FinishedReturns, MayStart, CancelKeepsRunning,
         IdleInv, BusyInv, FinishedAtEnd, FinishedAwaited, RunReturned
<1>3. OutcomeKnown' /\ GoneInv' /\ JoinInv'
  BY DEF EngineInv, StartAgain, Cancel, FinishedReturns, MayStart, CancelKeepsRunning,
         job, OutcomeKnown, GoneInv, JoinInv, RunReturned
<1> QED BY <1>1, <1>2, <1>3 DEF EngineInv

(* An event other than finished: a finished that is awaited stays. *)
LEMMA ProgressDelivered ==
  ASSUME EngineInv, DeliverProgress
  PROVE  EngineInv'
<1>1. mailbox \in Seq(Event) /\ mailbox # <<>> /\ mailbox' = Tail(mailbox)
  BY DEF EngineInv, TypeOK, DeliverProgress
<1>2. UNCHANGED <<running, gui, inFinished, run, heard, thread, quitAsked, outcome,
                  probed, skipped, cancelAsked>>
  BY DEF DeliverProgress, engine, job
<1>3. mailbox[1].kind # "finished"
  BY <1>1, Delivering DEF DeliverProgress
<1>4. TypeOK'
  BY <1>1, <1>2, Delivering DEF EngineInv, TypeOK, Job!JobTypeOK
<1>5. running /\ gui = "ready"
  BY <1>1 DEF EngineInv, IdleInv, DeliverProgress
<1>6. BusyInv'
  BY <1>1, <1>2, Delivering DEF EngineInv, BusyInv
<1>7. FinishedAtEnd'
  BY <1>1, <1>2, Delivering DEF EngineInv, FinishedAtEnd, RunReturned
<1>8. FinishedAwaited'
  BY <1>1, <1>2, <1>3, Delivering DEF EngineInv, FinishedAwaited, RunReturned
<1>9. IdleInv' /\ OutcomeKnown' /\ GoneInv' /\ JoinInv'
  BY <1>2, <1>5 DEF EngineInv, IdleInv, OutcomeKnown, GoneInv, JoinInv, RunReturned
<1> QED BY <1>4, <1>6, <1>7, <1>8, <1>9 DEF EngineInv

(* finished is the last event: nothing is left behind it. *)
LEMMA FinishedDelivered ==
  ASSUME EngineInv, DeliverFinished
  PROVE  EngineInv'
<1>1. mailbox \in Seq(Event) /\ mailbox # <<>> /\ mailbox' = Tail(mailbox)
  BY DEF EngineInv, TypeOK, DeliverFinished
<1>2. UNCHANGED <<gui, run, thread, quitAsked, outcome, probed, skipped, cancelAsked>>
  BY DEF DeliverFinished, job
<1>3. running' = FALSE /\ gui = "ready" /\ heard' = heard + 1 /\ inFinished' = TRUE
  BY DEF DeliverFinished, FinishedClearsRunning
<1>4. mailbox[1].kind = "finished"
  BY <1>1, Delivering DEF DeliverFinished
<1>5. Len(mailbox) = 1 /\ RunReturned
  BY <1>1, <1>4, Delivering DEF EngineInv, FinishedAtEnd
<1>6. mailbox' = <<>>
  BY <1>1, <1>5, Delivering, EmptySeq
<1>7. heard' = run
  BY <1>1, <1>3 DEF EngineInv, IdleInv, BusyInv, TypeOK
<1>8. TypeOK'
  <2>1. mailbox' \in Seq(Event)
    BY <1>6, EmptySeq
  <2>2. heard' \in 0 .. MaxRuns /\ Job!JobTypeOK'
    BY <1>2, <1>7 DEF EngineInv, TypeOK, Job!JobTypeOK
  <2> QED BY <1>2, <1>3, <2>1, <2>2 DEF EngineInv, TypeOK
<1>9. IdleInv' /\ BusyInv' /\ FinishedAtEnd' /\ FinishedAwaited'
  BY <1>2, <1>3, <1>5, <1>6, <1>7 DEF IdleInv, BusyInv, FinishedAtEnd,
                                      FinishedAwaited, RunReturned
<1>10. OutcomeKnown' /\ GoneInv' /\ JoinInv'
  BY <1>2, <1>3, <1>6 DEF EngineInv, OutcomeKnown, GoneInv, JoinInv, RunReturned
<1> QED BY <1>8, <1>9, <1>10 DEF EngineInv

(* Destruction, at once or after the thread has ended. *)
LEMMA Destruction ==
  ASSUME EngineInv, Destroy \/ Destroyed
  PROVE  EngineInv'
<1>1. TypeOK'
  BY EmptySeq DEF EngineInv, TypeOK, Destroy, Destroyed, TeardownCancels, job, Job!JobTypeOK
<1>2. IdleInv' /\ BusyInv' /\ FinishedAtEnd' /\ FinishedAwaited'
  BY DEF EngineInv, TypeOK, Destroy, Destroyed, IdleInv, BusyInv, FinishedAtEnd,
         FinishedAwaited, RunReturned
<1>3. OutcomeKnown' /\ GoneInv' /\ JoinInv'
  BY DEF EngineInv, Destroy, Destroyed, job, OutcomeKnown, GoneInv, JoinInv, RunReturned
<1> QED BY <1>1, <1>2, <1>3 DEF EngineInv

-----------------------------------------------------------------------------

(* Whatever the thread posts before run() has returned belongs to the       *)
(* present scan, and no finished is in the queue yet.                       *)
LEMMA EventPosted ==
  ASSUME EngineInv, NEW kind \in {"started", "progress", "finished"}, Post(kind),
         thread \in {"starting", "working", "summarized"}, thread' # "none",
         IF kind = "finished" THEN RunReturned' ELSE ~RunReturned',
         UNCHANGED <<running, gui, run, heard>>
  PROVE  IdleInv' /\ BusyInv' /\ FinishedAtEnd' /\ FinishedAwaited'
<1>1. mailbox \in Seq(Event) /\ run \in Nat
  BY DEF EngineInv, TypeOK
<1>2. running
  BY DEF EngineInv, IdleInv, GoneInv, RunReturned
<1>3. \A i \in DOMAIN mailbox : mailbox[i].kind # "finished"
  BY DEF EngineInv, FinishedAtEnd, RunReturned
<1>posted. /\ Len(mailbox) \in Nat /\ Len(mailbox') = Len(mailbox) + 1
           /\ DOMAIN mailbox' = 1 .. Len(mailbox) + 1
           /\ DOMAIN mailbox = 1 .. Len(mailbox)
           /\ \A i \in 1 .. Len(mailbox) : mailbox'[i] = mailbox[i]
           /\ mailbox'[Len(mailbox) + 1] = [run |-> run, kind |-> kind]
  BY <1>1, Posting
<1>4. IdleInv' /\ BusyInv'
  <2>1. \A i \in DOMAIN mailbox : mailbox[i].run = run
    BY <1>2 DEF EngineInv, BusyInv
  <2>2. \A i \in DOMAIN mailbox' : mailbox'[i].run = run
    BY <1>posted, <2>1
  <2> QED BY <1>2, <2>2 DEF EngineInv, IdleInv, BusyInv
<1>5. FinishedAtEnd'
  <2> SUFFICES ASSUME NEW i \in DOMAIN mailbox', mailbox'[i].kind = "finished"
               PROVE  i = Len(mailbox') /\ RunReturned'
    BY DEF FinishedAtEnd
  <2>1. i = Len(mailbox) + 1
    BY <1>3, <1>posted
  <2> QED BY <1>posted, <2>1
<1>6. FinishedAwaited'
  BY <1>1, Posting DEF FinishedAwaited
<1> QED BY <1>4, <1>5, <1>6

LEMMA RunBeginsKeeps ==
  ASSUME EngineInv, RunBegins
  PROVE  EngineInv'
<1>1. /\ Post("started") /\ thread = "starting" /\ thread' = "working"
      /\ UNCHANGED <<running, gui, inFinished, run, heard, quitAsked, outcome, probed,
                     skipped, cancelAsked>>
  BY DEF RunBegins, engine, job
<1>2. TypeOK'
  BY <1>1, Posting DEF EngineInv, TypeOK, Job!JobTypeOK
<1>3. IdleInv' /\ BusyInv' /\ FinishedAtEnd' /\ FinishedAwaited'
  BY <1>1, EventPosted DEF RunReturned
<1>4. OutcomeKnown' /\ GoneInv' /\ JoinInv'
  BY <1>1 DEF EngineInv, OutcomeKnown, GoneInv, JoinInv, RunReturned
<1> QED BY <1>2, <1>3, <1>4 DEF EngineInv

LEMMA ReportHostKeeps ==
  ASSUME EngineInv, ReportHost
  PROVE  EngineInv'
<1>1. /\ Post("progress") /\ thread = "working"
      /\ UNCHANGED <<running, gui, inFinished, run, heard, thread, quitAsked>>
  BY DEF ReportHost, engine
<1>2. UNCHANGED <<outcome, cancelAsked>> /\ Job!JobTypeOK'
  <2>1. PICK t \in Targets : Job!Probe(t) \/ Job!Skip(t)
    BY DEF ReportHost
  <2> QED BY <2>1 DEF EngineInv, TypeOK, Job!JobTypeOK, Job!Probe, Job!Skip
<1>3. TypeOK'
  BY <1>1, <1>2, Posting DEF EngineInv, TypeOK
<1>4. IdleInv' /\ BusyInv' /\ FinishedAtEnd' /\ FinishedAwaited'
  BY <1>1, EventPosted DEF RunReturned
<1>5. OutcomeKnown' /\ GoneInv' /\ JoinInv'
  BY <1>1 DEF EngineInv, OutcomeKnown, GoneInv, JoinInv, RunReturned
<1> QED BY <1>3, <1>4, <1>5 DEF EngineInv

LEMMA RunReturnsKeeps ==
  ASSUME EngineInv, RunReturns
  PROVE  EngineInv'
<1>1. /\ Post("finished") /\ thread = "summarized" /\ thread' = "returned"
      /\ UNCHANGED <<running, gui, inFinished, run, heard, quitAsked, outcome, probed,
                     skipped, cancelAsked>>
  BY DEF RunReturns, PostFinished, engine, job
<1>2. TypeOK'
  BY <1>1, Posting DEF EngineInv, TypeOK, Job!JobTypeOK
<1>3. IdleInv' /\ BusyInv' /\ FinishedAtEnd' /\ FinishedAwaited'
  BY <1>1, EventPosted DEF RunReturned
<1>4. OutcomeKnown' /\ GoneInv' /\ JoinInv'
  BY <1>1 DEF EngineInv, OutcomeKnown, GoneInv, JoinInv, RunReturned
<1> QED BY <1>2, <1>3, <1>4 DEF EngineInv

(* The scan is decided, and the thread's event loop is entered and left. *)
LEMMA ThreadKeepsInv ==
  ASSUME EngineInv, JobEnds \/ EnterLoop \/ LeaveLoop
  PROVE  EngineInv'
<1>1. TypeOK'
  BY DEF EngineInv, TypeOK, JobEnds, EnterLoop, LeaveLoop, engine, job, Job!JobTypeOK,
         Job!Complete, Job!GiveUp
<1>2. IdleInv' /\ BusyInv' /\ FinishedAtEnd' /\ FinishedAwaited'
  BY DEF EngineInv, JobEnds, EnterLoop, LeaveLoop, engine, IdleInv, BusyInv,
         FinishedAtEnd, FinishedAwaited, RunReturned, GoneInv
<1>3. OutcomeKnown' /\ GoneInv' /\ JoinInv'
  BY DEF EngineInv, JobEnds, EnterLoop, LeaveLoop, engine, job, OutcomeKnown,
         GoneInv, JoinInv, RunReturned, Job!Complete, Job!GiveUp
<1> QED BY <1>1, <1>2, <1>3 DEF EngineInv

LEMMA EngineNext == EngineInv /\ [Next]_vars => EngineInv'
<1> SUFFICES ASSUME EngineInv, [Next]_vars
             PROVE  EngineInv'
  OBVIOUS
<1>1. CASE StartFirst
  BY <1>1, WorkerCreated DEF StartFirst, MayStart
<1>2. CASE Restart
  BY <1>2, WorkerCreated DEF Restart, EngineInv, JoinInv
<1>3. CASE StartAgain \/ Cancel \/ FinishedReturns
  BY <1>3, GuiKeepsInv
<1>4. CASE DeliverProgress \/ DeliverFinished
  BY <1>4, ProgressDelivered, FinishedDelivered
<1>5. CASE Destroy \/ Destroyed
  BY <1>5, Destruction
<1>6. CASE RunBegins \/ ReportHost \/ RunReturns
  BY <1>6, RunBeginsKeeps, ReportHostKeeps, RunReturnsKeeps
<1>7. CASE JobEnds \/ EnterLoop \/ LeaveLoop
  BY <1>7, ThreadKeepsInv
<1>8. CASE UNCHANGED vars
  BY <1>8 DEF vars, engine, job, EngineInv, TypeOK, IdleInv, BusyInv, FinishedAtEnd,
              FinishedAwaited, OutcomeKnown, GoneInv, JoinInv, RunReturned,
              Job!JobTypeOK
<1> QED
  BY <1>1, <1>2, <1>3, <1>4, <1>5, <1>6, <1>7, <1>8 DEF Next, GuiStep, ThreadStep

LEMMA EngineAlways == Spec => []EngineInv
BY EngineInit, EngineNext, PTL DEF Spec

-----------------------------------------------------------------------------

(* Every variable keeps its type. *)
THEOREM EngineTypeCorrect == Spec => []TypeOK
<1>1. EngineInv => TypeOK
  BY DEF EngineInv
<1> QED BY EngineAlways, <1>1, PTL

(* While a scan runs every event in the queue is its own. *)
THEOREM NoEventIsStale == Spec => []NoStaleEvents
<1>1. EngineInv => NoStaleEvents
  BY DEF EngineInv, BusyInv, NoStaleEvents
<1> QED BY EngineAlways, <1>1, PTL

(* An idle engine has no scan under way. *)
THEOREM IdleEngineHasNoScan == Spec => []IdleMeansEnded
<1>1. EngineInv => IdleMeansEnded
  BY DEF EngineInv, IdleInv, GoneInv, OutcomeKnown, IdleMeansEnded
<1> QED BY EngineAlways, <1>1, PTL

(* Every scan is reported as finished once, before the next begins. *)
THEOREM ScansAreFinishedOnce == Spec => []OneFinishedPerRun
<1>1. EngineInv => OneFinishedPerRun
  BY DEF EngineInv, TypeOK, IdleInv, BusyInv, OneFinishedPerRun
<1> QED BY EngineAlways, <1>1, PTL

(* A worker is deleted only after its run() has returned. *)
LEMMA EndedIsFinished ==
  ASSUME EngineInv, Joined
  PROVE  outcome # "running" /\ FinishedPosted
<1>1. RunReturned /\ outcome # "running" /\ gui # "gone"
  BY DEF EngineInv, OutcomeKnown, GoneInv, Joined, RunReturned
<1>2. CASE running
  <2>1. Len(mailbox) \in DOMAIN mailbox
    BY <1>1, <1>2, LenProperties DEF EngineInv, FinishedAwaited, TypeOK
  <2>2. mailbox[Len(mailbox)] = [run |-> run, kind |-> "finished"]
    <3>1. mailbox[Len(mailbox)] \in Event
      BY <2>1, LenProperties, ElementOfSeq DEF EngineInv, TypeOK
    <3>2. mailbox[Len(mailbox)].run = run /\ mailbox[Len(mailbox)].kind = "finished"
      BY <1>1, <1>2, <2>1 DEF EngineInv, BusyInv, FinishedAwaited
    <3> QED BY <3>1, <3>2 DEF Event
  <2> QED BY <1>1, <2>1, <2>2 DEF FinishedPosted
<1>3. CASE ~running
  BY <1>1, <1>3 DEF EngineInv, IdleInv, FinishedPosted
<1> QED BY <1>2, <1>3

LEMMA DeletionStep ==
  EngineInv /\ [Next]_vars =>
    (thread # "none" /\ (thread' = "none" \/ run' # run) =>
       outcome # "running" /\ FinishedPosted)
<1> SUFFICES ASSUME EngineInv, [Next]_vars,
                    thread # "none", thread' = "none" \/ run' # run
             PROVE  outcome # "running" /\ FinishedPosted
  OBVIOUS
<1>1. CASE Restart \/ Destroyed
  BY <1>1, EndedIsFinished DEF Restart, Destroyed
<1>2. CASE StartFirst
  BY <1>2 DEF StartFirst
<1>3. CASE StartAgain \/ Cancel \/ FinishedReturns \/ Destroy
  BY <1>3 DEF StartAgain, Cancel, FinishedReturns, Destroy
<1>4. CASE DeliverProgress \/ DeliverFinished
  BY <1>4 DEF DeliverProgress, DeliverFinished, engine
<1>5. CASE RunBegins \/ ReportHost \/ RunReturns
  BY <1>5 DEF RunBegins, ReportHost, RunReturns, engine
<1>6. CASE JobEnds \/ EnterLoop \/ LeaveLoop
  BY <1>6 DEF JobEnds, EnterLoop, LeaveLoop, engine
<1>7. CASE UNCHANGED vars
  BY <1>7 DEF vars, engine
<1> QED
  BY <1>1, <1>2, <1>3, <1>4, <1>5, <1>6, <1>7 DEF Next, GuiStep, ThreadStep

THEOREM WorkersOutliveTheirRun == Spec => WorkerOutlivesRun
<1>1. EngineInv /\ [Next]_vars =>
        [thread # "none" /\ (thread' = "none" \/ run' # run) =>
           outcome # "running" /\ FinishedPosted]_vars
  BY DeletionStep
<1> QED BY EngineAlways, <1>1, PTL DEF Spec, WorkerOutlivesRun
=============================================================================
