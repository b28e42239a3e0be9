-------------------------- MODULE ScanSession_proofs --------------------------
(***************************************************************************)
(* Proofs of the safety properties of ScanSession, for any targets and any *)
(* number of scans and boxes.  Every step of the window is a step of the   *)
(* engine or leaves the engine alone, so that the engine's own invariant   *)
(* holds of a session; what the window adds is what a started event that   *)
(* is still queued, and a start() that waits for the old thread, keep from *)
(* being true for a while.                                                 *)
(***************************************************************************)
EXTENDS ScanSession, ScanEngine_proofs, FiniteSetTheorems

-----------------------------------------------------------------------------
(* The window drives the engine by its operations only. *)

LEMMA StartsByEngine == EngineStarts => [Next]_vars
BY DEF EngineStarts, Next

LEMMA SessionStep == [SessionNext]_sessionVars => [Next]_vars
<1> SUFFICES ASSUME [SessionNext]_sessionVars PROVE [Next]_vars
  OBVIOUS
<1>1. CASE EventStep \/ EngineReturns \/ ScanGoesOn \/ ScanReports
  BY <1>1 DEF EventStep, ScanStarted, HostReported, ScanFinished, EngineReturns,
              ScanGoesOn, ScanReports, Next, GuiStep
<1>2. CASE UserStep
  BY <1>2, StartsByEngine
     DEF UserStep, StartScan, AskToStart, AnswerYes, AnswerNo, ClearAndStart,
         PauseResume, StopScan, CloseWindow, LeaveProgram, Next
<1>3. CASE UNCHANGED sessionVars
  BY <1>3 DEF sessionVars
<1> QED
  BY <1>1, <1>2, <1>3 DEF SessionNext

(* Whatever the user presses and whenever, a session obeys the engine: what *)
(* is proved of ScanEngine holds in the window.  (MainWindow calls start(), *)
(* pause(), resume(), cancel() and nothing else of ScanEngine)              *)
THEOREM SessionDrivesEngine == SessionSpec => Init /\ [][Next]_vars
<1>1. SessionInit => Init
  BY DEF SessionInit
<1> QED
  BY <1>1, SessionStep, PTL DEF SessionSpec

LEMMA EngineInSession == SessionSpec => []EngineInv
BY SessionDrivesEngine, EngineInit, EngineNext, PTL

(* During a scan no event of an earlier one is delivered to the window's    *)
(* slots.                                                                   *)
THEOREM NoEventIsStaleInSession == SessionSpec => []NoStaleEvents
<1>1. EngineInv => NoStaleEvents
  BY DEF EngineInv, BusyInv, NoStaleEvents
<1> QED
  BY EngineInSession, <1>1, PTL

-----------------------------------------------------------------------------
(* Counting the queued events of a kind. *)

EventsIn(queue, kind) == {i \in DOMAIN queue : queue[i].kind = kind}

LEMMA CountFinite ==
  ASSUME NEW queue \in Seq(Event), NEW kind
  PROVE  /\ IsFiniteSet(EventsIn(queue, kind))
         /\ Cardinality(EventsIn(queue, kind)) \in Nat
<1>1. EventsIn(queue, kind) \in SUBSET (1 .. Len(queue)) /\ Len(queue) \in Nat
  BY LenProperties DEF EventsIn
<1>2. IsFiniteSet(1 .. Len(queue))
  BY <1>1, FS_Interval
<1>3. IsFiniteSet(EventsIn(queue, kind))
  BY <1>1, <1>2, FS_Subset
<1> QED
  BY <1>3, FS_CardinalityType

(* An event appended counts for its kind. *)
LEMMA CountAppended ==
  ASSUME NEW queue \in Seq(Event), NEW e \in Event, NEW kind
  PROVE  /\ EventsIn(Append(queue, e), kind) = {} <=>
              EventsIn(queue, kind) = {} /\ e.kind # kind
         /\ Cardinality(EventsIn(Append(queue, e), kind)) =
              Cardinality(EventsIn(queue, kind)) + (IF e.kind = kind THEN 1 ELSE 0)
<1> DEFINE longer == Append(queue, e)
           old == EventsIn(queue, kind)
           last == Len(queue) + 1
<1>1. /\ DOMAIN queue = 1 .. Len(queue) /\ Len(queue) \in Nat
      /\ DOMAIN longer = 1 .. last
      /\ \A i \in 1 .. Len(queue) : longer[i] = queue[i]
      /\ longer[last] = e
  BY AppendProperties, LenProperties
<1>2. last \notin old
  BY <1>1 DEF EventsIn
<1>3. CASE e.kind = kind
  <2>1. EventsIn(longer, kind) = old \cup {last}
    BY <1>1, <1>3 DEF EventsIn
  <2> HIDE DEF old, longer, last
  <2>2. Cardinality(old \cup {last}) = Cardinality(old) + 1
    BY <1>2, CountFinite, FS_AddElement DEF old
  <2> QED
    BY <1>3, <2>1, <2>2 DEF old, longer
<1>4. CASE e.kind # kind
  <2>1. EventsIn(longer, kind) = old
    BY <1>1, <1>4 DEF EventsIn
  <2> QED
    BY <1>4, <2>1, CountFinite
<1> QED
  BY <1>3, <1>4

(* The head taken away is counted no more; the others move up by one. *)
LEMMA CountTail ==
  ASSUME NEW queue \in Seq(Event), queue # <<>>, NEW kind
  PROVE  /\ Head(queue).kind # kind =>
              (EventsIn(Tail(queue), kind) = {} <=> EventsIn(queue, kind) = {})
         /\ Cardinality(EventsIn(queue, kind)) =
              Cardinality(EventsIn(Tail(queue), kind))
                + (IF Head(queue).kind = kind THEN 1 ELSE 0)
<1> DEFINE rest == EventsIn(Tail(queue), kind)
           others == EventsIn(queue, kind) \ {1}
           up == [i \in rest |-> i + 1]
<1>1. /\ Len(queue) \in Nat \ {0}
      /\ DOMAIN queue = 1 .. Len(queue)
      /\ DOMAIN Tail(queue) = 1 .. Len(queue) - 1
      /\ \A i \in 1 .. Len(queue) - 1 : Tail(queue)[i] = queue[i + 1]
      /\ Head(queue) = queue[1]
      /\ Tail(queue) \in Seq(Event)
  BY HeadTailProperties, LenProperties, EmptySeq
<1>2. \A i \in rest : i \in 1 .. Len(queue) - 1 /\ i + 1 \in others
  BY <1>1 DEF EventsIn
<1>3. \A j \in others : j - 1 \in rest /\ (j - 1) + 1 = j
  BY <1>1 DEF EventsIn
<1>4. up \in Bijection(rest, others)
  <2>1. up \in [rest -> others]
    BY <1>2
  <2>2. \A i, j \in rest : up[i] = up[j] => i = j
    BY <1>2
  <2>3. \A j \in others : \E i \in rest : up[i] = j
    BY <1>3
  <2> HIDE DEF up, rest, others
  <2> QED
    BY <2>1, <2>2, <2>3 DEF Bijection, Injection, Surjection, IsInjective
<1>5. Cardinality(others) = Cardinality(rest)
  <2> HIDE DEF up, others
  <2> QED
    BY <1>1, <1>4, CountFinite, FS_Bijection DEF ExistsBijection
<1>6. 1 \in EventsIn(queue, kind) <=> Head(queue).kind = kind
  BY <1>1 DEF EventsIn
<1>7. Cardinality(others) = IF Head(queue).kind = kind
                            THEN Cardinality(EventsIn(queue, kind)) - 1
                            ELSE Cardinality(EventsIn(queue, kind))
  BY <1>6, CountFinite, FS_RemoveElement
<1>8. Head(queue).kind # kind => (rest = {} <=> EventsIn(queue, kind) = {})
  BY <1>2, <1>3, <1>6
<1>9. Cardinality(rest) \in Nat /\ Cardinality(EventsIn(queue, kind)) \in Nat
  BY <1>1, CountFinite
<1> HIDE DEF rest, others
<1>10. Cardinality(EventsIn(queue, kind)) =
         Cardinality(rest) + (IF Head(queue).kind = kind THEN 1 ELSE 0)
  BY <1>5, <1>7, <1>9
<1> QED
  BY <1>8, <1>10 DEF rest

-----------------------------------------------------------------------------
(* The window's invariant. *)

(* What the window remembers of a scan: Start is disabled only during one,  *)
(* and from the moment its start is handled; a start() that waits for the   *)
(* old thread has already emptied the table.                                *)
LockedDuringScan == ~startEnabled => running \/ gui = "gone"
LockedOnceHandled == StartIsHandled => ~startEnabled
EmptiedBeforeJoin == gui = "joinStart" => handled = 0
Countable == handled \in Nat /\ IsFiniteSet(probed \cup skipped)

WindowInv ==
  /\ Countable
  /\ LockedDuringScan /\ LockedOnceHandled /\ ResumeMeansPaused
  /\ EmptiedBeforeJoin /\ TableIsOfThisScan

LEMMA WindowInit == SessionInit => WindowInv
<1> SUFFICES ASSUME SessionInit PROVE WindowInv
  OBVIOUS
<1>1. Countable
  BY FS_EmptySet DEF SessionInit, Init, Job!JobInit, Countable
<1> QED
  BY <1>1 DEF SessionInit, Init, WindowInv, LockedDuringScan, LockedOnceHandled,
              StartIsHandled, ResumeMeansPaused, EmptiedBeforeJoin, TableIsOfThisScan

(* How the pending events change with the queue. *)
LEMMA PendingPosted ==
  ASSUME EngineInv, NEW kind \in {"started", "progress", "finished"}, Post(kind), NEW k
  PROVE  /\ Pending(k)' = {} <=> Pending(k) = {} /\ kind # k
         /\ Cardinality(Pending(k)') = Cardinality(Pending(k)) + (IF kind = k THEN 1 ELSE 0)
<1>1. mailbox \in Seq(Event) /\ [run |-> run, kind |-> kind] \in Event
  BY DEF EngineInv, TypeOK, Event
<1>2. /\ Pending(k) = EventsIn(mailbox, k)
      /\ Pending(k)' = EventsIn(Append(mailbox, [run |-> run, kind |-> kind]), k)
  BY DEF Pending, EventsIn, Post
<1> QED
  BY <1>1, <1>2, CountAppended

LEMMA PendingDelivered ==
  ASSUME EngineInv, mailbox # <<>>, mailbox' = Tail(mailbox), NEW k
  PROVE  /\ Head(mailbox).kind # k => (Pending(k)' = {} <=> Pending(k) = {})
         /\ Cardinality(Pending(k)) =
              Cardinality(Pending(k)') + (IF Head(mailbox).kind = k THEN 1 ELSE 0)
<1>1. mailbox \in Seq(Event)
  BY DEF EngineInv, TypeOK
<1>2. Pending(k) = EventsIn(mailbox, k) /\ Pending(k)' = EventsIn(Tail(mailbox), k)
  BY DEF Pending, EventsIn
<1> QED
  BY <1>1, <1>2, CountTail

LEMMA PendingCount ==
  ASSUME EngineInv, NEW k
  PROVE  Cardinality(Pending(k)) \in Nat
<1>1. mailbox \in Seq(Event) /\ Pending(k) = EventsIn(mailbox, k)
  BY DEF EngineInv, TypeOK, Pending, EventsIn
<1> QED
  BY <1>1, CountFinite

LEMMA ReportsCount ==
  ASSUME Countable
  PROVE  Reports \in Nat
BY FS_CardinalityType DEF Countable, Reports

-----------------------------------------------------------------------------
(* The steps of the scan's thread, which leave the window alone. *)

(* A step that posts no report changes neither side of the table's bound.   *)
LEMMA TableKept ==
  ASSUME EngineInv, WindowInv, UNCHANGED <<probed, skipped, handled, running>>,
         Cardinality(Pending("progress")') = Cardinality(Pending("progress"))
  PROVE  Countable' /\ TableIsOfThisScan'
BY DEF WindowInv, Countable, TableIsOfThisScan, Reports

LEMMA ThreadSteps ==
  ASSUME EngineInv, WindowInv, ScanGoesOn
  PROVE  WindowInv'
<1>1. UNCHANGED <<running, gui, cancelAsked, probed, skipped, handled, startEnabled,
                  button, workerPaused>>
  BY DEF ScanGoesOn, ThreadStep, RunBegins, JobEnds, RunReturns, EnterLoop, LeaveLoop,
         engine, job, window, controls, Job!Complete, Job!GiveUp
<1>2. CASE RunBegins
  <2>1. Post("started") /\ thread = "starting"
    BY <1>2 DEF RunBegins
  <2>2. Pending("started")' # {}
        /\ Cardinality(Pending("progress")') = Cardinality(Pending("progress"))
    BY <2>1, PendingPosted, PendingCount
  <2>3. Countable' /\ TableIsOfThisScan'
    BY <1>1, <2>2, TableKept
  <2> QED
    BY <1>1, <2>2, <2>3
       DEF WindowInv, LockedDuringScan, LockedOnceHandled, StartIsHandled,
           ResumeMeansPaused, EmptiedBeforeJoin
<1>3. CASE RunReturns
  <2>1. Post("finished") /\ thread # "starting"
    BY <1>3 DEF RunReturns, PostFinished
  <2>2. /\ Pending("started")' = {} <=> Pending("started") = {}
        /\ Cardinality(Pending("progress")') = Cardinality(Pending("progress"))
    BY <2>1, PendingPosted, PendingCount
  <2>3. Countable' /\ TableIsOfThisScan'
    BY <1>1, <2>2, TableKept
  <2> QED
    BY <1>1, <2>1, <2>2, <2>3
       DEF WindowInv, LockedDuringScan, LockedOnceHandled, StartIsHandled,
           ResumeMeansPaused, EmptiedBeforeJoin
<1>4. CASE JobEnds \/ EnterLoop \/ LeaveLoop
  <2>1. thread # "starting" /\ mailbox' = mailbox
    BY <1>4 DEF JobEnds, EnterLoop, LeaveLoop
  <2>2. \A k : Pending(k)' = Pending(k)
    BY <2>1 DEF Pending
  <2>3. Countable' /\ TableIsOfThisScan'
    BY <1>1, <2>2, TableKept
  <2> QED
    BY <1>1, <2>1, <2>2, <2>3
       DEF WindowInv, LockedDuringScan, LockedOnceHandled, StartIsHandled,
           ResumeMeansPaused, EmptiedBeforeJoin
<1> QED
  BY <1>2, <1>3, <1>4 DEF ScanGoesOn, ThreadStep

(* A host reported is a host more in the queue and in the worker's count. *)
LEMMA ReportStep ==
  ASSUME EngineInv, WindowInv, ScanReports
  PROVE  WindowInv'
<1>1. UNCHANGED <<running, gui, thread, handled, startEnabled, button, workerPaused>>
      /\ Post("progress")
  BY DEF ScanReports, ReportHost, engine, window, controls
<1>2. PICK t \in Targets : Job!Probe(t) \/ Job!Skip(t)
  BY DEF ScanReports, ReportHost
<1>3. /\ t \notin probed \cup skipped /\ cancelAsked' = cancelAsked
      /\ (probed \cup skipped)' = (probed \cup skipped) \cup {t}
  BY <1>2 DEF Job!Probe, Job!Skip
<1>4. IsFiniteSet((probed \cup skipped)') /\ Reports' = Reports + 1
  <2>1. IsFiniteSet(probed \cup skipped)
    BY DEF WindowInv, Countable
  <2> DEFINE before == probed \cup skipped
  <2>2. IsFiniteSet(before \cup {t}) /\ Cardinality(before \cup {t}) = Cardinality(before) + 1
    <3> HIDE DEF before
    <3> QED
      BY <1>3, <2>1, FS_AddElement DEF before
  <2> QED
    BY <1>3, <2>2 DEF Reports
<1>5. /\ Pending("started")' = {} <=> Pending("started") = {}
      /\ Cardinality(Pending("progress")') = Cardinality(Pending("progress")) + 1
  BY <1>1, PendingPosted
<1>6. Countable' /\ TableIsOfThisScan'
  <2>1. Reports \in Nat /\ Cardinality(Pending("progress")) \in Nat
    BY ReportsCount, PendingCount DEF WindowInv
  <2> QED
    BY <1>1, <1>4, <1>5, <2>1 DEF WindowInv, Countable, TableIsOfThisScan
<1> QED
  BY <1>1, <1>3, <1>5, <1>6
     DEF WindowInv, LockedDuringScan, LockedOnceHandled, StartIsHandled,
         ResumeMeansPaused, EmptiedBeforeJoin

-----------------------------------------------------------------------------
(* The steps of the GUI thread. *)

(* A new worker starts with nothing reported, nothing queued and its start  *)
(* not handled.                                                             *)
LEMMA FreshScan ==
  ASSUME EngineInv, ~running, gui \in {"ready", "joinStart"}, CreateWorker,
         mailbox' = mailbox, gui' = "ready", handled' = 0
  PROVE  WindowInv'
<1>1. mailbox' = <<>>
  BY DEF EngineInv, IdleInv
<1>2. Pending("progress")' = {}
  BY <1>1 DEF Pending
<1>3. thread' = "starting" /\ running' /\ (probed \cup skipped)' = {}
  BY DEF CreateWorker
<1>4. Cardinality(Pending("progress")') = 0 /\ Reports' = 0 /\ Countable'
  BY <1>2, <1>3, FS_EmptySet DEF Reports, Countable
<1> QED
  BY <1>3, <1>4 DEF WindowInv, LockedDuringScan, LockedOnceHandled, StartIsHandled,
                    ResumeMeansPaused, EmptiedBeforeJoin, TableIsOfThisScan

(* Without a scan nothing but the Start button and an emptied table matter. *)
LEMMA NoScan ==
  ASSUME Countable', ~running', LockedDuringScan', EmptiedBeforeJoin'
  PROVE  WindowInv'
BY DEF WindowInv, LockedOnceHandled, StartIsHandled, ResumeMeansPaused, TableIsOfThisScan

LEMMA StartingSteps ==
  ASSUME EngineInv, WindowInv, ClearAndStart, gui = "ready"
  PROVE  WindowInv'
<1>1. handled' = 0 /\ UNCHANGED <<startEnabled, button>>
  BY DEF ClearAndStart, ClearTable, controls
<1>2. CASE running
  <2>1. UNCHANGED <<running, gui, thread, mailbox, probed, skipped, cancelAsked, workerPaused>>
    BY <1>2 DEF ClearAndStart, EngineStarts, vars, engine, job
  <2>2. Pending("progress")' = Pending("progress") /\ Pending("started")' = Pending("started")
    BY <2>1 DEF Pending
  <2>3. Cardinality(Pending("progress")) \in Nat /\ Reports \in Nat
    BY PendingCount, ReportsCount DEF WindowInv
  <2>4. Countable' /\ TableIsOfThisScan'
    BY <1>1, <2>1, <2>2, <2>3 DEF WindowInv, Countable, TableIsOfThisScan, Reports
  <2> QED
    BY <1>1, <2>1, <2>2, <2>4
       DEF WindowInv, LockedDuringScan, LockedOnceHandled, StartIsHandled,
           ResumeMeansPaused, EmptiedBeforeJoin
<1>3. CASE ~running /\ StartFirst
  BY <1>1, <1>3, FreshScan DEF StartFirst
<1>4. CASE ~running /\ StartAgain
  <2>1. gui' = "joinStart" /\ UNCHANGED <<running, probed, skipped>>
    BY <1>4 DEF StartAgain
  <2>2. Countable' /\ LockedDuringScan' /\ EmptiedBeforeJoin'
    BY <1>1, <1>4, <2>1 DEF WindowInv, Countable, LockedDuringScan, EmptiedBeforeJoin
  <2> QED
    BY <1>4, <2>1, <2>2, NoScan
<1> QED
  BY <1>2, <1>3, <1>4 DEF ClearAndStart, EngineStarts

LEMMA EngineSteps ==
  ASSUME EngineInv, WindowInv, EngineReturns
  PROVE  WindowInv'
<1>1. UNCHANGED <<handled, startEnabled, button, workerPaused>>
  BY DEF EngineReturns, window, controls
<1>2. CASE Restart
  <2>1. ~running /\ handled' = 0
    BY <1>1, <1>2 DEF Restart, EngineInv, JoinInv, WindowInv, EmptiedBeforeJoin
  <2> QED
    BY <1>2, <2>1, FreshScan DEF Restart
<1>3. CASE FinishedReturns
  <2>1. UNCHANGED <<running, gui, thread, mailbox, probed, skipped, cancelAsked>>
    BY <1>3 DEF FinishedReturns, job
  <2>2. \A k : Pending(k)' = Pending(k)
    BY <2>1 DEF Pending
  <2>3. Countable' /\ TableIsOfThisScan'
    BY <1>1, <2>1, <2>2, TableKept
  <2> QED
    BY <1>1, <2>1, <2>2, <2>3
       DEF WindowInv, LockedDuringScan, LockedOnceHandled, StartIsHandled,
           ResumeMeansPaused, EmptiedBeforeJoin
<1>4. CASE Destroyed
  <2>1. ~running' /\ gui' = "gone" /\ UNCHANGED <<probed, skipped>>
    BY <1>4 DEF Destroyed, job
  <2>2. Countable' /\ LockedDuringScan' /\ EmptiedBeforeJoin'
    BY <1>1, <2>1 DEF WindowInv, Countable, LockedDuringScan, EmptiedBeforeJoin
  <2> QED
    BY <2>1, <2>2, NoScan
<1> QED
  BY <1>2, <1>3, <1>4 DEF EngineReturns

(* The slots of the window. *)
LEMMA SlotSteps ==
  ASSUME EngineInv, WindowInv, EventStep
  PROVE  WindowInv'
<1>1. mailbox # <<>> /\ mailbox' = Tail(mailbox) /\ gui = "ready"
      /\ UNCHANGED <<gui, thread, probed, skipped, cancelAsked, workerPaused>>
  BY DEF EventStep, ScanStarted, HostReported, ScanFinished, DeliverProgress,
         DeliverFinished, engine, job
<1>2. Cardinality(Pending("progress")') \in Nat /\ handled \in Nat
  <2>1. EngineInv'
    BY EngineNext DEF EventStep, ScanStarted, HostReported, ScanFinished, Next, GuiStep
  <2> QED
    BY <2>1, PendingCount, CountFinite DEF WindowInv, Countable, EngineInv, TypeOK, Pending,
                                           EventsIn
<1>3. CASE ScanStarted
  <2>1. startEnabled' = FALSE /\ button' = "Pause" /\ UNCHANGED <<running, handled>>
        /\ Head(mailbox).kind = "started"
    BY <1>3 DEF ScanStarted, ResetText, DeliverProgress, engine
  <2>2. running
    BY <1>1 DEF EngineInv, IdleInv
  <2>3. Cardinality(Pending("progress")') = Cardinality(Pending("progress"))
    BY <1>1, <1>2, <2>1, PendingDelivered
  <2>4. Countable' /\ TableIsOfThisScan'
    BY <1>1, <2>1, <2>3, TableKept
  <2> QED
    BY <1>1, <2>1, <2>2, <2>4
       DEF WindowInv, LockedDuringScan, LockedOnceHandled, ResumeMeansPaused,
           EmptiedBeforeJoin
<1>4. CASE HostReported
  <2>1. handled' = handled + 1 /\ UNCHANGED <<running, startEnabled, button>>
        /\ Head(mailbox).kind = "progress"
    BY <1>4 DEF HostReported, DeliverProgress, engine, controls
  <2>2. /\ Pending("started")' = {} <=> Pending("started") = {}
        /\ Cardinality(Pending("progress")) = Cardinality(Pending("progress")') + 1
    BY <1>1, <2>1, PendingDelivered
  <2>3. Countable' /\ TableIsOfThisScan'
    BY <1>1, <1>2, <2>1, <2>2 DEF WindowInv, Countable, TableIsOfThisScan, Reports
  <2> QED
    BY <1>1, <2>1, <2>2, <2>3
       DEF WindowInv, LockedDuringScan, LockedOnceHandled, StartIsHandled,
           ResumeMeansPaused, EmptiedBeforeJoin
<1>5. CASE ScanFinished
  <2>1. startEnabled' = TRUE /\ ~running' /\ handled' = handled
    BY <1>5 DEF ScanFinished, EnablesStart, DeliverFinished, FinishedClearsRunning
  <2>2. Countable' /\ LockedDuringScan' /\ EmptiedBeforeJoin'
    BY <1>1, <2>1 DEF WindowInv, Countable, LockedDuringScan, EmptiedBeforeJoin
  <2> QED
    BY <2>1, <2>2, NoScan
<1> QED
  BY <1>3, <1>4, <1>5 DEF EventStep

(* Pressing Pause and Stop, closing and leaving: the queue and the table are *)
(* left alone.                                                              *)
LEMMA UserSteps ==
  ASSUME EngineInv, WindowInv, UserStep
  PROVE  WindowInv'
<1>1. CASE StartScan \/ AnswerYes
  BY <1>1, StartingSteps DEF StartScan, AnswerYes, OnStartScan, Dispatching
<1>2. CASE AskToStart \/ AnswerNo \/ PauseResume \/ StopScan
           \/ (CloseWindow /\ (running \/ UNCHANGED <<vars, workerPaused>>))
  <2>1. UNCHANGED <<running, gui, thread, mailbox, probed, skipped, handled, startEnabled>>
    BY <1>2 DEF AskToStart, AnswerNo, PauseResume, StopScan, CloseWindow, Cancel,
                CancelKeepsRunning, vars, engine, job, controls
  <2>2. \A k : Pending(k)' = Pending(k)
    BY <2>1 DEF Pending
  <2>3. Countable' /\ TableIsOfThisScan'
    BY <2>1, <2>2, TableKept
  <2>4. \/ UNCHANGED <<button, workerPaused, cancelAsked>>
        \/ cancelAsked'
        \/ button' = "Resume" => workerPaused'
    BY <1>2 DEF AskToStart, AnswerNo, PauseResume, StopScan, CloseWindow, Cancel, vars, job,
                controls
  <2>5. ResumeMeansPaused'
    BY <2>1, <2>2, <2>4 DEF WindowInv, ResumeMeansPaused, StartIsHandled
  <2> QED
    BY <2>1, <2>2, <2>3, <2>5
       DEF WindowInv, LockedDuringScan, LockedOnceHandled, StartIsHandled, EmptiedBeforeJoin
<1>3. CASE LeaveProgram
  <2>1. UNCHANGED <<handled, startEnabled, button, workerPaused, thread, probed, skipped>>
    BY <1>3 DEF LeaveProgram, Destroy, controls
  <2>2. CASE thread = "none"
    <3>1. ~running' /\ gui' = "gone"
      BY <1>3, <2>2 DEF LeaveProgram, Destroy
    <3>2. Countable' /\ LockedDuringScan' /\ EmptiedBeforeJoin'
      BY <2>1, <3>1 DEF WindowInv, Countable, LockedDuringScan, EmptiedBeforeJoin
    <3> QED
      BY <3>1, <3>2, NoScan
  <2>3. CASE thread # "none"
    <3>1. gui = "ready" /\ gui' = "joinDestroy" /\ cancelAsked' /\ UNCHANGED <<running, mailbox>>
      BY <1>3, <2>3 DEF LeaveProgram, Destroy, TeardownCancels
    <3>2. \A k : Pending(k)' = Pending(k)
      BY <3>1 DEF Pending
    <3>3. Countable' /\ TableIsOfThisScan'
      BY <2>1, <3>1, <3>2, TableKept
    <3> QED
      BY <2>1, <3>1, <3>2, <3>3
         DEF WindowInv, LockedDuringScan, LockedOnceHandled, StartIsHandled,
             ResumeMeansPaused, EmptiedBeforeJoin
  <2> QED
    BY <2>2, <2>3
<1> QED
  BY <1>1, <1>2, <1>3 DEF UserStep, CloseWindow

LEMMA WindowStutters ==
  ASSUME WindowInv, UNCHANGED sessionVars
  PROVE  WindowInv'
BY DEF sessionVars, vars, engine, job, window, controls, WindowInv, Countable,
       LockedDuringScan, LockedOnceHandled, StartIsHandled, ResumeMeansPaused,
       EmptiedBeforeJoin, TableIsOfThisScan, Reports, Pending

LEMMA WindowAlways == SessionSpec => []WindowInv
<1>1. EngineInv /\ WindowInv /\ [SessionNext]_sessionVars => WindowInv'
  BY SlotSteps, EngineSteps, ThreadSteps, ReportStep, UserSteps, WindowStutters
     DEF SessionNext
<1> QED
  BY WindowInit, EngineInSession, <1>1, PTL DEF SessionSpec

-----------------------------------------------------------------------------

(* Start can be pressed whenever no scan runs, and not from the moment the  *)
(* start of one is handled, in whatever order events, boxes, timer and      *)
(* buttons come.  (onScanStarted(), onScanFinished())                       *)
THEOREM ButtonsAlwaysFollowScan == SessionSpec => []ButtonsFollowScan
<1>1. WindowInv => ButtonsFollowScan
  BY DEF WindowInv, LockedDuringScan, LockedOnceHandled, ButtonsFollowScan
<1> QED
  BY WindowAlways, <1>1, PTL

(* The button that offers Resume never stands beside a scan that goes on,   *)
(* unless that scan was stopped.  (onPauseResume(), onScanStarted())        *)
THEOREM ResumeIsOfferedWhenPaused == SessionSpec => []ResumeMeansPaused
<1>1. WindowInv => ResumeMeansPaused
  BY DEF WindowInv
<1> QED
  BY WindowAlways, <1>1, PTL

(* No host of an earlier scan is left in the table of a running one, nor    *)
(* comes into it late.  (onStartScan() clears it before engine_.start())    *)
THEOREM TableHoldsThisScan == SessionSpec => []TableIsOfThisScan
<1>1. WindowInv => TableIsOfThisScan
  BY DEF WindowInv
<1> QED
  BY WindowAlways, <1>1, PTL
=============================================================================
