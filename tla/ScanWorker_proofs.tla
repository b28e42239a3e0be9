------------------------- MODULE ScanWorker_proofs -------------------------
(***************************************************************************)
(* Theorems about ScanWorker for every list of addresses, concurrency and  *)
(* ARP table: first how a scan is run, then what it tells and has found,    *)
(* that is, the counts it announces, those of its summary, and the devices *)
(* its events stand for.                                                   *)
(***************************************************************************)
EXTENDS ScanWorker, FiniteSetTheorems, SequenceTheorems, TLAPS

-----------------------------------------------------------------------------
(* Type correctness *)

LEMMA TasksNat == Tasks \subseteq Nat /\ \A t \in Tasks : 1 <= t /\ t <= N
BY NAssumption DEF Tasks

(* A device found by a task, and the events, are of their types. *)
LEMMA FoundDeviceType ==
  ASSUME TypeOK, NEW t \in Tasks
  PROVE  FoundDevice(t) \in Device
BY HostsAssumption DEF FoundDevice, Device, TypeOK

LEMMA EmitType ==
  ASSUME TypeOK, NEW e \in Event, Emit(e)
  PROVE  posted' \in Seq(Event)
BY DEF Emit, TypeOK

(* Within its loops the dispatcher has an address left to hand out. *)
Looping == dpc \in {"check", "lock", "testPause", "testCancel", "sleeping",
                    "recheck", "acquire", "gate"}
InRange ==
  /\ dpc = "prepare" => next = 1
  /\ Looping => next <= N
  /\ \A h \in updates : devices[h] # NoDevice

LEMMA TypeInit == Init => TypeOK /\ InRange
<1> SUFFICES ASSUME Init PROVE TypeOK /\ InRange
  OBVIOUS
<1> USE NAssumption, ConcurrencyAssumption DEF Init
<1>1. posted \in Seq(Event)
  OBVIOUS
<1>2. devices \in [Hosts -> Device \cup {NoDevice}]
  OBVIOUS
<1>3. /\ tpc \in [Tasks -> TaskPC]
      /\ result \in [Tasks -> Result]
      /\ localDone \in [Tasks -> Nat]
  BY DEF TaskPC, Result
<1>4. arpByIp \in [Hosts -> Macs \cup {NoMac}]
  OBVIOUS
<1>5. dpc \in DispatcherPC /\ next \in 1 .. N + 1 /\ permits \in Int
  BY DEF DispatcherPC
<1>6. TypeOK
  BY <1>1, <1>2, <1>3, <1>4, <1>5 DEF TypeOK
<1>7. InRange
  BY DEF InRange, Looping
<1> QED
  BY <1>6, <1>7

LEMMA TypeDispatcher ==
  ASSUME TypeOK, InRange, Dispatcher
  PROVE  TypeOK' /\ InRange'
<1> USE NAssumption DEF TypeOK, InRange, Looping, DispatcherPC, Goto
<1>1. CASE Prepare
  <2>1. [kind |-> "started"] \in Event
    BY DEF Event
  <2>2. posted' \in Seq(Event)
    BY <1>1, <2>1, EmitType DEF Prepare
  <2>3. arpByIp' \in [Hosts -> Macs \cup {NoMac}] /\ total' \in Nat
    BY <1>1, ArpAssumption, CountedAssumption DEF Prepare, TotalHosts
  <2> QED
    BY <1>1, <2>2, <2>3 DEF Prepare, cursor, tasks, flags, results
<1>2. CASE \/ CheckCancel \/ LockPauseMutex \/ TestPaused \/ TestCancelOrSleep
           \/ WaitTimesOut \/ RecheckCancel \/ WaitForDone \/ SkipEnrichment
           \/ AllUpdatesEmitted
  <2>1. CASE CheckCancel \/ LockPauseMutex \/ TestPaused \/ TestCancelOrSleep
    BY <2>1 DEF CheckCancel, LockPauseMutex, TestPaused, TestCancelOrSleep,
         OnlyGoto, AfterHeadTest, WhenPaused, cursor, tasks, flags, facts, results, history
  <2>2. CASE \/ WaitTimesOut \/ RecheckCancel \/ WaitForDone \/ SkipEnrichment
             \/ AllUpdatesEmitted
    BY <2>2 DEF WaitTimesOut, RecheckCancel, WaitForDone, SkipEnrichment,
         AllUpdatesEmitted, OnlyGoto, AfterHeadTest, WhenPaused,
         cursor, tasks, flags, facts, results, history
  <2> QED
    BY <1>2, <2>1, <2>2
<1>3. CASE AcquirePermit \/ AbandonHost
  <2>1. CASE AcquirePermit
    BY <2>1 DEF AcquirePermit, PermitAvailable, cursor, tasks, flags, facts, results, history
  <2>2. CASE AbandonHost
    BY <2>2 DEF AbandonHost, GiveBackPermit, cursor, tasks, flags, facts, results, history
  <2> QED
    BY <1>3, <2>1, <2>2
<1>4. CASE StartTask
  <2>1. next \in Tasks /\ next' \in 1 .. N + 1
    BY <1>4 DEF StartTask, Tasks
  <2>2. tpc' \in [Tasks -> TaskPC]
    BY <1>4 DEF StartTask, TaskPC
  <2>3. dpc' \in {"drain", "check"} /\ (dpc' = "check" => next' <= N)
    BY <1>4, <2>1 DEF StartTask, LastAddress, Tasks
  <2>4. next' \in Nat /\ sincePause' \in Nat
    BY <1>4 DEF StartTask
  <2>5. UNCHANGED <<permits, canceled, updates, result, localDone, ctl, cancel, paused,
                    arpByIp, total, done, hostsUp, risky, devices, posted>>
    BY <1>4 DEF StartTask, flags, facts, results
  <2> QED
    BY <2>1, <2>2, <2>3, <2>4, <2>5
<1>5. CASE EnrichMacsFromArp
  <2>1. PICK fresh \in ArpTables :
          /\ updates' = {h \in Hosts : NewMac(fresh, h)}
          /\ devices' = [h \in Hosts |-> IF NewMac(fresh, h)
                                      THEN [devices[h] EXCEPT !.mac = fresh[h]]
                                      ELSE devices[h]]
    BY <1>5 DEF EnrichMacsFromArp
  <2>2. ASSUME NEW h \in Hosts, NewMac(fresh, h)
        PROVE  [devices[h] EXCEPT !.mac = fresh[h]] \in Device
    <3>1. devices[h] \in Device /\ fresh[h] \in Macs
      BY <2>2, ArpAssumption DEF NewMac
    <3> QED
      BY <3>1 DEF Device
  <2>3. devices' \in [Hosts -> Device \cup {NoDevice}]
    BY <2>1, <2>2
  <2>4. updates' \subseteq Hosts /\ \A h \in updates' : devices'[h] # NoDevice
    BY <2>1, <2>2, NoDeviceAssumption
  <2> QED
    BY <1>5, <2>3, <2>4 DEF EnrichMacsFromArp, tasks, flags, facts, history
<1>6. CASE EmitUpdated
  <2>1. PICK h \in updates :
          Emit([kind |-> "updated", device |-> UpdatedDevice(h)])
    BY <1>6 DEF EmitUpdated
  <2>2. [kind |-> "updated", device |-> UpdatedDevice(h)] \in Event
    BY DEF UpdatedDevice, Event
  <2>3. posted' \in Seq(Event)
    BY <2>1, <2>2, EmitType
  <2> QED
    BY <1>6, <2>3 DEF EmitUpdated, tasks, flags, facts, results
<1>7. CASE Summarize
  BY <1>7 DEF Summarize, CanceledFlag, cursor, tasks, flags, facts, results, history
<1>8. CASE Finish
  <2>1. [kind |-> "finished",
         summary |-> [scanned |-> done, hostsUp |-> hostsUp, risky |-> risky,
                      canceled |-> canceled]] \in Event
    BY DEF Event, Summary
  <2>2. posted' \in Seq(Event)
    BY <1>8, <2>1, EmitType DEF Finish
  <2> QED
    BY <1>8, <2>2 DEF Finish, cursor, tasks, flags, facts, results
<1> QED
  BY <1>1, <1>2, <1>3, <1>4, <1>5, <1>6, <1>7, <1>8 DEF Dispatcher

LEMMA TypeTask ==
  ASSUME TypeOK, InRange, NEW t \in Tasks, TaskStep(t)
  PROVE  TypeOK' /\ InRange'
<1> USE DEF TypeOK, InRange, Looping, TaskGoto, TaskPC, Result
<1>1. CASE PoolRuns(t)
  BY <1>1 DEF PoolRuns, cursor, flags, facts, results, history
<1>2. CASE TaskChecksCancel(t)
  <2>1. tpc' \in [Tasks -> TaskPC] /\ result' \in [Tasks -> Result]
    BY <1>2 DEF TaskChecksCancel
  <2> QED
    BY <1>2, <2>1 DEF TaskChecksCancel, cursor, flags, facts, results, history
<1>3. CASE ProbeHost(t)
  <2>1. tpc' \in [Tasks -> TaskPC] /\ result' \in [Tasks -> Result]
    BY <1>3 DEF ProbeHost
  <2> QED
    BY <1>3, <2>1 DEF ProbeHost, cursor, flags, facts, results, history
<1>4. CASE ReleasePermit(t)
  BY <1>4 DEF ReleasePermit, GiveBackPermit, cursor, flags, facts, results, history
<1>5. CASE ReportDead(t)
  BY <1>5 DEF ReportDead, CountHost, cursor, flags, facts, history
<1>6. CASE ReportAlive(t)
  <2>1. HostOf[t] \in Hosts
    BY HostsAssumption
  <2>2. FoundDevice(t) \in Device /\ FoundDevice(t) # NoDevice
    BY FoundDeviceType, NoDeviceAssumption
  <2>3. /\ devices' \in [Hosts -> Device \cup {NoDevice}]
        /\ \A h \in Hosts : devices[h] # NoDevice => devices'[h] # NoDevice
    BY <1>6, <2>1, <2>2 DEF ReportAlive
  <2>4. risky' \in Nat
    BY <1>6 DEF ReportAlive, RiskyAfter
  <2> QED
    BY <1>6, <2>3, <2>4 DEF ReportAlive, CountHost, cursor, flags, facts, history
<1>7. CASE EmitDiscovered(t)
  <2>1. [kind |-> "discovered", device |-> FoundDevice(t)] \in Event
    BY FoundDeviceType DEF Event
  <2>2. posted' \in Seq(Event)
    BY <1>7, <2>1, EmitType DEF EmitDiscovered
  <2> QED
    BY <1>7, <2>2 DEF EmitDiscovered, cursor, flags, facts, results
<1>8. CASE EmitProgress(t)
  <2>1. [kind |-> "progress", done |-> AnnouncedCount(t), total |-> total] \in Event
    BY DEF Event, AnnouncedCount
  <2>2. posted' \in Seq(Event)
    BY <1>8, <2>1, EmitType DEF EmitProgress
  <2> QED
    BY <1>8, <2>2 DEF EmitProgress, cursor, flags, facts, results
<1> QED
  BY <1>1, <1>2, <1>3, <1>4, <1>5, <1>6, <1>7, <1>8 DEF TaskStep

LEMMA TypeControl ==
  ASSUME TypeOK, InRange, Control
  PROVE  TypeOK' /\ InRange'
<1> USE DEF TypeOK, InRange, Looping, OtherThreads, cursor, tasks, facts, results
<1>1. CASE RequestPause
  BY <1>1 DEF RequestPause
<1>2. CASE RequestResume
  BY <1>2 DEF RequestResume
<1>3. CASE RequestCancel \/ CancelUnpauses
  BY <1>3 DEF RequestCancel, CancelUnpauses
<1>4. CASE WakeAll
  BY <1>4 DEF WakeAll, DispatcherPC
<1> QED
  BY <1>1, <1>2, <1>3, <1>4 DEF Control, CompleteRequest

LEMMA TypeStutter ==
  ASSUME TypeOK, InRange, UNCHANGED vars
  PROVE  TypeOK' /\ InRange'
BY DEF TypeOK, InRange, Looping, vars, cursor, tasks, flags, facts, results,
   history

(* Every variable keeps its type, and the dispatcher never steps past the   *)
(* last address of its targets.                                             *)
THEOREM TypeCorrect == Spec => [](TypeOK /\ InRange)
<1>1. TypeOK /\ InRange /\ [Next]_vars => (TypeOK /\ InRange)'
  BY TypeDispatcher, TypeTask, TypeControl, TypeStutter DEF Next
<1> QED
  BY TypeInit, <1>1, PTL DEF Spec

-----------------------------------------------------------------------------
(* A scan that does not say it was canceled is complete.  The argument:     *)
(* cancel_ is never reset, so a summary that reads false was preceded by no *)
(* true; without a cancel the loops end only after the last address, no     *)
(* task skips its probe, and waitForDone() has joined them all.             *)

(* A task exists for each address up to the cursor and for no other.        *)
Fresh == \A t \in Tasks : tpc[t] = "none" <=> t >= next
(* A task has its result when it is past the probe.                         *)
Known == \A t \in Tasks :
           result[t] = "none" <=> tpc[t] \in {"none", "queued", "check", "probe"}
SkipsFollowCancel == (\E t \in Tasks : result[t] = "skipped") => cancel
LoopsComplete == ~Looping /\ dpc # "prepare" /\ ~cancel => next = N + 1

ScanInv ==
  /\ Fresh /\ Known /\ SkipsFollowCancel /\ LoopsComplete
  /\ NoTaskOutlivesRun /\ CompleteUnlessCanceled

LEMMA ScanInvInit == Init => ScanInv
BY NAssumption DEF Init, ScanInv, Fresh, Known, SkipsFollowCancel, LoopsComplete,
   Looping, NoTaskOutlivesRun, RunEnding, CompleteUnlessCanceled, SummaryReady, Tasks

(* Steps of the dispatcher that start no task: the tasks are unchanged, so  *)
(* what the step must respect is where it goes.                             *)
LEMMA ScanInvGoto ==
  ASSUME TypeOK, InRange, ScanInv, UNCHANGED <<next, tasks, cancel>>,
         LoopsComplete',
         ~RunEnding => ~RunEnding' \/ AllTasksReturned,
         SummaryReady => SummaryReady' /\ UNCHANGED canceled,
         ~SummaryReady => ~SummaryReady'
                          \/ (RunEnding /\ ~Looping /\ dpc # "prepare"
                              /\ canceled' = cancel)
  PROVE  ScanInv'
<1> USE DEF ScanInv, tasks
<1>1. Fresh' /\ Known' /\ SkipsFollowCancel'
  BY DEF Fresh, Known, SkipsFollowCancel
<1>2. NoTaskOutlivesRun'
  BY DEF NoTaskOutlivesRun, AllTasksReturned
<1>3. CompleteUnlessCanceled'
  <2>1. CASE SummaryReady
    BY <2>1 DEF CompleteUnlessCanceled
  <2>2. CASE ~SummaryReady /\ SummaryReady' /\ ~canceled'
    <3>1. ~cancel /\ next = N + 1
      BY <2>2 DEF LoopsComplete, TypeOK
    <3>2. \A t \in Tasks : tpc[t] = "done"
      BY <2>2, <3>1, NAssumption DEF NoTaskOutlivesRun, Fresh, Tasks
    <3> QED
      BY <3>1, <3>2 DEF CompleteUnlessCanceled, Known, SkipsFollowCancel
  <2> QED
    BY <2>1, <2>2 DEF CompleteUnlessCanceled
<1> QED
  BY <1>1, <1>2, <1>3

LEMMA ScanInvDispatcher ==
  ASSUME TypeOK, InRange, ScanInv, Dispatcher
  PROVE  ScanInv'
<1> USE DEF Goto, OnlyGoto, RunEnding, SummaryReady, cursor, tasks, flags
<1>1. CASE Prepare
  BY <1>1, ScanInvGoto, NAssumption DEF Prepare, LoopsComplete, Looping, InRange
<1>2. CASE CheckCancel \/ RecheckCancel
  BY <1>2, ScanInvGoto DEF CheckCancel, RecheckCancel, AfterHeadTest,
       LoopsComplete, Looping
<1>3. CASE LockPauseMutex \/ TestPaused \/ TestCancelOrSleep \/ WaitTimesOut
  BY <1>3, ScanInvGoto DEF LockPauseMutex, TestPaused, TestCancelOrSleep,
       WaitTimesOut, WhenPaused, LoopsComplete, Looping
<1>4. CASE AcquirePermit \/ AbandonHost
  BY <1>4, ScanInvGoto DEF AcquirePermit, AbandonHost, LoopsComplete, Looping
<1>5. CASE StartTask
  <2>1. next \in Tasks /\ next' = next + 1 /\ ~cancel
    BY <1>5 DEF StartTask, InRange, Looping, TypeOK, Tasks
  <2>2. tpc' = [tpc EXCEPT ![next] = "queued"] /\ UNCHANGED <<result, cancel, canceled>>
    BY <1>5 DEF StartTask
  <2>3. Fresh'
    BY <2>1, <2>2, NAssumption DEF ScanInv, Fresh, TypeOK, Tasks
  <2>4. Known' /\ SkipsFollowCancel'
    BY <2>1, <2>2 DEF ScanInv, Fresh, Known, SkipsFollowCancel, TypeOK, Tasks
  <2>5. LoopsComplete'
    BY <1>5, <2>1 DEF StartTask, LastAddress, LoopsComplete, Looping
  <2>6. ~RunEnding' /\ ~SummaryReady'
    BY <1>5 DEF StartTask
  <2> QED
    BY <2>3, <2>4, <2>5, <2>6
       DEF ScanInv, NoTaskOutlivesRun, CompleteUnlessCanceled
<1>6. CASE WaitForDone \/ SkipEnrichment \/ AllUpdatesEmitted
  BY <1>6, ScanInvGoto DEF WaitForDone, SkipEnrichment, AllUpdatesEmitted,
       ScanInv, LoopsComplete, Looping
<1>7. CASE EnrichMacsFromArp \/ EmitUpdated
  BY <1>7, ScanInvGoto DEF EnrichMacsFromArp, EmitUpdated, ScanInv,
       LoopsComplete, Looping
<1>8. CASE Summarize \/ Finish
  BY <1>8, ScanInvGoto DEF Summarize, Finish, CanceledFlag, ScanInv,
       LoopsComplete, Looping
<1> QED
  BY <1>1, <1>2, <1>3, <1>4, <1>5, <1>6, <1>7, <1>8 DEF Dispatcher

(* A task that takes a step was handed to the pool and has not returned, so *)
(* run() is not past waitForDone().                                         *)
LEMMA ScanInvTask ==
  ASSUME TypeOK, InRange, ScanInv, NEW t \in Tasks, TaskStep(t)
  PROVE  ScanInv'
<1>1. tpc[t] \notin {"none", "done"} /\ tpc'[t] # "none"
      /\ \A u \in Tasks : u # t => tpc'[u] = tpc[u] /\ result'[u] = result[u]
  BY DEF TaskStep, PoolRuns, TaskChecksCancel, ProbeHost, ReleasePermit, ReportDead,
     ReportAlive, EmitDiscovered, EmitProgress, CountHost, TaskGoto, TypeOK
<1>2. UNCHANGED <<dpc, next, cancel, canceled>>
  BY DEF TaskStep, PoolRuns, TaskChecksCancel, ProbeHost, ReleasePermit, ReportDead,
     ReportAlive, EmitDiscovered, EmitProgress, CountHost, cursor, flags
<1>3. ~RunEnding
  BY <1>1 DEF ScanInv, NoTaskOutlivesRun
<1>4. Fresh'
  BY <1>1, <1>2 DEF ScanInv, Fresh
<1>5. /\ result'[t] = "none" <=> tpc'[t] \in {"none", "queued", "check", "probe"}
      /\ result'[t] = "skipped" => cancel \/ result[t] = "skipped"
  <2>1. result[t] = "none" <=> tpc[t] \in {"none", "queued", "check", "probe"}
    BY DEF ScanInv, Known
  <2>2. CASE PoolRuns(t) \/ ReleasePermit(t) \/ EmitDiscovered(t) \/ EmitProgress(t)
    BY <2>1, <2>2 DEF PoolRuns, ReleasePermit, EmitDiscovered, EmitProgress,
         TaskGoto, TypeOK
  <2>3. CASE ReportDead(t) \/ ReportAlive(t)
    BY <2>1, <2>3 DEF ReportDead, ReportAlive, CountHost, TaskGoto, TypeOK
  <2>4. CASE TaskChecksCancel(t)
    BY <2>1, <2>4 DEF TaskChecksCancel, TaskGoto, TypeOK
  <2>5. CASE ProbeHost(t)
    BY <2>1, <2>5 DEF ProbeHost, TaskGoto, TypeOK
  <2> QED
    BY <2>2, <2>3, <2>4, <2>5 DEF TaskStep
<1>6. Known' /\ SkipsFollowCancel'
  BY <1>1, <1>2, <1>5 DEF ScanInv, Known, SkipsFollowCancel
<1>7. LoopsComplete'
  BY <1>2 DEF ScanInv, LoopsComplete, Looping
<1>8. NoTaskOutlivesRun' /\ CompleteUnlessCanceled'
  BY <1>2, <1>3 DEF NoTaskOutlivesRun, CompleteUnlessCanceled, RunEnding, SummaryReady
<1> QED
  BY <1>4, <1>6, <1>7, <1>8 DEF ScanInv

(* A request can set cancel_, never reset it, and waking the dispatcher     *)
(* keeps it in its loops.                                                   *)
LEMMA ScanInvControl ==
  ASSUME TypeOK, InRange, ScanInv, Control
  PROVE  ScanInv'
<1>1. UNCHANGED <<next, tpc, result, canceled>> /\ (cancel => cancel')
  BY DEF Control, CompleteRequest, RequestPause, RequestResume, RequestCancel,
     CancelUnpauses, WakeAll, OtherThreads, cursor, tasks
<1>2. dpc' = dpc \/ (dpc = "sleeping" /\ dpc' = "lock")
  BY DEF Control, CompleteRequest, RequestPause, RequestResume, RequestCancel,
     CancelUnpauses, WakeAll
<1>3. Fresh' /\ Known' /\ SkipsFollowCancel'
  BY <1>1 DEF ScanInv, Fresh, Known, SkipsFollowCancel
<1>4. LoopsComplete'
  BY <1>1, <1>2 DEF ScanInv, LoopsComplete, Looping
<1>5. NoTaskOutlivesRun' /\ CompleteUnlessCanceled'
  BY <1>1, <1>2 DEF ScanInv, NoTaskOutlivesRun, CompleteUnlessCanceled, RunEnding,
       SummaryReady
<1> QED
  BY <1>3, <1>4, <1>5 DEF ScanInv

LEMMA ScanInvStutter ==
  ASSUME ScanInv, UNCHANGED vars
  PROVE  ScanInv'
BY DEF ScanInv, Fresh, Known, SkipsFollowCancel, LoopsComplete, Looping,
   NoTaskOutlivesRun, RunEnding, CompleteUnlessCanceled, SummaryReady, vars,
   cursor, tasks, flags

LEMMA ScanInvariant == Spec => []ScanInv
<1>1. TypeOK /\ InRange /\ ScanInv /\ [Next]_vars => ScanInv'
  BY ScanInvDispatcher, ScanInvTask, ScanInvControl, ScanInvStutter DEF Next
<1> QED
  BY ScanInvInit, <1>1, TypeCorrect, PTL DEF Spec

(* Once waitForDone() has returned no task runs, so none touches the        *)
(* semaphore of run(), the results, or a worker about to be deleted.        *)
THEOREM TasksAreJoined == Spec => []NoTaskOutlivesRun
<1>1. ScanInv => NoTaskOutlivesRun
  BY DEF ScanInv
<1> QED
  BY ScanInvariant, <1>1, PTL

(* A scan whose summary does not read canceled probed every address of its  *)
(* targets, whenever cancels, pauses and resumes came.                      *)
THEOREM UncanceledIsComplete == Spec => []CompleteUnlessCanceled
<1>1. ScanInv => CompleteUnlessCanceled
  BY DEF ScanInv
<1> QED
  BY ScanInvariant, <1>1, PTL

-----------------------------------------------------------------------------
(* Pause and resume *)

(* While the dispatcher is between its test and its wait, flags that say    *)
(* "run" are followed by the wakeAll() of whoever set them.                 *)
WakeInv ==
  /\ NoLostWakeup
  /\ dpc = "testCancel" /\ ~cancel /\ ~paused => ctl # "idle"

(* Setting a flag outside pauseMutex_ loses no wake-up, since the wakeAll() *)
(* that follows waits for the mutex the dispatcher holds from its test of   *)
(* the flags until it sleeps.                                               *)
THEOREM WakeupsAreNotLost == Spec => []NoLostWakeup
<1>1. Init => WakeInv
  BY DEF Init, WakeInv, NoLostWakeup
<1>2. TypeOK /\ WakeInv /\ [Next]_vars => WakeInv'
  <2> SUFFICES ASSUME TypeOK, WakeInv, [Next]_vars PROVE WakeInv'
    OBVIOUS
  <2> USE DEF WakeInv, NoLostWakeup, Goto, OnlyGoto, flags
  <2>1. CASE Dispatcher
    BY <2>1 DEF Dispatcher, Prepare, CheckCancel, LockPauseMutex, TestPaused,
         TestCancelOrSleep, WaitTimesOut, RecheckCancel, AcquirePermit, AbandonHost,
         StartTask, WaitForDone, SkipEnrichment, EnrichMacsFromArp, EmitUpdated,
         AllUpdatesEmitted, Summarize, Finish, AfterHeadTest, WhenPaused
  <2>2. ASSUME NEW t \in Tasks, TaskStep(t) PROVE WakeInv'
    BY <2>2 DEF TaskStep, PoolRuns, TaskChecksCancel, ProbeHost, ReleasePermit,
         ReportDead, ReportAlive, EmitDiscovered, EmitProgress, CountHost
  <2>3. CASE Control
    BY <2>3 DEF Control, CompleteRequest, RequestPause, RequestResume,
         RequestCancel, CancelUnpauses, WakeAll, MutexFree, TypeOK
  <2>4. CASE UNCHANGED vars
    BY <2>4 DEF vars
  <2> QED
    BY <2>1, <2>2, <2>3, <2>4 DEF Next
<1>3. WakeInv => NoLostWakeup
  BY DEF WakeInv
<1>4. Spec => []TypeOK
  BY TypeCorrect, PTL
<1> QED
  BY <1>1, <1>2, <1>3, <1>4, PTL DEF Spec

(* The pause is honoured at the first test after it: a dispatcher past that *)
(* test has started nothing since, or is on its way out with a cancel.      *)
PauseInv ==
  paused =>
    /\ sincePause <= 1
    /\ dpc \in {"recheck", "acquire", "gate"} /\ ~cancel => sincePause = 0

(* A paused scan hands at most one more host to the pool.                   *)
THEOREM PauseStopsTheScan == Spec => []PauseHolds
<1>1. Init => PauseInv
  BY DEF Init, PauseInv
<1>2. TypeOK /\ PauseInv /\ [Next]_vars => PauseInv'
  <2> SUFFICES ASSUME TypeOK, PauseInv, [Next]_vars PROVE PauseInv'
    OBVIOUS
  <2> USE DEF PauseInv, Goto, OnlyGoto, flags, history
  <2>1. CASE StartTask
    BY <2>1 DEF StartTask, TypeOK
  <2>2. CASE Dispatcher /\ ~StartTask
    <3>1. UNCHANGED <<paused, cancel, sincePause>>
      BY <2>2 DEF Dispatcher, Prepare, CheckCancel, LockPauseMutex, TestPaused,
           TestCancelOrSleep, WaitTimesOut, RecheckCancel, AcquirePermit,
           AbandonHost, WaitForDone, SkipEnrichment, EnrichMacsFromArp,
           EmitUpdated, AllUpdatesEmitted, Summarize, Finish
    <3>2. dpc' \in {"recheck", "acquire", "gate"} /\ ~cancel =>
            dpc \in {"recheck", "acquire", "gate"} \/ ~paused
      BY <2>2 DEF Dispatcher, Prepare, CheckCancel, LockPauseMutex, TestPaused,
           TestCancelOrSleep, WaitTimesOut, RecheckCancel, AcquirePermit,
           AbandonHost, WaitForDone, SkipEnrichment, EnrichMacsFromArp,
           EmitUpdated, AllUpdatesEmitted, Summarize, Finish, AfterHeadTest,
           WhenPaused
    <3> QED
      BY <3>1, <3>2
  <2>3. ASSUME NEW t \in Tasks, TaskStep(t) PROVE PauseInv'
    BY <2>3 DEF TaskStep, PoolRuns, TaskChecksCancel, ProbeHost, ReleasePermit,
         ReportDead, ReportAlive, EmitDiscovered, EmitProgress, CountHost
  <2>4. CASE Control
    <3>1. CASE RequestPause
      BY <3>1 DEF RequestPause
    <3>2. CASE RequestResume \/ CancelUnpauses
      BY <3>2 DEF RequestResume, CancelUnpauses
    <3>3. CASE RequestCancel \/ WakeAll
      BY <3>3 DEF RequestCancel, WakeAll
    <3> QED
      BY <2>4, <3>1, <3>2, <3>3 DEF Control, CompleteRequest
  <2>5. CASE UNCHANGED vars
    BY <2>5 DEF vars
  <2> QED
    BY <2>1, <2>2, <2>3, <2>4, <2>5 DEF Next
<1>3. PauseInv => PauseHolds
  BY DEF PauseInv, PauseHolds
<1>4. Spec => []TypeOK
  BY TypeCorrect, PTL
<1> QED
  BY <1>1, <1>2, <1>3, <1>4, PTL DEF Spec

-----------------------------------------------------------------------------
(* Refinement: the threads keep the promise of ScanJob.                     *)

LEMMA JobInitially == Init => Job!JobInit
BY DEF Init, Job!JobInit, Reported, Probed, Outcome, SummaryReady

(* A report adds its task to the accounted ones, once.                      *)
LEMMA JobReport ==
  ASSUME TypeOK, ScanInv, NEW t \in Tasks, ReportDead(t) \/ ReportAlive(t)
  PROVE  Job!Probe(t) \/ Job!Skip(t)
<1>1. /\ tpc[t] = "report" /\ Reported' = Reported \cup {t}
      /\ UNCHANGED <<dpc, result, cancel, canceled>>
  BY DEF ReportDead, ReportAlive, CountHost, TaskGoto, TypeOK, Reported, flags
<1>2. Outcome = "running" /\ Outcome' = Outcome
  BY <1>1 DEF Outcome, SummaryReady, ScanInv, NoTaskOutlivesRun, RunEnding
<1>3. t \notin Reported
  BY <1>1 DEF Reported
<1>4. CASE result[t] = "skipped"
  <2>1. cancel /\ Probed' = Probed /\ (Reported \ Probed)' = (Reported \ Probed) \cup {t}
    BY <1>1, <1>3, <1>4 DEF Probed, ScanInv, SkipsFollowCancel
  <2> QED
    BY <1>1, <1>2, <1>3, <2>1 DEF Job!Skip, Probed
<1>5. CASE result[t] # "skipped"
  <2>1. Probed' = Probed \cup {t} /\ (Reported \ Probed)' = Reported \ Probed
    BY <1>1, <1>3, <1>5 DEF Probed
  <2> QED
    BY <1>1, <1>2, <1>3, <2>1 DEF Job!Probe, Probed
<1> QED
  BY <1>4, <1>5

(* The other steps of a task leave the job as it is.                        *)
LEMMA JobTask ==
  ASSUME TypeOK, ScanInv, NEW t \in Tasks, TaskStep(t)
  PROVE  [Job!JobNext]_(Job!jobVars)
<1>1. CASE ReportDead(t) \/ ReportAlive(t)
  BY <1>1, JobReport DEF Job!JobNext
<1>2. CASE \/ PoolRuns(t) \/ TaskChecksCancel(t) \/ ProbeHost(t)
           \/ ReleasePermit(t) \/ EmitDiscovered(t) \/ EmitProgress(t)
  <2>1. UNCHANGED <<Reported, dpc, cancel, canceled>>
    BY <1>2 DEF PoolRuns, TaskChecksCancel, ProbeHost, ReleasePermit,
         EmitDiscovered, EmitProgress, TaskGoto, TypeOK, Reported, flags
  <2>2. \A u \in Reported : result'[u] = result[u]
    BY <1>2 DEF PoolRuns, TaskChecksCancel, ProbeHost, ReleasePermit,
         EmitDiscovered, EmitProgress, TaskGoto, TypeOK, Reported
  <2>3. UNCHANGED <<Probed, Outcome>>
    BY <2>1, <2>2 DEF Probed, Outcome, SummaryReady
  <2> QED
    BY <2>1, <2>3 DEF Job!jobVars
<1> QED
  BY <1>1, <1>2 DEF TaskStep

(* The summary ends the job, completely unless a cancel was asked for.      *)
LEMMA JobDispatcher ==
  ASSUME TypeOK, ScanInv, Dispatcher
  PROVE  [Job!JobNext]_(Job!jobVars)
<1> USE DEF Goto, OnlyGoto, tasks, flags
<1>1. CASE Summarize
  <2>1. /\ Outcome = "running" /\ Outcome' = IF cancel THEN "canceled" ELSE "complete"
        /\ UNCHANGED <<Probed, Reported, cancel>>
    BY <1>1 DEF Summarize, CanceledFlag, Outcome, SummaryReady, Probed, Reported
  <2>2. CASE cancel
    BY <2>1, <2>2 DEF Job!JobNext, Job!GiveUp
  <2>3. CASE ~cancel
    <3>1. next = N + 1 /\ dpc = "summarize"
      BY <1>1, <2>3 DEF Summarize, ScanInv, LoopsComplete, Looping
    <3>2. \A t \in Tasks : tpc[t] = "done" /\ result[t] # "skipped"
      BY <2>3, <3>1, NAssumption
         DEF ScanInv, NoTaskOutlivesRun, RunEnding, Fresh, SkipsFollowCancel, Tasks
    <3>3. Probed = Tasks
      BY <3>2 DEF Probed, Reported
    <3> QED
      BY <2>1, <2>3, <3>3 DEF Job!JobNext, Job!Complete
  <2> QED
    BY <2>2, <2>3
<1>2. CASE StartTask
  <2>1. next \in Tasks => tpc[next] = "none"
    BY DEF ScanInv, Fresh, Tasks, TypeOK
  <2>2. UNCHANGED <<Reported, result, cancel>> /\ ~SummaryReady /\ ~SummaryReady'
    BY <1>2, <2>1 DEF StartTask, Reported, TypeOK, SummaryReady
  <2> QED
    BY <2>2 DEF Job!jobVars, Probed, Outcome
<1>3. CASE Dispatcher /\ ~Summarize /\ ~StartTask
  <2>1. UNCHANGED <<tpc, result, cancel, canceled, SummaryReady>>
    BY <1>3 DEF Dispatcher, Prepare, CheckCancel, LockPauseMutex, TestPaused,
         TestCancelOrSleep, WaitTimesOut, RecheckCancel, AcquirePermit, AbandonHost,
         WaitForDone, SkipEnrichment, EnrichMacsFromArp, EmitUpdated,
         AllUpdatesEmitted, Finish, AfterHeadTest, WhenPaused, SummaryReady
  <2> QED
    BY <2>1 DEF Job!jobVars, Probed, Reported, Outcome
<1> QED
  BY <1>1, <1>2, <1>3

LEMMA JobControl ==
  ASSUME TypeOK, Control
  PROVE  [Job!JobNext]_(Job!jobVars)
<1>1. UNCHANGED <<tpc, result, canceled, SummaryReady>>
  BY DEF Control, CompleteRequest, RequestPause, RequestResume, RequestCancel,
     CancelUnpauses, WakeAll, OtherThreads, tasks, SummaryReady
<1>2. cancel' = cancel \/ cancel' = TRUE
  BY DEF Control, CompleteRequest, RequestPause, RequestResume, RequestCancel,
     CancelUnpauses, WakeAll
<1>3. UNCHANGED <<Probed, Reported, Outcome>>
  BY <1>1 DEF Probed, Reported, Outcome
<1> QED
  BY <1>2, <1>3 DEF Job!jobVars, Job!JobNext, Job!AskCancel, TypeOK

(* Whatever the threads do, a target is accounted for at most once, skipped *)
(* only after a cancel, and the outcome is complete only if all were probed. *)
THEOREM ImplementsScanJob == Spec => KeepsPromise
<1>1. TypeOK /\ ScanInv /\ [Next]_vars => [Job!JobNext]_(Job!jobVars)
  <2> SUFFICES ASSUME TypeOK, ScanInv, [Next]_vars
               PROVE  [Job!JobNext]_(Job!jobVars)
    OBVIOUS
  <2>1. CASE UNCHANGED vars
    BY <2>1 DEF vars, tasks, flags, Job!jobVars, Probed, Reported, Outcome, SummaryReady
  <2> QED
    BY <2>1, JobDispatcher, JobTask, JobControl DEF Next
<1>2. Spec => []TypeOK
  BY TypeCorrect, PTL
<1> QED
  BY JobInitially, <1>1, <1>2, ScanInvariant, PTL DEF Spec, KeepsPromise, Job!JobSafety

-----------------------------------------------------------------------------
(* Permits and streaming *)

LEMMA TaskSets ==
  ASSUME NEW S \in SUBSET Tasks
  PROVE  IsFiniteSet(S) /\ Cardinality(S) \in Nat
<1>1. IsFiniteSet(Tasks)
  BY FS_Interval, NAssumption DEF Tasks
<1>2. IsFiniteSet(S)
  BY <1>1, FS_Subset
<1> QED
  BY <1>2, FS_CardinalityType

AtGate == IF dpc = "gate" THEN 1 ELSE 0
PermitInv ==
  /\ permits >= 0
  /\ permits + Cardinality(HoldsPermit) + AtGate = Concurrency
  /\ Cardinality(OnPoolThread) <= Concurrency

LEMMA PermitInit == Init => PermitInv
<1> SUFFICES ASSUME Init PROVE PermitInv
  OBVIOUS
<1>1. HoldsPermit = {} /\ OnPoolThread = {}
  BY DEF Init, HoldsPermit, OnPoolThread
<1> QED
  BY <1>1, FS_EmptySet, ConcurrencyAssumption DEF Init, PermitInv, AtGate

(* Steps of the dispatcher: a permit is taken on the way to the gate, and   *)
(* there handed to the new task or given back.                              *)
LEMMA PermitDispatcher ==
  ASSUME TypeOK, InRange, Fresh, PermitInv, Dispatcher
  PROVE  PermitInv'
<1> USE DEF Goto, OnlyGoto, tasks
<1>1. CASE StartTask
  <2>1. next \in Tasks /\ tpc[next] = "none"
    BY <1>1 DEF StartTask, InRange, Looping, TypeOK, Tasks, Fresh
  <2>2. HoldsPermit' = HoldsPermit \cup {next} /\ OnPoolThread' = OnPoolThread
    BY <1>1, <2>1 DEF StartTask, HoldsPermit, OnPoolThread, TypeOK
  <2>3. next \notin HoldsPermit /\ HoldsPermit \in SUBSET Tasks
    BY <2>1 DEF HoldsPermit
  <2>4. Cardinality(HoldsPermit') = Cardinality(HoldsPermit) + 1
    BY <2>2, <2>3, TaskSets, FS_AddElement
  <2>5. permits' = permits /\ AtGate = 1 /\ AtGate' = 0
    BY <1>1 DEF StartTask, AtGate
  <2> QED
    BY <2>2, <2>3, <2>4, <2>5, TaskSets, ConcurrencyAssumption DEF PermitInv, TypeOK
<1>2. CASE Dispatcher /\ ~StartTask
  <2>1. UNCHANGED <<HoldsPermit, OnPoolThread>>
    BY <1>2 DEF Dispatcher, Prepare, CheckCancel, LockPauseMutex, TestPaused,
         TestCancelOrSleep, WaitTimesOut, RecheckCancel, AcquirePermit,
         AbandonHost, WaitForDone, SkipEnrichment, EnrichMacsFromArp,
         EmitUpdated, AllUpdatesEmitted, Summarize, Finish, HoldsPermit, OnPoolThread
  <2>2. \/ AtGate' = AtGate /\ permits' = permits
        \/ permits > 0 /\ permits' = permits - 1 /\ AtGate = 0 /\ AtGate' = 1
        \/ permits' = permits + 1 /\ AtGate = 1 /\ AtGate' = 0
    <3>1. CASE AcquirePermit \/ AbandonHost
      BY <3>1 DEF AcquirePermit, AbandonHost, PermitAvailable, GiveBackPermit, AtGate
    <3>2. CASE ~AcquirePermit /\ ~AbandonHost
      BY <1>2, <3>2 DEF Dispatcher, Prepare, CheckCancel, LockPauseMutex,
           TestPaused, TestCancelOrSleep, WaitTimesOut, RecheckCancel,
           WaitForDone, SkipEnrichment, EnrichMacsFromArp, EmitUpdated,
           AllUpdatesEmitted, Summarize, Finish, AfterHeadTest, WhenPaused, AtGate
    <3> QED
      BY <3>1, <3>2
  <2>3. Cardinality(HoldsPermit) \in Nat /\ AtGate \in Nat
    BY TaskSets DEF HoldsPermit, AtGate
  <2> QED
    BY <2>1, <2>2, <2>3, ConcurrencyAssumption DEF PermitInv, TypeOK
<1> QED
  BY <1>1, <1>2

(* Steps of a task: it keeps its permit until it releases it, and its       *)
(* thread until it has reported.                                            *)
LEMMA PermitTask ==
  ASSUME TypeOK, PermitInv, NEW t \in Tasks, TaskStep(t)
  PROVE  PermitInv'
<1> USE DEF TaskGoto
<1>1. HoldsPermit \in SUBSET Tasks /\ OnPoolThread \in SUBSET Tasks
  BY DEF HoldsPermit, OnPoolThread
<1>2. /\ Cardinality(HoldsPermit) \in Nat /\ Cardinality(OnPoolThread) \in Nat
      /\ IsFiniteSet(HoldsPermit) /\ IsFiniteSet(OnPoolThread)
  BY <1>1, TaskSets
<1>3. UNCHANGED AtGate
  BY DEF TaskStep, PoolRuns, TaskChecksCancel, ProbeHost, ReleasePermit, ReportDead,
     ReportAlive, EmitDiscovered, EmitProgress, CountHost, AtGate
<1>4. CASE PoolRuns(t)
  <2>1. /\ HoldsPermit' = HoldsPermit /\ OnPoolThread' = OnPoolThread \cup {t}
        /\ t \notin OnPoolThread /\ Cardinality(OnPoolThread) < Concurrency
        /\ permits' = permits
    BY <1>4 DEF PoolRuns, HoldsPermit, OnPoolThread, TypeOK
  <2>2. Cardinality(OnPoolThread') = Cardinality(OnPoolThread) + 1
    BY <1>2, <2>1, FS_AddElement
  <2> QED
    BY <1>2, <1>3, <2>1, <2>2, ConcurrencyAssumption DEF PermitInv, TypeOK
<1>5. CASE ReleasePermit(t)
  <2>1. /\ HoldsPermit' = HoldsPermit \ {t} /\ t \in HoldsPermit
        /\ OnPoolThread' = OnPoolThread /\ permits' = permits + 1
    BY <1>5 DEF ReleasePermit, GiveBackPermit, HoldsPermit, OnPoolThread, TypeOK
  <2>2. Cardinality(HoldsPermit') = Cardinality(HoldsPermit) - 1
    BY <1>2, <2>1, FS_RemoveElement
  <2> QED
    BY <1>2, <1>3, <2>1, <2>2, ConcurrencyAssumption DEF PermitInv, TypeOK
<1>6. CASE EmitProgress(t)
  <2>1. /\ HoldsPermit' = HoldsPermit /\ permits' = permits
        /\ OnPoolThread' = OnPoolThread \ {t} /\ t \in OnPoolThread
    BY <1>6 DEF EmitProgress, HoldsPermit, OnPoolThread, TypeOK
  <2>2. Cardinality(OnPoolThread') = Cardinality(OnPoolThread) - 1
    BY <1>2, <2>1, FS_RemoveElement
  <2> QED
    BY <1>2, <1>3, <2>1, <2>2, ConcurrencyAssumption DEF PermitInv, TypeOK
<1>7. CASE \/ TaskChecksCancel(t) \/ ProbeHost(t) \/ ReportDead(t)
           \/ ReportAlive(t) \/ EmitDiscovered(t)
  <2>1. UNCHANGED <<HoldsPermit, OnPoolThread, permits>>
    BY <1>7 DEF TaskChecksCancel, ProbeHost, ReportDead, ReportAlive, CountHost,
         EmitDiscovered, HoldsPermit, OnPoolThread, TypeOK
  <2> QED
    BY <1>3, <2>1 DEF PermitInv
<1> QED
  BY <1>4, <1>5, <1>6, <1>7 DEF TaskStep

LEMMA PermitControl ==
  ASSUME PermitInv, Control \/ UNCHANGED vars
  PROVE  PermitInv'
<1>1. UNCHANGED <<tpc, permits>> /\ (dpc' = dpc \/ (dpc = "sleeping" /\ dpc' = "lock"))
  BY DEF Control, CompleteRequest, RequestPause, RequestResume, RequestCancel,
     CancelUnpauses, WakeAll, OtherThreads, tasks, vars
<1>2. UNCHANGED <<AtGate, HoldsPermit, OnPoolThread>>
  BY <1>1 DEF AtGate, HoldsPermit, OnPoolThread
<1> QED
  BY <1>1, <1>2 DEF PermitInv

LEMMA PermitInvariant == Spec => []PermitInv
<1>1. TypeOK /\ InRange /\ ScanInv /\ PermitInv /\ [Next]_vars => PermitInv'
  BY PermitDispatcher, PermitTask, PermitControl DEF Next, ScanInv
<1> QED
  BY PermitInit, <1>1, TypeCorrect, ScanInvariant, PTL DEF Spec

(* No path loses or invents a permit: acquire() cannot block for good while *)
(* tasks return, and never lets more than Concurrency of them in.           *)
THEOREM PermitsAreConserved == Spec => []PermitConservation
<1>1. PermitInv => PermitConservation
  BY DEF PermitInv, AtGate, PermitConservation
<1> QED
  BY PermitInvariant, <1>1, PTL

(* However many addresses a target has, at most 2 * Concurrency tasks exist *)
(* at a time: those with a permit, and those on a thread without one.       *)
THEOREM ScanIsStreamed == Spec => []InFlightBounded
<1>1. TypeOK /\ PermitInv => InFlightBounded
  <2> SUFFICES ASSUME TypeOK, PermitInv PROVE InFlightBounded
    OBVIOUS
  <2>1. InFlight = HoldsPermit \cup OnPoolThread
    BY DEF InFlight, HoldsPermit, OnPoolThread, TypeOK, TaskPC
  <2>2. HoldsPermit \in SUBSET Tasks /\ OnPoolThread \in SUBSET Tasks
    BY DEF HoldsPermit, OnPoolThread
  <2>3. HoldsPermit \cap OnPoolThread \in SUBSET Tasks
    BY <2>2
  <2>4. Cardinality(InFlight) <= Cardinality(HoldsPermit) + Cardinality(OnPoolThread)
    <3>1. /\ IsFiniteSet(HoldsPermit) /\ IsFiniteSet(OnPoolThread)
          /\ Cardinality(HoldsPermit) \in Nat /\ Cardinality(OnPoolThread) \in Nat
          /\ Cardinality(HoldsPermit \cap OnPoolThread) \in Nat
      BY <2>2, <2>3, TaskSets
    <3>2. Cardinality(InFlight) = Cardinality(HoldsPermit) + Cardinality(OnPoolThread)
                                  - Cardinality(HoldsPermit \cap OnPoolThread)
      BY <2>1, <3>1, FS_Union
    <3> QED
      BY <3>1, <3>2
  <2>5. Cardinality(HoldsPermit) <= Concurrency
    BY <2>2, TaskSets, ConcurrencyAssumption DEF PermitInv, AtGate, TypeOK
  <2>6. InFlight \in SUBSET Tasks
    BY <2>1, <2>2
  <2> QED
    BY <2>2, <2>4, <2>5, <2>6, TaskSets, ConcurrencyAssumption
       DEF PermitInv, InFlightBounded
<1> QED
  BY PermitInvariant, TypeCorrect, <1>1, PTL

-----------------------------------------------------------------------------
(* What is told.  The tasks report in a critical section and emit outside   *)
(* it, in any order, so that each task between the two owes the events an   *)
(* announcement; the argument says which, and that none is owed when        *)
(* waitForDone() has returned.                                              *)

(* The event log *)

LEMMA Emitting ==
  ASSUME TypeOK, NEW e \in Event, Emit(e)
  PROVE  /\ Len(posted) \in Nat
         /\ DOMAIN posted = 1 .. Len(posted)
         /\ DOMAIN posted' = 1 .. Len(posted) + 1
         /\ \A i \in 1 .. Len(posted) : posted'[i] = posted[i]
         /\ posted'[Len(posted) + 1] = e
BY AppendProperties, LenProperties DEF Emit, TypeOK

(* The events of other kinds stay as they are. *)
LEMMA EventsKept ==
  ASSUME TypeOK, NEW e \in Event, Emit(e), NEW kind
  PROVE  EventsOf(kind)' = IF e.kind = kind THEN EventsOf(kind) \cup {Len(posted) + 1}
                           ELSE EventsOf(kind)
BY Emitting DEF EventsOf

LEMMA EventsInLog ==
  ASSUME TypeOK, NEW kind
  PROVE  \A i \in EventsOf(kind) : i \in 1 .. Len(posted) /\ Len(posted) \in Nat
BY LenProperties DEF EventsOf, TypeOK

(* What is heard of a host grows by the event that is about it. *)
About(e, h) == e.kind \in {"discovered", "updated"} /\ e.device.host = h

LEMMA HeardGrows ==
  ASSUME TypeOK, NEW e \in Event, Emit(e), NEW h
  PROVE  Heard(h)' = IF About(e, h) THEN Heard(h) \cup {Len(posted) + 1} ELSE Heard(h)
<1>1. \A i \in 1 .. Len(posted) : posted'[i] = posted[i]
  BY Emitting
<1>2. posted'[Len(posted) + 1] = e
  BY Emitting
<1>3. \A kind : \A i \in EventsOf(kind) : i \in 1 .. Len(posted)
  BY EventsInLog
<1>4. /\ EventsOf("discovered")' = IF e.kind = "discovered"
            THEN EventsOf("discovered") \cup {Len(posted) + 1} ELSE EventsOf("discovered")
      /\ EventsOf("updated")' = IF e.kind = "updated"
            THEN EventsOf("updated") \cup {Len(posted) + 1} ELSE EventsOf("updated")
  BY EventsKept
<1> QED
  BY <1>1, <1>2, <1>3, <1>4 DEF Heard, About

(* The last event about h carries the device the worker has for h. *)
TellsLast(h) ==
  \E i \in Heard(h) : (\A j \in Heard(h) : j <= i) /\ posted[i].device = devices[h]

LEMMA LastIsHeard ==
  ASSUME TypeOK, NEW h, TellsLast(h)
  PROVE  Heard(h) # {} /\ LastHeard(h) = devices[h]
<1>1. PICK i \in Heard(h) : (\A j \in Heard(h) : j <= i) /\ posted[i].device = devices[h]
  BY DEF TellsLast
<1>2. \A j \in Heard(h) : j \in Nat
  BY EventsInLog DEF Heard
<1> DEFINE last == CHOOSE k \in Heard(h) : \A j \in Heard(h) : j <= k
<1>3. last \in Heard(h) /\ \A j \in Heard(h) : j <= last
  BY <1>1
<1>4. last = i
  BY <1>1, <1>2, <1>3
<1> QED
  BY <1>1, <1>4 DEF LastHeard

-----------------------------------------------------------------------------
(* The invariant *)

(* The reports are numbered 1 .. done_, each number held by one task. *)
NumberedInv ==
  /\ \A t \in Reported : localDone[t] \in 1 .. done
  /\ \A t, u \in Reported : localDone[t] = localDone[u] => t = u
  /\ \A k \in 1 .. done : \E t \in Reported : localDone[t] = k

(* The tasks that have returned have announced their number, once. *)
Returned == {t \in Tasks : tpc[t] = "done"}
AnnouncedInv ==
  /\ \A i \in EventsOf("progress") : \E t \in Returned : posted[i].done = localDone[t]
  /\ \A i, j \in EventsOf("progress") : posted[i].done = posted[j].done => i = j
  /\ \A t \in Returned : \E i \in EventsOf("progress") : posted[i].done = localDone[t]

(* The summary counts reports. *)
Found == {t \in Reported : IsAlive(result[t])}
FoundRisky == {t \in Reported : result[t] = "risky"}
CountedInv == hostsUp = Cardinality(Found) /\ risky = Cardinality(FoundRisky)

(* The devices are those of the reports, under their own address. *)
DevicesInv ==
  /\ \A h \in Hosts : devices[h] # NoDevice <=> \E t \in Found : HostOf[t] = h
  /\ \A h \in KnownHosts : devices[h].host = h
  /\ \A h \in KnownHosts : devices[h].risky => \E t \in FoundRisky : HostOf[t] = h
  /\ \A t \in FoundRisky : NamedOnce(HostOf[t]) => devices[HostOf[t]].risky

(* A task that found a host and has not said so holds the device there is; *)
(* once it has said so, the last event about the host is right, but for    *)
(* the updates that are still to be emitted.                                *)
Told == {t \in Found : tpc[t] \in {"progress", "done"}}
ToldInv ==
  /\ \A t \in Tasks : tpc[t] = "announce" => IsAlive(result[t])
  /\ updates # {} => dpc = "update"
  /\ Distinct =>
       /\ \A t \in Tasks : tpc[t] = "announce" => devices[HostOf[t]] = FoundDevice(t)
       /\ \A h \in Hosts : Heard(h) # {} => \E t \in Told : HostOf[t] = h
       /\ \A t \in Told : HostOf[t] \notin updates => TellsLast(HostOf[t])

ResultsInv == NumberedInv /\ AnnouncedInv /\ CountedInv /\ DevicesInv /\ ToldInv

LEMMA ResultsInit == Init => ResultsInv
<1> SUFFICES ASSUME Init PROVE ResultsInv
  OBVIOUS
<1>1. Reported = {} /\ Found = {} /\ FoundRisky = {} /\ Returned = {} /\ Told = {}
  BY DEF Init, Reported, Found, FoundRisky, Returned, Told
<1>2. \A kind : EventsOf(kind) = {}
  BY DEF Init, EventsOf
<1>3. NumberedInv /\ AnnouncedInv
  BY <1>1, <1>2 DEF Init, NumberedInv, AnnouncedInv
<1>4. CountedInv
  BY <1>1, FS_EmptySet DEF Init, CountedInv
<1>5. DevicesInv
  BY <1>1 DEF Init, DevicesInv, KnownHosts
<1>6. ToldInv
  BY <1>1, <1>2 DEF Init, ToldInv, Heard
<1> QED
  BY <1>3, <1>4, <1>5, <1>6 DEF ResultsInv

LEMMA ReportedAreTasks ==
  /\ Reported \in SUBSET Tasks /\ Found \in SUBSET Tasks /\ FoundRisky \in SUBSET Tasks
  /\ Returned \subseteq Reported /\ Told \subseteq Found /\ Found \subseteq Reported
  /\ FoundRisky \subseteq Found
BY DEF Reported, Found, FoundRisky, Returned, Told, IsAlive

-----------------------------------------------------------------------------
(* Steps that neither report nor emit *)

LEMMA QuietStep ==
  ASSUME ResultsInv,
         UNCHANGED <<done, hostsUp, risky, devices, posted, updates>>,
         Reported' = Reported,
         \A t \in Reported : UNCHANGED <<tpc[t], result[t], localDone[t]>>,
         UNCHANGED arpByIp \/ Reported = {},
         updates # {} => dpc' = "update"
  PROVE  ResultsInv'
<1>1. UNCHANGED <<Returned, Found, FoundRisky, Told, KnownHosts>>
  BY DEF Returned, Found, FoundRisky, Told, KnownHosts, Reported
<1>2. \A kind : EventsOf(kind)' = EventsOf(kind)
  BY DEF EventsOf
<1>3. \A h : Heard(h)' = Heard(h) /\ TellsLast(h)' = TellsLast(h)
  BY <1>2 DEF Heard, TellsLast
<1>4. NumberedInv' /\ AnnouncedInv'
  BY <1>1, <1>2, ReportedAreTasks DEF ResultsInv, NumberedInv, AnnouncedInv
<1>5. CountedInv' /\ DevicesInv'
  BY <1>1, ReportedAreTasks DEF ResultsInv, CountedInv, DevicesInv, NamedOnce
<1>6. \A t \in Tasks : tpc'[t] = "announce" =>
        t \in Reported /\ tpc[t] = "announce" /\ FoundDevice(t)' = FoundDevice(t)
  BY DEF Reported, FoundDevice
<1>7. ToldInv'
  BY <1>1, <1>3, <1>6 DEF ResultsInv, ToldInv, Distinct, Reported
<1> QED
  BY <1>4, <1>5, <1>7 DEF ResultsInv

(* The dispatcher's steps up to the end of its loops. *)
LEMMA QuietDispatcher ==
  ASSUME TypeOK, ScanInv, ResultsInv,
         \/ CheckCancel \/ LockPauseMutex \/ TestPaused \/ TestCancelOrSleep \/ WaitTimesOut
         \/ RecheckCancel \/ AcquirePermit \/ AbandonHost \/ StartTask \/ WaitForDone
         \/ SkipEnrichment \/ AllUpdatesEmitted \/ Summarize
  PROVE  ResultsInv'
<1>1. /\ UNCHANGED <<done, hostsUp, risky, devices, posted, updates, arpByIp, result, localDone>>
      /\ updates # {} => dpc' = "update"
  BY DEF ResultsInv, ToldInv, CheckCancel, LockPauseMutex, TestPaused, TestCancelOrSleep,
         WaitTimesOut, RecheckCancel, AcquirePermit, AbandonHost, StartTask, WaitForDone,
         SkipEnrichment, AllUpdatesEmitted, Summarize, OnlyGoto, Goto, cursor, tasks, facts,
         results, history
<1>2. \A t \in Tasks : tpc'[t] = tpc[t] \/ (tpc[t] = "none" /\ tpc'[t] = "queued")
  <2>1. CASE StartTask
    BY <2>1 DEF StartTask, ScanInv, Fresh, TypeOK
  <2>2. CASE ~StartTask
    BY <2>2 DEF CheckCancel, LockPauseMutex, TestPaused, TestCancelOrSleep, WaitTimesOut,
         RecheckCancel, AcquirePermit, AbandonHost, WaitForDone, SkipEnrichment,
         AllUpdatesEmitted, Summarize, OnlyGoto, tasks
  <2> QED
    BY <2>1, <2>2
<1>3. Reported' = Reported /\ \A t \in Reported : tpc'[t] = tpc[t]
  BY <1>2 DEF Reported
<1> QED
  BY <1>1, <1>3, QuietStep

(* A task on its way to its report. *)
LEMMA QuietTask ==
  ASSUME TypeOK, ResultsInv, NEW t \in Tasks,
         PoolRuns(t) \/ TaskChecksCancel(t) \/ ProbeHost(t) \/ ReleasePermit(t)
  PROVE  ResultsInv'
<1>1. /\ UNCHANGED <<dpc, done, hostsUp, risky, devices, posted, updates, arpByIp, localDone>>
      /\ tpc[t] \in {"queued", "check", "probe", "release"}
      /\ tpc'[t] \in {"check", "probe", "release", "report"}
      /\ \A u \in Tasks \ {t} : tpc'[u] = tpc[u] /\ result'[u] = result[u]
  BY DEF PoolRuns, TaskChecksCancel, ProbeHost, ReleasePermit, TaskGoto, TypeOK, cursor,
         facts, results, history
<1>2. Reported' = Reported /\ \A u \in Reported : UNCHANGED <<tpc[u], result[u]>>
  BY <1>1 DEF Reported
<1> QED
  BY <1>1, <1>2, QuietStep DEF ResultsInv, ToldInv

LEMMA QuietControl ==
  ASSUME ResultsInv, Control \/ UNCHANGED vars
  PROVE  ResultsInv'
<1>1. /\ UNCHANGED <<done, hostsUp, risky, devices, posted, updates, arpByIp, tpc, result,
                     localDone>>
      /\ dpc' = dpc \/ dpc = "sleeping"
  BY DEF Control, CompleteRequest, RequestPause, RequestResume, RequestCancel,
         CancelUnpauses, WakeAll, OtherThreads, cursor, tasks, facts, results, history, vars
<1>2. Reported' = Reported
  BY <1>1 DEF Reported
<1> QED
  BY <1>1, <1>2, QuietStep DEF ResultsInv, ToldInv

-----------------------------------------------------------------------------
(* Steps that emit *)

LEMMA AnnouncedKept ==
  ASSUME TypeOK, AnnouncedInv, NEW e \in Event, Emit(e), e.kind # "progress",
         Returned' = Returned, \A t \in Returned : localDone'[t] = localDone[t]
  PROVE  AnnouncedInv'
<1>1. EventsOf("progress")' = EventsOf("progress")
  BY EventsKept
<1>2. \A i \in EventsOf("progress") : posted'[i] = posted[i]
  BY Emitting, EventsInLog
<1> QED
  BY <1>1, <1>2 DEF AnnouncedInv

LEMMA TellsLastKept ==
  ASSUME TypeOK, NEW e \in Event, Emit(e), NEW h, ~About(e, h), devices'[h] = devices[h],
         TellsLast(h)
  PROVE  TellsLast(h)'
<1>1. Heard(h)' = Heard(h)
  BY HeardGrows
<1>2. \A i \in Heard(h) : posted'[i] = posted[i]
  BY Emitting, EventsInLog DEF Heard
<1> QED
  BY <1>1, <1>2 DEF TellsLast

LEMMA TellsLastSet ==
  ASSUME TypeOK, NEW e \in Event, Emit(e), NEW h, About(e, h), e.device = devices'[h]
  PROVE  TellsLast(h)'
<1>1. Heard(h)' = Heard(h) \cup {Len(posted) + 1}
  BY HeardGrows
<1>2. posted'[Len(posted) + 1] = e
  BY Emitting
<1>3. Len(posted) \in Nat /\ \A j \in Heard(h) : j \in 1 .. Len(posted)
  BY EventsInLog, Emitting DEF Heard
<1>4. \A j \in Heard(h)' : j <= Len(posted) + 1
  BY <1>1, <1>3
<1> QED
  BY <1>1, <1>2, <1>4 DEF TellsLast

(* started and finished. *)
LEMMA OtherEvent ==
  ASSUME TypeOK, ResultsInv, NEW e \in Event, Emit(e), e.kind \in {"started", "finished"},
         UNCHANGED <<done, hostsUp, risky, devices, updates, tasks>>, dpc # "update",
         UNCHANGED arpByIp \/ \A t \in Tasks : tpc[t] = "none"
  PROVE  ResultsInv'
<1>1. UNCHANGED <<Reported, Returned, Found, FoundRisky, Told, KnownHosts>>
  BY DEF Returned, Found, FoundRisky, Told, KnownHosts, Reported, tasks
<1>2. NumberedInv' /\ CountedInv' /\ DevicesInv'
  BY <1>1 DEF ResultsInv, NumberedInv, CountedInv, DevicesInv, NamedOnce, tasks
<1>3. AnnouncedInv'
  BY <1>1, AnnouncedKept DEF ResultsInv, tasks
<1>4. \A h : ~About(e, h)
  BY DEF About
<1>5. \A h : Heard(h)' = Heard(h) /\ (TellsLast(h) => TellsLast(h)')
  BY <1>4, HeardGrows, TellsLastKept
<1>6. \A t \in Tasks : tpc'[t] = "announce" =>
        tpc[t] = "announce" /\ FoundDevice(t)' = FoundDevice(t)
  BY DEF FoundDevice, tasks
<1>7. ToldInv'
  BY <1>1, <1>5, <1>6 DEF ResultsInv, ToldInv, Distinct, tasks
<1> QED
  BY <1>2, <1>3, <1>7 DEF ResultsInv

LEMMA FirstAndLastEvent ==
  ASSUME TypeOK, InRange, ScanInv, ResultsInv, Prepare \/ Finish
  PROVE  ResultsInv'
<1>1. CASE Prepare
  <2>1. [kind |-> "started"] \in Event
    BY DEF Event
  <2>2. \A t \in Tasks : tpc[t] = "none"
    BY <1>1, NAssumption DEF Prepare, Goto, InRange, ScanInv, Fresh, Tasks
  <2> DEFINE e == [kind |-> "started"]
  <2>3. e.kind = "started" /\ Emit(e)
    BY <1>1 DEF Prepare
  <2>4. UNCHANGED <<done, hostsUp, risky, devices, updates, tasks>> /\ dpc # "update"
    BY <1>1 DEF Prepare, Goto, results, cursor
  <2> HIDE DEF e
  <2> QED
    BY <2>1, <2>2, <2>3, <2>4, OtherEvent DEF e
<1>2. CASE Finish
  <2> DEFINE e == [kind |-> "finished",
                   summary |-> [scanned |-> done, hostsUp |-> hostsUp, risky |-> risky,
                                canceled |-> canceled]]
  <2>1. e \in Event
    BY DEF Event, Summary, TypeOK
  <2>2. e.kind = "finished" /\ Emit(e)
    BY <1>2 DEF Finish
  <2>3. UNCHANGED <<done, hostsUp, risky, devices, updates, tasks, arpByIp>> /\ dpc # "update"
    BY <1>2 DEF Finish, Goto, results, cursor, facts
  <2> HIDE DEF e
  <2> QED
    BY <2>1, <2>2, <2>3, OtherEvent
<1> QED
  BY <1>1, <1>2

(* A task announces the device it found. *)
LEMMA DiscoveryTold ==
  ASSUME TypeOK, ResultsInv, NEW t \in Tasks, EmitDiscovered(t)
  PROVE  ResultsInv'
<1> DEFINE e == [kind |-> "discovered", device |-> FoundDevice(t)]
<1>1. /\ UNCHANGED <<dpc, done, hostsUp, risky, devices, updates, arpByIp, result, localDone>>
      /\ tpc[t] = "announce" /\ tpc' = [tpc EXCEPT ![t] = "progress"] /\ Emit(e)
  BY DEF EmitDiscovered, TaskGoto, cursor, facts, results
<1>2. e \in Event /\ e.kind = "discovered" /\ e.device = FoundDevice(t)
  BY FoundDeviceType DEF Event
<1>3. \A h : About(e, h) <=> h = HostOf[t]
  BY DEF About, FoundDevice
<1>4. IsAlive(result[t])
  BY <1>1 DEF ResultsInv, ToldInv
<1>5. /\ UNCHANGED <<Reported, Returned, Found, FoundRisky, KnownHosts>>
      /\ Told' = Told \cup {t}
  BY <1>1, <1>4 DEF Returned, Found, FoundRisky, Told, KnownHosts, Reported, TypeOK
<1> HIDE DEF e
<1>6. NumberedInv' /\ CountedInv' /\ DevicesInv'
  BY <1>1, <1>5 DEF ResultsInv, NumberedInv, CountedInv, DevicesInv, NamedOnce
<1>7. AnnouncedInv'
  BY <1>1, <1>2, <1>5, AnnouncedKept DEF ResultsInv
<1>8. ToldInv'
  <2>1. \A u \in Tasks : tpc'[u] = "announce" =>
          tpc[u] = "announce" /\ FoundDevice(u)' = FoundDevice(u)
    BY <1>1 DEF FoundDevice, TypeOK
  <2>2. ASSUME Distinct, NEW h \in Hosts, Heard(h)' # {}
        PROVE  \E u \in Told' : HostOf[u] = h
    BY <1>1, <1>2, <1>3, <1>5, <2>2, HeardGrows DEF ResultsInv, ToldInv
  <2>3. ASSUME Distinct, NEW u \in Told', HostOf[u] \notin updates
        PROVE  TellsLast(HostOf[u])'
    <3>1. CASE HostOf[u] = HostOf[t]
      <4>1. devices'[HostOf[t]] = e.device
        BY <1>1, <1>2, <2>3 DEF ResultsInv, ToldInv
      <4> QED
        BY <1>1, <1>2, <1>3, <3>1, <4>1, TellsLastSet
    <3>2. CASE HostOf[u] # HostOf[t]
      <4>1. TellsLast(HostOf[u])
        BY <1>5, <2>3, <3>2 DEF ResultsInv, ToldInv
      <4> QED
        BY <1>1, <1>2, <1>3, <3>2, <4>1, TellsLastKept
    <3> QED
      BY <3>1, <3>2
  <2> QED
    BY <1>1, <2>1, <2>2, <2>3 DEF ResultsInv, ToldInv, Distinct
<1> QED
  BY <1>6, <1>7, <1>8 DEF ResultsInv

(* A task announces its number and returns. *)
LEMMA ProgressTold ==
  ASSUME TypeOK, ResultsInv, NEW t \in Tasks, EmitProgress(t)
  PROVE  ResultsInv'
<1> DEFINE e == [kind |-> "progress", done |-> localDone[t], total |-> total]
           new == Len(posted) + 1
<1>1. /\ UNCHANGED <<dpc, done, hostsUp, risky, devices, updates, arpByIp, result, localDone>>
      /\ tpc[t] = "progress" /\ tpc' = [tpc EXCEPT ![t] = "done"] /\ Emit(e)
  BY DEF EmitProgress, AnnouncedCount, TaskGoto, cursor, facts, results
<1>2. e \in Event /\ e.kind = "progress" /\ e.done = localDone[t]
  BY DEF Event, TypeOK
<1>3. /\ UNCHANGED <<Reported, Found, FoundRisky, KnownHosts, Told>>
      /\ Returned' = Returned \cup {t} /\ t \notin Returned /\ t \in Reported
  BY <1>1 DEF Returned, Found, FoundRisky, Told, KnownHosts, Reported, TypeOK
<1> HIDE DEF e
<1>4. NumberedInv' /\ CountedInv' /\ DevicesInv'
  BY <1>1, <1>3 DEF ResultsInv, NumberedInv, CountedInv, DevicesInv, NamedOnce
<1>5. AnnouncedInv'
  <2>1. EventsOf("progress")' = EventsOf("progress") \cup {new}
    BY <1>1, <1>2, EventsKept
  <2>2. \A i \in EventsOf("progress") : posted'[i] = posted[i] /\ i # new
    BY <1>1, <1>2, Emitting, EventsInLog
  <2>3. posted'[new].done = localDone[t]
    BY <1>1, <1>2, Emitting
  <2>4. \A i \in EventsOf("progress") : posted[i].done # localDone[t]
    BY <1>3, ReportedAreTasks DEF ResultsInv, AnnouncedInv, NumberedInv
  <2> HIDE DEF new
  <2> QED
    BY <1>1, <1>3, <2>1, <2>2, <2>3, <2>4 DEF ResultsInv, AnnouncedInv
<1>6. ToldInv'
  <2>1. \A h : ~About(e, h)
    BY <1>2 DEF About
  <2>2. \A h : Heard(h)' = Heard(h) /\ (TellsLast(h) => TellsLast(h)')
    BY <1>1, <1>2, <2>1, HeardGrows, TellsLastKept
  <2>3. \A u \in Tasks : tpc'[u] = "announce" =>
          tpc[u] = "announce" /\ FoundDevice(u)' = FoundDevice(u)
    BY <1>1 DEF FoundDevice, TypeOK
  <2> QED
    BY <1>1, <1>3, <2>2, <2>3 DEF ResultsInv, ToldInv, Distinct
<1> QED
  BY <1>4, <1>5, <1>6 DEF ResultsInv

(* A device whose MAC has changed is sent again. *)
LEMMA UpdateTold ==
  ASSUME TypeOK, InRange, ScanInv, ResultsInv, EmitUpdated
  PROVE  ResultsInv'
<1>1. PICK h \in updates :
        /\ Emit([kind |-> "updated", device |-> devices[h]])
        /\ updates' = updates \ {h}
  BY DEF EmitUpdated, UpdatedDevice
<1> DEFINE e == [kind |-> "updated", device |-> devices[h]]
<1>2. h \in Hosts /\ devices[h] # NoDevice /\ devices[h] \in Device
  BY DEF InRange, TypeOK
<1>3. e \in Event /\ e.kind = "updated" /\ e.device = devices[h] /\ Emit(e)
  BY <1>1, <1>2 DEF Event
<1>4. /\ UNCHANGED <<dpc, done, hostsUp, risky, devices, tpc, arpByIp, result, localDone>>
      /\ dpc = "update"
  BY DEF EmitUpdated, tasks, facts, results
<1>5. UNCHANGED <<Reported, Returned, Found, FoundRisky, KnownHosts, Told>>
  BY <1>4 DEF Returned, Found, FoundRisky, Told, KnownHosts, Reported
<1>6. NumberedInv' /\ CountedInv' /\ DevicesInv'
  BY <1>4, <1>5 DEF ResultsInv, NumberedInv, CountedInv, DevicesInv, NamedOnce
<1> HIDE DEF e
<1>7. AnnouncedInv'
  BY <1>3, <1>4, <1>5, AnnouncedKept DEF ResultsInv
<1>8. devices[h].host = h
  BY <1>2 DEF ResultsInv, DevicesInv, KnownHosts
<1>9. \A g : About(e, g) <=> g = h
  BY <1>3, <1>8 DEF About
<1>10. ToldInv'
  <2>1. \A t \in Tasks : tpc[t] # "announce"
    BY <1>4 DEF ScanInv, NoTaskOutlivesRun, RunEnding
  <2>2. \E t \in Told : HostOf[t] = h
    <3>1. PICK t \in Found : HostOf[t] = h
      BY <1>2 DEF ResultsInv, DevicesInv
    <3>2. tpc[t] = "done"
      BY <1>4 DEF ScanInv, NoTaskOutlivesRun, RunEnding, Found, Reported
    <3> QED
      BY <3>1, <3>2 DEF Told
  <2>3. ASSUME Distinct, NEW g \in Hosts, Heard(g)' # {}
        PROVE  \E u \in Told : HostOf[u] = g
    BY <1>3, <1>9, <2>2, <2>3, HeardGrows DEF ResultsInv, ToldInv
  <2>4. ASSUME Distinct, NEW u \in Told, HostOf[u] \notin updates'
        PROVE  TellsLast(HostOf[u])'
    <3>1. CASE HostOf[u] = h
      BY <1>3, <1>4, <1>9, <3>1, TellsLastSet
    <3>2. CASE HostOf[u] # h
      <4>1. TellsLast(HostOf[u])
        BY <1>1, <2>4, <3>2 DEF ResultsInv, ToldInv
      <4> QED
        BY <1>3, <1>4, <1>9, <3>2, <4>1, TellsLastKept
    <3> QED
      BY <3>1, <3>2
  <2> QED
    BY <1>4, <1>5, <2>1, <2>3, <2>4 DEF ToldInv, Distinct
<1> QED
  BY <1>6, <1>7, <1>10 DEF ResultsInv

-----------------------------------------------------------------------------
(* The two critical sections *)

(* The final ARP table changes MACs and nothing else of a device, and every *)
(* device it changes is to be sent again.                                   *)
LEMMA MacsEnriched ==
  ASSUME TypeOK, ScanInv, ResultsInv, EnrichMacsFromArp
  PROVE  ResultsInv'
<1>1. PICK fresh \in ArpTables :
        /\ updates' = {h \in Hosts : NewMac(fresh, h)}
        /\ devices' = [h \in Hosts |-> IF NewMac(fresh, h)
                                    THEN [devices[h] EXCEPT !.mac = fresh[h]]
                                    ELSE devices[h]]
  BY DEF EnrichMacsFromArp
<1>2. /\ UNCHANGED <<done, hostsUp, risky, posted, tpc, arpByIp, result, localDone>>
      /\ dpc = "resolve" /\ dpc' = "update"
  BY DEF EnrichMacsFromArp, Goto, tasks, facts, history
<1>3. \A t \in Tasks : tpc[t] \in {"none", "done"}
  BY <1>2 DEF ScanInv, NoTaskOutlivesRun, RunEnding
<1>4. ASSUME NEW h \in Hosts, NewMac(fresh, h)
      PROVE  /\ devices[h] # NoDevice /\ devices'[h] # NoDevice
             /\ devices'[h].host = devices[h].host
             /\ devices'[h].risky = devices[h].risky
  <2>1. devices[h] \in Device /\ fresh[h] \in Macs \cup {NoMac}
    BY <1>4, ArpAssumption DEF NewMac, TypeOK
  <2>2. /\ [devices[h] EXCEPT !.mac = fresh[h]] \in Device
        /\ [devices[h] EXCEPT !.mac = fresh[h]].host = devices[h].host
        /\ [devices[h] EXCEPT !.mac = fresh[h]].risky = devices[h].risky
    BY <2>1 DEF Device
  <2> QED
    BY <1>1, <1>4, <2>2, NoDeviceAssumption DEF NewMac
<1>kept. \A h \in Hosts : ~NewMac(fresh, h) => devices'[h] = devices[h]
  BY <1>1
<1>known. \A h \in Hosts : devices'[h] # NoDevice <=> devices[h] # NoDevice
  BY <1>4, <1>kept
<1>same. \A h \in Hosts : devices[h] # NoDevice =>
           devices'[h].host = devices[h].host /\ devices'[h].risky = devices[h].risky
  BY <1>4, <1>kept
<1>5. UNCHANGED <<Reported, Returned, Found, FoundRisky, Told>>
  BY <1>2 DEF Returned, Found, FoundRisky, Told, Reported
<1>6. NumberedInv' /\ CountedInv'
  BY <1>2, <1>5 DEF ResultsInv, NumberedInv, CountedInv
<1>7. AnnouncedInv'
  BY <1>2, <1>5 DEF ResultsInv, AnnouncedInv, EventsOf
<1>8. DevicesInv'
  <2>1. KnownHosts' = KnownHosts
    BY <1>known DEF KnownHosts
  <2>2. \A t \in Found : HostOf[t] \in KnownHosts
    BY HostsAssumption, ReportedAreTasks DEF ResultsInv, DevicesInv, KnownHosts
  <2>3. \A h \in KnownHosts : devices'[h].host = h /\ devices'[h].risky = devices[h].risky
    BY <1>same DEF ResultsInv, DevicesInv, KnownHosts
  <2>4. \A h \in Hosts : devices'[h] # NoDevice <=> \E t \in Found : HostOf[t] = h
    BY <1>known DEF ResultsInv, DevicesInv
  <2>5. \A h \in KnownHosts : devices'[h].risky => \E t \in FoundRisky : HostOf[t] = h
    BY <2>3 DEF ResultsInv, DevicesInv
  <2>6. \A t \in FoundRisky : NamedOnce(HostOf[t]) => devices'[HostOf[t]].risky
    BY <2>2, <2>3, ReportedAreTasks DEF ResultsInv, DevicesInv
  <2> QED
    BY <1>5, <2>1, <2>3, <2>4, <2>5, <2>6 DEF DevicesInv, NamedOnce
<1>9. ToldInv'
  <2>1. \A h : Heard(h)' = Heard(h)
    BY <1>2 DEF Heard, EventsOf
  <2>2. \A h \in Hosts : h \notin updates' /\ TellsLast(h) => TellsLast(h)'
    BY <1>1, <1>2, <1>kept, <2>1 DEF TellsLast
  <2>3. updates = {}
    BY <1>2 DEF ResultsInv, ToldInv
  <2>4. \A t \in Told : HostOf[t] \in Hosts
    BY HostsAssumption, ReportedAreTasks
  <2> QED
    BY <1>2, <1>3, <1>5, <2>1, <2>2, <2>3, <2>4 DEF ResultsInv, ToldInv, Distinct
<1> QED
  BY <1>6, <1>7, <1>8, <1>9 DEF ResultsInv

(* A report takes the next number. *)
LEMMA ReportNumbered ==
  ASSUME TypeOK, ResultsInv, NEW t \in Tasks, t \notin Reported, Reported' = Reported \cup {t},
         done' = done + 1, localDone' = [localDone EXCEPT ![t] = done + 1]
  PROVE  NumberedInv'
<1>1. done \in Nat /\ localDone'[t] = done + 1
      /\ \A u \in Reported : u # t /\ localDone'[u] = localDone[u] /\ localDone[u] \in 1 .. done
  BY ReportedAreTasks DEF TypeOK, ResultsInv, NumberedInv
<1>2. \A u \in Reported' : localDone'[u] \in 1 .. done'
  BY <1>1
<1>3. \A u, v \in Reported' : localDone'[u] = localDone'[v] => u = v
  BY <1>1 DEF ResultsInv, NumberedInv
<1>4. ASSUME NEW k \in 1 .. done' PROVE \E u \in Reported' : localDone'[u] = k
  <2>1. CASE k = done + 1
    BY <1>1, <2>1
  <2>2. CASE k # done + 1
    <3>1. k \in 1 .. done
      BY <1>1, <2>2
    <3> QED
      BY <1>1, <3>1 DEF ResultsInv, NumberedInv
  <2> QED
    BY <2>1, <2>2
<1> QED
  BY <1>2, <1>3, <1>4 DEF NumberedInv

LEMMA DeadCounted ==
  ASSUME TypeOK, ResultsInv, NEW t \in Tasks, ReportDead(t)
  PROVE  ResultsInv'
<1>1. /\ tpc[t] = "report" /\ tpc' = [tpc EXCEPT ![t] = "progress"] /\ ~IsAlive(result[t])
      /\ done' = done + 1 /\ localDone' = [localDone EXCEPT ![t] = done + 1]
      /\ UNCHANGED <<dpc, hostsUp, risky, devices, posted, updates, arpByIp, result>>
  BY DEF ReportDead, CountHost, TaskGoto, cursor, facts, history
<1>2. /\ t \notin Reported /\ Reported' = Reported \cup {t}
      /\ UNCHANGED <<Returned, Found, FoundRisky, KnownHosts, Told>>
  BY <1>1 DEF Returned, Found, FoundRisky, Told, KnownHosts, Reported, IsAlive, TypeOK
<1>3. NumberedInv'
  BY <1>1, <1>2, ReportNumbered
<1>4. AnnouncedInv'
  <2>1. \A u \in Returned : localDone'[u] = localDone[u]
    BY <1>1, <1>2, ReportedAreTasks DEF TypeOK
  <2> QED
    BY <1>1, <1>2, <2>1 DEF ResultsInv, AnnouncedInv, EventsOf
<1>5. CountedInv' /\ DevicesInv'
  BY <1>1, <1>2 DEF ResultsInv, CountedInv, DevicesInv, NamedOnce
<1>6. ToldInv'
  <2>1. \A h : Heard(h)' = Heard(h) /\ TellsLast(h)' = TellsLast(h)
    BY <1>1 DEF Heard, EventsOf, TellsLast
  <2>2. \A u \in Tasks : tpc'[u] = "announce" =>
          tpc[u] = "announce" /\ FoundDevice(u)' = FoundDevice(u)
    BY <1>1 DEF FoundDevice, TypeOK
  <2> QED
    BY <1>1, <1>2, <2>1, <2>2 DEF ResultsInv, ToldInv, Distinct
<1> QED
  BY <1>3, <1>4, <1>5, <1>6 DEF ResultsInv

LEMMA AliveCounted ==
  ASSUME TypeOK, ScanInv, ResultsInv, NEW t \in Tasks, ReportAlive(t)
  PROVE  ResultsInv'
<1> DEFINE g == HostOf[t]
           d == FoundDevice(t)
<1>1. /\ tpc[t] = "report" /\ tpc' = [tpc EXCEPT ![t] = "announce"] /\ IsAlive(result[t])
      /\ done' = done + 1 /\ localDone' = [localDone EXCEPT ![t] = done + 1]
      /\ hostsUp' = hostsUp + 1
      /\ risky' = IF result[t] = "risky" THEN risky + 1 ELSE risky
      /\ devices' = [devices EXCEPT ![g] = d]
      /\ UNCHANGED <<dpc, posted, updates, arpByIp, result>>
  BY DEF ReportAlive, RiskyAfter, CountHost, TaskGoto, cursor, facts, history
<1>2. d \in Device /\ d # NoDevice /\ d.host = g /\ d.risky = (result[t] = "risky")
  BY FoundDeviceType, NoDeviceAssumption DEF FoundDevice
<1>3. g \in Hosts /\ devices'[g] = d /\ \A h \in Hosts \ {g} : devices'[h] = devices[h]
  BY <1>1, HostsAssumption DEF TypeOK
<1>4. /\ t \notin Reported /\ Reported' = Reported \cup {t}
      /\ Found' = Found \cup {t} /\ t \notin Found /\ t \notin FoundRisky
      /\ FoundRisky' = IF result[t] = "risky" THEN FoundRisky \cup {t} ELSE FoundRisky
      /\ UNCHANGED <<Returned, Told>>
  BY <1>1 DEF Returned, Found, FoundRisky, Told, Reported, TypeOK
<1> HIDE DEF d, g
<1>5. NumberedInv'
  BY <1>1, <1>4, ReportNumbered
<1>6. AnnouncedInv'
  <2>1. \A u \in Returned : localDone'[u] = localDone[u]
    BY <1>1, <1>4, ReportedAreTasks DEF TypeOK
  <2> QED
    BY <1>1, <1>4, <2>1 DEF ResultsInv, AnnouncedInv, EventsOf
<1>7. CountedInv'
  <2>1. IsFiniteSet(Found) /\ IsFiniteSet(FoundRisky)
    BY ReportedAreTasks, TaskSets
  <2>2. Cardinality(Found \cup {t}) = Cardinality(Found) + 1
        /\ Cardinality(FoundRisky \cup {t}) = Cardinality(FoundRisky) + 1
    BY <1>4, <2>1, FS_AddElement
  <2> QED
    BY <1>1, <1>4, <2>2 DEF ResultsInv, CountedInv
<1>8. DevicesInv'
  <2>1. ASSUME NEW h \in Hosts
        PROVE  devices'[h] # NoDevice <=> \E u \in Found' : HostOf[u] = h
    BY <1>2, <1>3, <1>4 DEF ResultsInv, DevicesInv, g
  <2>2. \A h \in KnownHosts' : devices'[h].host = h
    BY <1>2, <1>3 DEF ResultsInv, DevicesInv, KnownHosts
  <2>3. ASSUME NEW h \in KnownHosts', devices'[h].risky
        PROVE  \E u \in FoundRisky' : HostOf[u] = h
    <3>1. CASE h = g
      BY <1>2, <1>3, <1>4, <2>3, <3>1 DEF g
    <3>2. CASE h # g
      <4>1. h \in KnownHosts /\ devices[h].risky
        BY <1>3, <2>3, <3>2 DEF KnownHosts
      <4> QED
        BY <1>4, <4>1 DEF ResultsInv, DevicesInv
    <3> QED
      BY <3>1, <3>2
  <2>4. ASSUME NEW u \in FoundRisky', NamedOnce(HostOf[u])
        PROVE  devices'[HostOf[u]].risky
    <3>1. CASE u = t
      <4>1. result[t] = "risky"
        BY <1>1, <2>4, <3>1 DEF FoundRisky
      <4> QED
        BY <1>2, <1>3, <3>1, <4>1 DEF g
    <3>2. CASE u # t
      <4>1. u \in FoundRisky /\ HostOf[u] \in Hosts
        BY <1>4, <2>4, <3>2, ReportedAreTasks, HostsAssumption
      <4>2. HostOf[u] # g
        BY <2>4, <3>2, <4>1, ReportedAreTasks DEF NamedOnce, g
      <4> QED
        BY <1>3, <2>4, <4>1, <4>2 DEF ResultsInv, DevicesInv
    <3> QED
      BY <3>1, <3>2
  <2> QED
    BY <2>1, <2>2, <2>3, <2>4 DEF DevicesInv, NamedOnce
<1>9. ToldInv'
  <2>1. \A h : Heard(h)' = Heard(h)
    BY <1>1 DEF Heard, EventsOf
  <2>2. \A h \in Hosts \ {g} : TellsLast(h)' = TellsLast(h)
    BY <1>1, <1>3, <2>1 DEF TellsLast
  <2>3. \A u \in Tasks : FoundDevice(u)' = FoundDevice(u)
                       /\ (u # t => tpc'[u] = tpc[u])
    BY <1>1 DEF FoundDevice, TypeOK
  <2>4. \A u \in Tasks : HostOf[u] \in Hosts /\ (Distinct /\ u # t => HostOf[u] # g)
    BY HostsAssumption DEF Distinct, g
  <2>5. t \notin Told
    BY <1>4, ReportedAreTasks
  <2>6. ASSUME Distinct, NEW u \in Tasks, tpc'[u] = "announce"
        PROVE  devices'[HostOf[u]] = FoundDevice(u)'
    <3>1. CASE u = t
      BY <1>3, <2>3, <3>1 DEF d, g
    <3>2. CASE u # t
      BY <1>3, <2>3, <2>4, <2>6, <3>2 DEF ResultsInv, ToldInv
    <3> QED
      BY <3>1, <3>2
  <2>7. ASSUME Distinct, NEW u \in Told, HostOf[u] \notin updates
        PROVE  TellsLast(HostOf[u])'
    BY <2>2, <2>4, <2>5, <2>7, ReportedAreTasks DEF ResultsInv, ToldInv
  <2>8. \A u \in Tasks : tpc'[u] = "announce" => IsAlive(result'[u])
    BY <1>1, <2>3 DEF ResultsInv, ToldInv
  <2> QED
    BY <1>1, <1>4, <2>1, <2>6, <2>7, <2>8 DEF ResultsInv, ToldInv, Distinct
<1> QED
  BY <1>5, <1>6, <1>7, <1>8, <1>9 DEF ResultsInv

LEMMA ResultsAlways == Spec => []ResultsInv
<1>1. TypeOK /\ InRange /\ ScanInv /\ ResultsInv /\ [Next]_vars => ResultsInv'
  <2> SUFFICES ASSUME TypeOK, InRange, ScanInv, ResultsInv, [Next]_vars PROVE ResultsInv'
    OBVIOUS
  <2>1. CASE Dispatcher
    BY <2>1, QuietDispatcher, FirstAndLastEvent, UpdateTold, MacsEnriched DEF Dispatcher
  <2>2. ASSUME NEW t \in Tasks, TaskStep(t) PROVE ResultsInv'
    BY <2>2, QuietTask, DeadCounted, AliveCounted, DiscoveryTold, ProgressTold DEF TaskStep
  <2>3. CASE Control \/ UNCHANGED vars
    BY <2>3, QuietControl
  <2> QED
    BY <2>1, <2>2, <2>3 DEF Next
<1> QED
  BY ResultsInit, <1>1, TypeCorrect, ScanInvariant, PTL DEF Spec

-----------------------------------------------------------------------------

(* With the pool joined, the reported tasks are those that have returned. *)
LEMMA AllReturned ==
  ASSUME ScanInv, RunEnding
  PROVE  Reported = Returned
BY DEF ScanInv, NoTaskOutlivesRun, Reported, Returned

(* When run() returns, progress was announced done_ times, once with each   *)
(* of 1 .. done_, however the threads interleave their critical sections    *)
(* and their emits.  (reportHostFinished(): localDone)                      *)
THEOREM ProgressIsExact == Spec => []ProgressExact
<1>1. TypeOK /\ ScanInv /\ ResultsInv => ProgressExact
  <2> SUFFICES ASSUME TypeOK, ScanInv, ResultsInv, dpc = "end"
               PROVE  /\ Cardinality(EventsOf("progress")) = done
                      /\ {posted[i].done : i \in EventsOf("progress")} = 1 .. done
    BY DEF ProgressExact
  <2> DEFINE E == EventsOf("progress")
             number == [i \in E |-> posted[i].done]
  <2>1. Reported = Returned
    BY AllReturned DEF RunEnding
  <2>2. \A i \in E : posted[i].done \in 1 .. done
    BY <2>1 DEF ResultsInv, AnnouncedInv, NumberedInv
  <2>3. \A k \in 1 .. done : \E i \in E : posted[i].done = k
    BY <2>1 DEF ResultsInv, AnnouncedInv, NumberedInv
  <2>4. \A i, j \in E : posted[i].done = posted[j].done => i = j
    BY DEF ResultsInv, AnnouncedInv
  <2> HIDE DEF E
  <2>5. number \in Bijection(E, 1 .. done)
    BY <2>2, <2>3, <2>4 DEF Bijection, Injection, Surjection, IsInjective
  <2>6. IsFiniteSet(E)
    <3>1. E \in SUBSET (1 .. Len(posted)) /\ Len(posted) \in Nat
      BY LenProperties DEF E, EventsOf, TypeOK
    <3>2. IsFiniteSet(1 .. Len(posted))
      BY <3>1, FS_Interval
    <3> QED
      BY <3>1, <3>2, FS_Subset
  <2>7. Cardinality(E) = Cardinality(1 .. done)
    <3> HIDE DEF number
    <3> QED
      BY <2>5, <2>6, FS_Bijection DEF ExistsBijection
  <2>8. Cardinality(1 .. done) = done
    BY FS_Interval DEF TypeOK
  <2> QED
    BY <2>2, <2>3, <2>7, <2>8 DEF E
<1>2. Spec => []TypeOK
  BY TypeCorrect, PTL
<1> QED
  BY <1>1, <1>2, ScanInvariant, ResultsAlways, PTL

(* With the summary no report is missing: the reports that found a host are *)
(* the answers there are.                                                   *)
LEMMA AnswersAreFound ==
  ASSUME ScanInv, SummaryReady
  PROVE  Answers = Found /\ RiskyAnswers = FoundRisky
BY DEF ScanInv, NoTaskOutlivesRun, RunEnding, SummaryReady, Answers, Found, Reported,
       Known, IsAlive, RiskyAnswers, FoundRisky

(* A scan's summary counts its answers, those at risk included, also where  *)
(* targets overlap; its devices are those that answered, and what is said   *)
(* of their risk is what an answer said.  (run(), reportHostFinished())     *)
THEOREM SummaryIsExact == Spec => []SummaryCountsAnswers
<1>1. TypeOK /\ ScanInv /\ ResultsInv => SummaryCountsAnswers
  <2> SUFFICES ASSUME TypeOK, ScanInv, ResultsInv, SummaryReady
               PROVE  SummaryCountsAnswers
    BY DEF SummaryCountsAnswers
  <2>1. Answers = Found /\ RiskyAnswers = FoundRisky
    BY AnswersAreFound
  <2>2. hostsUp = Cardinality(Answers) /\ risky = Cardinality(RiskyAnswers)
    BY <2>1 DEF ResultsInv, CountedInv
  <2>3. KnownHosts = {HostOf[t] : t \in Answers}
    BY <2>1, HostsAssumption, ReportedAreTasks DEF ResultsInv, DevicesInv, KnownHosts
  <2>4. RiskyDevices \subseteq {HostOf[t] : t \in RiskyAnswers}
    BY <2>1 DEF ResultsInv, DevicesInv, RiskyDevices
  <2>5. \A t \in RiskyAnswers : NamedOnce(HostOf[t]) => HostOf[t] \in RiskyDevices
    BY <2>1, <2>3, ReportedAreTasks DEF ResultsInv, DevicesInv, RiskyDevices
  <2> QED
    BY <2>2, <2>3, <2>4, <2>5 DEF SummaryCountsAnswers
<1>2. Spec => []TypeOK
  BY TypeCorrect, PTL
<1> QED
  BY <1>1, <1>2, ScanInvariant, ResultsAlways, PTL

(* When run() returns, replaying deviceDiscovered and deviceUpdated gives   *)
(* the worker's devices, MACs included, if no address is listed twice.      *)
THEOREM EventsGiveTheDevices == Spec => []GuiMirrorsDevices
<1>1. TypeOK /\ ScanInv /\ ResultsInv => GuiMirrorsDevices
  <2> SUFFICES ASSUME TypeOK, ScanInv, ResultsInv, Distinct, dpc = "end", NEW h \in Hosts
               PROVE  devices[h] = IF Heard(h) = {} THEN NoDevice ELSE LastHeard(h)
    BY DEF GuiMirrorsDevices
  <2>1. Told = Found
    BY DEF ScanInv, NoTaskOutlivesRun, RunEnding, Told, Found, Reported
  <2>2. CASE \E t \in Found : HostOf[t] = h
    <3>1. updates = {}
      BY DEF ResultsInv, ToldInv
    <3>2. TellsLast(h)
      BY <2>1, <2>2, <3>1 DEF ResultsInv, ToldInv
    <3> QED
      BY <3>2, LastIsHeard
  <2>3. CASE ~\E t \in Found : HostOf[t] = h
    BY <2>1, <2>3 DEF ResultsInv, ToldInv, DevicesInv
  <2> QED
    BY <2>2, <2>3
<1>2. Spec => []TypeOK
  BY TypeCorrect, PTL
<1> QED
  BY <1>1, <1>2, ScanInvariant, ResultsAlways, PTL

-----------------------------------------------------------------------------
(* The devices a step may replace *)

(* Until the tables of the end are read, a device has the MAC that the      *)
(* snapshot of the start has for its address: a second report of it, if the *)
(* address is listed twice, can only write the same one again.              *)
Enriched == dpc \in {"update", "summarize", "finish", "end"}
MacsInv == ~Enriched => \A h \in KnownHosts : devices[h].mac = arpByIp[h]

LEMMA MacsInit == Init => MacsInv
BY DEF Init, MacsInv, KnownHosts

LEMMA NoDeviceYet ==
  ASSUME InRange, ScanInv, ResultsInv, dpc = "prepare"
  PROVE  KnownHosts = {}
<1>1. \A t \in Tasks : tpc[t] = "none"
  BY NAssumption DEF InRange, ScanInv, Fresh, Tasks
<1>2. Found = {}
  BY <1>1 DEF Found, Reported
<1> QED
  BY <1>2 DEF ResultsInv, DevicesInv, KnownHosts

(* The dispatcher replaces devices in the enrichment, and goes past it for  *)
(* good; the snapshot is taken when no device is known.                     *)
LEMMA MacsDispatcher ==
  ASSUME InRange, ScanInv, ResultsInv, MacsInv, Dispatcher
  PROVE  MacsInv'
<1>1. CASE Prepare
  <2>1. UNCHANGED devices /\ dpc = "prepare"
    BY <1>1 DEF Prepare, Goto, results
  <2>2. KnownHosts' = {}
    BY <2>1, NoDeviceYet DEF KnownHosts
  <2> QED
    BY <2>2 DEF MacsInv
<1>2. CASE EnrichMacsFromArp
  BY <1>2 DEF EnrichMacsFromArp, Goto, MacsInv, Enriched
<1>3. CASE ~Prepare /\ ~EnrichMacsFromArp
  <2>1. UNCHANGED <<devices, arpByIp>> /\ (Enriched => Enriched')
    BY <1>3 DEF Dispatcher, CheckCancel, LockPauseMutex, TestPaused, TestCancelOrSleep,
           WaitTimesOut, RecheckCancel, AcquirePermit, AbandonHost, StartTask, WaitForDone,
           SkipEnrichment, EmitUpdated, AllUpdatesEmitted, Summarize, Finish, OnlyGoto,
           Goto, facts, results, Enriched
  <2> QED
    BY <2>1 DEF MacsInv, KnownHosts
<1> QED
  BY <1>1, <1>2, <1>3

LEMMA MacsTask ==
  ASSUME TypeOK, MacsInv, NEW t \in Tasks, TaskStep(t)
  PROVE  MacsInv'
<1>1. CASE ReportAlive(t)
  <2>1. /\ devices' = [devices EXCEPT ![HostOf[t]] = FoundDevice(t)]
        /\ UNCHANGED <<dpc, arpByIp>>
    BY <1>1 DEF ReportAlive, CountHost, facts
  <2>2. \A h \in Hosts : devices'[h] = devices[h] \/ devices'[h].mac = arpByIp[h]
    BY <2>1, HostsAssumption DEF TypeOK, FoundDevice
  <2> QED
    BY <2>1, <2>2 DEF MacsInv, KnownHosts, Enriched
<1>2. CASE ~ReportAlive(t)
  <2>1. UNCHANGED <<devices, arpByIp, dpc>>
    BY <1>2 DEF TaskStep, PoolRuns, TaskChecksCancel, ProbeHost, ReleasePermit, ReportDead,
           CountHost, EmitDiscovered, EmitProgress, facts, results
  <2> QED
    BY <2>1 DEF MacsInv, KnownHosts, Enriched
<1> QED
  BY <1>1, <1>2

LEMMA MacsAlways == Spec => []MacsInv
<1>1. TypeOK /\ InRange /\ ScanInv /\ ResultsInv /\ MacsInv /\ [Next]_vars => MacsInv'
  <2> SUFFICES ASSUME TypeOK, InRange, ScanInv, ResultsInv, MacsInv, [Next]_vars
               PROVE  MacsInv'
    OBVIOUS
  <2>1. CASE Control \/ UNCHANGED vars
    <3>1. UNCHANGED <<devices, arpByIp>> /\ (Enriched => Enriched')
      BY <2>1 DEF Control, CompleteRequest, RequestPause, RequestResume, RequestCancel,
             CancelUnpauses, WakeAll, OtherThreads, facts, results, vars, Enriched
    <3> QED
      BY <3>1 DEF MacsInv, KnownHosts
  <2> QED
    BY <2>1, MacsDispatcher, MacsTask DEF Next
<1> QED
  BY MacsInit, <1>1, TypeCorrect, ScanInvariant, ResultsAlways, PTL DEF Spec

(* No step of any thread takes a device from the results, or a MAC from a   *)
(* device: neither the report of an address listed twice, which replaces    *)
(* the device, nor the ARP table read again at the end, which may miss it.  *)
(* (reportHostFinished(), enrichMacsFromArp())                              *)
THEOREM DevicesAreKept == Spec => DevicesOnlyImprove
<1> DEFINE Improves ==
      \A h \in Hosts : devices[h] # NoDevice =>
        /\ devices'[h] # NoDevice
        /\ devices[h].mac # NoMac => devices'[h].mac # NoMac
<1>1. ASSUME TypeOK, ScanInv, MacsInv, NEW t \in Tasks, ReportAlive(t)
      PROVE  Improves
  <2>1. /\ devices' = [devices EXCEPT ![HostOf[t]] = FoundDevice(t)]
        /\ tpc[t] = "report"
    BY <1>1 DEF ReportAlive, TaskGoto
  <2>2. ~Enriched
    BY <1>1, <2>1 DEF ScanInv, NoTaskOutlivesRun, RunEnding, Enriched
  <2>3. FoundDevice(t) # NoDevice /\ FoundDevice(t).mac = arpByIp[HostOf[t]]
    BY <1>1, FoundDeviceType, NoDeviceAssumption DEF FoundDevice
  <2>4. HostOf[t] \in Hosts
    BY HostsAssumption
  <2>5. \A h \in Hosts : devices'[h] = IF h = HostOf[t] THEN FoundDevice(t) ELSE devices[h]
    BY <1>1, <2>1, <2>4 DEF TypeOK
  <2> QED
    BY <1>1, <2>2, <2>3, <2>5 DEF MacsInv, KnownHosts
<1>2. ASSUME TypeOK, EnrichMacsFromArp
      PROVE  Improves
  <2>1. PICK fresh \in ArpTables :
          devices' = [h \in Hosts |-> IF NewMac(fresh, h)
                                      THEN [devices[h] EXCEPT !.mac = fresh[h]]
                                      ELSE devices[h]]
    BY <1>2 DEF EnrichMacsFromArp
  <2>2. ASSUME NEW h \in Hosts, devices[h] # NoDevice, NewMac(fresh, h)
        PROVE  devices'[h] # NoDevice /\ devices'[h].mac # NoMac
    <3>1. devices[h] \in Device /\ fresh[h] \in Macs \cup {NoMac} /\ fresh[h] # NoMac
      BY <1>2, <2>2, ArpAssumption DEF TypeOK, NewMac
    <3>2. devices'[h] = [devices[h] EXCEPT !.mac = fresh[h]]
      BY <2>1, <2>2
    <3>3. devices'[h] \in Device /\ devices'[h].mac = fresh[h]
      BY <3>1, <3>2 DEF Device
    <3> QED
      BY <3>1, <3>3, NoDeviceAssumption
  <2>3. \A h \in Hosts : ~NewMac(fresh, h) => devices'[h] = devices[h]
    BY <2>1
  <2> QED
    BY <2>2, <2>3
<1>3. TypeOK /\ ScanInv /\ MacsInv /\ [Next]_vars => [Improves]_vars
  <2> SUFFICES ASSUME TypeOK, ScanInv, MacsInv, [Next]_vars PROVE Improves
    OBVIOUS
  <2>1. CASE Dispatcher /\ ~EnrichMacsFromArp
    <3>1. UNCHANGED devices
      BY <2>1 DEF Dispatcher, Prepare, CheckCancel, LockPauseMutex, TestPaused,
             TestCancelOrSleep, WaitTimesOut, RecheckCancel, AcquirePermit, AbandonHost,
             StartTask, WaitForDone, SkipEnrichment, EmitUpdated, AllUpdatesEmitted,
             Summarize, Finish, OnlyGoto, results
    <3> QED
      BY <3>1
  <2>2. ASSUME NEW t \in Tasks, TaskStep(t), ~ReportAlive(t) PROVE Improves
    <3>1. UNCHANGED devices
      BY <2>2 DEF TaskStep, PoolRuns, TaskChecksCancel, ProbeHost, ReleasePermit,
             ReportDead, CountHost, EmitDiscovered, EmitProgress, results
    <3> QED
      BY <3>1
  <2>3. CASE Control \/ UNCHANGED vars
    <3>1. UNCHANGED devices
      BY <2>3 DEF Control, CompleteRequest, RequestPause, RequestResume, RequestCancel,
             CancelUnpauses, WakeAll, OtherThreads, results, vars
    <3> QED
      BY <3>1
  <2> HIDE DEF Improves
  <2> QED
    BY <1>1, <1>2, <2>1, <2>2, <2>3 DEF Next
<1>4. Spec => []TypeOK
  BY TypeCorrect, PTL
<1> QED
  BY <1>3, <1>4, ScanInvariant, MacsAlways, PTL DEF Spec, DevicesOnlyImprove
=============================================================================
