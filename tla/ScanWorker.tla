----------------------------- MODULE ScanWorker -----------------------------
(***************************************************************************)
(* One run of pacn::ScanWorker (src/src/core/ScanWorker.cpp): the thread   *)
(* that executes ScanWorker::run() and hands hosts to a thread pool, the   *)
(* pool threads that execute HostTask::run(), and the thread that calls    *)
(* requestPause, requestResume and requestCancel (the GUI thread).         *)
(*                                                                         *)
(* A step is what one thread does between two points where another thread  *)
(* can be seen: an atomic load or store, a critical section, a semaphore   *)
(* operation, a call of the pool or an event posted to the engine.         *)
(***************************************************************************)
EXTENDS Integers, Sequences, FiniteSets

CONSTANTS
  N,            \* how many addresses the two nested loops of run() visit
  Hosts,        \* the addresses
  HostOf,       \* HostOf[t]: the address visited at iteration t
  Counted,      \* what IpRange::hostCount() announces for all the targets
  Concurrency,  \* qMax(1, config_.concurrency())
  Macs, NoMac,  \* MAC addresses, and the empty string
  ArpTables,    \* the answers IPlatformServices::arpTable() may give
  NoDevice      \* a host absent from devices_

Tasks == 1 .. N

ASSUME NAssumption == N \in Nat
ASSUME HostsAssumption == IsFiniteSet(Hosts) /\ HostOf \in [Tasks -> Hosts]
ASSUME CountedAssumption == Counted \in Nat
ASSUME ConcurrencyAssumption == Concurrency \in Nat \ {0}
ASSUME ArpAssumption ==
  /\ NoMac \notin Macs
  /\ ArpTables # {} /\ ArpTables \subseteq [Hosts -> Macs \cup {NoMac}]

Device == [host : Hosts, mac : Macs \cup {NoMac}, risky : BOOLEAN]
ASSUME NoDeviceAssumption == NoDevice \notin Device

VARIABLES
  dpc,         \* where run() is
  next,        \* the iteration of its loops
  permits,     \* QSemaphore permits, a local of run()
  updates,     \* hosts whose deviceUpdated is still to be emitted
  tpc,         \* tpc[t]: where the HostTask of iteration t is
  result,      \* result[t]: what the task found
  localDone,   \* localDone[t]: the value of done_ the task saw
  ctl,         \* what the controlling thread is in the middle of
  cancel,      \* std::atomic<bool> cancel_
  paused,      \* std::atomic<bool> paused_
  arpByIp,     \* the snapshot of the ARP table
  total,       \* total_
  done,        \* done_
  hostsUp,     \* summary_.hostsUp
  risky,       \* summary_.risky
  canceled,    \* summary_.canceled
  devices,     \* devices_
  posted,      \* history: every event emitted, in posting order
  sincePause   \* history: hosts handed to the pool since requestPause

cursor  == <<next, updates>>
tasks   == <<tpc, result, localDone>>
flags   == <<ctl, cancel, paused>>
facts   == <<arpByIp, total>>
results == <<done, hostsUp, risky, devices>>
history == <<posted, sincePause>>
vars == <<dpc, permits, canceled, cursor, tasks, flags, facts, results, history>>

-----------------------------------------------------------------------------
(* Types *)

DispatcherPC ==
  {"prepare", "check", "lock", "testPause", "testCancel", "sleeping",
   "recheck", "acquire", "gate", "drain", "resolve", "update", "summarize",
   "finish", "end"}

TaskPC == {"none", "queued", "check", "probe", "release", "report",
           "announce", "progress", "done"}

Result == {"none", "skipped", "dead", "up", "risky"}
IsAlive(r) == r \in {"up", "risky"}

Summary == [scanned : Nat, hostsUp : Nat, risky : Nat, canceled : BOOLEAN]

Event == [kind : {"started"}]
         \cup [kind : {"discovered", "updated"}, device : Device]
         \cup [kind : {"progress"}, done : Nat, total : Nat]
         \cup [kind : {"finished"}, summary : Summary]

TypeOK ==
  /\ dpc \in DispatcherPC
  /\ next \in 1 .. N + 1
  /\ permits \in Int
  /\ updates \subseteq Hosts
  /\ tpc \in [Tasks -> TaskPC]
  /\ result \in [Tasks -> Result]
  /\ localDone \in [Tasks -> Nat]
  /\ ctl \in {"idle", "unpause", "wake"}
  /\ cancel \in BOOLEAN
  /\ paused \in BOOLEAN
  /\ arpByIp \in [Hosts -> Macs \cup {NoMac}]
  /\ total \in Nat
  /\ done \in Nat
  /\ hostsUp \in Nat
  /\ risky \in Nat
  /\ canceled \in BOOLEAN
  /\ devices \in [Hosts -> Device \cup {NoDevice}]
  /\ posted \in Seq(Event)
  /\ sincePause \in Nat

(* The members' initializers. *)
Init ==
  /\ dpc = "prepare"
  /\ next = 1
  /\ permits = Concurrency
  /\ updates = {}
  /\ tpc = [t \in Tasks |-> "none"]
  /\ result = [t \in Tasks |-> "none"]
  /\ localDone = [t \in Tasks |-> 0]
  /\ ctl = "idle"
  /\ cancel = FALSE
  /\ paused = FALSE
  /\ arpByIp = [h \in Hosts |-> NoMac]
  /\ total = 0
  /\ done = 0
  /\ hostsUp = 0
  /\ risky = 0
  /\ canceled = FALSE
  /\ devices = [h \in Hosts |-> NoDevice]
  /\ posted = <<>>
  /\ sincePause = 0

Emit(e) == posted' = Append(posted, e)

-----------------------------------------------------------------------------
(* Tests and effects of the steps below.  Each one marked "fault" is what   *)
(* the definition after it would be after a plausible slip in the code; no  *)
(* step uses it, and the properties are shown to notice each of them.       *)

(* fault: the range is summed up as last - first. *)
TotalOffByOne == Counted - 1
(* The sum of hostCount() over the targets. *)
TotalHosts == Counted

(* fault: > for >= in the comparison with the range's last address. *)
StepsPastLast == next > N
(* The address just handed to the pool is the last of the last range. *)
LastAddress == next = N

(* fault: the pause is looked at for the first address only. *)
PauseSeenOnce ==
  IF cancel THEN "drain" ELSE IF next = 1 THEN "lock" ELSE "acquire"
(* Where the test at the head of an iteration leads. *)
AfterHeadTest == IF cancel THEN "drain" ELSE "lock"

(* fault: waitWhilePaused() tests paused_ alone. *)
SleepsOnCancel == "sleeping"
(* Where a paused_ that reads true leads. *)
WhenPaused == IF cancel THEN "recheck" ELSE "sleeping"

(* fault: wakeAll() without pauseMutex_. *)
NoMutex == TRUE
(* pauseMutex_ is held in "testPause" and "testCancel" and nowhere else,    *)
(* since the controlling thread takes and releases it in one step.          *)
MutexFree == dpc \notin {"testPause", "testCancel"}

(* fault: tryAcquire() ignored, or the semaphore made one larger. *)
OvercommitPermits == permits >= 0
(* acquire() returns. *)
PermitAvailable == permits > 0

(* fault: a path without permits.release(). *)
KeepPermit == UNCHANGED permits
(* permits.release() *)
GiveBackPermit == permits' = permits + 1

(* fault: run() takes the return of all permits for the end of all tasks. *)
AllPermitsBack == permits = Concurrency
(* What waitForDone() waits for. *)
AllTasksReturned == \A t \in Tasks : tpc[t] \in {"none", "done"}

(* fault: the test for an empty MAC in enrichMacsFromArp() is missing. *)
AnyOtherMac(fresh, h) == devices[h] # NoDevice /\ fresh[h] # devices[h].mac
(* A device takes a MAC the fresh table has and it has not.                 *)
NewMac(fresh, h) ==
  devices[h] # NoDevice /\ fresh[h] \notin {NoMac, devices[h].mac}

(* fault: the device is copied to "updated" before its MAC is set. *)
StaleDevice(h) == [devices[h] EXCEPT !.mac = arpByIp[h]]
(* What deviceUpdated carries. *)
UpdatedDevice(h) == devices[h]

(* fault: canceled means that the loops were cut short. *)
LoopsCutShort == cancel /\ next <= N
(* summary_.canceled *)
CanceledFlag == cancel

(* fault: an address answered for before is not looked at again. *)
CountFirstRisky(t) ==
  IF result[t] = "risky" /\ devices[HostOf[t]] = NoDevice THEN risky + 1 ELSE risky
(* summary_.risky after the report of an alive host. *)
RiskyAfter(t) == IF result[t] = "risky" THEN risky + 1 ELSE risky

(* fault: done_ is read again after the lock is released. *)
SharedCount(t) == done
(* The count a task announces: the one it saw under the lock. *)
AnnouncedCount(t) == localDone[t]

-----------------------------------------------------------------------------
(* ScanWorker::run(), the dispatching thread. *)

Goto(from, to) == dpc = from /\ dpc' = to
OnlyGoto(from, to) ==
  /\ Goto(from, to)
  /\ UNCHANGED <<permits, canceled, cursor, tasks, flags, facts, results, history>>

(* started is emitted, the platform is read and total_ computed.  The first *)
(* iteration, if there is one, begins.                                      *)
Prepare ==
  /\ Goto("prepare", IF N = 0 THEN "drain" ELSE "check")
  /\ arpByIp' \in ArpTables
  /\ total' = TotalHosts
  /\ Emit([kind |-> "started"])
  /\ UNCHANGED <<permits, canceled, cursor, tasks, flags, results, sincePause>>

(* The test at the head of the iteration.  cancel_ is never reset, so       *)
(* leaving the inner loop on it leaves the outer one on the next test, and  *)
(* the test at the head of a range is one with that of its first host.      *)
CheckCancel == OnlyGoto("check", AfterHeadTest)

(* waitWhilePaused(): lock, the two loads, and the wait, which releases the *)
(* mutex and sleeps in one step and returns on wakeAll() or after 200 ms.   *)
LockPauseMutex == OnlyGoto("lock", "testPause")
TestPaused == OnlyGoto("testPause", IF paused THEN "testCancel" ELSE "recheck")
TestCancelOrSleep == OnlyGoto("testCancel", WhenPaused)
WaitTimesOut == OnlyGoto("sleeping", "lock")

RecheckCancel == OnlyGoto("recheck", IF cancel THEN "drain" ELSE "acquire")

AcquirePermit ==
  /\ Goto("acquire", "gate")
  /\ PermitAvailable
  /\ permits' = permits - 1
  /\ UNCHANGED <<canceled, cursor, tasks, flags, facts, results, history>>

(* A cancel that arrived during permits.acquire() gives the permit back. *)
AbandonHost ==
  /\ Goto("gate", "drain")
  /\ cancel
  /\ GiveBackPermit
  /\ UNCHANGED <<canceled, cursor, tasks, flags, facts, results, history>>

(* pool_.start: the task is queued until a pool thread takes it; the loops  *)
(* go on to the next address or end.                                        *)
StartTask ==
  /\ Goto("gate", IF LastAddress THEN "drain" ELSE "check")
  /\ ~cancel
  /\ tpc' = [tpc EXCEPT ![next] = "queued"]
  /\ next' = next + 1
  /\ sincePause' = sincePause + 1
  /\ UNCHANGED <<permits, canceled, updates, result, localDone, flags, facts,
                 results, posted>>

(* pool_.waitForDone(), and the test of cancel_ after it. *)
WaitForDone == AllTasksReturned /\ OnlyGoto("drain", "resolve")
SkipEnrichment == cancel /\ OnlyGoto("resolve", "summarize")

(* enrichMacsFromArp(): the critical section. *)
EnrichMacsFromArp ==
  /\ Goto("resolve", "update")
  /\ ~cancel
  /\ \E fresh \in ArpTables :
       /\ updates' = {h \in Hosts : NewMac(fresh, h)}
       /\ devices' = [h \in Hosts |->
                        IF NewMac(fresh, h)
                        THEN [devices[h] EXCEPT !.mac = fresh[h]]
                        ELSE devices[h]]
  /\ UNCHANGED <<permits, canceled, next, tasks, flags, facts, done, hostsUp,
                 risky, history>>

(* The loop over "updated", in the order of a QHash, that is, in any. *)
EmitUpdated ==
  /\ dpc = "update"
  /\ \E h \in updates :
       /\ Emit([kind |-> "updated", device |-> UpdatedDevice(h)])
       /\ updates' = updates \ {h}
  /\ UNCHANGED <<dpc, permits, canceled, next, tasks, flags, facts, results,
                 sincePause>>
AllUpdatesEmitted == updates = {} /\ OnlyGoto("update", "summarize")

(* summary_.scanned is done_ here and in every report: it has no variable. *)
Summarize ==
  /\ Goto("summarize", "finish")
  /\ canceled' = CanceledFlag
  /\ UNCHANGED <<permits, cursor, tasks, flags, facts, results, history>>

Finish ==
  /\ Goto("finish", "end")
  /\ Emit([kind |-> "finished",
           summary |-> [scanned |-> done, hostsUp |-> hostsUp,
                        risky |-> risky, canceled |-> canceled]])
  /\ UNCHANGED <<permits, canceled, cursor, tasks, flags, facts, results,
                 sincePause>>

Dispatcher ==
  \/ Prepare \/ CheckCancel
  \/ LockPauseMutex \/ TestPaused \/ TestCancelOrSleep \/ WaitTimesOut
  \/ RecheckCancel \/ AcquirePermit \/ AbandonHost \/ StartTask
  \/ WaitForDone \/ SkipEnrichment \/ EnrichMacsFromArp \/ EmitUpdated
  \/ AllUpdatesEmitted \/ Summarize \/ Finish

-----------------------------------------------------------------------------
(* HostTask::run() and reportHostFinished(), on a pool thread. *)

TaskGoto(t, from, to) == tpc[t] = from /\ tpc' = [tpc EXCEPT ![t] = to]

(* QThreadPool: a task runs when one of the maxThreadCount threads is free, *)
(* first queued first run.                                                  *)
OnPoolThread == {t \in Tasks : tpc[t] \notin {"none", "queued", "done"}}
PoolRuns(t) ==
  /\ TaskGoto(t, "queued", "check")
  /\ \A u \in Tasks : tpc[u] = "queued" => t <= u
  /\ Cardinality(OnPoolThread) < Concurrency
  /\ UNCHANGED <<dpc, permits, canceled, cursor, result, localDone, flags, facts,
                 results, history>>

(* A task that sees the cancel does not probe, but is reported. *)
TaskChecksCancel(t) ==
  /\ TaskGoto(t, "check", IF cancel THEN "release" ELSE "probe")
  /\ result' = [result EXCEPT ![t] = IF cancel THEN "skipped" ELSE @]
  /\ UNCHANGED <<dpc, permits, canceled, cursor, localDone, flags, facts, results,
                 history>>

(* The probe and, if the host answers, enrichHost(): what they find is up   *)
(* to the network, and to a cancel that cuts the port scan short.           *)
ProbeHost(t) ==
  /\ TaskGoto(t, "probe", "release")
  /\ \E r \in {"dead", "up", "risky"} : result' = [result EXCEPT ![t] = r]
  /\ UNCHANGED <<dpc, permits, canceled, cursor, localDone, flags, facts, results,
                 history>>

ReleasePermit(t) ==
  /\ TaskGoto(t, "release", "report")
  /\ GiveBackPermit
  /\ UNCHANGED <<dpc, canceled, cursor, result, localDone, flags, facts, results,
                 history>>

FoundDevice(t) == [host |-> HostOf[t], mac |-> arpByIp[HostOf[t]],
                   risky |-> result[t] = "risky"]

(* The critical section of reportHostFinished(). *)
CountHost(t) ==
  /\ done' = done + 1
  /\ localDone' = [localDone EXCEPT ![t] = done + 1]
  /\ UNCHANGED <<dpc, permits, canceled, cursor, result, flags, facts, history>>

ReportDead(t) ==
  /\ TaskGoto(t, "report", "progress")
  /\ ~IsAlive(result[t])
  /\ CountHost(t)
  /\ UNCHANGED <<hostsUp, risky, devices>>

ReportAlive(t) ==
  /\ TaskGoto(t, "report", "announce")
  /\ IsAlive(result[t])
  /\ CountHost(t)
  /\ hostsUp' = hostsUp + 1
  /\ risky' = RiskyAfter(t)
  /\ devices' = [devices EXCEPT ![HostOf[t]] = FoundDevice(t)]

(* The two emits after the lock is released. *)
EmitDiscovered(t) ==
  /\ TaskGoto(t, "announce", "progress")
  /\ Emit([kind |-> "discovered", device |-> FoundDevice(t)])
  /\ UNCHANGED <<dpc, permits, canceled, cursor, result, localDone, flags, facts,
                 results, sincePause>>

EmitProgress(t) ==
  /\ TaskGoto(t, "progress", "done")
  /\ Emit([kind |-> "progress", done |-> AnnouncedCount(t), total |-> total])
  /\ UNCHANGED <<dpc, permits, canceled, cursor, result, localDone, flags, facts,
                 results, sincePause>>

TaskStep(t) ==
  \/ PoolRuns(t) \/ TaskChecksCancel(t) \/ ProbeHost(t) \/ ReleasePermit(t)
  \/ ReportDead(t) \/ ReportAlive(t) \/ EmitDiscovered(t) \/ EmitProgress(t)

-----------------------------------------------------------------------------
(* requestPause, requestResume, requestCancel: one caller, the GUI thread.  *)
(* Resume and cancel end in the critical section that wakes the dispatcher. *)

OtherThreads == <<permits, canceled, cursor, tasks, facts, results, posted>>

RequestPause ==
  /\ ctl = "idle"
  /\ paused' = TRUE
  /\ sincePause' = 0
  /\ UNCHANGED <<dpc, ctl, cancel, OtherThreads>>

RequestResume ==
  /\ ctl = "idle"
  /\ paused' = FALSE
  /\ ctl' = "wake"
  /\ UNCHANGED <<dpc, cancel, sincePause, OtherThreads>>

RequestCancel ==
  /\ ctl = "idle"
  /\ cancel' = TRUE
  /\ ctl' = "unpause"
  /\ UNCHANGED <<dpc, paused, sincePause, OtherThreads>>

CancelUnpauses ==
  /\ ctl = "unpause"
  /\ paused' = FALSE
  /\ ctl' = "wake"
  /\ UNCHANGED <<dpc, cancel, sincePause, OtherThreads>>

WakeAll ==
  /\ ctl = "wake"
  /\ MutexFree
  /\ ctl' = "idle"
  /\ dpc' = IF dpc = "sleeping" THEN "lock" ELSE dpc
  /\ UNCHANGED <<cancel, paused, sincePause, OtherThreads>>

CompleteRequest == CancelUnpauses \/ WakeAll
Control == RequestPause \/ RequestResume \/ RequestCancel \/ CompleteRequest

-----------------------------------------------------------------------------

Next == Dispatcher \/ (\E t \in Tasks : TaskStep(t)) \/ Control

(* The threads are scheduled, probes end (each has a timeout), and a        *)
(* request once begun is completed; nobody is obliged to make a request.    *)
Fairness ==
  /\ WF_vars(Dispatcher)
  /\ \A t \in Tasks : WF_vars(TaskStep(t))
  /\ WF_vars(CompleteRequest)

Spec == Init /\ [][Next]_vars /\ Fairness

-----------------------------------------------------------------------------
(* Safety *)

RunEnding == dpc \in {"resolve", "update", "summarize", "finish", "end"}
SummaryReady == dpc \in {"finish", "end"}

(* waitForDone() joins the pool: once it returned, no task is left that     *)
(* could touch the semaphore on run()'s stack, the results, or the worker   *)
(* that ScanEngine::teardown() deletes.  Releasing the permit before the    *)
(* report (HostTask::run) is what makes this worth saying: all permits may  *)
(* be back while tasks are still reporting.                                 *)
NoTaskOutlivesRun == RunEnding => \A t \in Tasks : tpc[t] \in {"none", "done"}

(* A scan that does not say it was canceled probed every address of its     *)
(* targets: no address was left out by the loops or skipped by its task,    *)
(* whenever the cancel arrived.                                             *)
CompleteUnlessCanceled ==
  SummaryReady /\ ~canceled =>
    \A t \in Tasks : tpc[t] = "done" /\ result[t] \notin {"none", "skipped"}

(* Every permit is free, held for a task that has not released it, or held  *)
(* by the dispatcher between acquire() and start().  A leak would stop the  *)
(* scan for good in permits.acquire().                                      *)
HoldsPermit == {t \in Tasks : tpc[t] \in {"queued", "check", "probe", "release"}}
PermitConservation ==
  permits + Cardinality(HoldsPermit) + (IF dpc = "gate" THEN 1 ELSE 0)
    = Concurrency

(* ScanWorker.h: targets are streamed, large ranges never materialise a     *)
(* list.  A task may wait behind threads that released their permit and     *)
(* still report, so twice the concurrency is the bound, and it is reached.  *)
InFlight == {t \in Tasks : tpc[t] \notin {"none", "done"}}
InFlightBounded == Cardinality(InFlight) <= 2 * Concurrency

(* waitWhilePaused() never sleeps on after the resume or cancel that should *)
(* wake it: whoever changed the flags has its wakeAll() still to come.  The *)
(* flags are stored outside pauseMutex_, so this rests on wakeAll() being   *)
(* called under it; the 200 ms timeout is not needed for it.                *)
NoLostWakeup == dpc = "sleeping" /\ (cancel \/ ~paused) => ctl # "idle"

(* While the scan is paused at most one more host is handed to the pool:    *)
(* the one the dispatcher already carried past waitWhilePaused().           *)
PauseHolds == paused => sincePause <= 1

-----------------------------------------------------------------------------
(* What the engine's thread is told *)

EventsOf(kind) == {i \in DOMAIN posted : posted[i].kind = kind}

(* The pool threads emit progress outside the lock, so the counts arrive in *)
(* any order; yet each of 1 .. done_ is announced, and once.                *)
ProgressExact ==
  dpc = "end" =>
    /\ Cardinality(EventsOf("progress")) = done
    /\ {posted[i].done : i \in EventsOf("progress")} = 1 .. done

(* When the scan is over and the targets name no address twice, whoever     *)
(* replays the events holds the worker's devices, MACs included.            *)
Distinct == \A t, u \in Tasks : HostOf[t] = HostOf[u] => t = u
Heard(h) == {i \in EventsOf("discovered") \cup EventsOf("updated") :
               posted[i].device.host = h}
LastHeard(h) == posted[CHOOSE i \in Heard(h) : \A j \in Heard(h) : j <= i].device
GuiMirrorsDevices ==
  Distinct /\ dpc = "end" =>
    \A h \in Hosts :
      devices[h] = IF Heard(h) = {} THEN NoDevice ELSE LastHeard(h)

(* ScanEngine.h: hostsUp is the number of hosts that answered, risky that   *)
(* of the devices with a high risk.  The tasks count as they report, and an *)
(* address may be named by two targets: the counts are those of the answers *)
(* (the second may find other ports), while a device is one that answered,  *)
(* and is at risk only if an answer was, and surely if its only one was.    *)
Answers == {t \in Tasks : IsAlive(result[t])}
RiskyAnswers == {t \in Tasks : result[t] = "risky"}
KnownHosts == {h \in Hosts : devices[h] # NoDevice}
RiskyDevices == {h \in KnownHosts : devices[h].risky}
NamedOnce(h) == \A t, u \in Tasks : HostOf[t] = h /\ HostOf[u] = h => t = u
SummaryCountsAnswers ==
  SummaryReady =>
    /\ hostsUp = Cardinality(Answers)
    /\ risky = Cardinality(RiskyAnswers)
    /\ KnownHosts = {HostOf[t] : t \in Answers}
    /\ RiskyDevices \subseteq {HostOf[t] : t \in RiskyAnswers}
    /\ \A t \in RiskyAnswers : NamedOnce(HostOf[t]) => HostOf[t] \in RiskyDevices

(* A device once found stays, and no step takes a known MAC from it: not    *)
(* the second report of an address listed twice, not the final ARP table.   *)
DevicesOnlyImprove ==
  [][\A h \in Hosts : devices[h] # NoDevice =>
       /\ devices'[h] # NoDevice
       /\ devices[h].mac # NoMac => devices'[h].mac # NoMac]_vars

-----------------------------------------------------------------------------
(* The promise of ScanJob is kept: a target is accounted for when its       *)
(* report is in the results, and the outcome is known with the summary.     *)
Reported == {t \in Tasks : tpc[t] \in {"announce", "progress", "done"}}
Probed == {t \in Reported : result[t] # "skipped"}
Outcome == IF ~SummaryReady THEN "running"
           ELSE IF canceled THEN "canceled" ELSE "complete"

Job == INSTANCE ScanJob WITH
         Targets <- Tasks, probed <- Probed, skipped <- Reported \ Probed,
         cancelAsked <- cancel, outcome <- Outcome

(* Every step of the threads is a step of a ScanJob or leaves it unchanged. *)
KeepsPromise == Job!JobSafety

(* ... and a ScanJob that can end does end.                                 *)
EndsAsPromised == Job!JobSpec

-----------------------------------------------------------------------------
(* Liveness *)

(* A scan that is not left paused for ever ends. *)
EndsUnlessLeftPaused == <>[]~paused => <>(dpc = "end")
=============================================================================
