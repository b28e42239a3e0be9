# PacNScanner: specifications, checks and proofs

TLA+ models of PacNScanner: its scan engine and target arithmetic, what a scan finds out about a
host, the main window with its inventory and views, settings, log, reports, and the life of its
processes; the TLC configurations that check them, and TLAPS proofs of the properties that
matter most. Paths below are relative to the repository, as listed in `PROJECT.json`
(`src/src/...` is the code, `src/docs/...` the guides). `PROJECT.json` maps every definition
to the lines it models.

## 1. The system

PacNScanner is a Qt 6 network scanner. Everything concurrent in it starts from one scan:

    MainWindow --start/pause/cancel--> ScanEngine --owns--> QThread + ScanWorker --> QThreadPool
        ^                                  |                     (dispatcher)         (HostTasks)
        +--- queued signals: started, deviceDiscovered, deviceUpdated, progress, finished <---+
        |
        +--> DeviceTableModel, favourites / labels / known keys, Database (SQLite)

| Component | State | Operations | Talks to | Modelled in |
|---|---|---|---|---|
| `ScanWorker` | `paused_`, `cancel_`, `done_`, `total_`, `summary_`, `devices_`, a semaphore on `run()`'s stack, the pool | `run`, `HostTask::run`, `requestPause/Resume/Cancel`, `reportHostFinished`, `enrichMacsFromArp` | signals; `arpTable()`; probes | `ScanWorker`, `ScanJob` |
| `ScanEngine` | `running_`, `worker_`, `thread_` | `start`, `cancel`, `pause`, `resume`, `teardown`, destructor, the handler of `finished` | owns worker and thread; hands signals on | `ScanEngine` |
| `IpRange`, `NetUtils`, `ScanConfig` | none | `parse`, `parseList`, `hostCount`, `expand`, `nextAddress`, `totalHostCount`, `hasHugeTarget` | called by window and worker | `IpRange`, `TargetScan` |
| `MainWindow`, the session | buttons, nested confirmation boxes, the periodic timer | `onStartScan`, `onPauseResume`, `onStopScan`, `onScanStarted/Finished`, `closeEvent` | `ScanEngine` | `ScanSession` |
| `MainWindow`, `DeviceTableModel`, `DeviceDetailDialog` | rows and their index, `favByKey_`, `labelsByKey_`, `knownKeys_`, `firstScanDone_` | discovery, update, finish, import, favourite, labels, close | `Database` | `Inventory` |
| `Database` | tables devices, labels, scans, device_history | `upsertDevice`, `loadDevices`, `setFavorite`, `addLabel`, `removeLabel` | SQLite | `Inventory` (devices, labels) |
| `MainWindow`, cards, charts, report, `DeviceFilterProxyModel` | copies of the table, `lastSummary_` | `updateCards`, `setDevices`, `exportReport`, `lessThan`, `filterAcceptsRow` | the table | `DeviceView` |
| Host pipeline: `enrichHost`, `HostnameResolver`, probes, `ServiceDetector`, `OsFingerprinter`, `DeviceClassifier`, `RiskEngine`, `VendorLookup`, the Unix platform's ARP table and gateways | the probe factory's cached probes, a look-up's frame | one task per host | network | `HostTasks`, `HostFacts` |
| `PortProfiles`, `Importers`, `Exporters`, `Device` JSON, `cli/main` | the report file | parse, write, read, exit codes | files | `PortProfiles`, `Reports`, `CommandLine` |
| `SettingsStore`, `SettingsDialog`, control bar | the settings file and each process's copy | load, save, apply, delayed writing | `QSettings` | `Settings` |
| `Logger` | the open log | `init`, `log`, rotation | files | `LogFiles` |
| `app/main` | the local server | single instance, opening and closing | all of the above | `Application`, `Instances` |
| `UpdateChecker`, widgets, topology, build files | | one request, painting | | out of scope |

### What is hard in it

* Three kinds of threads share a scan: the GUI thread, the worker's thread, which dispatches
  hosts, and the pool. Pause and cancel are two atomics stored *outside* the mutex of the wait
  condition they wake; `cancel_` is read four times per host and again for the summary.
* A task gives its semaphore permit back *before* it reports, so that free permits do not mean
  finished tasks; and it emits its events outside the lock, so that they arrive in any order.
* Signals are queued. Those of a deleted worker stay in the GUI thread's queue; `running_`
  is cleared when `finished` is *delivered*; the slot of `finished` may start the next scan,
  after which the rest of the handler quits the new thread.
* `teardown()` blocks the GUI thread on a thread that may be paused.
* Address arithmetic ends at 255.255.255.255 and at 2^128 - 1, counts wrap at 2^64, and IPv6 is
  cut at 65536 addresses in two places.
* `QMessageBox::question` runs an event loop inside `onStartScan()`; the periodic timer and the
  tray may call it again.
* A device is keyed by its MAC, or by its address while the MAC is unknown; the key changes
  between scans while favourites, labels, known keys and rows are filed under it.
* The inventory is stored row by row and a crash may fall between two rows.
* Cards and charts are copies, refreshed by some handlers; file dialogs run the event loop between
  a question and its consequence.
* A reverse DNS look-up is given up after a time-out but not aborted; its functor refers to the
  frame it was made in, and the thread's next look-up runs the event loop that delivers it.
* The pool's threads share lazily made probes without a lock.
* Processes share a log that each of them rotates, and settings each of them writes back late.

`PROJECT.json` lists each of these as a hazard at its line, with the properties that watch it.

## 2. Modules

### ScanJob: what a scan promises
The abstract specification: targets are probed or, after a cancel, skipped, each at most once;
the outcome is "complete" only if all were probed and nobody had asked to cancel. `ScanWorker`
implements it and `ScanEngine` is built on it, so that the engine need not know about threads.

### ScanWorker: `src/src/core/ScanWorker.cpp`
One action per step between two accesses to shared state. `dpc` is the dispatcher's place in
`run()` and `waitWhilePaused()`: the head test, the mutex, the test of `paused_`, the test of
`cancel_`, the sleep, the second test, `permits.acquire()`, `pool_.start()`, `waitForDone()`,
the enrichment, the summary, `finished`. `tpc[t]` is the place of the task of iteration `t`:
queued, two tests of `cancel_` and the probe, release of the permit, report under the lock,
the two emissions. `ctl` is the controlling thread, which may be inside `requestResume()` or
`requestCancel()`, between the stores and the `wakeAll()`. The inputs are the addresses
(`HostOf`, where an address may occur twice), the announced total (`Counted`), the concurrency
and the answers `arpTable()` may give at either reading. What a probe finds is a free choice.
`phaseChanged` and `logMessage` carry text only and are left out.

### ScanEngine: `src/src/core/ScanEngine.cpp`
`thread` follows the `QThread` (starting, working, summarized, returned, looping, ended),
`gui` the GUI thread (also blocked in `wait()`), `mailbox` the queued events with the number of
the run that posted them, `inFinished` the handler of `finished` on the stack, from which slots
may use the engine. The client is the most general one: it starts, cancels and destroys at any
moment the GUI thread is free.

### IpRange and TargetScan
`IpRange` holds the pure part over addresses of scaled width (constants for 32, 8, 128 and 64
bits and the cap of 65536). `TargetScan` runs it: the text of the target box is parsed,
confirmed, counted, and visited by the loops of `run()`, one iteration a step; or expanded by
`IpRange::expand()`, whose separate loop and cap must agree. The reference definition is
`Denoted`: the set of addresses a token stands for, by prefix and order, not by the code's
arithmetic. `MCScanWorkerTargets` composes the two: `ScanWorker` runs on what `IpRange` makes of
two overlapping targets and a capped one.

### ScanSession: the main window and the engine
`ScanSession` extends `ScanEngine` with the window: each action is a step of the engine, or
none, together with what the slot does to the window. `questions` counts the `onStartScan()`
calls that wait for an answer. `handled` counts the hosts reported to the table since its last
`clear()`; a "progress" event of the engine stands for one host's report. A slot of `finished`
never starts a scan here, which is a restriction of the engine's client to what the window does.

### Inventory: what the window remembers and stores
Every handler is one step of the GUI thread: discovery, update, finish, import, the dialog's
box and labels, close, start, and a crash, which may also fall among the rows being stored.
A device is its address, MAC, status New, favourite and labels. `db` is the table devices, read
back as `loadDevices()` does; the order in which SQL returns the rows is free. `heard` is
history: the keys this process loaded, discovered or imported. The dialog is modal, so import
and a second dialog wait for it, but the timer's scan does not. `onStartScan()` is either one step
(`StartScan`, for targets that need no question) or a question (`AskToStart`, guarded by
`isRunning()`) and its answer, of which `questions` counts the open ones, one box in the other;
the tail of the handler (`TableForScan`) empties the table and `newThisScan_` also when a scan that an
inner box began still runs, and then starts nothing. Labels are sets: a label typed
twice is one label. The tables scans and device_history are written and never read.

### DeviceView: what the window shows
Extends `Inventory`: every action is one of the inventory's together with the refreshes its handler
makes (`UpdateCards`, `DrawCharts`), or one of the file dialog of the report, behind which the timer,
its question and the engine's events go on. Two variables are history: `origin` says of each address what
brought its row (the load at start, the scan of a number, a file), so that a report can be asked for rows of
another scan than its summary's; `emptied` that a late Yes emptied the table of the scan that runs, after which
the charts may be of rows that are gone until the scan ends. `chartThrottle` draws the charts at every `ChartPeriod`th discovery (20
in the code, 2 in the run). Filter and sorting are operators (`Visible`) over the rows: the text a row is
matched with is any set of addresses, a column is a rank, `QSortFilterProxyModel` is a stable sort.

### HostFacts, HostTasks, PortProfiles: what a scan finds out about a host
`HostFacts` has the pure rules: service names and flags, banners, TTL, operating system, device
class, risk, vendors, the Unix platform's ARP table and gateways. Ports are numbers, because the
rules name them; a banner is what the rules can tell of its text. `HostTasks` is `HostTask::run()`
and `enrichHost()` on the threads of the pool, in steps between accesses to what the threads share:
the test, the store and the copy of the factory's `shared_ptr` (the copy in two steps, pointer and
count), the probes, the look-up with its event loop, the loop over the ports. A late answer is
delivered in the thread's next look-up; where it writes is undefined behaviour, and the model
lets it hit the variables of that look-up or nothing. `PortProfiles` makes the list of ports from a
profile's name or a specification; `HostTasks` assumes of a configuration's list that it has ports of 16 bits and
each once, which the lists of `PortProfiles` satisfy (section 5).

### Reports and CommandLine
`Reports` writes and reads the files. JSON keeps values; CSV is text, a line a sequence of
characters in which a run that the format does not tell apart is one. `CommandLine` is `cli/main.cpp`
around `HostTasks`, from options through the scan and the second reading of the ARP table
(`EnrichMacsFromArp`, which changes MAC, vendor and class of listed devices, not their score) to file and exit
code. It stands for the window's reports too: any of its three formats, after a cancel or not, with
labels, favourites and the status New, which only its JSON holds (`Marks`).

### Instances, LogFiles, Settings, Application: the processes of one user
`LogFiles` follows names, files and handles apart, as the operating system does; a file is a
sequence of lines of one length. A rotation is four steps (close, remove, rename, reopen), each of
which other processes may come between. `platform` decides whether an open file can be renamed and
whether local servers work under a name with slashes (the name holds the home directory's path, so on
Unix `listen()` fails unnoticed and every start opens a window). `Settings` has the store as each
process sees it, the file, the dialog, the control bar and what follows them (theme, shortcuts, timer).
`Application` composes them along `main()`. Its `EditSettings`, `Touch` and `StartScan` spend a budget,
as do log lines in the window; that is the bound of the run.

Definitions marked "fault" next to a definition are slips that no action makes. They exist so
that each property can be shown to notice the slip it is there for (`mutants` in `PROJECT.json`).

## 3. Runs

| Run | Instance | Question |
|---|---|---|
| `ScanWorkerSafety` | 3 addresses, 2 threads, two ARP tables with different MACs | Joined tasks, permits, wake-ups, pause, each count announced once, and a GUI that replays the events and ends up with the worker's devices |
| `ScanWorkerOverlap` | addresses and total from `IpRange`: 2 overlapping IPv4 targets, a capped IPv6 one; 1 thread, fair | The worker is a `ScanJob`; a second report takes no device or MAC away; the summary counts answers, and the devices are those that answered, at risk only if an answer was; a canceled scan ends, paused before or after; a scan not left paused ends |
| `ScanEngine` | 3 runs, 2 targets, fair | Stale events, idle and running, one `finished` per run, deletion after `run()`, destructor and cancel return |
| `TargetScan` | 3-bit IPv4, 5-bit IPv6, 4-bit count, cap 4; every token and lists of two | The loops visit what tokens denote, in order and in the closed form `ScanWorker` is given; the totals are those of the loops where `hostCount()` is right and the cap, no less than is visited, for a range across the end of a low half; `expand()` agrees |
| `TargetScanConfirm` | the token `fe80::/64` | *Violation*, below |
| `ScanSession` | 3 runs, 2 targets, 2 boxes, fair | Buttons follow the engine, Resume stands for a paused scan, the table holds this scan only, Stop gives Start back |
| `ScanSessionTable` | the same | *Violation*, below |
| `Inventory` (of `DeviceView`) | a host seen without and with its MAC, a file that gives another address the same MAC, 2 scans, 2 starts, 2 questions, the detail dialog opened once, chart period 2 | Index, stored favourites, New once per key, labels in the database; cards and charts follow the table, a report has no row of another scan than its summary's, the sorted view is an order and loses no row |
| `InventoryFavourites` | one host, 2 scans, no restart | *Violation*, below |
| `HostTasks` (of `CommandLine`) | 4 hosts (3 that answer, one with eleven open ports), 2 threads, three configurations, look-ups in time, late or given up, cancels | Shared probes live as long as they are used unless their first calls raced; risk is that of the open ports; a wrong name is only that of a look-up given up on the same thread; files give devices back, from the window's JSON with labels, favourites and New |
| `HostNames` | the same | *Violation*, below |
| `Application` | 2 processes on either platform, full log of 3 lines, 5 lines or 2 changes or 1 of each | The last lines are on disk; windows live by their settings; what was confirmed last is read next; starts that do not overlap open one window |

Why the bounds are enough. Three hosts on two threads is the least in which a task waits for a
permit while another has released its own and still reports. Overlap needs one address twice.
Three runs of the engine let a stale event come from a deleted worker, through a restart from a
slot, to a third run. In `IpRange` every branch depends on a boundary (host bits 0, 1, 2 and
more, last octet, last address, low half, cap), and each occurs in the scaled widths; the check
is exhaustive over tokens. Two open boxes are the least with an outer and an inner one. One host
with two keys, a second address with the same MAC, two scans and a restart give each pair of
"filed under the old key, read under the new". The detail dialog may be opened once in such a run, and marks, labels and
unmarks as often as it likes, over both scans; the proofs have no such bound. A period of two draws the charts at one discovery and not
at another. Two threads are the least that race for a probe; with three hosts that answer one of them
meets a late answer in its second look-up, and again in its third. Two processes are the least that
share a log; five lines, beside the one each start writes, rotate a file of three, and three are the least in which lines of
another push one's own out of the backup; `SequentialStartsAreSingle` is proved for any
number. The budgets are apart because log and settings share nothing but the processes. Deadlock is checked except where the system
really stops: a finished engine, a scan of targets, a closed program, processes that are over.

### Findings
* **A whole low half is not confirmed** (`TargetScanConfirm`): `hostCount()` of `fe80::/64` is
  2^64, which wraps to 0: no confirmation, a total of 0, and a bar that stays where it is. On the
  other side a small IPv6 range across the end of a low half counts as huge. `VisitsWhatIsDenoted`
  shows that the loops themselves are right; the wrap of `nextAddress()` at the last IPv6
  address, where `NetUtils.h` promises that it stays, is never reached.
* **The table loses devices** (`ScanSessionTable`): Start asks about a large scan; the timer
  asks a second time in the first one's event loop; its Yes begins a scan; a later Yes to the
  first clears the table while `start()` returns because a scan runs.
* **A favourite is forgotten** (`InventoryFavourites`): marked while the device is known by its
  address, it is filed under the address; the next scan knows the MAC, reads the favourite under
  it, and shows none. The same trace counts and announces the device as new a second time, and a
  label filed under the address goes the same way. The column in the database survives
  (`StoredFavouriteStays`) under the old key.

* **A host gets another's name** (`HostNames`): the look-up of one host is given up, its answer comes
  while the same thread waits for the next host's, and is written there; the loop of the second
  look-up ends and the first host's name is taken for the second. `NamesComeFromGivenUp` shows that
  nothing worse happens to names: without a look-up given up on a thread its names are right.

Smaller things met on the way, not made into runs. *Scan and window*: `summary_.risky` and `hostsUp` count
reports, so that an address of two overlapping targets counts twice where `ScanEngine.h:22` says devices
(`SummaryCountsAnswers` says what does hold);
a pause from the menu before `onScanStarted`
has its button text reset (the reverse of `ResumeMeansPaused` does not hold); a device announced
as new turns Online when its MAC is filled in; the favourite box toggles the row instead of
setting it, so that a scan by the timer under an open dialog may invert it; no code sets the
status Lost of the guide; a descending sort puts the prioritized rows last (`USER_GUIDE.md:35`: floats to the
top; `TableIsInOrder` claims their place for ascending sorts only); a report of imported rows carries the
summary of the last scan, or none; the topology is drawn neither at start nor after an import; importing and closing insert a row of
scans with the last summary; the speed box compares its translated text with English names.
*Hosts*: an ARP-only scan finds no host, although the comment in `DefaultProbeFactory.cpp:19` has the ARP table
consulted later; the cut after "Server:" in `refineFromBanner()` cuts nothing; mDNS and NetBIOS give no name on
real platforms and are switched off with DNS. *Files*: a CSV import drops status, level and class, so
that a high score comes back with the level Info; a label with "|" comes back as two; HTML says that no medium or
higher risks were found of a device whose level is Medium from a score without findings; the command line
exits with 0 when the report could not be written, and `-p Custom` scans no port. *Processes*: on Unix the
name of the single instance holds slashes, so that `listen()` and `connect` fail and every start opens a
window; after its own rotation a handle no longer appends, so that two processes write over each
other's lines; a rotation next to a second process on Windows truncates without a backup; a reopening that
fails ends the log; OK in the settings dialog writes back values loaded before a scan by the timer
stored others; `startOnBoot`, `useOnlineVendor` and the adaptive timeout are stored and not used, the tray
setting takes effect at the next start, and the check for updates, which `PRIVACY.md:28` says can be disabled, has no
switch.

## 4. Fairness
`ScanWorker`: weak fairness of the dispatcher, of each task and of a request once begun. The
operating system schedules threads, every probe has a timeout, and `requestResume/Cancel` do not
block. Nobody is obliged to resume, cancel or pause. `ScanEngine` and `ScanSession`: weak fairness
of the scan's thread and of the GUI thread's event loop (the loops of the boxes included);
reporting hosts is *not* fair, because a scan may be paused for ever: that a canceled scan ends is
what `ScanWorkerOverlap` shows of the worker (`EndsAsPromised`, the liveness of `ScanJob`), and the
engine relies on it. The user is never fair. The other modules have safety properties only: what they wait for
(the user, the network, the next scan) nobody owes them.

## 5. Proofs
Checked by TLAPS for every value of the constants, under the named assumptions of the modules
(`NAssumption`, `HostsAssumption`, `ConcurrencyAssumption`, `ArpAssumption`, `MaxRunsAssumption`,
...), all of which TLC evaluates. Most type the constants. Those that say more: an absent row is not a row
(`AbsentAssumption`); the two hand-written lists of ports hold 16-bit numbers, the first each once
(`ListsAssumption`, as the tables in `PortProfiles.cpp` do); a configuration lists each port once
(`ConfigsAssumption`), which `CommandLineListsPortsOnce` proves of every command line and which the window shares,
because both take their lists from `PortProfiles`. Each inductive invariant was first an invariant of a TLC run.

* `ScanWorker_proofs`. Types are inductive with the fact that the dispatcher's cursor does not
  pass the last address. *Completeness* (`UncanceledIsComplete`) needs that a task is skipped, or an
  iteration left out, only when `cancel` is already set, and that `cancel` is never reset.
  *Wake-ups* (`WakeupsAreNotLost`) need that whoever holds the mutex between test and wait still
  sees the flags it tested or has a `wakeAll()` to come. *Pause* (`PauseStopsTheScan`) counts the
  host the dispatcher may already carry past the gate. *Permits* (`PermitsAreConserved`) is a
  statement about the cardinality of the set of permit holders, step by step, with
  `FiniteSetTheorems`; `ScanIsStreamed` follows from it and from the size of the pool.
  *Refinement* (`ImplementsScanJob`): the mapping takes a host as probed or skipped when its report is
  in the results, the outcome as known when the summary is; each step is then a `ScanJob` step or
  a stutter.
  The second half of the module is about what a scan tells. `ResultsInv` says where the result of each task is: the
  reports under the lock are numbered from 1 without a gap, each number held by the one task that is
  between lock and emission or by one posted event (`ProgressIsExact`); the counters are cardinalities of
  the sets of tasks that reported, alive and at risk, while a device is there if a task of its address reported it, at
risk only if one of them was, and if the only one was (`SummaryIsExact`); and a device differs
  from the last event about it only while the task, or the loop over the enriched MACs, that is to post
  the event is on its way (`EventsGiveTheDevices`). This took a correction: `hostsUp` counts reports, so
  that with overlapping targets it is the number of answers, not that of devices, and `risky` likewise.
  `DevicesAreKept` proves the action property: until the final tables are read every device has the MAC the
  snapshot of the start has for its address (`MacsInv`), so that a second report writes the same one again, and
  after that no task is left to report (`NoTaskOutlivesRun`).
* `ScanEngine_proofs`. The invariant says where `finished` may be: at the end of the queue, from the
  return of `run()` on, until its handler clears `running_`; hence an idle engine has an empty
  queue, and a new worker cannot meet old events. It carries `NoEventIsStale`,
  `IdleEngineHasNoScan`, `ScansAreFinishedOnce`, `WorkersOutliveTheirRun` and the types.
* `ScanSession_proofs`. *Refinement* (`SessionDrivesEngine`): an action of the window is a step of the engine or
  none, so that the engine's invariant holds below the window. `WindowInv` adds to it that buttons change
  where the engine's `started` and `finished` are handled, how many progress events the table has heard of
  those the worker posted, and that a pause stands from the press until resume or end.
* `DeviceView_proofs`, first about `Inventory`. Labels reach the database because memory and table change under the same key;
  `NothingIsNewTwice` because the known keys are those the process heard of; `RowsAreIndexed` because the index
  fits the table after a load (where it names the last of several rows of an address, `LastOfSome`, by
  well-founded induction on the naturals), an insertion, a replacement and a toggle. Rows are a
  sequence of records of whatever data: `TableInv` needs no types. `FavouritesAreKept`: `upsertDevice()` keeps the
  mark of a row it overwrites, and storing the table is a fold of it over a prefix of the rows (the crash may fall
  anywhere), so by induction on the length of the prefix no mark goes; this does need the types
  (`FavouritesInv`), since a mark is kept by a disjunction of truth values.
  Then about the views. *Refinement* (`ViewsAddNothing`): DeviceView implements `Inventory`, so the four theorems above
  hold in the run, too. `CardsAndChartsAreFresh`: since the charts were last drawn in a scan, or since it began, it
  has found at most `chartThrottle` rows, because an update always finds its row (`HostsHaveRows`); this holds until a late Yes empties
  the table of the scan, after which an update may bring a row back. `ReportsAreOfOneScan`:
  while a scan runs every row was brought by it or by a file (`ScanOfRows`), its end stores its summary, and an open file dialog has rows behind it or a scan that emptied them.
  `TableIsSorted`: `lessThan` with the row as the last tie-break is
  a strict total order, and counting the rows before each row of a finite set under such an order numbers it
  without gaps or doubles (`CountsNumber`, by induction on the size of the set); no row is lost, for any table.
* `TargetScan_proofs`, for addresses, counts and octets of any width, so for 32, 128, 64 and 8 bits. 2^n is the number of subsets
  of n things, which gives 2^(n+1) = 2 * 2^n and the rest by induction; induction itself is a fact about sets of naturals
  (`NatSet`, from the well-foundedness of <). A prefix is compared bit by bit in `Denoted`; that the numbers which
  agree in it are those of one block, and a block an interval, is `SameBits` and `NetworkIsInterval`; hence
  `TokenMeans`: what a token denotes is the interval it is parsed to, or nothing if it does not parse. `TargetInv` says where the loops
  stand: after k iterations in a range, k addresses of it are handed out and the next is the first plus k, short of the last
  and of the cap, so that `nextAddress()` never stays or wraps (`LoopsVisitClosedForm`, `ScansWhatIsDenoted`); an address of
  a parsed range is never the network's or the broadcast address, so that the test in `expand()` skips none (`ExpandAgrees`).
  `TotalIsHosts` follows the sum over the list, and for a single range across the end of a low half gives the cap. Its `FoldLeft`, that of `parseList()` and `FlattenSeq` choose a function by a
  recursive equation; `FoldExists` builds one. One statement was corrected: a sum of quint64 counts the hosts modulo
  2^64, which a list of enough ranges reaches and the scaled run does not.
* `FoldLemmas` holds what several of these modules need: induction as a fact about sets (`NatSet`), the largest
  element of a set of naturals, and that a fold of the community modules exists and satisfies its equation.
* `HostTasks_proofs`. `UnracedProbesAreCounted`: as long as only one thread at a time was between the test and the store
  of a slot, the use count of each probe is the number of threads whose copy is counted, plus the factory's
  pointer (cardinalities, as for the permits). `WrongNamesWereGivenUp`: what a look-up returns is a name of its
  host, or that of a host the same thread gave up on; `NamesInv` follows the answer from the loop to the report.
  `RiskIsExact`: the loop over the ports has found exactly the accepting ones among those it tried (`PortsInv`), in the
  order of the list and each once. The sum of the scores is a fold; it is compared with the risk of a *set* of ports by
  counting units: a port of score w stands for w elements `<<n, 1>> .. <<n, w>>`, the fold gives the cardinality of
  their union (`ScoreIsUnits`, by induction on the list), a larger set of ports has no fewer of them
  (`UnitsMonotone`), and the cut at 100 and the thresholds keep the order. That ports occur once is needed: a port listed
  twice would be scored twice.
  `PortListsAreExact` proves it of the code's lists: sorting a set numbers it without repetition
  (`AscendingSorts`), so profiles and specifications give lists of 16-bit ports, each once, and a specification's list has
  exactly the ports its parts name, whatever reversed, empty or unreadable parts it has.
  `CliRunsTasks` is the refinement that takes all this to the run's specification (`TasksOfScan`).
  `JsonFilesRestoreDevices`: every reported device has values of the enumerations only (`ReportsInv`), also after the second reading of the ARP table and with the window's marks, which written as
  names and read again come back (`TypeIsRead`: no two device types share a name), a port number survives the cast to 16
  bits, so one device does (`DeviceIsRead`), and so the list, which still is the one that was written, because nothing
  is reported, and no table read, once the file is (`FileInv`).
* `Application_proofs`. `OverlappedOrSingle`: where servers work, a process with a window listens, and a process
  about to listen has company only if starts overlapped. `WindowsLiveByTheirSettings`: whatever changes a value in
  the process's copy (control bar, start, dialog, file) is followed by what depends on it, or marks the window.
  `ConfirmedIsRead`: while windows never overlapped, an open one holds what was confirmed, and the file agrees with it but for
  what it has not written yet. `RecentLinesSurviveRotation`: of a process that nobody disturbed, the log ends with its
  latest lines and the backup with those before them (`Continues`, `Closes`, at each of the four places in a
  rotation), the lines of others only lie between, and a new file has a number no name or handle uses, of
  which there is one by counting. The last needs that processes are finitely many (`ProcessesAssumption`). This took a correction: the
  lines of others in the backup take the place of as many of one's own, which a full log of two lines cannot
  show; the run now has three.
`UncanceledIsComplete`, `ScanIsStreamed` and the two type theorems state properties that no run repeats.

Only model-checked: liveness and everything that needs `ENABLED` (`EndsAsPromised`, `EndsUnlessLeftPaused`,
`DestroyReturns`, `CancelIsHeard`, `StopGivesStartBack`), and the CSV half of `FilesRestoreDevices`. A CSV file holds its
numbers as text, and the module TLC leaves open what `ToString` gives, so that no proof can tell two numbers' texts apart;
its quoting is a loop over characters with `SelectSeq`, which the prover does not expand.

## 6. Not modelled, and the plan
Not modelled, for good: painting and layout (charts, topology, cards, log panel, themes, icons), wording and
translations, the update checker (one request whose answer is a line of text), the Windows platform and
the fake one of the tests, adapters, sockets and child processes, the parsing of `services.txt` and
`oui.txt`, opening the database and its errors, the tables scans and device_history, which nothing reads,
build files. `PROJECT.json` says of every component what of it is left out.

Open: `ScanWorker` and `HostTasks` are not composed. The first leaves what a probe finds open, the second
leaves dispatch and pause out; a mapping from the tasks of one to those of the other would join them.
