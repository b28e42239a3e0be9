------------------------------ MODULE Settings ------------------------------
(***************************************************************************)
(* The settings and the windows that show and follow them: src/src/storage/ *)
(* SettingsStore.cpp, src/src/ui/SettingsDialog.cpp and the parts of        *)
(* src/src/ui/MainWindow.cpp that read or write a setting.                 *)
(*                                                                         *)
(* QSettings keeps the values in the process and writes the changed ones to *)
(* the file from the event loop, when it also takes over what others wrote. *)
(***************************************************************************)
EXTENDS Instances, PortProfiles, TLC

CONSTANTS
  Edits,      \* what a user may change in the dialog: setting |-> value
  Touches,    \* what a user may change in the control bar: widget |-> value
  Suggested,  \* the target NetworkInfoPanel proposes
  SystemDark, \* systemPrefersDark()
  NoDialog, NoScan

VARIABLES
  stored,   \* the settings file
  windows,  \* process |-> its window
  chosen,   \* history: the settings as last confirmed, by OK or by a start
  unsaved   \* history: a crash took changed settings with it

settingsVars == <<stored, windows, chosen, unsaved>>

-----------------------------------------------------------------------------
(* The store: every getter with its default. *)

NoText == ""     \* an empty QString

Shortcuts ==
  ("scan.start" :> "Ctrl+R") @@ ("scan.stop" :> "Ctrl+.") @@ ("scan.pause" :> "Ctrl+P")
  @@ ("export.report" :> "Ctrl+E") @@ ("app.settings" :> "Ctrl+,")

Defaults ==
  [ speed |-> "Normal", portProfile |-> "Top 100", customPorts |-> <<>>, lastTargets |-> NoText,
    methods |-> {"Arp", "Icmp", "TcpConnect"}, resolveHostnames |-> TRUE, mdns |-> FALSE,
    netbios |-> FALSE, detectOs |-> TRUE, grabBanners |-> TRUE, useOnlineVendor |-> FALSE,
    autoScan |-> TRUE, periodic |-> FALSE, interval |-> 15, keepHistory |-> TRUE,
    startOnBoot |-> FALSE, tray |-> TRUE, notifications |-> TRUE, language |-> NoText,
    theme |-> "system", shortcuts |-> Shortcuts ]

(* The first record's values, and the second's where it has none. *)
Over(r, s) == [k \in DOMAIN r \cup DOMAIN s |-> IF k \in DOMAIN r THEN r[k] ELSE s[k]]

(* setValue(): the process sees it at once, the file later. *)
SetValues(w, values) ==
  [w EXCEPT !.values = Over(values, @), !.changed = @ \cup DOMAIN values]

Synced(w) == [k \in DOMAIN stored |-> IF k \in w.changed THEN w.values[k] ELSE stored[k]]
Merged(w) ==
  [w EXCEPT !.values = Synced(w), !.changed = {}, !.merged = @ \/ Synced(w) # w.values]

-----------------------------------------------------------------------------
(* What follows the settings *)

Dark(theme) == theme = "dark" \/ (theme # "light" /\ SystemDark)

(* reschedulePeriodic(): minutes, 0 when stopped. *)
TimerFor(values) == IF values.periodic THEN Max({1, values.interval}) ELSE 0

(* fault: the timer is left as it is. *)
LeaveTimer(w) == w

Reschedule(w) == [w EXCEPT !.timer = TimerFor(w.values)]

ApplyTheme(w) == [w EXCEPT !.dark = Dark(w.values.theme)]
ApplyShortcuts(w) == [w EXCEPT !.keys = w.values.shortcuts]

NoWindow == [open |-> FALSE]
NewWindow(values) ==
  [ values |-> values, changed |-> {}, merged |-> FALSE,
    speed |-> values.speed, portProfile |-> values.portProfile, touched |-> FALSE,
    target |-> IF values.lastTargets = NoText THEN Suggested ELSE values.lastTargets,
    dark |-> Dark(values.theme), keys |-> values.shortcuts, timer |-> TimerFor(values),
    tray |-> values.tray, starting |-> values.autoScan, dialog |-> NoDialog, scan |-> NoScan ]

(* buildConfig(): the control bar and the stored settings; an empty target  *)
(* is the suggested one, and no method at all is a TCP connect.             *)
BuildConfig(w) ==
  LET methods == w.values.methods \ {"Raw"} IN
  [ target |-> IF w.target = NoText THEN Suggested ELSE w.target,
    methods |-> IF methods = {} THEN {"TcpConnect"} ELSE methods,
    speed |-> w.speed, portProfile |-> w.portProfile,
    ports |-> IF w.portProfile = "Custom" THEN ParseSpec(w.values.customPorts)
              ELSE ForName(w.portProfile),
    hostnameMethods |->
      {n \in {"Dns", "Mdns", "NetBios"} :
         w.values[[Dns |-> "resolveHostnames", Mdns |-> "mdns", NetBios |-> "netbios"][n]]},
    resolveHostnames |-> w.values.resolveHostnames, detectOs |-> w.values.detectOs,
    grabBanners |-> w.values.grabBanners ]

-----------------------------------------------------------------------------
SettingsInit ==
  /\ stored = Defaults
  /\ windows = [p \in Processes |-> NoWindow]
  /\ chosen = Defaults
  /\ unsaved = FALSE

Window(p) == windows[p]
Update(p, w) == windows' = [windows EXCEPT ![p] = w]
Reaches(p) == Window(p) # NoWindow /\ Window(p).dialog = NoDialog

OpenWindow(p) == Update(p, NewWindow(stored)) /\ UNCHANGED <<stored, chosen, unsaved>>

(* The control bar. *)
ASSUME TouchesAssumption ==
  \A t \in Touches : DOMAIN t \subseteq {"speed", "portProfile", "target"}

Touch(p) ==
  /\ Reaches(p)
  /\ \E t \in Touches : Update(p, Over(t, [Window(p) EXCEPT !.touched = TRUE]))
  /\ UNCHANGED <<stored, chosen, unsaved>>

(* onStartScan(), by the user, the tray, the periodic timer or the start of *)
(* the program: the last three also while the dialog is open.  The question *)
(* before a large scan is in ScanSession.                                   *)
Remembered(w) ==
  [lastTargets |-> w.target, speed |-> w.speed, portProfile |-> w.portProfile]

StartScan(p) ==
  /\ Window(p) # NoWindow
  /\ Window(p).scan = NoScan
  /\ Reaches(p) \/ Window(p).tray \/ Window(p).timer > 0 \/ Window(p).starting
  /\ LET w == Window(p) IN
     Update(p, [SetValues(w, Remembered(w)) EXCEPT
                  !.scan = BuildConfig(w), !.touched = FALSE, !.starting = FALSE])
  /\ chosen' = Over(Remembered(Window(p)), chosen)
  /\ UNCHANGED <<stored, unsaved>>

(* onScanFinished() begins the interval again. *)
FinishScan(p) ==
  /\ Window(p) # NoWindow
  /\ Window(p).scan # NoScan
  /\ Update(p, Reschedule([Window(p) EXCEPT !.scan = NoScan]))
  /\ UNCHANGED <<stored, chosen, unsaved>>

-----------------------------------------------------------------------------
(* The dialog *)

(* load() and save(): all settings but the last targets. *)
InDialog == DOMAIN Defaults \ {"lastTargets"}
ASSUME EditsAssumption == \A e \in Edits : DOMAIN e \subseteq InDialog

Load(values) ==
  [k \in InDialog |->
     IF k = "theme" /\ values.theme \notin {"system", "light", "dark"} THEN "system"
     ELSE values[k]]

(* fault: the list of ports is not saved. *)
SaveMost(fields) == [k \in InDialog \ {"customPorts"} |-> fields[k]]
Save(fields) == [k \in InDialog |-> fields[k]]

OpenSettings(p) ==
  /\ Reaches(p)
  /\ Update(p, [Window(p) EXCEPT !.dialog = Load(Window(p).values)])
  /\ UNCHANGED <<stored, chosen, unsaved>>

EditSettings(p) ==
  /\ Window(p) # NoWindow
  /\ Window(p).dialog # NoDialog
  /\ \E e \in Edits : Update(p, [Window(p) EXCEPT !.dialog = Over(e, @)])
  /\ UNCHANGED <<stored, chosen, unsaved>>

(* settingsApplied: the control bar takes the saved speed and ports too. *)
SettingsApplied(w) ==
  [Reschedule(ApplyShortcuts(ApplyTheme(w))) EXCEPT
     !.speed = w.values.speed, !.portProfile = w.values.portProfile, !.touched = FALSE]

AcceptSettings(p) ==
  /\ Window(p) # NoWindow
  /\ Window(p).dialog # NoDialog
  /\ LET w == Window(p) IN
     Update(p, SettingsApplied(SetValues([w EXCEPT !.dialog = NoDialog], Save(w.dialog))))
  /\ chosen' = Over(Window(p).dialog, chosen)
  /\ UNCHANGED <<stored, unsaved>>

RejectSettings(p) ==
  /\ Window(p) # NoWindow
  /\ Window(p).dialog # NoDialog
  /\ Update(p, [Window(p) EXCEPT !.dialog = NoDialog])
  /\ UNCHANGED <<stored, chosen, unsaved>>

-----------------------------------------------------------------------------
(* The event loop writes what has changed; so does the end of the window. *)
Sync(p) ==
  /\ Window(p) # NoWindow
  /\ Window(p).changed # {}
  /\ stored' = Synced(Window(p))
  /\ Update(p, Merged(Window(p)))
  /\ UNCHANGED <<chosen, unsaved>>

(* closeEvent() only hides a window that has its tray icon; Quit ends it.   *)
CloseWindow(p) ==
  /\ stored' = Synced(Window(p))
  /\ Update(p, NoWindow)
  /\ UNCHANGED <<chosen, unsaved>>

LoseWindow(p) ==
  /\ Update(p, NoWindow)
  /\ unsaved' = (unsaved \/ (Window(p) # NoWindow /\ Window(p).changed # {}))
  /\ UNCHANGED <<stored, chosen>>

WindowStep(p) ==
  \/ Touch(p) \/ StartScan(p) \/ FinishScan(p)
  \/ OpenSettings(p) \/ EditSettings(p) \/ AcceptSettings(p) \/ RejectSettings(p)
  \/ Sync(p)

-----------------------------------------------------------------------------
(* Properties *)

(* A window lives by its settings: theme, shortcuts and periodic timer are  *)
(* those of the settings, whatever scans began or ended while the dialog    *)
(* was open, and the control bar shows the stored speed and ports unless    *)
(* the user has touched it since the last start or OK; unless the settings  *)
(* of another window came in with the file.                                 *)
SettingsInForce ==
  \A p \in Processes :
    Window(p) # NoWindow =>
      LET w == Window(p) IN
      w.merged \/ /\ w.dark = Dark(w.values.theme)
                  /\ w.keys = w.values.shortcuts
                  /\ w.timer = TimerFor(w.values)
                  /\ w.touched \/ /\ w.speed = w.values.speed
                                  /\ w.portProfile = w.values.portProfile
=============================================================================
