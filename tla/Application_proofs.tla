------------------------- MODULE Application_proofs -------------------------
(***************************************************************************)
(* Proofs about Application, for any number of processes and any bounds:    *)
(* windows that are open together come from starts that overlapped; every   *)
(* window lives by the settings of its process; what was confirmed last is  *)
(* what is read next; the last lines of an undisturbed process are on disk. *)
(***************************************************************************)
EXTENDS Application, TLAPS, FiniteSetTheorems, SequenceTheorems

(* A process that is about to listen has company only if starts overlapped. *)
MainInv ==
  /\ stage \in [Processes -> Stages]
  /\ platform = "windows" => \A p \in Processes : stage[p] = "window" => p \in listening
  /\ \A p, q \in Processes :
       p # q /\ stage[p] = "claiming" /\ stage[q] \in {"claiming", "window"} =>
         platform # "windows" \/ overlapped
  /\ together => platform # "windows" \/ overlapped

LEMMA MainInit == AppInit => MainInv
BY DEF AppInit, MainInv, Stages

(* The log belongs to one platform for good. *)
LEMMA PlatformStays == [AppNext]_appVars => platform' = platform
<1> SUFFICES ASSUME [AppNext]_appVars
             PROVE  platform' = platform
  OBVIOUS
<1>1. ASSUME NEW p, Say(p) \/ Rotate(p) \/ CloseLog(p) \/ Open(p)
      PROVE  platform' = platform
  BY <1>1 DEF Say, Unheard, WriteLine, CloseFull, Rotate, RemoveBackup, RenameLog, Reopen,
              CloseLog, Open
<1>2. ASSUME NEW p, Start(p) \/ SayStarting(p) \/ SayAnother(p) \/ SayLine(p) \/ RotateLog(p)
                    \/ EndSecond(p) \/ Quit(p) \/ Crash(p)
      PROVE  platform' = platform
  BY <1>1, <1>2 DEF Start, SayStarting, SayAnother, SayLine, RotateLog, EndSecond, Quit, Crash
<1>3. ASSUME NEW p, Probe(p) \/ OpenMainWindow(p) \/ UseWindow(p) \/ FollowWindow(p)
      PROVE  platform' = platform
  BY <1>3 DEF Probe, OpenMainWindow, UseWindow, FollowWindow, logVars
<1>4. CASE UNCHANGED appVars
  BY <1>4 DEF appVars, logVars
<1> QED BY <1>2, <1>3, <1>4 DEF AppNext

LEMMA MainNext == MainInv /\ [AppNext]_appVars => MainInv'
<1> SUFFICES ASSUME MainInv, [AppNext]_appVars
             PROVE  MainInv'
  OBVIOUS
<1>p. platform' = platform
  BY PlatformStays
<1>kept. ASSUME UNCHANGED main
         PROVE  MainInv'
  BY <1>p, <1>kept DEF MainInv, main
(* A stage that neither claims nor shows a window disturbs nobody. *)
<1>away. ASSUME NEW p \in Processes, NEW to \in Stages \ {"claiming", "window"},
                stage' = [stage EXCEPT ![p] = to],
                listening \subseteq listening' \cup {p},
                UNCHANGED <<overlapped, together>>
         PROVE  MainInv'
  BY <1>p, <1>away DEF MainInv
<1>1. ASSUME NEW p \in Processes, Start(p) \/ SayStarting(p) \/ SayAnother(p)
      PROVE  MainInv'
  BY <1>1, <1>away DEF Start, SayStarting, SayAnother, Goes, Stages
<1>2. ASSUME NEW p \in Processes, Probe(p)
      PROVE  MainInv'
  <2>1. CASE Goes(p, "starting", "second")
    BY <1>2, <1>p, <2>1 DEF Probe, Goes, Stages, MainInv
  <2>2. CASE listening = {} /\ Goes(p, "starting", "claiming")
    <3>1. /\ stage' = [stage EXCEPT ![p] = "claiming"]
          /\ UNCHANGED <<listening, together>>
          /\ overlapped' = (overlapped \/ \E q \in Others(p) : stage[q] = "claiming")
      BY <1>2, <2>2 DEF Probe, Goes, MainInv
    <3> QED BY <1>p, <2>2, <3>1 DEF MainInv, Stages, Others
  <2> QED BY <1>2, <2>1, <2>2 DEF Probe
<1>3. ASSUME NEW p \in Processes, OpenMainWindow(p)
      PROVE  MainInv'
  <2>1. /\ stage[p] = "claiming" /\ stage' = [stage EXCEPT ![p] = "window"]
        /\ listening' = IF platform = "windows" THEN listening \cup {p} ELSE listening
        /\ together' = (together \/ \E q \in Processes : stage[q] = "window")
        /\ overlapped' = overlapped
    BY <1>3 DEF OpenMainWindow, Goes, Listen
  <2> QED BY <1>p, <2>1 DEF MainInv, Stages
<1>4. ASSUME NEW p \in Processes, Quit(p) \/ Crash(p)
      PROVE  MainInv'
  BY <1>4, <1>away DEF Quit, Crash, Goes, Stages
<1>5. ASSUME NEW p \in Processes,
             SayLine(p) \/ RotateLog(p) \/ UseWindow(p) \/ FollowWindow(p) \/ EndSecond(p)
      PROVE  MainInv'
  BY <1>5, <1>kept DEF SayLine, RotateLog, UseWindow, FollowWindow, EndSecond
<1>6. CASE UNCHANGED appVars
  BY <1>6, <1>kept DEF appVars
<1> QED BY <1>1, <1>2, <1>3, <1>4, <1>5, <1>6 DEF AppNext

(* Windows that are open together come from starts that overlapped. *)
THEOREM OverlappedOrSingle == AppSpec => []SequentialStartsAreSingle
<1>1. MainInv /\ (platform = "windows" \/ platform = "posix") => SequentialStartsAreSingle
  BY DEF MainInv, SequentialStartsAreSingle
<1>2. AppInit => platform = "windows" \/ platform = "posix"
  BY DEF AppInit, LogInit
<1>3. (platform = "windows" \/ platform = "posix") /\ [AppNext]_appVars
        => (platform = "windows" \/ platform = "posix")'
  BY PlatformStays
<1> QED BY MainInit, MainNext, <1>1, <1>2, <1>3, PTL DEF AppSpec

-----------------------------------------------------------------------------
(* The settings.  A window's record keeps its fields and its values their   *)
(* keys, whatever is put over them.                                        *)

Keys == DOMAIN Defaults
IsOn(r, keys) == r = [k \in keys |-> r[k]]

Fields == {"values", "changed", "merged", "speed", "portProfile", "touched", "target", "dark",
           "keys", "timer", "tray", "starting", "dialog", "scan"}

IsWindow(w) ==
  /\ IsOn(w, Fields) /\ IsOn(w.values, Keys)
  /\ w.changed \subseteq Keys
  /\ w.dialog = NoDialog \/ IsOn(w.dialog, InDialog)

InForce(w) ==
  w.merged \/ /\ w.dark = Dark(w.values.theme)
              /\ w.keys = w.values.shortcuts
              /\ w.timer = TimerFor(w.values)
              /\ w.touched \/ /\ w.speed = w.values.speed
                              /\ w.portProfile = w.values.portProfile

LEMMA KeysKnown ==
  /\ {"speed", "portProfile", "lastTargets", "theme", "shortcuts", "periodic",
      "interval"} \subseteq Keys
  /\ InDialog = Keys \ {"lastTargets"}
BY DEF Keys, Defaults, InDialog

(* A window is told from none. *)
LEMMA WindowIsSome ==
  ASSUME NEW w, IsWindow(w)
  PROVE  w # NoWindow
BY DEF IsWindow, IsOn, Fields, NoWindow

LEMMA OverIsOn ==
  ASSUME NEW r, NEW s, NEW keys, DOMAIN r \subseteq keys, IsOn(s, keys)
  PROVE  /\ IsOn(Over(r, s), keys)
         /\ \A k \in keys : Over(r, s)[k] = IF k \in DOMAIN r THEN r[k] ELSE s[k]
BY DEF IsOn, Over

LEMMA OverAt ==
  ASSUME NEW r, NEW s, NEW keys, DOMAIN r \subseteq keys, IsOn(s, keys)
  PROVE  \A k \in keys : Over(r, s)[k] = IF k \in DOMAIN r THEN r[k] ELSE s[k]
BY DEF IsOn, Over

(* What each operation makes of a window. *)

LEMMA NewIsInForce ==
  ASSUME NEW values, IsOn(values, Keys)
  PROVE  IsWindow(NewWindow(values)) /\ InForce(NewWindow(values))
         /\ NewWindow(values).values = values /\ NewWindow(values).changed = {}
BY DEF NewWindow, IsWindow, IsOn, Fields, InForce

LEMMA SetKeeps ==
  ASSUME NEW w, IsWindow(w), NEW values, DOMAIN values \subseteq Keys
  PROVE  LET x == SetValues(w, values)
         IN  /\ IsWindow(x)
             /\ x.values = Over(values, w.values)
             /\ x.changed = w.changed \cup DOMAIN values
             /\ \A f \in Fields \ {"values", "changed"} : x[f] = w[f]
<1>1. /\ w = [f \in Fields |-> w[f]]
      /\ "values" \in Fields /\ "changed" \in Fields /\ "dialog" \in Fields
  BY DEF IsWindow, IsOn, Fields
<1>2. IsOn(Over(values, w.values), Keys)
  BY OverIsOn DEF IsWindow
<1>3. SetValues(w, values) = [f \in Fields |-> IF f = "values" THEN Over(values, w.values)
                                ELSE IF f = "changed" THEN w.changed \cup DOMAIN values ELSE w[f]]
  BY <1>1 DEF SetValues
<1> QED
  BY <1>1, <1>2, <1>3 DEF IsWindow, IsOn

(* A field set to something else. *)
LEMMA FieldSet ==
  ASSUME NEW w, IsOn(w, Fields), NEW f \in Fields, NEW v
  PROVE  /\ IsOn([w EXCEPT ![f] = v], Fields)
         /\ [w EXCEPT ![f] = v][f] = v
         /\ \A g \in Fields \ {f} : [w EXCEPT ![f] = v][g] = w[g]
<1>1. w = [g \in Fields |-> w[g]]
  BY DEF IsOn
<1>2. [w EXCEPT ![f] = v] = [g \in Fields |-> IF g = f THEN v ELSE w[g]]
  BY <1>1
<1> QED
  BY <1>2 DEF IsOn

(* The control bar is the user's after a touch. *)
LEMMA TouchKeeps ==
  ASSUME NEW w, IsWindow(w), InForce(w), NEW t \in Touches
  PROVE  LET x == Over(t, [w EXCEPT !.touched = TRUE])
         IN  IsWindow(x) /\ InForce(x) /\ x.values = w.values /\ x.changed = w.changed
<1> DEFINE y == [w EXCEPT !.touched = TRUE]
           x == Over(t, y)
<1>1. /\ IsOn(y, Fields) /\ y["touched"] = TRUE
      /\ \A g \in Fields \ {"touched"} : y[g] = w[g]
  <2>1. "touched" \in Fields /\ y = [w EXCEPT !["touched"] = TRUE]
    BY DEF Fields
  <2> QED
    BY <2>1, FieldSet DEF IsWindow
<1>2. DOMAIN t \subseteq {"speed", "portProfile", "target"}
  BY TouchesAssumption
<1> HIDE DEF y
<1>3. DOMAIN t \subseteq Fields
  BY <1>2 DEF Fields
<1>4. /\ IsOn(x, Fields) /\ x["touched"] = TRUE
      /\ \A g \in Fields \ {"touched", "speed", "portProfile", "target"} : x[g] = w[g]
  <2>1. /\ IsOn(x, Fields)
        /\ \A k \in Fields : x[k] = IF k \in DOMAIN t THEN t[k] ELSE y[k]
    <3>1. DOMAIN t \subseteq Fields /\ IsOn(y, Fields)
      BY <1>1, <1>3
    <3> QED
      BY <3>1, OverIsOn, Zenon
  <2> HIDE DEF x
  <2> QED
    BY <1>1, <1>2, <2>1 DEF Fields
<1> HIDE DEF x
<1>5. /\ x.values = w.values /\ x.changed = w.changed /\ x.merged = w.merged
      /\ x.dark = w.dark /\ x.keys = w.keys /\ x.timer = w.timer
      /\ x.dialog = w.dialog /\ x.touched = TRUE
  BY <1>4 DEF Fields
<1>6. IsWindow(x)
  BY <1>4, <1>5 DEF IsWindow
<1>7. InForce(x)
  BY <1>5 DEF InForce
<1> QED
  BY <1>5, <1>6, <1>7 DEF x, y

(* A start stores what the control bar shows. *)
LEMMA StartKeeps ==
  ASSUME NEW w, IsWindow(w), InForce(w), NEW scan
  PROVE  LET x == [SetValues(w, Remembered(w)) EXCEPT
                     !.scan = scan, !.touched = FALSE, !.starting = FALSE]
         IN  /\ IsWindow(x) /\ InForce(x)
             /\ x.values = Over(Remembered(w), w.values)
             /\ x.changed = w.changed \cup {"lastTargets", "speed", "portProfile"}
<1> DEFINE y == SetValues(w, Remembered(w))
           x == [y EXCEPT !.scan = scan, !.touched = FALSE, !.starting = FALSE]
<1>1. /\ DOMAIN Remembered(w) = {"lastTargets", "speed", "portProfile"}
      /\ Remembered(w).speed = w.speed /\ Remembered(w).portProfile = w.portProfile
  BY DEF Remembered
<1>2. /\ IsWindow(y) /\ y.values = Over(Remembered(w), w.values)
      /\ y.changed = w.changed \cup {"lastTargets", "speed", "portProfile"}
      /\ \A f \in Fields \ {"values", "changed"} : y[f] = w[f]
  BY <1>1, KeysKnown, SetKeeps
<1>3. /\ y.values.speed = w.speed /\ y.values.portProfile = w.portProfile
      /\ \A k \in Keys \ {"lastTargets", "speed", "portProfile"} :
            y.values[k] = w.values[k]
  BY <1>1, <1>2, KeysKnown, OverIsOn DEF IsWindow
<1> HIDE DEF y
<1>4. x = [f \in Fields |-> IF f = "scan" THEN scan
                            ELSE IF f \in {"touched", "starting"} THEN FALSE ELSE y[f]]
  <2>1. y = [f \in Fields |-> y[f]]
    BY <1>2 DEF IsWindow, IsOn
  <2> QED
    BY <2>1 DEF Fields
<1> HIDE DEF x
<1>5. /\ IsOn(x, Fields)
      /\ x.values = y.values /\ x.changed = y.changed /\ x.merged = w.merged
      /\ x.dark = w.dark /\ x.keys = w.keys /\ x.timer = w.timer
      /\ x.dialog = w.dialog /\ x.speed = w.speed /\ x.portProfile = w.portProfile
  BY <1>2, <1>4 DEF Fields, IsOn
<1>6. IsWindow(x)
  BY <1>2, <1>5 DEF IsWindow
<1>7. InForce(x)
  <2>1. /\ x.values.theme = w.values.theme /\ x.values.shortcuts = w.values.shortcuts
        /\ TimerFor(x.values) = TimerFor(w.values)
    BY <1>3, <1>5, KeysKnown DEF TimerFor
  <2> QED
    BY <1>3, <1>5, <2>1 DEF InForce
<1> QED
  BY <1>2, <1>5, <1>6, <1>7 DEF x, y

LEMMA FinishKeeps ==
  ASSUME NEW w, IsWindow(w), InForce(w)
  PROVE  LET x == Reschedule([w EXCEPT !.scan = NoScan])
         IN  IsWindow(x) /\ InForce(x) /\ x.values = w.values /\ x.changed = w.changed
<1> DEFINE x == Reschedule([w EXCEPT !.scan = NoScan])
<1>1. x = [f \in Fields |-> IF f = "scan" THEN NoScan
                            ELSE IF f = "timer" THEN TimerFor(w.values) ELSE w[f]]
  <2>1. w = [f \in Fields |-> w[f]]
    BY DEF IsWindow, IsOn
  <2> QED
    BY <2>1 DEF Fields, Reschedule
<1> HIDE DEF x
<1>2. /\ IsOn(x, Fields)
      /\ x.values = w.values /\ x.changed = w.changed /\ x.merged = w.merged
      /\ x.dark = w.dark /\ x.keys = w.keys /\ x.timer = TimerFor(w.values)
      /\ x.touched = w.touched /\ x.dialog = w.dialog
      /\ x.speed = w.speed /\ x.portProfile = w.portProfile
  BY <1>1 DEF Fields, IsOn
<1>3. IsWindow(x)
  BY <1>2 DEF IsWindow
<1>4. InForce(x)
  BY <1>2 DEF InForce
<1> QED
  BY <1>2, <1>3, <1>4 DEF x

(* The dialog opens, is edited or is rejected: nothing follows it yet. *)
LEMMA DialogKeeps ==
  ASSUME NEW w, IsWindow(w), InForce(w), NEW d, d = NoDialog \/ IsOn(d, InDialog)
  PROVE  LET x == [w EXCEPT !.dialog = d]
         IN  IsWindow(x) /\ InForce(x) /\ x.values = w.values /\ x.changed = w.changed
<1> DEFINE x == [w EXCEPT !.dialog = d]
<1>1. x = [f \in Fields |-> IF f = "dialog" THEN d ELSE w[f]]
  <2>1. w = [f \in Fields |-> w[f]]
    BY DEF IsWindow, IsOn
  <2> QED
    BY <2>1 DEF Fields
<1> HIDE DEF x
<1>2. /\ IsOn(x, Fields)
      /\ x.values = w.values /\ x.changed = w.changed /\ x.merged = w.merged
      /\ x.dark = w.dark /\ x.keys = w.keys /\ x.timer = w.timer
      /\ x.touched = w.touched /\ x.dialog = d
      /\ x.speed = w.speed /\ x.portProfile = w.portProfile
  BY <1>1 DEF Fields, IsOn
<1>3. IsWindow(x)
  BY <1>2 DEF IsWindow
<1>4. InForce(x)
  BY <1>2 DEF InForce
<1> QED
  BY <1>2, <1>3, <1>4 DEF x

(* OK puts everything in force. *)
LEMMA AcceptKeeps ==
  ASSUME NEW w, IsWindow(w), NEW d, IsOn(d, InDialog)
  PROVE  LET x == SettingsApplied(SetValues([w EXCEPT !.dialog = NoDialog], Save(d)))
         IN  /\ IsWindow(x) /\ InForce(x)
             /\ x.values = Over(d, w.values)
             /\ x.changed = w.changed \cup InDialog
<1> DEFINE y == [w EXCEPT !.dialog = NoDialog]
           z == SetValues(y, d)
           x == SettingsApplied(z)
<1>1. Save(d) = d /\ DOMAIN d = InDialog /\ InDialog \subseteq Keys
  BY KeysKnown DEF Save, IsOn
<1>2. /\ IsOn(y, Fields) /\ y["dialog"] = NoDialog
      /\ \A g \in Fields \ {"dialog"} : y[g] = w[g]
  <2>1. "dialog" \in Fields /\ y = [w EXCEPT !["dialog"] = NoDialog]
    BY DEF Fields
  <2> QED
    BY <2>1, FieldSet DEF IsWindow
<1>3. IsWindow(y) /\ y.values = w.values /\ y.changed = w.changed
  BY <1>2 DEF IsWindow, Fields
<1> HIDE DEF y
<1>4. /\ IsWindow(z) /\ z.values = Over(d, w.values) /\ z.changed = w.changed \cup InDialog
  BY <1>1, <1>3, SetKeeps
<1> HIDE DEF z
<1>5. x = [f \in Fields |-> IF f = "dark" THEN Dark(z.values.theme)
                            ELSE IF f = "keys" THEN z.values.shortcuts
                            ELSE IF f = "timer" THEN TimerFor(z.values)
                            ELSE IF f = "speed" THEN z.values.speed
                            ELSE IF f = "portProfile" THEN z.values.portProfile
                            ELSE IF f = "touched" THEN FALSE ELSE z[f]]
  <2>1. z = [f \in Fields |-> z[f]]
    BY <1>4 DEF IsWindow, IsOn
  <2> QED
    BY <2>1 DEF Fields, SettingsApplied, Reschedule, ApplyShortcuts, ApplyTheme
<1> HIDE DEF x
<1>6. /\ IsOn(x, Fields)
      /\ x.values = z.values /\ x.changed = z.changed /\ x.dialog = z.dialog
      /\ x.dark = Dark(z.values.theme) /\ x.keys = z.values.shortcuts
      /\ x.timer = TimerFor(z.values)
      /\ x.speed = z.values.speed /\ x.portProfile = z.values.portProfile
  BY <1>5 DEF Fields, IsOn
<1>7. IsWindow(x)
  BY <1>4, <1>6 DEF IsWindow
<1>8. InForce(x)
  BY <1>6 DEF InForce
<1> QED
  BY <1>1, <1>4, <1>6, <1>7, <1>8 DEF x, y, z

(* Settings that others wrote come in, and the window is marked. *)
LEMMA SyncKeeps ==
  ASSUME NEW w, IsWindow(w), InForce(w), IsOn(stored, Keys)
  PROVE  /\ IsWindow(Merged(w)) /\ InForce(Merged(w))
         /\ Merged(w).values = Synced(w) /\ Merged(w).changed = {}
         /\ IsOn(Synced(w), Keys)
<1> DEFINE x == Merged(w)
<1>1. IsOn(Synced(w), Keys)
  BY DEF Synced, IsOn
<1>2. x = [f \in Fields |-> IF f = "values" THEN Synced(w)
                            ELSE IF f = "changed" THEN {}
                            ELSE IF f = "merged" THEN w.merged \/ Synced(w) # w.values
                            ELSE w[f]]
  <2>1. w = [f \in Fields |-> w[f]]
    BY DEF IsWindow, IsOn
  <2> HIDE DEF Synced
  <2> QED
    BY <2>1 DEF Fields, Merged
<1> HIDE DEF x
<1>3. /\ IsOn(x, Fields)
      /\ x.values = Synced(w) /\ x.changed = {} /\ x.dialog = w.dialog
      /\ x.merged = (w.merged \/ Synced(w) # w.values)
      /\ x.dark = w.dark /\ x.keys = w.keys /\ x.timer = w.timer
      /\ x.touched = w.touched
      /\ x.speed = w.speed /\ x.portProfile = w.portProfile
  BY <1>2 DEF Fields, IsOn
<1>4. IsWindow(x)
  BY <1>1, <1>3 DEF IsWindow
<1>5. InForce(x)
  <2>1. CASE w.merged \/ Synced(w) # w.values
    BY <1>3, <2>1 DEF InForce
  <2>2. CASE ~w.merged /\ Synced(w) = w.values
    BY <1>3, <2>2 DEF InForce
  <2> QED
    BY <2>1, <2>2
<1> QED
  BY <1>1, <1>3, <1>4, <1>5 DEF x

SettingsInv ==
  /\ IsOn(windows, Processes)
  /\ IsOn(stored, Keys) /\ IsOn(chosen, Keys)
  /\ \A p \in Processes :
       Window(p) # NoWindow => IsWindow(Window(p)) /\ InForce(Window(p))

(* A window holds what was chosen, and the file does but for what it has   *)
(* not written yet.                                                        *)
Faithful(w, choice, file) ==
  /\ w.values = choice
  /\ \A k \in Keys \ w.changed : w.values[k] = file[k]

LEMMA StepInWindow ==
  ASSUME SettingsInv, NEW p \in Processes, WindowStep(p)
  PROVE  \E x :
           /\ Window(p) # NoWindow
           /\ Update(p, x) /\ IsWindow(x) /\ InForce(x)
           /\ IsOn(stored', Keys) /\ IsOn(chosen', Keys) /\ unsaved' = unsaved
           /\ Faithful(Window(p), chosen, stored) => Faithful(x, chosen', stored')
<1> DEFINE w == Window(p)
<1>1. w # NoWindow
  BY DEF WindowStep, Touch, Reaches, StartScan, FinishScan, OpenSettings, EditSettings,
         AcceptSettings, RejectSettings, Sync
<1>2. /\ IsWindow(w) /\ InForce(w) /\ IsOn(w, Fields) /\ IsOn(w.values, Keys)
      /\ IsOn(stored, Keys) /\ IsOn(chosen, Keys)
  BY <1>1 DEF SettingsInv, IsWindow
<1> HIDE DEF w
(* Most steps leave the settings alone. *)
<1>same. ASSUME NEW x, Update(p, x), IsWindow(x), InForce(x),
                x.values = w.values, x.changed = w.changed,
                UNCHANGED <<stored, chosen, unsaved>>
         PROVE  \E z : /\ w # NoWindow
                       /\ Update(p, z) /\ IsWindow(z) /\ InForce(z)
                       /\ IsOn(stored', Keys) /\ IsOn(chosen', Keys) /\ unsaved' = unsaved
                       /\ Faithful(w, chosen, stored) => Faithful(z, chosen', stored')
  BY <1>1, <1>2, <1>same DEF Faithful
<1>3. CASE Touch(p)
  <2>1. PICK t \in Touches : Update(p, Over(t, [w EXCEPT !.touched = TRUE]))
    BY <1>3 DEF Touch, w
  <2> QED
    BY <1>2, <1>3, <1>same, <2>1, TouchKeeps DEF Touch, w
<1>4. CASE StartScan(p)
  <2> DEFINE x == [SetValues(w, Remembered(w)) EXCEPT
                     !.scan = BuildConfig(w), !.touched = FALSE, !.starting = FALSE]
  <2>1. /\ Update(p, x) /\ chosen' = Over(Remembered(w), chosen)
        /\ UNCHANGED <<stored, unsaved>>
    BY <1>4 DEF StartScan, w
  <2>2. /\ IsWindow(x) /\ InForce(x)
        /\ x.values = Over(Remembered(w), w.values)
        /\ x.changed = w.changed \cup {"lastTargets", "speed", "portProfile"}
    BY <1>2, StartKeeps
  <2>3. DOMAIN Remembered(w) = {"lastTargets", "speed", "portProfile"}
    BY DEF Remembered
  <2> HIDE DEF x
  <2>4. IsOn(chosen', Keys)
    BY <1>2, <2>1, <2>3, KeysKnown, OverIsOn
  <2>5. ASSUME Faithful(w, chosen, stored)
        PROVE  Faithful(x, chosen', stored')
    <3>1. x.values = chosen'
      BY <2>1, <2>2, <2>5 DEF Faithful
    <3>2. \A k \in Keys : Over(Remembered(w), w.values)[k] = IF k \in DOMAIN Remembered(w) THEN Remembered(w)[k] ELSE w.values[k]
      <4>1. DOMAIN Remembered(w) \subseteq Keys
        BY <2>3, KeysKnown
      <4>2. IsOn(w.values, Keys)
        BY <1>2 DEF IsWindow
      <4> HIDE DEF w
      <4> QED
        BY <4>1, <4>2, OverAt
    <3>3. \A k \in Keys \ x.changed : x.values[k] = stored[k]
      BY <2>2, <2>3, <2>5, <3>2 DEF Faithful
    <3> QED
      BY <2>1, <3>1, <3>3 DEF Faithful
  <2> QED
    BY <1>1, <1>2, <2>1, <2>2, <2>4, <2>5 DEF w
<1>5. CASE FinishScan(p)
  BY <1>2, <1>5, <1>same, FinishKeeps DEF FinishScan, w
<1>6. CASE OpenSettings(p)
  <2>1. IsOn(Load(w.values), InDialog)
    BY DEF Load, IsOn
  <2> QED
    BY <1>2, <1>6, <1>same, <2>1, DialogKeeps DEF OpenSettings, w
<1>7. CASE EditSettings(p)
  <2>1. PICK e \in Edits : Update(p, [w EXCEPT !.dialog = Over(e, w.dialog)])
    BY <1>7 DEF EditSettings, w
  <2>2. w.dialog # NoDialog /\ UNCHANGED <<stored, chosen, unsaved>>
    BY <1>7 DEF EditSettings, w
  <2>3. IsOn(w.dialog, InDialog) /\ DOMAIN e \subseteq InDialog
    BY <1>2, <2>2, EditsAssumption DEF IsWindow
  <2>4. IsOn(Over(e, w.dialog), InDialog)
    BY <2>3, OverIsOn
  <2> QED
    BY <1>2, <1>same, <2>1, <2>2, <2>4, DialogKeeps DEF w
<1>8. CASE AcceptSettings(p)
  <2> DEFINE d == w.dialog
             x == SettingsApplied(SetValues([w EXCEPT !.dialog = NoDialog], Save(d)))
  <2>1. /\ Update(p, x) /\ chosen' = Over(d, chosen) /\ d # NoDialog
        /\ UNCHANGED <<stored, unsaved>>
    BY <1>8 DEF AcceptSettings, w
  <2>2. IsOn(d, InDialog) /\ DOMAIN d = InDialog
    BY <1>2, <2>1 DEF IsWindow, IsOn
  <2>3. /\ IsWindow(x) /\ InForce(x)
        /\ x.values = Over(d, w.values) /\ x.changed = w.changed \cup InDialog
    BY <1>2, <2>2, AcceptKeeps
  <2> HIDE DEF x, d
  <2>4. IsOn(chosen', Keys)
    BY <1>2, <2>1, <2>2, KeysKnown, OverIsOn
  <2>5. ASSUME Faithful(w, chosen, stored)
        PROVE  Faithful(x, chosen', stored')
    <3>1. x.values = chosen'
      BY <2>1, <2>3, <2>5 DEF Faithful
    <3>2. \A k \in Keys : Over(d, w.values)[k] = IF k \in DOMAIN d THEN d[k] ELSE w.values[k]
      <4>1. DOMAIN d \subseteq Keys
        BY <2>2, KeysKnown
      <4>2. IsOn(w.values, Keys)
        BY <1>2 DEF IsWindow
      <4> HIDE DEF w
      <4> QED
        BY <4>1, <4>2, OverAt
    <3>3. \A k \in Keys \ x.changed : x.values[k] = stored[k]
      BY <2>2, <2>3, <2>5, <3>2 DEF Faithful
    <3> QED
      BY <2>1, <3>1, <3>3 DEF Faithful
  <2> QED
    BY <1>1, <1>2, <2>1, <2>3, <2>4, <2>5 DEF w
<1>9. CASE RejectSettings(p)
  BY <1>2, <1>9, <1>same, DialogKeeps DEF RejectSettings, w
<1>10. CASE Sync(p)
  <2>1. /\ Update(p, Merged(w)) /\ stored' = Synced(w)
        /\ UNCHANGED <<chosen, unsaved>>
    BY <1>10 DEF Sync, w
  <2>2. /\ IsWindow(Merged(w)) /\ InForce(Merged(w))
        /\ Merged(w).values = Synced(w) /\ Merged(w).changed = {}
        /\ IsOn(Synced(w), Keys)
    BY <1>2, SyncKeeps
  <2>3. ASSUME Faithful(w, chosen, stored)
        PROVE  Synced(w) = chosen
    BY <1>2, <2>3 DEF Faithful, Synced, IsOn
  <2>4. ASSUME Faithful(w, chosen, stored)
        PROVE  Faithful(Merged(w), chosen', stored')
    BY <2>1, <2>2, <2>3, <2>4 DEF Faithful
  <2> QED
    BY <1>1, <1>2, <2>1, <2>2, <2>4 DEF w
<1> QED
  BY <1>3, <1>4, <1>5, <1>6, <1>7, <1>8, <1>9, <1>10 DEF WindowStep, w

LEMMA UpdateKeeps ==
  ASSUME SettingsInv, NEW p \in Processes, NEW w, Update(p, w),
         w = NoWindow \/ (IsWindow(w) /\ InForce(w)),
         IsOn(stored', Keys), IsOn(chosen', Keys)
  PROVE  SettingsInv'
BY DEF SettingsInv, Update, Window, IsOn

LEMMA SettingsNext == SettingsInv /\ [AppNext]_appVars => SettingsInv'
<1> SUFFICES ASSUME SettingsInv, [AppNext]_appVars
             PROVE  SettingsInv'
  OBVIOUS
<1>kept. ASSUME UNCHANGED settingsVars
         PROVE  SettingsInv'
  BY <1>kept DEF SettingsInv, settingsVars, Window
<1>1. ASSUME NEW p \in Processes, OpenMainWindow(p)
      PROVE  SettingsInv'
  BY <1>1, UpdateKeeps, NewIsInForce DEF OpenMainWindow, OpenWindow, SettingsInv
<1>2. ASSUME NEW p \in Processes, UseWindow(p) \/ FollowWindow(p)
      PROVE  SettingsInv'
  <2>1. WindowStep(p)
    BY <1>2 DEF UseWindow, FollowWindow, WindowStep
  <2> QED
    BY <2>1, StepInWindow, UpdateKeeps
<1>3. ASSUME NEW p \in Processes, Quit(p)
      PROVE  SettingsInv'
  <2>1. IsOn(Synced(Window(p)), Keys)
    BY DEF SettingsInv, Synced, IsOn
  <2> QED
    BY <1>3, <2>1, UpdateKeeps DEF Quit, CloseWindow, SettingsInv
<1>4. ASSUME NEW p \in Processes, Crash(p)
      PROVE  SettingsInv'
  BY <1>4, UpdateKeeps DEF Crash, LoseWindow, SettingsInv
<1>5. ASSUME NEW p \in Processes,
             \/ Start(p) \/ SayStarting(p) \/ Probe(p) \/ SayAnother(p) \/ SayLine(p)
             \/ RotateLog(p) \/ EndSecond(p)
      PROVE  SettingsInv'
  BY <1>5, <1>kept DEF Start, SayStarting, Probe, SayAnother, SayLine, RotateLog, EndSecond
<1>6. CASE UNCHANGED appVars
  BY <1>6, <1>kept DEF appVars
<1> QED
  BY <1>1, <1>2, <1>3, <1>4, <1>5, <1>6 DEF AppNext

LEMMA SettingsStart == AppInit => SettingsInv
<1>1. IsOn(Defaults, Keys)
  BY DEF IsOn, Keys, Defaults
<1> QED
  BY <1>1 DEF AppInit, SettingsInit, SettingsInv, IsOn, Window

(* Theme, shortcuts, timer and, untouched, the control bar of every window  *)
(* are those of its settings.  (MainWindow::applyTheme(), applyShortcuts(), *)
(* reschedulePeriodic(), openSettings())                                    *)
THEOREM WindowsLiveByTheirSettings == AppSpec => []SettingsInForce
<1>1. SettingsInv => SettingsInForce
  BY DEF SettingsInv, SettingsInForce, InForce
<1> QED
  BY <1>1, SettingsStart, SettingsNext, PTL DEF AppSpec

(* Of the choices: with one window at a time, it holds what was chosen; with *)
(* none, the file does.                                                     *)
ChoicesInv ==
  /\ IsOn(stage, Processes)
  /\ \A p \in Processes : stage[p] = "window" <=> Window(p) # NoWindow
  /\ ~together /\ ~unsaved =>
       /\ \A p, q \in Processes : Window(p) # NoWindow /\ Window(q) # NoWindow => p = q
       /\ \A p \in Processes :
            Window(p) # NoWindow => Faithful(Window(p), chosen, stored)
       /\ (\A p \in Processes : Window(p) = NoWindow) => stored = chosen

LEMMA ChoicesStart == AppInit => ChoicesInv
BY DEF AppInit, SettingsInit, ChoicesInv, IsOn, Window

(* A window that ends, written out or without anything left to write, leaves *)
(* the choices in the file.                                                 *)
LEMMA WindowEnds ==
  ASSUME SettingsInv, ChoicesInv, NEW p \in Processes, NEW to \in Stages \ {"window"},
         Update(p, NoWindow), stage' = [stage EXCEPT ![p] = to],
         UNCHANGED <<chosen, together>>,
         ~unsaved' => /\ ~unsaved
                      /\ Window(p) # NoWindow => stored' = Synced(Window(p))
                      /\ Window(p) = NoWindow => stored' = stored
  PROVE  ChoicesInv'
<1>1. /\ \A q \in Processes : Window(q)' = IF q = p THEN NoWindow ELSE Window(q)
      /\ \A q \in Processes : stage'[q] = IF q = p THEN to ELSE stage[q]
      /\ IsOn(stage, Processes)'
  BY DEF SettingsInv, ChoicesInv, IsOn, Update, Window
<1>2. \A q \in Processes : stage'[q] = "window" <=> Window(q)' # NoWindow
  BY <1>1 DEF ChoicesInv
<1>3. ASSUME ~together', ~unsaved'
      PROVE  /\ \A q, r \in Processes : Window(q)' # NoWindow /\ Window(r)' # NoWindow => q = r
             /\ \A q \in Processes :
                  Window(q)' # NoWindow => Faithful(Window(q)', chosen', stored')
             /\ (\A q \in Processes : Window(q)' = NoWindow) => stored' = chosen'
  <2>1. CASE Window(p) = NoWindow
    BY <1>1, <1>3, <2>1 DEF ChoicesInv
  <2>2. CASE Window(p) # NoWindow
    <3>1. /\ Faithful(Window(p), chosen, stored) /\ stored' = Synced(Window(p))
          /\ \A q \in Processes : Window(q)' = NoWindow
      BY <1>1, <1>3, <2>2 DEF ChoicesInv
    <3>2. Synced(Window(p)) = chosen
      BY <3>1 DEF SettingsInv, Faithful, Synced, IsOn
    <3> QED
      BY <3>1, <3>2
  <2> QED
    BY <2>1, <2>2
<1> QED
  BY <1>1, <1>2, <1>3 DEF ChoicesInv

LEMMA ChoicesNext == SettingsInv /\ ChoicesInv /\ [AppNext]_appVars => ChoicesInv'
<1> SUFFICES ASSUME SettingsInv, ChoicesInv, [AppNext]_appVars
             PROVE  ChoicesInv'
  OBVIOUS
<1>kept. ASSUME UNCHANGED <<settingsVars, together>>, NEW p \in Processes,
                NEW to \in Stages \ {"window"}, stage[p] # "window",
                stage' = [stage EXCEPT ![p] = to]
         PROVE  ChoicesInv'
  BY <1>kept DEF ChoicesInv, IsOn, settingsVars, Window
<1>same. ASSUME UNCHANGED <<settingsVars, together, stage>>
         PROVE  ChoicesInv'
  BY <1>same DEF ChoicesInv, IsOn, settingsVars, Window
<1>1. ASSUME NEW p \in Processes, OpenMainWindow(p)
      PROVE  ChoicesInv'
  <2>1. /\ stage[p] = "claiming" /\ stage' = [stage EXCEPT ![p] = "window"]
        /\ Update(p, NewWindow(stored))
        /\ together' = (together \/ \E q \in Processes : stage[q] = "window")
        /\ UNCHANGED <<stored, chosen, unsaved>>
    BY <1>1 DEF OpenMainWindow, OpenWindow, Goes
  <2>2. /\ NewWindow(stored) # NoWindow
        /\ NewWindow(stored).values = stored /\ NewWindow(stored).changed = {}
    BY NewIsInForce, WindowIsSome DEF SettingsInv
  <2> DEFINE w == NewWindow(stored)
  <2> HIDE DEF w
  <2>3. /\ \A q \in Processes : Window(q)' = IF q = p THEN w ELSE Window(q)
        /\ \A q \in Processes : stage'[q] = IF q = p THEN "window" ELSE stage[q]
        /\ IsOn(stage, Processes)'
    BY <2>1 DEF SettingsInv, ChoicesInv, IsOn, Update, Window, w
  <2>4. \A q \in Processes : stage'[q] = "window" <=> Window(q)' # NoWindow
    BY <2>2, <2>3 DEF ChoicesInv, w
  <2>5. ASSUME ~together', ~unsaved'
        PROVE  /\ \A q \in Processes : Window(q) = NoWindow
               /\ stored = chosen
    BY <2>1, <2>5 DEF ChoicesInv
  <2>6. ASSUME ~together', ~unsaved'
        PROVE  Faithful(w, chosen', stored')
    BY <2>1, <2>2, <2>5, <2>6 DEF Faithful, w
  <2> QED
    BY <2>2, <2>3, <2>4, <2>5, <2>6 DEF ChoicesInv, w
<1>2. ASSUME NEW p \in Processes, UseWindow(p) \/ FollowWindow(p)
      PROVE  ChoicesInv'
  <2>1. WindowStep(p) /\ UNCHANGED <<stage, together>>
    BY <1>2 DEF UseWindow, FollowWindow, WindowStep, main
  <2>2. PICK x : /\ Window(p) # NoWindow
                 /\ Update(p, x) /\ IsWindow(x) /\ unsaved' = unsaved
                 /\ Faithful(Window(p), chosen, stored) => Faithful(x, chosen', stored')
    BY <2>1, StepInWindow
  <2>3. x # NoWindow
    BY <2>2, WindowIsSome
  <2>4. /\ \A q \in Processes : Window(q)' = IF q = p THEN x ELSE Window(q)
        /\ IsOn(stage, Processes)'
    BY <2>1, <2>2 DEF SettingsInv, ChoicesInv, IsOn, Update, Window
  <2>5. \A q \in Processes : Window(q)' # NoWindow <=> Window(q) # NoWindow
    BY <2>2, <2>3, <2>4
  <2>6. \A q \in Processes : stage'[q] = "window" <=> Window(q)' # NoWindow
    BY <2>1, <2>5 DEF ChoicesInv
  <2>7. ASSUME ~together', ~unsaved'
        PROVE  /\ \A q, r \in Processes : Window(q)' # NoWindow /\ Window(r)' # NoWindow => q = r
               /\ \A q \in Processes :
                    Window(q)' # NoWindow => Faithful(Window(q)', chosen', stored')
               /\ \E q \in Processes : Window(q)' # NoWindow
    <3>1. /\ Faithful(x, chosen', stored')
          /\ \A q \in Processes : Window(q) # NoWindow => q = p
      BY <2>1, <2>2, <2>7 DEF ChoicesInv
    <3> QED
      BY <2>2, <2>3, <2>4, <2>5, <3>1
  <2> QED
    BY <2>4, <2>6, <2>7 DEF ChoicesInv
<1>3. ASSUME NEW p \in Processes, Quit(p)
      PROVE  ChoicesInv'
  <2>1. /\ Window(p) # NoWindow
        /\ stage' = [stage EXCEPT ![p] = "over"] /\ Update(p, NoWindow)
        /\ stored' = Synced(Window(p))
        /\ UNCHANGED <<chosen, unsaved, together>>
    BY <1>3 DEF Quit, CloseWindow, Goes, ChoicesInv
  <2> QED
    BY <2>1, WindowEnds DEF Stages
<1>4. ASSUME NEW p \in Processes, Crash(p)
      PROVE  ChoicesInv'
  <2>1. /\ stage' = [stage EXCEPT ![p] = "over"] /\ Update(p, NoWindow)
        /\ unsaved' = (unsaved \/ (Window(p) # NoWindow /\ Window(p).changed # {}))
        /\ UNCHANGED <<stored, chosen, together>>
    BY <1>4 DEF Crash, LoseWindow
  <2>2. ASSUME ~unsaved', Window(p) # NoWindow
        PROVE  stored = Synced(Window(p))
    <3>1. Window(p).changed = {}
      BY <2>1, <2>2
    <3> QED
      BY <3>1 DEF Synced, SettingsInv, IsOn
  <2> QED
    BY <2>1, <2>2, WindowEnds DEF Stages
<1>5. ASSUME NEW p \in Processes, Start(p) \/ SayStarting(p) \/ Probe(p) \/ SayAnother(p)
      PROVE  ChoicesInv'
  BY <1>5, <1>kept DEF Start, SayStarting, Probe, SayAnother, Goes, Stages
<1>6. ASSUME NEW p \in Processes, SayLine(p) \/ RotateLog(p) \/ EndSecond(p)
      PROVE  ChoicesInv'
  BY <1>6, <1>same DEF SayLine, RotateLog, EndSecond, main
<1>7. CASE UNCHANGED appVars
  BY <1>7, <1>same DEF appVars, main
<1> QED
  BY <1>1, <1>2, <1>3, <1>4, <1>5, <1>6, <1>7 DEF AppNext

(* With one window at a time and no crash before its settings were written, *)
(* the next process reads what was confirmed last.  (SettingsStore,         *)
(* SettingsDialog::save(), MainWindow::onStartScan())                       *)
THEOREM ConfirmedIsRead == AppSpec => []ChoicesSurvive
<1>1. ChoicesInv => ChoicesSurvive
  BY DEF ChoicesInv, ChoicesSurvive
<1> QED
  BY <1>1, SettingsStart, SettingsNext, ChoicesStart, ChoicesNext, PTL DEF AppSpec

-----------------------------------------------------------------------------
(* The log *)

Lines == (Processes \cup {"hole"}) \X Nat

(* Two names are two files; a handle is closed in a rotation; on Windows    *)
(* nobody has the backup open.                                              *)
FilesInv ==
  /\ names = [log |-> names.log, backup |-> names.backup]
  /\ names.log \in FileIds \cup {0} /\ names.backup \in FileIds \cup {0}
  /\ names.log # 0 => names.log # names.backup
  /\ content \in [FileIds -> Seq(Lines)]
  /\ handle \in [Processes -> [file : FileIds \cup {0}, at : Nat]]
  /\ logging \in [Processes -> {"quiet", "closed", "removed", "renamed"}]
  /\ said \in [Processes -> Nat]
  /\ unwritten \in [Processes -> BOOLEAN] /\ disturbed \in [Processes -> BOOLEAN]
  /\ \A p \in Processes : logging[p] # "quiet" => HeldBy(p) = 0
  /\ platform # "posix" => \A p \in Processes : HeldBy(p) \in {0, names.log}

(* The lines of a file that p was the one to fill, when line "last" was its *)
(* last: all its lines, or as many of the latest as others have left room   *)
(* for in a full file.                                                      *)
Closes(p, lines, last) ==
  \/ \A n \in 1 .. last : <<p, n>> \in ToSet(lines)
  \/ /\ Len(lines) >= LogLimit
     /\ \E own \in 0 .. Len(lines) :
          /\ \A i \in 1 .. own : lines[i] = <<p, last - own + i>>
          /\ \A i \in own + 1 .. Len(lines) : lines[i][1] # p

(* The lines of the file that p has open, its last rotation having put it   *)
(* at the start; what came before is in the backup.                         *)
Continues(p, lines, backup, at, last) ==
  IF at = 0 THEN \A n \in 1 .. last : <<p, n>> \in ToSet(lines)
  ELSE /\ at \in 2 .. Len(lines) + 1
       /\ \A i \in 1 .. at - 1 : lines[i] = <<p, last - at + 1 + i>>
       /\ \A i \in at .. Len(lines) : lines[i][1] # p
       /\ backup # 0 /\ Closes(p, content[backup], last - at + 1)

(* Where the lines of an undisturbed process are, at each stage of a        *)
(* rotation.                                                                *)
Keeps(p) ==
  /\ logging[p] = "quiet" /\ HeldBy(p) # 0 =>
       /\ HeldBy(p) = names.log
       /\ Continues(p, content[names.log], names.backup, handle[p].at, said[p])
  /\ logging[p] \in {"closed", "removed"} =>
       names.log # 0 /\ Closes(p, content[names.log], said[p] - 1)
  /\ logging[p] = "removed" => names.backup = 0
  /\ logging[p] = "renamed" => names.backup # 0 /\ Closes(p, content[names.backup], said[p] - 1)

LogInv ==
  /\ FilesInv
  /\ platform \in {"posix", "windows"}
  /\ \A p \in Processes : stage[p] = "off" => said[p] = 0 /\ HeldBy(p) = 0 /\ logging[p] = "quiet"
  /\ \A p \in Processes : ~unwritten[p] /\ ~disturbed[p] => Keeps(p)

(* There is a file for who has none open. *)
LEMMA FreshIsFree ==
  ASSUME FilesInv, NEW p \in Processes, HeldBy(p) = 0
  PROVE  Fresh \in FileIds /\ Fresh \notin InUse
<1> DEFINE others == Others(p)
           held == {HeldBy(q) : q \in others}
           f == [q \in others |-> HeldBy(q)]
           T == (held \cup {names.log}) \cup {names.backup}
           n == Cardinality(Processes)
<1>1. n \in Nat /\ IsFiniteSet(others) /\ Cardinality(others) = n - 1
  BY ProcessesAssumption, FS_CardinalityType, FS_RemoveElement DEF Others
<1>2. f \in Surjection(others, held)
  BY DEF Surjection
<1>3. IsFiniteSet(held) /\ Cardinality(held) <= n - 1 /\ Cardinality(held) \in Nat
  <2> HIDE DEF f, held, others, n
  <2> QED
    BY <1>1, <1>2, FS_Surjection, FS_CardinalityType
<1>4. IsFiniteSet(T) /\ Cardinality(T) <= n + 1 /\ Cardinality(T) \in Nat
  <2> HIDE DEF held, n
  <2>1. /\ IsFiniteSet(held \cup {names.log})
        /\ Cardinality(held \cup {names.log}) \in {Cardinality(held), Cardinality(held) + 1}
    BY <1>3, FS_AddElement
  <2>2. /\ IsFiniteSet(T)
        /\ Cardinality(T) \in {Cardinality(held \cup {names.log}),
                               Cardinality(held \cup {names.log}) + 1}
    BY <2>1, FS_AddElement
  <2> QED
    BY <1>1, <1>3, <2>1, <2>2
<1>5. IsFiniteSet(FileIds) /\ Cardinality(FileIds) = n + 2
  BY <1>1, FS_Interval DEF FileIds
<1>6. ~(FileIds \subseteq T)
  <2> SUFFICES ASSUME FileIds \in SUBSET T
               PROVE  FALSE
    OBVIOUS
  <2> HIDE DEF T, n
  <2> QED
    BY <1>1, <1>4, <1>5, FS_Subset
<1>7. InUse \subseteq T \cup {0}
  BY DEF InUse, Others
<1>8. 0 \notin FileIds
  BY <1>1 DEF FileIds
<1>9. \E g \in FileIds : g \notin InUse
  BY <1>6, <1>7, <1>8
<1> QED
  BY <1>9 DEF Fresh

LEMMA MaxOfTwo ==
  ASSUME NEW a \in Int, NEW b \in Int
  PROVE  Max({a, b}) = IF a >= b THEN a ELSE b
<1> DEFINE top == IF a >= b THEN a ELSE b
<1>1. top \in {a, b} /\ \A y \in {a, b} : top >= y
  OBVIOUS
<1>2. \A x \in {a, b} : (\A y \in {a, b} : x >= y) => x = top
  OBVIOUS
<1> QED
  BY <1>1, <1>2 DEF Max

IsPutAt(new, lines, k, line) ==
  /\ new \in Seq(Lines)
  /\ Len(new) = IF Len(lines) >= k THEN Len(lines) ELSE k
  /\ \A i \in 1 .. Len(new) :
       new[i] = IF i = k THEN line ELSE IF i <= Len(lines) THEN lines[i] ELSE Hole

LEMMA PutAtKeeps ==
  ASSUME NEW lines \in Seq(Lines), NEW k \in Nat \ {0}, NEW line \in Lines
  PROVE  IsPutAt(PutAt(lines, k, line), lines, k, line)
<1> DEFINE n == IF Len(lines) >= k THEN Len(lines) ELSE k
           new == PutAt(lines, k, line)
<1>1. Len(lines) \in Nat /\ \A i \in 1 .. Len(lines) : lines[i] \in Lines
  BY LenProperties
<1>2. Hole \in Lines
  BY DEF Hole, Lines
<1>3. Max({Len(lines), k}) = n
  BY <1>1, MaxOfTwo
<1>4. new = [i \in 1 .. n |-> IF i = k THEN line ELSE IF i <= Len(lines) THEN lines[i] ELSE Hole]
  BY <1>3 DEF PutAt
<1>5. n \in Nat /\ new \in [1 .. n -> Lines]
  BY <1>1, <1>2, <1>4
<1>6. new \in Seq(Lines)
  BY <1>5, SeqDef
<1>7. Len(new) = n
  <2> HIDE DEF new, n
  <2>1. DOMAIN new = 1 .. n /\ DOMAIN new = 1 .. Len(new) /\ Len(new) \in Nat
    BY <1>5, <1>6, LenProperties
  <2> QED
    BY <1>5, <2>1
<1> QED
  BY <1>4, <1>6, <1>7 DEF IsPutAt

(* What has a name keeps its lines when others are closed. *)
LEMMA ContentsKept ==
  ASSUME FilesInv, Contents(content)
  PROVE  /\ content' \in [FileIds -> Seq(Lines)]
         /\ \A f \in FileIds : f \in {names'.log, names'.backup} => content'[f] = content[f]
<1>1. PICK used \in {{names'.log, names'.backup} \cup {handle'[p].file : p \in Processes}} :
        content' = [f \in FileIds |-> IF f \in used THEN content[f] ELSE <<>>]
  BY DEF Contents
<1>2. <<>> \in Seq(Lines)
  BY EmptySeq
<1> QED
  BY <1>1, <1>2 DEF FilesInv

(* The parts of FilesInv that a step of p can change. *)
LEMMA FilesFrom ==
  ASSUME FilesInv, NEW p \in Processes,
         platform' = platform,
         names' = [log |-> names'.log, backup |-> names'.backup],
         names'.log \in FileIds \cup {0}, names'.backup \in FileIds \cup {0},
         names'.log # 0 => names'.log # names'.backup,
         content' \in [FileIds -> Seq(Lines)],
         NEW file \in FileIds \cup {0}, NEW at \in Nat,
         handle' = [handle EXCEPT ![p] = [file |-> file, at |-> at]],
         NEW how \in {"quiet", "closed", "removed", "renamed"},
         logging' = [logging EXCEPT ![p] = how],
         how # "quiet" => file = 0,
         platform # "posix" => file \in {0, names'.log},
         platform # "posix" => \A q \in Others(p) : HeldBy(q) \in {0, names'.log},
         said' \in [Processes -> Nat],
         unwritten' \in [Processes -> BOOLEAN], disturbed' \in [Processes -> BOOLEAN]
  PROVE  FilesInv'
<1>1. /\ handle'[p] = [file |-> file, at |-> at] /\ logging'[p] = how
      /\ \A q \in Others(p) : handle'[q] = handle[q] /\ logging'[q] = logging[q]
  BY DEF FilesInv, Others
<1>2. handle' \in [Processes -> [file : FileIds \cup {0}, at : Nat]]
  BY DEF FilesInv
<1>3. logging' \in [Processes -> {"quiet", "closed", "removed", "renamed"}]
  BY DEF FilesInv
<1>4. \A q \in Processes : logging'[q] # "quiet" => handle'[q].file = 0
  BY <1>1 DEF FilesInv, Others, HeldBy
<1>5. platform' # "posix" => \A q \in Processes : handle'[q].file \in {0, names'.log}
  BY <1>1 DEF Others, HeldBy
<1> QED
  BY <1>2, <1>3, <1>4, <1>5 DEF FilesInv, HeldBy

(* The same for one process. *)
FilesAt(p) ==
  /\ names = [log |-> names.log, backup |-> names.backup]
  /\ names.log \in FileIds \cup {0} /\ names.backup \in FileIds \cup {0}
  /\ names.log # 0 => names.log # names.backup
  /\ content \in [FileIds -> Seq(Lines)]
  /\ HeldBy(p) \in FileIds \cup {0} /\ handle[p].at \in Nat
  /\ handle = [handle EXCEPT ![p] = [file |-> HeldBy(p), at |-> handle[p].at]]
  /\ logging[p] \in {"quiet", "closed", "removed", "renamed"}
  /\ logging = [logging EXCEPT ![p] = logging[p]]
  /\ logging[p] # "quiet" => HeldBy(p) = 0
  /\ said \in [Processes -> Nat]
  /\ unwritten \in [Processes -> BOOLEAN] /\ disturbed \in [Processes -> BOOLEAN]
  /\ platform # "posix" => HeldBy(p) \in {0, names.log}
  /\ platform # "posix" => \A q \in Others(p) : HeldBy(q) \in {0, names.log}

LEMMA FilesHold ==
  ASSUME FilesInv, NEW p \in Processes
  PROVE  FilesAt(p)
BY DEF FilesInv, HeldBy, Others, FilesAt

LEMMA OpenFiles ==
  ASSUME FilesInv, NEW p \in Processes, Open(p), HeldBy(p) = 0, logging[p] = "quiet"
  PROVE  FilesInv'
<1>h. FilesAt(p)
  BY FilesHold
<1>1. Fresh \in FileIds /\ Fresh \notin InUse
  BY FreshIsFree
<1>2. UNCHANGED <<platform, content, logging, said, unwritten>>
      /\ disturbed' = [disturbed EXCEPT ![p] = FALSE]
  BY DEF Open
<1>3. logging' = [logging EXCEPT ![p] = "quiet"] /\ disturbed' \in [Processes -> BOOLEAN]
  BY <1>h, <1>2 DEF FilesAt
<1>4. CASE UNCHANGED <<handle, names>>
  <2>1. handle' = [handle EXCEPT ![p] = [file |-> 0, at |-> handle[p].at]]
    BY <1>h, <1>4 DEF FilesAt
  <2>2. /\ platform' = platform /\ content' = content
        /\ names' = names /\ said' = said /\ unwritten' = unwritten
    BY <1>2, <1>4
  <2>3. /\ names' = [log |-> names'.log, backup |-> names'.backup]
        /\ names'.log \in FileIds \cup {0} /\ names'.backup \in FileIds \cup {0}
        /\ names'.log # 0 => names'.log # names'.backup
        /\ platform # "posix" => \A q \in Others(p) : HeldBy(q) \in {0, names'.log}
    BY <1>h, <2>2 DEF FilesAt
  <2>4. /\ content' \in [FileIds -> Seq(Lines)] /\ handle[p].at \in Nat
        /\ said' \in [Processes -> Nat] /\ unwritten' \in [Processes -> BOOLEAN]
    BY <1>h, <2>2 DEF FilesAt
  <2> QED
    BY <1>3, <2>1, <2>2, <2>3, <2>4, FilesFrom
<1>5. CASE /\ handle' = [handle EXCEPT ![p] = [file |-> IF names.log = 0 THEN Fresh ELSE names.log,
                                              at |-> 0]]
           /\ names' = [names EXCEPT !.log = handle'[p].file]
  <2> DEFINE f == IF names.log = 0 THEN Fresh ELSE names.log
  <2>1. handle' = [handle EXCEPT ![p] = [file |-> f, at |-> 0]] /\ handle'[p].file = f
    BY <1>5 DEF FilesInv
  <2>2. names' = [log |-> f, backup |-> names.backup]
    BY <1>5, <2>1 DEF FilesInv
  <2>3. f \in FileIds /\ f # names.backup
    BY <1>1 DEF FilesInv, InUse, FileIds
  <2>4. platform # "posix" => \A q \in Others(p) : HeldBy(q) \in {0, f}
    BY <1>h DEF FilesAt
  <2> HIDE DEF f
  <2>5. names' = [log |-> names'.log, backup |-> names'.backup]
        /\ names'.log = f /\ names'.backup = names.backup
    BY <2>2
  <2> QED
    <3>1. /\ platform' = platform /\ content' \in [FileIds -> Seq(Lines)]
          /\ said' \in [Processes -> Nat] /\ unwritten' \in [Processes -> BOOLEAN]
      BY <1>h, <1>2 DEF FilesAt
    <3>2. names'.log \in FileIds \cup {0} /\ names'.backup \in FileIds \cup {0}
      BY <1>h, <2>3, <2>5 DEF FilesAt
    <3>3. f \in FileIds \cup {0} /\ 0 \in Nat
      BY <2>3
    <3> QED
      BY <1>3, <2>1, <2>3, <2>4, <2>5, <3>1, <3>2, <3>3, FilesFrom
<1> QED
  BY <1>4, <1>5 DEF Open

LEMMA SayFiles ==
  ASSUME FilesInv, NEW p \in Processes, Say(p)
  PROVE  FilesInv'
<1>h. FilesAt(p)
  BY FilesHold
<1>1. /\ platform' = platform /\ names' = names /\ logging[p] = "quiet"
      /\ said' = [said EXCEPT ![p] = @ + 1]
  BY DEF Say, Unheard, WriteLine, CloseFull
<1>2. said' \in [Processes -> Nat]
  BY <1>1 DEF FilesInv
<1>3. CASE Unheard(p)
  <2>1. /\ unwritten' = [unwritten EXCEPT ![p] = TRUE]
        /\ UNCHANGED <<content, handle, logging, disturbed>>
    BY <1>3 DEF Unheard
  <2> QED
    BY <1>h, <1>1, <1>2, <2>1, FilesFrom DEF FilesAt
<1>4. CASE WriteLine(p)
  <2> DEFINE lines == content[HeldBy(p)]
             at == IF handle[p].at = 0 THEN Len(lines) + 1 ELSE handle[p].at
             then == IF handle[p].at = 0 THEN 0 ELSE at + 1
  <2>1. /\ HeldBy(p) # 0
        /\ content' = [content EXCEPT ![HeldBy(p)] = PutAt(lines, at, <<p, said[p] + 1>>)]
        /\ handle' = [handle EXCEPT ![p].at = IF @ = 0 THEN 0 ELSE at + 1]
        /\ UNCHANGED <<logging, unwritten>>
        /\ disturbed' = disturbed \/ disturbed' = [q \in Processes |-> disturbed[q] \/ q # p]
    BY <1>4 DEF WriteLine, DisturbOthers
  <2>2. HeldBy(p) \in FileIds /\ lines \in Seq(Lines)
    BY <1>h, <2>1 DEF FilesInv, FilesAt
  <2>3. Len(lines) \in Nat /\ at \in Nat \ {0} /\ then \in Nat
    BY <1>h, <2>2, LenProperties DEF FilesAt
  <2>4. <<p, said[p] + 1>> \in Lines
    BY DEF FilesInv, Lines
  <2>5. PutAt(lines, at, <<p, said[p] + 1>>) \in Seq(Lines)
    <3> HIDE DEF at, lines
    <3> QED
      BY <2>2, <2>3, <2>4, PutAtKeeps DEF IsPutAt
  <2>6. content' \in [FileIds -> Seq(Lines)]
    BY <2>1, <2>5 DEF FilesInv
  <2>7. handle' = [handle EXCEPT ![p] = [file |-> HeldBy(p), at |-> then]]
    <3>1. handle[p] = [file |-> HeldBy(p), at |-> handle[p].at]
      BY DEF FilesInv, HeldBy
    <3>2. handle' = [handle EXCEPT ![p] = [handle[p] EXCEPT !.at = then]]
      BY <2>1
    <3> HIDE DEF then
    <3>3. [handle[p] EXCEPT !.at = then] = [file |-> HeldBy(p), at |-> then]
      BY <3>1
    <3> QED
      BY <3>2, <3>3
  <2>8. disturbed' \in [Processes -> BOOLEAN]
    BY <2>1 DEF FilesInv
  <2> HIDE DEF then, at, lines
  <2> QED
    BY <1>h, <1>1, <1>2, <2>1, <2>3, <2>6, <2>7, <2>8, FilesFrom DEF FilesAt
<1>5. CASE CloseFull(p)
  <2>1. /\ handle' = [handle EXCEPT ![p] = [file |-> 0, at |-> 0]]
        /\ logging' = [logging EXCEPT ![p] = "closed"]
        /\ UNCHANGED <<unwritten, disturbed>>
        /\ Contents(content)
    BY <1>5 DEF CloseFull, Closed
  <2> QED
    BY <1>h, <1>1, <1>2, <2>1, ContentsKept, FilesFrom DEF FilesAt
<1> QED
  BY <1>3, <1>4, <1>5 DEF Say

LEMMA RotateFiles ==
  ASSUME FilesInv, NEW p \in Processes, Rotate(p)
  PROVE  FilesInv'
<1>h. FilesAt(p)
  BY FilesHold
<1>1. platform' = platform /\ said' = said /\ HeldBy(p) = 0
  BY <1>h DEF Rotate, RemoveBackup, RenameLog, Reopen, FilesAt
<1>2. CASE RemoveBackup(p)
  <2>1. /\ logging' = [logging EXCEPT ![p] = "removed"]
        /\ names' = [names EXCEPT !.backup = IF Movable(@) THEN 0 ELSE @]
        /\ disturbed' = [q \in Processes |-> disturbed[q] \/ q # p]
        /\ UNCHANGED <<handle, unwritten>>
        /\ Contents(content)
    BY <1>2 DEF RemoveBackup, DisturbOthers
  <2>2. /\ names' = [log |-> names'.log, backup |-> names'.backup]
        /\ names'.log = names.log /\ names'.backup \in {0, names.backup}
    BY <1>h, <2>1 DEF FilesAt
  <2>3. disturbed' \in [Processes -> BOOLEAN] /\ content' \in [FileIds -> Seq(Lines)]
    BY <1>h, <2>1, ContentsKept DEF FilesAt
  <2> QED
    BY <1>h, <1>1, <2>1, <2>2, <2>3, FilesFrom DEF FilesAt
<1>3. CASE RenameLog(p)
  <2>1. /\ logging' = [logging EXCEPT ![p] = "renamed"]
        /\ UNCHANGED <<content, handle, unwritten>>
        /\ disturbed' \in [Processes -> BOOLEAN]
    BY <1>h, <1>3 DEF RenameLog, DisturbOthers, FilesAt
  <2>2. CASE names' = names
    BY <1>h, <1>1, <2>1, <2>2, FilesFrom DEF FilesAt
  <2>3. CASE Movable(names.log) /\ names' = [log |-> 0, backup |-> names.log]
    <3>1. /\ names' = [log |-> names'.log, backup |-> names'.backup]
          /\ names'.log = 0 /\ names'.backup = names.log
      BY <2>3
    <3>2. platform # "posix" => \A q \in Others(p) : HeldBy(q) = 0
      BY <1>h, <2>3 DEF Movable, Others, FilesAt
    <3> QED
      BY <1>h, <1>1, <2>1, <3>1, <3>2, FilesFrom DEF FilesAt
  <2> QED
    BY <1>3, <2>2, <2>3 DEF RenameLog
<1>4. CASE Reopen(p)
  <2>1. logging' = [logging EXCEPT ![p] = "quiet"]
    BY <1>4 DEF Reopen
  <2>2. CASE unwritten' = [unwritten EXCEPT ![p] = TRUE] /\ UNCHANGED <<names, handle, content, disturbed>>
    <3>1. unwritten' \in [Processes -> BOOLEAN]
      BY <1>h, <2>2 DEF FilesAt
    <3> QED
      BY <1>h, <1>1, <2>1, <2>2, <3>1, FilesFrom DEF FilesAt
  <2> DEFINE f == IF names.log = 0 THEN Fresh ELSE names.log
  <2>3. CASE /\ names' = [names EXCEPT !.log = f]
             /\ handle' = [handle EXCEPT ![p] = [file |-> f, at |-> 2]]
             /\ content' = [content EXCEPT ![f] = <<<<p, said[p]>>>>]
             /\ DisturbOthers(p)
             /\ UNCHANGED unwritten
    <3>1. Fresh \in FileIds /\ Fresh \notin InUse
      BY <1>1, FreshIsFree
    <3>2. f \in FileIds /\ f # names.backup
      BY <1>h, <3>1 DEF InUse, FileIds, FilesAt
    <3>3. /\ names' = [log |-> names'.log, backup |-> names'.backup]
          /\ names'.log = f /\ names'.backup = names.backup
      BY <1>h, <2>3 DEF FilesAt
    <3>4. content' \in [FileIds -> Seq(Lines)]
      <4>1. <<p, said[p]>> \in Lines
        BY <1>h DEF FilesAt, Lines
      <4>2. <<<<p, said[p]>>>> \in Seq(Lines)
        BY <4>1
      <4> HIDE DEF f
      <4> QED
        BY <1>h, <2>3, <4>2 DEF FilesAt
    <3>5. platform # "posix" => \A q \in Others(p) : HeldBy(q) \in {0, f}
      BY <1>h DEF FilesAt
    <3>6. disturbed' \in [Processes -> BOOLEAN]
      BY <1>h, <2>3 DEF DisturbOthers, FilesAt
    <3> HIDE DEF f
    <3> QED
      BY <1>h, <1>1, <2>1, <2>3, <3>2, <3>3, <3>4, <3>5, <3>6, FilesFrom DEF FilesAt
  <2> QED
    BY <1>4, <2>2, <2>3 DEF Reopen
<1> QED
  BY <1>2, <1>3, <1>4 DEF Rotate

LEMMA CloseFiles ==
  ASSUME FilesInv, NEW p \in Processes, CloseLog(p)
  PROVE  FilesInv'
<1>h. FilesAt(p)
  BY FilesHold
<1>1. /\ handle' = [handle EXCEPT ![p] = [file |-> 0, at |-> 0]]
      /\ logging' = [logging EXCEPT ![p] = "quiet"]
      /\ UNCHANGED <<platform, names, said, unwritten, disturbed>>
      /\ Contents(content)
  BY DEF CloseLog, Closed
<1> QED
  BY <1>h, <1>1, ContentsKept, FilesFrom DEF FilesAt

(* A file that another process appends to, or leaves alone. *)
Grows(p, old, new) ==
  /\ Len(new) >= Len(old)
  /\ \A i \in 1 .. Len(old) : new[i] = old[i]
  /\ \A i \in Len(old) + 1 .. Len(new) : new[i][1] # p

LEMMA StaysThere ==
  ASSUME NEW old \in Seq(Lines), NEW new \in Seq(Lines), NEW p, NEW n, Grows(p, old, new),
         <<p, n>> \in ToSet(old)
  PROVE  <<p, n>> \in ToSet(new)
<1>1. /\ Len(old) \in Nat /\ DOMAIN old = 1 .. Len(old)
      /\ Len(new) \in Nat /\ DOMAIN new = 1 .. Len(new)
  BY LenProperties
<1>2. PICK i \in 1 .. Len(old) : old[i] = <<p, n>>
  BY <1>1 DEF ToSet
<1>3. i \in 1 .. Len(new) /\ new[i] = <<p, n>>
  BY <1>1, <1>2 DEF Grows
<1> QED
  BY <1>1, <1>3 DEF ToSet

LEMMA ClosesGrows ==
  ASSUME NEW old \in Seq(Lines), NEW new \in Seq(Lines), NEW p, NEW last \in Int,
         Grows(p, old, new), Closes(p, old, last)
  PROVE  Closes(p, new, last)
<1>1. Len(old) \in Nat /\ Len(new) \in Nat /\ LogLimit \in Nat
  BY LenProperties, LogLimitAssumption
<1>2. CASE \A n \in 1 .. last : <<p, n>> \in ToSet(old)
  BY <1>2, StaysThere DEF Closes
<1>3. ASSUME Len(old) >= LogLimit,
             NEW own \in 0 .. Len(old),
             \A i \in 1 .. own : old[i] = <<p, last - own + i>>,
             \A i \in own + 1 .. Len(old) : old[i][1] # p
      PROVE  Closes(p, new, last)
  <2>1. own \in 0 .. Len(new) /\ Len(new) >= LogLimit
    BY <1>1, <1>3 DEF Grows
  <2>2. ASSUME NEW i \in 1 .. own
        PROVE  new[i] = <<p, last - own + i>>
    <3>1. i \in 1 .. Len(old)
      BY <1>1, <1>3
    <3>2. new[i] = old[i]
      BY <3>1 DEF Grows
    <3>3. old[i] = <<p, last - own + i>>
      BY <1>3
    <3> QED
      BY <3>2, <3>3
  <2>3. ASSUME NEW i \in own + 1 .. Len(new)
        PROVE  new[i][1] # p
    <3>1. CASE i <= Len(old)
      BY <1>1, <1>3, <3>1 DEF Grows
    <3>2. CASE i > Len(old)
      BY <1>1, <1>3, <3>2 DEF Grows
    <3> QED
      BY <1>1, <1>3, <3>1, <3>2
  <2> QED
    BY <2>1, <2>2, <2>3 DEF Closes
<1> QED
  BY <1>2, <1>3 DEF Closes

(* A step that only appends for others to what p relies on. *)
LEMMA KeepsGrows ==
  ASSUME FilesInv, FilesInv', NEW p \in Processes, Keeps(p),
         handle'[p] = handle[p], logging'[p] = logging[p], said'[p] = said[p],
         names'.backup = names.backup, names.log # 0 => names'.log = names.log,
         \A f \in FileIds : f \in {names.log, names.backup} => Grows(p, content[f], content'[f])
  PROVE  Keeps(p)'
<1>1. /\ \A f \in FileIds : content[f] \in Seq(Lines) /\ content'[f] \in Seq(Lines)
      /\ names.log \in FileIds \cup {0} /\ names.backup \in FileIds \cup {0}
      /\ said[p] \in Nat /\ handle[p].at \in Nat
  BY DEF FilesInv
<1> DEFINE lines == content[names.log]
           new == content'[names.log]
           at == handle[p].at
           last == said[p]
<1>2. ASSUME names.log # 0
      PROVE  /\ lines \in Seq(Lines) /\ new \in Seq(Lines) /\ Grows(p, lines, new)
             /\ Len(lines) \in Nat /\ Len(new) \in Nat /\ names'.log = names.log
  BY <1>1, <1>2, LenProperties
<1>3. ASSUME names.backup # 0, NEW n \in Int, Closes(p, content[names.backup], n)
      PROVE  Closes(p, content'[names.backup], n)
  BY <1>1, <1>3, ClosesGrows
<1>4. ASSUME logging[p] = "quiet", HeldBy(p) # 0
      PROVE  /\ HeldBy(p) = names'.log
             /\ Continues(p, content[names.log], names.backup, handle[p].at, said[p])'
  <2>1. HeldBy(p) = names.log /\ names.log # 0
        /\ Continues(p, lines, names.backup, at, last)
    BY <1>4 DEF Keeps
  <2>2. CASE at = 0
    <3>1. \A n \in 1 .. last : <<p, n>> \in ToSet(lines)
      BY <2>1, <2>2 DEF Continues
    <3>2. \A n \in 1 .. last : <<p, n>> \in ToSet(new)
      <4> HIDE DEF lines, new, last
      <4> QED
        BY <1>2, <2>1, <3>1, StaysThere
    <3> QED
      BY <1>2, <2>1, <2>2, <3>2 DEF Continues
  <2>3. CASE at # 0
    <3>1. /\ at \in 2 .. Len(lines) + 1
          /\ \A i \in 1 .. at - 1 : lines[i] = <<p, last - at + 1 + i>>
          /\ \A i \in at .. Len(lines) : lines[i][1] # p
          /\ names.backup # 0 /\ Closes(p, content[names.backup], last - at + 1)
      BY <2>1, <2>3 DEF Continues
    <3>2. at \in 2 .. Len(new) + 1 /\ \A i \in 1 .. at - 1 : new[i] = <<p, last - at + 1 + i>>
      <4> HIDE DEF lines, new, last, at
      <4> QED
        BY <1>2, <2>1, <3>1 DEF Grows
    <3>3. ASSUME NEW i \in at .. Len(new)
          PROVE  new[i][1] # p
      <4> HIDE DEF lines, new, last, at
      <4>1. CASE i <= Len(lines)
        BY <1>2, <2>1, <3>1, <4>1 DEF Grows
      <4>2. CASE i > Len(lines)
        BY <1>2, <2>1, <3>1, <4>2 DEF Grows
      <4> QED
        BY <1>2, <2>1, <3>1, <4>1, <4>2
    <3>4. Closes(p, content'[names.backup], last - at + 1)
      BY <1>1, <1>3, <3>1
    <3> QED
      BY <1>2, <2>1, <2>3, <3>1, <3>2, <3>3, <3>4 DEF Continues
  <2> QED
    BY <2>2, <2>3
<1>5. ASSUME logging[p] \in {"closed", "removed"}
      PROVE  names'.log # 0 /\ Closes(p, content'[names'.log], said[p] - 1)
  <2>1. names.log # 0 /\ Closes(p, lines, last - 1)
    BY <1>5 DEF Keeps
  <2>2. Closes(p, new, last - 1)
    <3>1. last - 1 \in Int
      BY <1>1
    <3> HIDE DEF lines, new, last
    <3> QED
      BY <1>2, <2>1, <3>1, ClosesGrows
  <2> QED
    BY <1>2, <2>1, <2>2
<1>6. ASSUME logging[p] = "renamed"
      PROVE  names.backup # 0 /\ Closes(p, content'[names.backup], said[p] - 1)
  BY <1>1, <1>3, <1>6 DEF Keeps
<1>7. logging[p] = "removed" => names.backup = 0
  BY DEF Keeps
<1>8. HeldBy(p)' = HeldBy(p)
  BY DEF HeldBy
<1> QED
  BY <1>4, <1>5, <1>6, <1>7, <1>8 DEF Keeps

(* What each step of a process makes of its own lines. *)

LEMMA OpenKeeps ==
  ASSUME FilesInv, NEW p \in Processes, Open(p), HeldBy(p) = 0, logging[p] = "quiet", said[p] = 0
  PROVE  Keeps(p)'
<1>1. logging'[p] = "quiet" /\ said'[p] = 0
  BY DEF Open
<1>2. CASE UNCHANGED <<handle, names>>
  BY <1>1, <1>2 DEF Keeps, HeldBy
<1>3. CASE /\ handle' = [handle EXCEPT ![p] = [file |-> IF names.log = 0 THEN Fresh ELSE names.log,
                                              at |-> 0]]
           /\ names' = [names EXCEPT !.log = handle'[p].file]
  <2>1. handle'[p].at = 0 /\ names'.log = HeldBy(p)'
    BY <1>3 DEF FilesInv, HeldBy
  <2> QED
    BY <1>1, <2>1 DEF Keeps, Continues
<1> QED
  BY <1>2, <1>3 DEF Open

LEMMA WriteKeeps ==
  ASSUME FilesInv, NEW p \in Processes, Keeps(p), logging[p] = "quiet", WriteLine(p),
         said' = [said EXCEPT ![p] = @ + 1]
  PROVE  Keeps(p)'
<1>h. FilesAt(p)
  BY FilesHold
<1> DEFINE lines == content[names.log]
           put == IF handle[p].at = 0 THEN Len(lines) + 1 ELSE handle[p].at
           last == said[p] + 1
           line == <<p, last>>
           new == PutAt(lines, put, line)
<1>1. /\ HeldBy(p) = names.log /\ names.log # 0
      /\ Continues(p, lines, names.backup, handle[p].at, said[p])
  BY DEF Keeps, WriteLine
<1>2. /\ content' = [content EXCEPT ![names.log] = new]
      /\ handle' = [handle EXCEPT ![p].at = IF @ = 0 THEN 0 ELSE put + 1]
      /\ names' = names /\ logging' = logging
  BY <1>1 DEF WriteLine
<1>3. lines \in Seq(Lines) /\ Len(lines) \in Nat /\ put \in Nat \ {0} /\ last \in Nat
  <2>1. lines \in Seq(Lines) /\ handle[p].at \in Nat /\ said[p] \in Nat
    BY <1>h, <1>1 DEF FilesAt
  <2> QED
    BY <2>1, LenProperties
<1>4. /\ new \in Seq(Lines)
      /\ Len(new) = IF Len(lines) >= put THEN Len(lines) ELSE put
      /\ \A i \in 1 .. Len(new) :
           new[i] = IF i = put THEN line ELSE IF i <= Len(lines) THEN lines[i] ELSE Hole
  <2>1. line \in Lines
    BY <1>3 DEF Lines
  <2>2. IsPutAt(new, lines, put, line)
    <3> HIDE DEF lines, put, line
    <3> QED
      BY <1>3, <2>1, PutAtKeeps
  <2> HIDE DEF new, lines, put, line
  <2> QED
    BY <2>2 DEF IsPutAt
<1>5. /\ content'[names.log] = new
      /\ names.backup # 0 => content'[names.backup] = content[names.backup]
      /\ said'[p] = last
      /\ handle'[p].file = names.log
      /\ handle'[p].at = IF handle[p].at = 0 THEN 0 ELSE put + 1
  <2> HIDE DEF new, put
  <2> QED
    BY <1>h, <1>1, <1>2 DEF FilesAt, FilesInv, HeldBy
<1>6. CASE handle[p].at = 0
  <2>1. \A n \in 1 .. said[p] : <<p, n>> \in ToSet(lines)
    BY <1>1, <1>6 DEF Continues
  <2>2. DOMAIN new = 1 .. Len(new) /\ DOMAIN lines = 1 .. Len(lines)
    BY <1>3, <1>4, LenProperties
  <2>3. put = Len(lines) + 1 /\ Len(new) = put
    BY <1>3, <1>4, <1>6
  <2>4. ASSUME NEW n \in 1 .. last
        PROVE  <<p, n>> \in ToSet(new)
    <3>1. CASE n = last
      <4>1. put \in 1 .. Len(new)
        BY <1>3, <2>3
      <4>2. new[put] = <<p, n>>
        BY <1>4, <3>1, <4>1
      <4> QED
        BY <2>2, <4>1, <4>2 DEF ToSet
    <3>2. CASE n # last
      <4>1. <<p, n>> \in ToSet(lines)
        BY <1>h, <2>1, <3>2 DEF FilesAt
      <4>2. PICK i \in 1 .. Len(lines) : lines[i] = <<p, n>>
        BY <2>2, <4>1 DEF ToSet
      <4>3. i \in 1 .. Len(new) /\ new[i] = <<p, n>>
        <5> HIDE DEF lines, new, put, line
        <5> QED
          BY <1>3, <1>4, <2>3, <4>2
      <4> QED
        BY <2>2, <4>3 DEF ToSet
    <3> QED
      BY <3>1, <3>2
  <2> QED
    BY <1>1, <1>2, <1>5, <1>6, <2>4 DEF Keeps, Continues, HeldBy
<1>7. CASE handle[p].at # 0
  <2>1. /\ put \in 2 .. Len(lines) + 1
        /\ \A i \in 1 .. put - 1 : lines[i] = <<p, said[p] - put + 1 + i>>
        /\ \A i \in put .. Len(lines) : lines[i][1] # p
        /\ names.backup # 0 /\ Closes(p, content[names.backup], said[p] - put + 1)
    BY <1>1, <1>7 DEF Continues
  <2>2. /\ last - (put + 1) + 1 = said[p] - put + 1
        /\ last - (put + 1) + 1 + put = last /\ line = <<p, last>>
    <3>1. said[p] \in Nat
      BY <1>h DEF FilesAt
    <3>2. put \in Nat
      BY <1>3
    <3>3. line = <<p, last>>
      OBVIOUS
    <3> HIDE DEF put, line
    <3> QED
      BY <3>1, <3>2, <3>3
  <2> HIDE DEF lines, new, put, last, line
  <2>3. put + 1 \in 2 .. Len(new) + 1 /\ put + 1 # 0
    BY <1>3, <1>4, <2>1
  <2>4. ASSUME NEW i \in 1 .. (put + 1) - 1
        PROVE  new[i] = <<p, last - (put + 1) + 1 + i>>
    <3>1. CASE i = put
      <4>1. put \in 1 .. Len(new)
        BY <1>3, <1>4, <2>3
      <4>2. new[put] = line
        BY <1>4, <4>1
      <4> QED
        BY <2>2, <3>1, <4>2
    <3>2. CASE i # put
      <4>1. i \in 1 .. put - 1 /\ i \in 1 .. Len(new) /\ i <= Len(lines)
        BY <1>3, <1>4, <2>1, <3>2
      <4> QED
        BY <1>4, <2>1, <2>2, <3>2, <4>1
    <3> QED
      BY <3>1, <3>2
  <2>5. ASSUME NEW i \in put + 1 .. Len(new)
        PROVE  new[i][1] # p
    <3>1. i \in 1 .. Len(new) /\ i # put /\ i \in put .. Len(lines)
      BY <1>3, <1>4, <2>1
    <3> QED
      BY <1>4, <2>1, <3>1
  <2> QED
    BY <1>1, <1>2, <1>5, <1>7, <2>1, <2>2, <2>3, <2>4, <2>5 DEF Keeps, Continues, HeldBy
<1> QED
  BY <1>6, <1>7

LEMMA FullKeeps ==
  ASSUME FilesInv, NEW p \in Processes, Keeps(p), logging[p] = "quiet", CloseFull(p),
         said' = [said EXCEPT ![p] = @ + 1]
  PROVE  Keeps(p)'
<1>h. FilesAt(p)
  BY FilesHold
<1> DEFINE lines == content[names.log]
           at == handle[p].at
<1>1. /\ HeldBy(p) = names.log /\ names.log # 0 /\ Len(lines) >= LogLimit
      /\ Continues(p, lines, names.backup, at, said[p])
  BY DEF Keeps, CloseFull, Full
<1>2. /\ logging'[p] = "closed" /\ names' = names
      /\ said'[p] - 1 = said[p] /\ content'[names.log] = lines
  <2>1. said'[p] - 1 = said[p] /\ names' = names /\ logging'[p] = "closed" /\ Contents(content)
    BY <1>h DEF CloseFull, FilesAt, FilesInv
  <2> QED
    BY <1>h, <1>1, <2>1, ContentsKept DEF FilesAt
<1>3. Closes(p, lines, said[p])
  <2>1. CASE at = 0
    BY <1>1, <2>1 DEF Continues, Closes
  <2>2. CASE at # 0
    <3>1. /\ at \in 2 .. Len(lines) + 1
          /\ \A i \in 1 .. at - 1 : lines[i] = <<p, said[p] - at + 1 + i>>
          /\ \A i \in at .. Len(lines) : lines[i][1] # p
      BY <1>1, <2>2 DEF Continues
    <3>2. Len(lines) \in Nat /\ at \in Nat /\ said[p] \in Nat
      <4>1. lines \in Seq(Lines)
        BY <1>h, <1>1 DEF FilesAt
      <4> QED
        BY <1>h, <4>1, LenProperties DEF FilesAt
    <3> DEFINE own == at - 1
    <3> HIDE DEF lines, at
    <3>3. own \in 0 .. Len(lines) /\ own + 1 = at /\ said[p] - own = said[p] - at + 1
      <4>1. at \in 2 .. Len(lines) + 1
        BY <3>1
      <4> DEFINE n == said[p]
                 l == Len(lines)
      <4>2. at \in 2 .. l + 1 /\ l \in Nat /\ n \in Nat /\ at \in Nat
        BY <3>2, <4>1
      <4> HIDE DEF n, l
      <4>3. at - 1 \in 0 .. l /\ at - 1 + 1 = at /\ n - (at - 1) = n - at + 1
        BY <4>2
      <4> QED
        BY <4>3 DEF n, l
    <3> HIDE DEF own
    <3>4. /\ \A i \in 1 .. own : lines[i] = <<p, said[p] - own + i>>
          /\ \A i \in own + 1 .. Len(lines) : lines[i][1] # p
      BY <3>1, <3>2, <3>3 DEF own
    <3> QED
      BY <1>1, <3>3, <3>4 DEF Closes
  <2> QED
    BY <2>1, <2>2
<1> QED
  BY <1>1, <1>2, <1>3 DEF Keeps

LEMMA RotateKeeps ==
  ASSUME FilesInv, NEW p \in Processes, Keeps(p), Rotate(p), platform \in {"posix", "windows"},
         ~unwritten'[p], ~disturbed'[p]
  PROVE  Keeps(p)'
<1>h. FilesAt(p)
  BY FilesHold
<1>1. said' = said /\ HeldBy(p) = 0
  BY <1>h DEF Rotate, RemoveBackup, RenameLog, Reopen, FilesAt
<1>2. CASE RemoveBackup(p)
  <2>1. /\ logging[p] = "closed" /\ logging'[p] = "removed"
        /\ names' = [names EXCEPT !.backup = IF Movable(@) THEN 0 ELSE @]
        /\ handle' = handle /\ Contents(content)
    BY <1>h, <1>2 DEF RemoveBackup, FilesAt, FilesInv
  <2>2. names.log # 0 /\ Closes(p, content[names.log], said[p] - 1)
    BY <2>1 DEF Keeps
  <2>3. names'.log = names.log /\ names'.backup = IF Movable(names.backup) THEN 0 ELSE names.backup
    BY <1>h, <2>1 DEF FilesAt
  <2>4. names.backup # 0 => Movable(names.backup)
    BY <2>2 DEF Movable, FilesInv
  <2>5. content'[names.log] = content[names.log]
    BY <1>h, <2>1, <2>2, <2>3, ContentsKept DEF FilesAt
  <2> QED
    BY <1>1, <2>1, <2>2, <2>3, <2>4, <2>5 DEF Keeps
<1>3. CASE RenameLog(p)
  <2>1. /\ logging[p] = "removed" /\ logging'[p] = "renamed"
        /\ content' = content /\ handle' = handle
    BY <1>h, <1>3 DEF RenameLog, FilesAt, FilesInv
  <2>2. names.log # 0 /\ names.backup = 0 /\ Closes(p, content[names.log], said[p] - 1)
    BY <2>1 DEF Keeps
  <2>3. Movable(names.log)
    BY <1>3, <2>2 DEF RenameLog, FilesInv
  <2>4. names'.backup = names.log
    BY <1>3, <2>2, <2>3 DEF RenameLog
  <2> QED
    BY <1>1, <2>1, <2>2, <2>4 DEF Keeps
<1>4. CASE Reopen(p)
  <2> DEFINE f == IF names.log = 0 THEN Fresh ELSE names.log
             line == <<p, said[p]>>
             new == <<line>>
  <2>1. /\ logging[p] = "renamed" /\ logging'[p] = "quiet"
        /\ names' = [names EXCEPT !.log = f]
        /\ handle' = [handle EXCEPT ![p] = [file |-> f, at |-> 2]]
        /\ content' = [content EXCEPT ![f] = new]
    BY <1>h, <1>4 DEF Reopen, FilesAt, FilesInv
  <2>2. names.backup # 0 /\ Closes(p, content[names.backup], said[p] - 1)
    BY <2>1 DEF Keeps
  <2>3. f \in FileIds /\ f # names.backup
    BY <1>h, <1>1, FreshIsFree DEF InUse, FileIds, FilesAt
  <2>4. Len(new) = 1 /\ new[1] = line
    OBVIOUS
  <2> HIDE DEF f, new
  <2>5. /\ names'.log = f /\ names'.backup = names.backup
        /\ HeldBy(p)' = f /\ handle'[p].at = 2
        /\ content'[f] = new /\ content'[names.backup] = content[names.backup]
    BY <1>h, <2>1, <2>2, <2>3 DEF FilesAt, FilesInv, HeldBy
  <2>6. said[p] \in Nat /\ said[p] - 2 + 1 = said[p] - 1 /\ said[p] - 2 + 1 + 1 = said[p]
    BY <1>h DEF FilesAt
  <2>7. Continues(p, content[names.log], names.backup, handle[p].at, said[p])'
    <3>1. 2 \in 2 .. Len(new) + 1
      BY <2>4
    <3>2. \A i \in 1 .. 2 - 1 : new[i] = <<p, said[p] - 2 + 1 + i>>
      BY <2>4, <2>6
    <3>3. \A i \in 2 .. Len(new) : new[i][1] # p
      BY <2>4
    <3> QED
      BY <1>1, <2>2, <2>5, <2>6, <3>1, <3>2, <3>3 DEF Continues
  <2> QED
    BY <1>1, <2>1, <2>5, <2>7 DEF Keeps
<1> QED
  BY <1>2, <1>3, <1>4 DEF Rotate

(* A step of the log, by p; and what it is for the others, unless it        *)
(* disturbs them.                                                           *)
LogStep(p) ==
  \/ Open(p) /\ HeldBy(p) = 0 /\ logging[p] = "quiet" /\ said[p] = 0
  \/ Say(p) \/ Rotate(p) \/ CloseLog(p)

LEMMA OthersKeep ==
  ASSUME FilesInv, FilesInv', NEW p \in Processes, LogStep(p), NEW q \in Others(p),
         ~unwritten[q] /\ ~disturbed[q] => Keeps(q), ~unwritten'[q], ~disturbed'[q]
  PROVE  Keeps(q)'
<1>1. q \in Processes /\ q # p
  BY DEF Others
<1>h. FilesAt(p) /\ handle \in [Processes -> [file : FileIds \cup {0}, at : Nat]]
      /\ logging \in [Processes -> {"quiet", "closed", "removed", "renamed"}]
  BY FilesHold DEF FilesInv
<1>2. /\ handle'[q] = handle[q] /\ logging'[q] = logging[q] /\ said'[q] = said[q]
      /\ ~unwritten[q] /\ ~disturbed[q]
  <2>1. CASE Open(p)
    BY <1>1, <1>h, <2>1 DEF Open, FilesAt
  <2>2. CASE Say(p)
    BY <1>1, <1>h, <2>2 DEF Say, Unheard, WriteLine, CloseFull, DisturbOthers, FilesAt
  <2>3. CASE Rotate(p)
    BY <1>1, <1>h, <2>3 DEF Rotate, RemoveBackup, RenameLog, Reopen, DisturbOthers, FilesAt
  <2>4. CASE CloseLog(p)
    BY <1>1, <1>h, <2>4 DEF CloseLog, FilesAt
  <2> QED
    BY <2>1, <2>2, <2>3, <2>4 DEF LogStep
<1>3. Keeps(q)
  BY <1>2
<1>4. \A f \in FileIds : Len(content[f]) \in Nat
  BY <1>h, LenProperties DEF FilesAt
<1>same. ASSUME names'.backup = names.backup, names.log # 0 => names'.log = names.log,
                \A f \in FileIds : f \in {names.log, names.backup} => content'[f] = content[f]
         PROVE  Keeps(q)'
  <2>1. \A f \in FileIds : f \in {names.log, names.backup} => Grows(q, content[f], content'[f])
    BY <1>4, <1>same DEF Grows
  <2> QED
    BY <1>1, <1>2, <1>3, <1>same, <2>1, KeepsGrows
<1>5. CASE Open(p)
  <2>1. content' = content
    BY <1>5 DEF Open
  <2>2. names'.backup = names.backup /\ (names.log # 0 => names'.log = names.log)
    BY <1>h, <1>5 DEF Open, FilesAt, FilesInv
  <2> QED
    BY <1>same, <2>1, <2>2
<1>6. CASE Say(p) /\ Unheard(p)
  BY <1>6, <1>same DEF Unheard
<1>7. CASE Say(p) /\ WriteLine(p)
  <2> DEFINE lines == content[HeldBy(p)]
             at == IF handle[p].at = 0 THEN Len(lines) + 1 ELSE handle[p].at
             line == <<p, said[p] + 1>>
             new == PutAt(lines, at, line)
  <2>1. /\ HeldBy(p) \in FileIds
        /\ content' = [content EXCEPT ![HeldBy(p)] = new]
        /\ names' = names
        /\ ~(at <= Len(lines))
    <3>1. HeldBy(p) \in FileIds
      BY <1>h, <1>7 DEF WriteLine, FilesAt
    <3>2. content' = [content EXCEPT ![HeldBy(p)] = new] /\ names' = names
      BY <1>7 DEF WriteLine
    <3>3. ASSUME at <= Len(lines)
          PROVE  disturbed'[q]
      BY <1>1, <1>7, <3>3 DEF WriteLine, DisturbOthers
    <3> QED
      BY <1>1, <3>1, <3>2, <3>3
  <2>2. lines \in Seq(Lines) /\ Len(lines) \in Nat /\ at \in Nat \ {0} /\ line \in Lines
    BY <1>4, <1>h, <2>1 DEF FilesAt, Lines
  <2>3. line[1] # q /\ Hole[1] # q
    BY <1>1, ProcessesAssumption DEF Hole
  <2> HIDE DEF lines, at, line
  <2>4. IsPutAt(new, lines, at, line)
    <3>1. at \in Nat \ {0}
      BY <2>2
    <3> QED
      BY <2>2, <3>1, PutAtKeeps
  <2> HIDE DEF new
  <2>5. Grows(q, lines, new)
    BY <2>1, <2>2, <2>3, <2>4 DEF Grows, IsPutAt
  <2>6. \A f \in FileIds : Grows(q, content[f], content'[f])
    BY <1>4, <1>h, <2>1, <2>5 DEF Grows, FilesAt, lines
  <2> QED
    BY <1>1, <1>2, <1>3, <2>1, <2>6, KeepsGrows
<1>8. CASE Say(p) /\ CloseFull(p)
  <2>1. names' = names /\ Contents(content)
    BY <1>8 DEF CloseFull
  <2> QED
    BY <1>same, <2>1, ContentsKept
<1>9. CASE Rotate(p)
  <2>1. names' = names /\ content' = content
    BY <1>1, <1>9 DEF Rotate, RemoveBackup, RenameLog, Reopen, DisturbOthers
  <2> QED
    BY <1>same, <2>1
<1>10. CASE CloseLog(p)
  <2>1. names' = names /\ Contents(content)
    BY <1>10 DEF CloseLog
  <2> QED
    BY <1>same, <2>1, ContentsKept
<1> QED
  BY <1>5, <1>6, <1>7, <1>8, <1>9, <1>10 DEF LogStep, Say

LEMMA OwnKeep ==
  ASSUME FilesInv, NEW p \in Processes, LogStep(p), platform \in {"posix", "windows"},
         ~unwritten[p] /\ ~disturbed[p] => Keeps(p), ~unwritten'[p], ~disturbed'[p]
  PROVE  Keeps(p)'
<1>h. FilesAt(p) /\ handle \in [Processes -> [file : FileIds \cup {0}, at : Nat]]
      /\ logging \in [Processes -> {"quiet", "closed", "removed", "renamed"}]
  BY FilesHold DEF FilesInv
<1>1. CASE Open(p) /\ HeldBy(p) = 0 /\ logging[p] = "quiet" /\ said[p] = 0
  BY <1>1, OpenKeeps
<1>2. CASE Say(p)
  <2>1. logging[p] = "quiet" /\ said' = [said EXCEPT ![p] = @ + 1]
    BY <1>2 DEF Say
  <2>2. ~Unheard(p)
    BY <1>h DEF Unheard, FilesAt
  <2>3. CASE WriteLine(p)
    <3>1. ~unwritten[p] /\ ~disturbed[p]
      BY <1>h, <2>3 DEF WriteLine, DisturbOthers, FilesAt
    <3> QED
      BY <2>1, <2>3, <3>1, WriteKeeps
  <2>4. CASE CloseFull(p)
    <3>1. ~unwritten[p] /\ ~disturbed[p]
      BY <2>4 DEF CloseFull
    <3> QED
      BY <2>1, <2>4, <3>1, FullKeeps
  <2> QED
    BY <1>2, <2>2, <2>3, <2>4 DEF Say
<1>3. CASE Rotate(p)
  <2>1. ~unwritten[p] /\ ~disturbed[p]
    BY <1>h, <1>3 DEF Rotate, RemoveBackup, RenameLog, Reopen, DisturbOthers, FilesAt
  <2> QED
    BY <1>3, <2>1, RotateKeeps
<1>4. CASE CloseLog(p)
  <2>1. logging'[p] = "quiet" /\ HeldBy(p)' = 0
    BY <1>h, <1>4 DEF CloseLog, Closed, HeldBy
  <2> QED
    BY <2>1 DEF Keeps
<1> QED
  BY <1>1, <1>2, <1>3, <1>4 DEF LogStep

LEMMA LogStepKeeps ==
  ASSUME LogInv, NEW p \in Processes, LogStep(p), platform' = platform,
         \A q \in Others(p) : stage'[q] = stage[q], stage'[p] # "off"
  PROVE  LogInv'
<1>1. FilesInv'
  BY OpenFiles, SayFiles, RotateFiles, CloseFiles DEF LogInv, LogStep
<1>2. ASSUME NEW q \in Processes, ~unwritten'[q], ~disturbed'[q]
      PROVE  Keeps(q)'
  <2>1. CASE q = p
    BY <1>2, <2>1, OwnKeep DEF LogInv
  <2>2. CASE q # p
    BY <1>1, <1>2, <2>2, OthersKeep DEF LogInv, Others
  <2> QED
    BY <2>1, <2>2
<1>3. ASSUME NEW q \in Processes, stage'[q] = "off"
      PROVE  said'[q] = 0 /\ HeldBy(q)' = 0 /\ logging'[q] = "quiet"
  <2>1. q # p /\ q \in Others(p)
    BY <1>3 DEF Others
  <2>2. said[q] = 0 /\ HeldBy(q) = 0 /\ logging[q] = "quiet"
    BY <1>3, <2>1 DEF LogInv
  <2>3. said'[q] = said[q] /\ handle'[q] = handle[q] /\ logging'[q] = logging[q]
    <3>1. /\ handle \in [Processes -> [file : FileIds \cup {0}, at : Nat]]
          /\ logging \in [Processes -> {"quiet", "closed", "removed", "renamed"}]
          /\ said \in [Processes -> Nat]
      BY DEF LogInv, FilesInv
    <3>2. CASE Open(p) \/ CloseLog(p)
      BY <2>1, <3>1, <3>2 DEF Open, CloseLog
    <3>3. CASE Say(p)
      BY <2>1, <3>1, <3>3 DEF Say, Unheard, WriteLine, CloseFull
    <3>4. CASE Rotate(p)
      BY <2>1, <3>1, <3>4 DEF Rotate, RemoveBackup, RenameLog, Reopen
    <3> QED
      BY <3>2, <3>3, <3>4 DEF LogStep
  <2> QED
    BY <2>2, <2>3 DEF HeldBy
<1> QED
  BY <1>1, <1>2, <1>3 DEF LogInv

LEMMA LogStart == AppInit => LogInv
<1> SUFFICES ASSUME AppInit
             PROVE  LogInv
  OBVIOUS
<1>1. /\ platform \in {"posix", "windows"}
      /\ names = [log |-> 0, backup |-> 0]
      /\ content = [f \in FileIds |-> <<>>]
      /\ handle = [p \in Processes |-> [file |-> 0, at |-> 0]]
      /\ logging = [p \in Processes |-> "quiet"]
      /\ said = [p \in Processes |-> 0]
      /\ unwritten = [p \in Processes |-> FALSE]
      /\ disturbed = [p \in Processes |-> FALSE]
  BY DEF AppInit, LogInit, Closed
<1>2. <<>> \in Seq(Lines)
  BY EmptySeq
<1>3. \A p \in Processes : said[p] = 0 /\ HeldBy(p) = 0 /\ logging[p] = "quiet"
  BY <1>1 DEF HeldBy
<1>4. FilesInv
  BY <1>1, <1>2, <1>3 DEF FilesInv
<1> QED
  BY <1>1, <1>3, <1>4 DEF LogInv, Keeps

LEMMA LogNext == MainInv /\ LogInv /\ [AppNext]_appVars => LogInv'
<1> SUFFICES ASSUME MainInv, LogInv, [AppNext]_appVars
             PROVE  LogInv'
  OBVIOUS
<1>p. platform' = platform
  BY PlatformStays
<1>m. stage \in [Processes -> Stages]
  BY DEF MainInv
<1>step. ASSUME NEW p \in Processes, LogStep(p), NEW to, to # "off",
                stage' = [stage EXCEPT ![p] = to]
         PROVE  LogInv'
  <2>1. stage'[p] # "off" /\ \A q \in Others(p) : stage'[q] = stage[q]
    BY <1>m, <1>step DEF Others
  <2> QED
    BY <1>p, <1>step, <2>1, LogStepKeeps
<1>same. ASSUME UNCHANGED logVars,
                \A p \in Processes : stage'[p] = "off" => stage[p] = "off"
         PROVE  LogInv'
  <2>1. UNCHANGED <<platform, names, content, handle, logging, said, unwritten, disturbed>>
    BY <1>same DEF logVars
  <2>2. FilesInv'
    BY <2>1 DEF LogInv, FilesInv, HeldBy
  <2>3. \A f \in FileIds : Len(content[f]) \in Nat
    BY LenProperties DEF LogInv, FilesInv
  <2>4. \A p \in Processes, f \in FileIds : Grows(p, content[f], content'[f])
    BY <2>1, <2>3 DEF Grows
  <2>5. ASSUME NEW p \in Processes, ~unwritten'[p], ~disturbed'[p]
        PROVE  Keeps(p)'
    BY <2>1, <2>2, <2>4, <2>5, KeepsGrows DEF LogInv
  <2>6. \A p \in Processes : HeldBy(p)' = HeldBy(p)
    BY <2>1 DEF HeldBy
  <2> QED
    BY <1>same, <2>1, <2>2, <2>5, <2>6 DEF LogInv
<1>stays. ASSUME NEW p \in Processes, stage[p] # "off", stage' = stage
          PROVE  stage' = [stage EXCEPT ![p] = stage[p]]
  BY <1>m, <1>stays
<1>1. ASSUME NEW p \in Processes, Start(p)
      PROVE  LogInv'
  <2>1. LogStep(p) /\ stage' = [stage EXCEPT ![p] = "opened"]
    BY <1>1 DEF Start, Goes, LogInv, LogStep
  <2> QED
    BY <1>step, <2>1
<1>2. ASSUME NEW p \in Processes, SayStarting(p) \/ SayAnother(p)
      PROVE  LogInv'
  <2>1. LogStep(p) /\ \E to \in {"starting", "over"} : stage' = [stage EXCEPT ![p] = to]
    BY <1>2 DEF SayStarting, SayAnother, Goes, LogStep
  <2> QED
    BY <1>step, <2>1
<1>3. ASSUME NEW p \in Processes, SayLine(p) \/ RotateLog(p) \/ EndSecond(p)
      PROVE  LogInv'
  <2>1. LogStep(p) /\ stage' = stage
    BY <1>3 DEF SayLine, RotateLog, EndSecond, LogStep, main
  <2>2. stage[p] # "off"
    <3>1. Rotate(p) => logging[p] # "quiet"
      BY DEF Rotate, RemoveBackup, RenameLog, Reopen
    <3> QED
      BY <1>3, <3>1 DEF SayLine, RotateLog, EndSecond, LogInv
  <2> QED
    BY <1>step, <1>stays, <2>1, <2>2
<1>4. ASSUME NEW p \in Processes, Quit(p) \/ Crash(p)
      PROVE  LogInv'
  <2>1. LogStep(p) /\ stage' = [stage EXCEPT ![p] = "over"]
    BY <1>4 DEF Quit, Crash, Goes, LogStep
  <2> QED
    BY <1>step, <2>1
<1>5. ASSUME NEW p \in Processes, Probe(p) \/ OpenMainWindow(p)
      PROVE  LogInv'
  <2>1. UNCHANGED logVars
    BY <1>5 DEF Probe, OpenMainWindow
  <2>2. \E to \in {"second", "claiming", "window"} : stage' = [stage EXCEPT ![p] = to]
    BY <1>5 DEF Probe, OpenMainWindow, Goes
  <2>3. \A q \in Processes : stage'[q] = "off" => stage[q] = "off"
    BY <1>m, <2>2
  <2> QED
    BY <1>same, <2>1, <2>3
<1>6. ASSUME NEW p \in Processes, UseWindow(p) \/ FollowWindow(p)
      PROVE  LogInv'
  BY <1>6, <1>same DEF UseWindow, FollowWindow, main
<1>7. CASE UNCHANGED appVars
  BY <1>7, <1>same DEF appVars, main
<1> QED
  BY <1>1, <1>2, <1>3, <1>4, <1>5, <1>6, <1>7 DEF AppNext

(* In a full file the lines of others and those of p that close it leave    *)
(* no gap.                                                                  *)
LEMMA LatestAreThere ==
  ASSUME NEW lines \in Seq(Lines), NEW p, NEW last \in Int, Closes(p, lines, last),
         NEW n \in 1 .. last, n >= last + 1 - LogLimit + Cardinality(LinesOfOthers(p, lines))
  PROVE  <<p, n>> \in ToSet(lines)
<1>1. Len(lines) \in Nat /\ DOMAIN lines = 1 .. Len(lines) /\ LogLimit \in Nat
  BY LenProperties, LogLimitAssumption
<1>2. ASSUME Len(lines) >= LogLimit, NEW own \in 0 .. Len(lines),
             \A i \in 1 .. own : lines[i] = <<p, last - own + i>>,
             \A i \in own + 1 .. Len(lines) : lines[i][1] # p
      PROVE  <<p, n>> \in ToSet(lines)
  <2>1. \A i \in 1 .. Len(lines) : i <= own => lines[i][1] = p
    BY <1>1, <1>2
  <2>2. LinesOfOthers(p, lines) = own + 1 .. Len(lines)
    BY <1>1, <1>2, <2>1 DEF LinesOfOthers
  <2>3. Cardinality(LinesOfOthers(p, lines)) = Len(lines) - own
    <3>1. own + 1 \in Int /\ Len(lines) \in Int
      BY <1>1
    <3>2. Cardinality(own + 1 .. Len(lines)) =
            IF own + 1 > Len(lines) THEN 0 ELSE Len(lines) - (own + 1) + 1
      BY <3>1, FS_Interval
    <3> QED
      BY <1>1, <1>2, <2>2, <3>2
  <2>4. n - last + own \in 1 .. own /\ last - own + (n - last + own) = n
    BY <1>1, <1>2, <2>3
  <2>5. lines[n - last + own] = <<p, n>>
    BY <1>2, <2>4
  <2>6. n - last + own \in DOMAIN lines
    BY <1>1, <1>2, <2>4
  <2> QED
    BY <2>5, <2>6 DEF ToSet
<1> QED
  BY <1>2 DEF Closes

LEMMA LogInvShows == LogInv => RecentLinesAreOnDisk
<1> SUFFICES ASSUME LogInv, NEW p \in Processes,
                    HeldBy(p) # 0, logging[p] = "quiet", ~unwritten[p], ~disturbed[p],
                    NEW n \in Max({1, said[p] - LogLimit + Foreign(p)}) .. said[p]
             PROVE  n \in OnDisk(p)
  BY DEF RecentLinesAreOnDisk
<1> DEFINE at == handle[p].at
           lines == content[names.log]
           last == said[p] - at + 1
<1>h. FilesAt(p)
  BY FilesHold DEF LogInv
<1>1. /\ names.log # 0 /\ names.log = HeldBy(p)
      /\ Continues(p, lines, names.backup, at, said[p])
  BY DEF LogInv, Keeps
<1>2. said[p] \in Nat /\ LogLimit \in Nat /\ Foreign(p) \in Nat /\ at \in Nat
  <2>1. said[p] \in Nat /\ at \in Nat
    BY <1>h DEF FilesAt
  <2>2. ASSUME names.backup # 0
        PROVE  Cardinality(LinesOfOthers(p, content[names.backup])) \in Nat
    <3> DEFINE b == content[names.backup]
    <3>1. Len(b) \in Nat /\ DOMAIN b = 1 .. Len(b)
      <4>1. b \in Seq(Lines)
        BY <1>h, <2>2 DEF FilesAt
      <4> HIDE DEF b
      <4> QED
        BY <4>1, LenProperties
    <3>2. IsFiniteSet(1 .. Len(b)) /\ LinesOfOthers(p, b) \in SUBSET (1 .. Len(b))
      <4>1. LinesOfOthers(p, b) \in SUBSET (1 .. Len(b))
        BY <3>1 DEF LinesOfOthers
      <4> HIDE DEF b
      <4>2. 1 \in Int /\ Len(b) \in Int
        BY <3>1
      <4> QED
        BY <4>1, <4>2, FS_Interval
    <3>3. IsFiniteSet(LinesOfOthers(p, b))
      BY <3>2, FS_Subset
    <3> QED
      BY <3>3, FS_CardinalityType
  <2> QED
    BY <2>1, <2>2, LogLimitAssumption DEF Foreign
<1>3. n \in 1 .. said[p] /\ n >= said[p] - LogLimit + Foreign(p)
  <2> DEFINE b == said[p] - LogLimit + Foreign(p)
  <2>1. b \in Int /\ Max({1, b}) = IF 1 >= b THEN 1 ELSE b
    BY <1>2, MaxOfTwo
  <2> QED
    BY <1>2, <2>1
<1>4. lines \in Seq(Lines) /\ Len(lines) \in Nat /\ DOMAIN lines = 1 .. Len(lines)
  <2>1. lines \in Seq(Lines)
    BY <1>h, <1>1 DEF FilesAt
  <2> QED
    BY <2>1, LenProperties
<1>5. CASE at = 0
  <2>1. <<p, n>> \in ToSet(lines)
    BY <1>1, <1>3, <1>5 DEF Continues
  <2> QED
    BY <1>1, <1>3, <2>1 DEF OnDisk
<1>6. CASE at # 0
  <2>1. /\ at \in 2 .. Len(lines) + 1
        /\ \A i \in 1 .. at - 1 : lines[i] = <<p, said[p] - at + 1 + i>>
        /\ names.backup # 0 /\ Closes(p, content[names.backup], last)
    BY <1>1, <1>6 DEF Continues
  <2>2. last \in Int /\ Foreign(p) = Cardinality(LinesOfOthers(p, content[names.backup]))
    <3>1. last \in Int
      <4> HIDE DEF at
      <4> QED
        BY <1>2
    <3> QED
      BY <2>1, <3>1 DEF Foreign
  <2>3. CASE n > last
    <3>1. PICK i \in 1 .. at - 1 : said[p] - at + 1 + i = n
      <4>1. n - last \in 1 .. at - 1 /\ last + (n - last) = n
        BY <1>2, <1>3, <2>3
      <4> QED
        BY <4>1
    <3>2. lines[i] = <<p, n>>
      BY <2>1, <3>1
    <3>3. i \in DOMAIN lines
      <4> HIDE DEF at, lines
      <4> QED
        BY <1>2, <1>4, <2>1, <3>1
    <3> QED
      BY <1>1, <1>3, <3>2, <3>3 DEF OnDisk, ToSet
  <2>4. CASE n <= last
    <3>1. n \in 1 .. last /\ n >= last + 1 - LogLimit + Foreign(p)
      <4>1. at \in Nat /\ at >= 2
        BY <1>2, <2>1
      <4> HIDE DEF at
      <4> QED
        BY <1>2, <1>3, <2>4, <4>1
    <3>2. content[names.backup] \in Seq(Lines)
      BY <1>h, <2>1 DEF FilesAt
    <3> HIDE DEF last
    <3>3. <<p, n>> \in ToSet(content[names.backup])
      BY <2>1, <2>2, <3>1, <3>2, LatestAreThere
    <3> QED
      BY <1>3, <2>1, <3>3 DEF OnDisk
  <2> QED
    BY <1>2, <1>3, <2>2, <2>3, <2>4
<1> QED
  BY <1>5, <1>6

(* Between two calls of log() the last lines of an undisturbed process are   *)
(* in the two files, for any number of processes and any size of a file.    *)
THEOREM RecentLinesSurviveRotation == AppSpec => []RecentLinesAreOnDisk
<1> QED
  BY MainInit, MainNext, LogStart, LogNext, LogInvShows, PTL DEF AppSpec
=============================================================================
