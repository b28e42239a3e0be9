---------------------------- MODULE MCApplication ----------------------------
(***************************************************************************)
(* Two processes, side by side or one after the other; of the budgets one   *)
(* is for the log, one for the settings and one for both.                  *)
(* The edits change every kind of setting: one that is in force at once,    *)
(* one only a scan reads, one the control bar shows too.                   *)
(***************************************************************************)
EXTENDS Application

MCEdits ==
  { [theme |-> "dark", periodic |-> TRUE, interval |-> 30, autoScan |-> FALSE,
     shortcuts |-> [Shortcuts EXCEPT !["scan.stop"] = "Esc"]],
    [portProfile |-> "Custom", customPorts |-> <<[kind |-> "range", a |-> 81, b |-> 80]>>,
     methods |-> {}, tray |-> FALSE] }
MCTouches == { [speed |-> "Fast"], [portProfile |-> "Custom", target |-> ""] }
MCBudgets ==
  { [lines |-> 5, changes |-> 0], [lines |-> 0, changes |-> 2], [lines |-> 1, changes |-> 1] }
NoPorts == <<>>

ProcessSymmetry == Permutations(Processes)
=============================================================================
