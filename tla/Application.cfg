SPECIFICATION AppSpec
CONSTANTS
  Processes = {p1, p2}
  LogLimit = 3
  Edits <- MCEdits
  Touches <- MCTouches
  Suggested = "lan"
  SystemDark = FALSE
  NoDialog = NoDialog
  NoScan = NoScan
  Top100 <- NoPorts
  Curated = {}
  Budgets <- MCBudgets
SYMMETRY ProcessSymmetry
INVARIANTS
  RecentLinesAreOnDisk
  SettingsInForce
  ChoicesSurvive
  SequentialStartsAreSingle
CHECK_DEADLOCK FALSE
