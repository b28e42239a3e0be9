SPECIFICATION SessionSpec
CONSTANTS
  Targets = {t1, t2}
  MaxRuns = 3
  MaxQuestions = 2
INVARIANTS
  ButtonsFollowScan
  ResumeMeansPaused
  TableIsOfThisScan
PROPERTY
  StopGivesStartBack
CHECK_DEADLOCK FALSE
