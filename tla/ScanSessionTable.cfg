SPECIFICATION SessionSpec
CONSTANTS
  Targets = {t1, t2}
  MaxRuns = 3
  MaxQuestions = 2
INVARIANT TableIsComplete
CHECK_DEADLOCK FALSE
