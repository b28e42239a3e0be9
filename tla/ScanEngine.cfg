SPECIFICATION Spec
CONSTANTS
  Targets = {t1, t2}
  MaxRuns = 3
INVARIANTS
  NoStaleEvents
  IdleMeansEnded
  OneFinishedPerRun
PROPERTIES
  WorkerOutlivesRun
  DestroyReturns
  CancelIsHeard
CHECK_DEADLOCK FALSE
