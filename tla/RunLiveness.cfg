\* One run, two observers, two faults, a runtime whose inspect has no exit code.
SPECIFICATION FairSpec
CONSTANTS
  r1 = r1
  r2 = r2
  o1 = o1
  o2 = o2
  NoRun = NoRun
  Runs = {r1}
  Observers = {o1, o2}
  PsLimit = 1
  ReportsExitCode = FALSE
  MaxFaults = 2
PROPERTIES DetachedReconciled RunReturns
CHECK_DEADLOCK FALSE
