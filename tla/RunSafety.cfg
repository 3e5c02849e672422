\* Two runs, two observers racing each other and the runs, one fault.
SPECIFICATION Spec
CONSTANTS
  r1 = r1
  r2 = r2
  o1 = o1
  o2 = o2
  NoRun = NoRun
  Runs = {r1, r2}
  Observers = {o1, o2}
  PsLimit = 1
  ReportsExitCode = TRUE
  MaxFaults = 1
SYMMETRY Symmetry
INVARIANTS TypeOK RefreshOnlyDetached QuietRunIsReconcilable ForegroundLeavesNothing
  DebugEvidenceKept ExitCodeTruthful ExitEventsLast DetachedExitRecorded
PROPERTY ImplementsLifecycle
CHECK_DEADLOCK FALSE
