SPECIFICATION Spec
CONSTANTS
  f1 = f1  f2 = f2  a = a  b = b  c = c
  Files = {f1, f2}
  Contents = {a, b, c}
  Missing = Missing
  NoFile = NoFile
  MaxEvents = 4
SYMMETRY Symmetry
INVARIANTS TypeOK QuietSuccessConverges QuietConflictsExact
PROPERTIES EditsSurviveUpgrade DryRunWritesNothing
\* Once the budget of events is spent and the template has no file left, every
\* command returns at once without changing anything.
CHECK_DEADLOCK FALSE
