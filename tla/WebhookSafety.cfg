SPECIFICATION Spec
CONSTANTS
  c1 = c1  c2 = c2
  Clients = {c1, c2}
  own = own  t1 = t1  t2 = t2  NoID = NoID
  Names = {own}
  Instants = {t1, t2}
  Kinds <- ClientKinds
  MaxRetries = 1
  MaxFaults = 1
INVARIANTS TypeOK SuccessIsDelivered ReportedIDFindsEvent OneLinePerAttempt
PROPERTY EveryoneReports
\* When every delivery has been reported and every request handled, nothing more
\* happens.
CHECK_DEADLOCK FALSE
