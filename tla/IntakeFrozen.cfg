SPECIFICATION IntakeFairSpec
CONSTANTS
  Requests = {r1, r2}
  Processes = {api1}
  Keys = {k1}
  Prints = {p1}
  None = None
  AckedMayAbort = FALSE
  MaxAborts = 0
PROPERTY EveryRequestAnswered
CHECK_DEADLOCK FALSE
