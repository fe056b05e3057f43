SPECIFICATION SmallSpec
CONSTANTS
  Sources <- Write
  Keys <- Key
  None = None
  Background = loop
  Paths = {p1, p2}
  GoodImages = {i1}
  BadImages = {dark}
  Torn = Torn
  Context <- OneContext
  BadNames = {p2}
  BadTimes = {}
  Scanners = {loop}
  MaxWrites = 2
  MaxFailures = 2
  Processes = {api}
  Uploaders = {loop, cycle}
  Requests = {1, 2, 3}
  AckedMayAbort = FALSE
  MaxAborts = 1
  MaxFaults = 1
INVARIANTS
  RowsAreTrue
  QueuedIsSpooled
  AccountedFor
PROPERTIES
  ImplementsGateway
  EveryFileSettles
  EveryImageArrives
CHECK_DEADLOCK FALSE
