SPECIFICATION Spec
CONSTANTS
  Requests = {r1, r2, r3}
  Processes = {api1, api2}
  Keys = {k1, k2}
  Prints = {p1, p2}
  None = None
  AckedMayAbort = TRUE
  MaxAborts = 2
  Packs = {pack1, pack2}
  Names = {"p", "a", "q"}
  Sites = {"s", "t"}
  Wildcard = "*"
  Unset = "none"
  Scores = {0, 1, 2, 3}
  Inspections = {i1, i2}
  Offers <- PlainOffers
  Files <- PlainFiles
SYMMETRY Symmetry
INVARIANTS
  OneInspectionPerKey
  AnswerFitsRequest
  ConflictIsFounded
  BoundPackAccepts
  AcceptedCanBeDecided
  DecidedByItsPack
  DecidedByNarrowest
CHECK_DEADLOCK FALSE
