SPECIFICATION PolicySpec
CONSTANTS
  Packs = {pack1, pack2}
  Names = {"p"}
  Sites = {"s"}
  Wildcard = "*"
  Unset = "none"
  Scores = {0, 1, 2, 3}
  Inspections = {i1}
  Offers <- WildOffers
  Files <- WildFiles
CHECK_DEADLOCK FALSE
INVARIANT AcceptedCanBeDecided
