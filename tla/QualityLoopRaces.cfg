SPECIFICATION Spec
CONSTANTS
  Inspections = {i1}
  Users = {ins, mgr}
  Managers = {mgr}
  ClientKeys = {}
  Handlers = {h1, h2}
  NoOne = NoOne
  MaxAttempts = 2
  MaxEvents = 2
SYMMETRY Symmetry
INVARIANTS
  TypeOK
  EffectNeedsManager
  DecidedOnce
  ClaimIsExclusive
  ReleaseIsFounded
  PendingHasEvent
PROPERTY ImplementsHumanGate
CHECK_DEADLOCK FALSE
