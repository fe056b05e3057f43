SPECIFICATION Spec
CONSTANTS
  Inspections = {i1}
  Users = {ins, mgr}
  Managers = {mgr}
  ClientKeys = {}
  Handlers = {h1}
  NoOne = NoOne
  MaxAttempts = 1
  MaxEvents = 2
INVARIANT RecoveryCompletes
CHECK_DEADLOCK FALSE
