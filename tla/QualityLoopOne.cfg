SPECIFICATION Spec
CONSTANTS
  Inspections = {i1}
  Users = {ins, mgr}
  Managers = {mgr}
  ClientKeys = {k1}
  Handlers = {h1}
  NoOne = NoOne
  MaxAttempts = 2
  MaxEvents = 3
INVARIANT StatusHasCause
PROPERTY TerminalIsFinal
CHECK_DEADLOCK FALSE
