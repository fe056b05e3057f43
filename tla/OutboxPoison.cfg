SPECIFICATION OutboxSpec
CONSTANTS
  Events = {e1, e2}
  Workers = {w1}
  Nobody = Nobody
  Poison = {e1}
  Unknown = {}
  MaxMishaps = 0
PROPERTY EveryEventDelivered
CHECK_DEADLOCK FALSE
