SPECIFICATION BothSpec
CONSTANTS
  Sources = {s1, s2}
  Keys = {k1}
  None = None
  Processes = {api}
  Uploaders = {loop, cycle}
  Background = loop
  Requests = {1, 2, 3, 4, 5}
  AckedMayAbort = FALSE
  MaxAborts = 1
  MaxFaults = 3
  Events = {e1, e2, e3}
  Workers = {w1, w2}
  Nobody = Nobody
  Poison = {}
  Unknown = {e3}
  MaxMishaps = 2
INVARIANTS
  UploadedIsDetected
  UploadingIsHeldOnce
  DuplicateHasPrimary
  HandledOnce
PROPERTIES
  ImplementsDelivery
  EveryItemSettles
  EveryEventDelivered
CHECK_DEADLOCK FALSE
