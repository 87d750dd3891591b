SPECIFICATION FairSpec
CONSTANTS
  Process = {p1}
  Endpoint = {e1, e2}
  PubCap = 1
  UpdCap = 1
  MaxLen = 2
  SnapLen = 2
  BatchLen = 2
  FailureLimit = 1
  MaxEntries = 4
  MaxFaults = 1
INVARIANT TypeOK
INVARIANT NewestIsOnItsWay
PROPERTY CatchesUp
CHECK_DEADLOCK FALSE
