SPECIFICATION Spec
CONSTANTS
  Nil = Nil
  Client = {c1, c2, c3}
  User = {u1}
  Addr = {}
  Kind = {"http", "ws"}
  ConfigUser = 0
  ConfigIP = 0
  DefaultLimit = 1
  valueBase = 3
  MaxWindow = 2
  MaxCalls = 5
INVARIANT TypeOK
INVARIANT GrantsPerOpening
 
INVARIANT CounterOutlivesHour
CHECK_DEADLOCK FALSE
SYMMETRY MCSymmetry
