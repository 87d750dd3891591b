SPECIFICATION FairSpec
CONSTANTS
  Nil = Nil
  Down = Down
  Empty = Empty
  Garbled = Garbled
  Panic = Panic
  Bad = Bad
  Config <- MCConfig
  Entrypoint = {"own", "enu"}
  Session = {s1}
  ChainOfSession <- MCChainOfSession
  MaxWrites = 4
  MaxDest = 2
INVARIANT TypeOK
INVARIANT OnlyServingSyncs
INVARIANT NoChainOrphaned
INVARIANT OneDestPerSession
PROPERTY SettledConfigIsServed
CHECK_DEADLOCK FALSE
