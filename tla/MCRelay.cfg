SPECIFICATION FairSpec
CONSTANTS
  h1 = h1
  h2 = h2
  Nil = Nil
  Unavailable = Unavailable
  Dropped = Dropped
  Endpoint = {e1, e2}
  Handler = {h1, h2}
  MaxHeight = 2
  TxHeight = 2
  CacheLag = 1
  RelayLag = 0
  SendLag = 1
  Unstable = {e2}
  Unreliable = {e2}
  Named = {e1}
  Workload <- MCWorkload
INVARIANT TypeOK
INVARIANT CacheIsHonest
 
PROPERTY NonceCoversSends
PROPERTY EventuallyFound
