SPECIFICATION SyncingSpec
CONSTANTS
  e1 = e1
  e2 = e2
  eth = eth
  Nil = Nil
  Down = Down
  Empty = Empty
  Garbled = Garbled
  Panic = Panic
  Endpoint = {e1, e2}
  Chain = {eth}
  ChainOf <- MCOneChain
  Delegator <- MCAllKinds
  Websocket = {e2}
  Height = {1}
  PubCap = 1
  UpdCap = 1
 
PROPERTY DeadNodeIsDropped
CHECK_DEADLOCK FALSE
