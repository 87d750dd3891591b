SPECIFICATION FairSpec
CONSTANTS
  e1 = e1
  e2 = e2
  eth = eth
  Nil = Nil
  Down = Down
  Empty = Empty
  Garbled = Garbled
  Panic = Panic
  Endpoint = {e1, e2}
  Chain = {eth}
  ChainOf <- MCOneChain
  Delegator <- MCPolled
  Websocket = {}
  Height = {1}
  PubCap = 1
  UpdCap = 1
PROPERTY StopEndsSync
CHECK_DEADLOCK FALSE
