SPECIFICATION Spec
CONSTANTS
  e1 = e1
  e2 = e2
  e3 = e3
  x = x
  eth = eth
  btc = btc
  call = call
  trace = trace
  Nil = Nil
  Endpoint = {e1, e2, e3}
  Chain = {eth, btc}
  ChainOf <- MCTwoChains
  ConfigWeight <- MCConfigWeight
  SkipMethods <- MCSkipMethods
  Websocket = {e1}
  Foreign = {x}
  Method = {call, trace}
  Height = {1, 4, 5}
  Handler = {}
  Request = {}
INVARIANT TypeOK
INVARIANT TableMatchesHealth
INVARIANT DrawsFollowWeights
INVARIANT TipIsHighest
PROPERTY ImplementsTable
