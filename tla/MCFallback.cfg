SPECIFICATION Spec
CONSTANTS
  e1 = e1
  e2 = e2
  e3 = e3
  x = x
  eth = eth
  btc = btc
  call = call
  trace = trace
  Nil = Nil
  Endpoint = {e1, e2}
  Chain = {eth}
  ChainOf <- MCChainOf
  ConfigWeight <- MCConfigWeight
  SkipMethods <- MCSkipMethods
  Websocket = {}
  Foreign = {}
  Method = {call, trace}
  Height = {1, 4}
  Handler = {h1}
  Request <- MCFallback
INVARIANT FallbackServesHealthy
