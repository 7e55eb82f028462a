\* The answer to a request of an earlier installation arrives late.
SPECIFICATION Spec
CONSTANTS
  Clients = {c1}
  Gateways = {g1}
  Chunks <- MCChunks
  IdMod = 3
  Fallback = FALSE
  MaxRequests = 2
INVARIANT KeepsCollecting
