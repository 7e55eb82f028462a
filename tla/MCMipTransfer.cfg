\* One client and a mesh that repeats requests, so that one request is answered
\* more than once, also in part; ids come back by the wrap and
\* with each installation.
SPECIFICATION FairSpec
CONSTANTS
  Clients = {c1}
  Gateways = {g1}
  Chunks <- MCChunks
  IdMod = 3
  Fallback = TRUE
  MaxRequests = 3
INVARIANTS TypeOK WrittenInOrder FetchedRight
PROPERTY InstallEnds
