\* One browser with two polls under way at once, and payloads that the codec refuses.
\* Either a request fails or the gateway is stopped, and started again.
SPECIFICATION FairSpec
CONSTANTS
  NodeIds = {"n1"}
  Services = {1, 2}
  Hashes = {"h1", "h2"}
  Payloads <- MCPayloads
  ShortMax = 2
  LogMax = 1
  StatusDrain = 1
  MessagesDrain = 2
  Clients = {u1}
  Polls = {p1, p2}
  RxMax = 2
  MaxArrivals = 2
  MaxTroubles = 1
INVARIANTS TypeOK LogHasNoGap SentOnce ServicesFindNodes
PROPERTY BrowsersCatchUp
CHECK_DEADLOCK FALSE
