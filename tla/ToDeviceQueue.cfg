SPECIFICATION FairSpec
CONSTANTS
  c1 = c1 c2 = c2 b1 = b1 b2 = b2 b3 = b3
  Calls = {c1, c2}
  Parts <- MCParts
  NoBatch = NoBatch
  ErrorKinds = {"fatal", "rateLimit", "server", "connection", "store"}
  RetryLimit = 1
  MaxErrors = 3
  MaxStops = 2
  MaxRestarts = 1
INVARIANTS
  StoreIsServed
PROPERTIES
  ImplementsDelivery
  SentWithoutKick
