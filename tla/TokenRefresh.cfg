SPECIFICATION FairSpec
CONSTANTS
  r1 = r1 r2 = r2 r3 = r3
  Requests = {r1, r2}
  UseAuthorizationHeader = TRUE
  ExpiryGiven = TRUE
  MayRevoke = TRUE
  MaxTokens = 2
  MaxFailures = 2
INVARIANTS
  RefreshTokenUsedOnce
  OnlyRealFailures
PROPERTIES
  RequestEnds
\* when all requests have ended and all tokens expired nothing is left to do
CHECK_DEADLOCK FALSE
