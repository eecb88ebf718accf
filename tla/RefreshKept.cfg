\* Without rotation: the refresh token is kept and its access token overwritten.
SPECIFICATION FairSpec
CONSTANTS
  r1 = r1
  r2 = r2
  r3 = r3
  r4 = r4
  read = read
  write = write
  Request <- TwoRequests
  Scope <- OneScope
  Nobody = Nobody
  NoRow = NoRow
  Rotate = FALSE
  ReuseProtection = TRUE
  GracePeriod = 1
  TokenLifetime = 1
  RefreshExpire = 1
  Deletions = TRUE
  Revocations = TRUE
  Foreign = TRUE
  MaxSession = 1
  MaxRow = 3
  MaxTime = 2
INVARIANTS OneAccessPerSession KeptTokenReturned
PROPERTIES EveryRequestAnswered
\* All requests may be answered and the clock stops: the instance may stop.
CHECK_DEADLOCK FALSE
