\* A request that validated its token before the reuse of the token was detected.
SPECIFICATION Spec
CONSTANTS
  r1 = r1
  r2 = r2
  r3 = r3
  r4 = r4
  read = read
  write = write
  Request <- ThreeRequests
  Scope <- OneScope
  Nobody = Nobody
  NoRow = NoRow
  Rotate = TRUE
  ReuseProtection = TRUE
  GracePeriod = 0
  TokenLifetime = 1
  RefreshExpire = 0
  Deletions = FALSE
  Revocations = FALSE
  Foreign = FALSE
  MaxSession = 1
  MaxRow = 4
  MaxTime = 1
PROPERTIES ReuseEndsSession
\* All requests may be answered and the clock stops: the instance may stop.
CHECK_DEADLOCK FALSE
