\* A grace period in which the successor is used before the retry.
SPECIFICATION Spec
CONSTANTS
  r1 = r1
  r2 = r2
  r3 = r3
  r4 = r4
  read = read
  write = write
  Request <- ThreeRequests
  Scope <- OneScope
  Nobody = Nobody
  NoRow = NoRow
  Rotate = TRUE
  ReuseProtection = FALSE
  GracePeriod = 1
  TokenLifetime = 1
  RefreshExpire = 0
  Deletions = FALSE
  Revocations = FALSE
  Foreign = FALSE
  MaxSession = 1
  MaxRow = 4
  MaxTime = 1
INVARIANTS OneExchangePerToken
\* All requests may be answered and the clock stops: the instance may stop.
CHECK_DEADLOCK FALSE
