\* The revocation endpoint within the grace period.
SPECIFICATION Spec
CONSTANTS
  r1 = r1
  r2 = r2
  r3 = r3
  r4 = r4
  read = read
  write = write
  Request <- TwoRequests
  Scope <- OneScope
  Nobody = Nobody
  NoRow = NoRow
  Rotate = TRUE
  ReuseProtection = FALSE
  GracePeriod = 1
  TokenLifetime = 1
  RefreshExpire = 0
  Deletions = FALSE
  Revocations = TRUE
  Foreign = FALSE
  MaxSession = 1
  MaxRow = 3
  MaxTime = 1
PROPERTIES RevokedIsRefused
\* All requests may be answered and the clock stops: the instance may stop.
CHECK_DEADLOCK FALSE
