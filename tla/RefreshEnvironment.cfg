\* Rotation without reuse protection: deletions, revocations and cleartokens around two requests.
SPECIFICATION Spec
CONSTANTS
  r1 = r1
  r2 = r2
  r3 = r3
  r4 = r4
  read = read
  write = write
  Request <- TwoRequests
  Scope <- TwoScopes
  Nobody = Nobody
  NoRow = NoRow
  Rotate = TRUE
  ReuseProtection = FALSE
  GracePeriod = 1
  TokenLifetime = 1
  RefreshExpire = 1
  Deletions = TRUE
  Revocations = TRUE
  Foreign = FALSE
  MaxSession = 1
  MaxRow = 3
  MaxTime = 2
INVARIANTS TypeOK RevokedHoldsNothing ScopeNeverWidens
\* All requests may be answered and the clock stops: the instance may stop.
CHECK_DEADLOCK FALSE
