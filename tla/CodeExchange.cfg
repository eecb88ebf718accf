SPECIFICATION FairSpec
CONSTANTS
  c1 = c1
  r1 = r1
  r2 = r2
  webapp = webapp
  mobile = mobile
  uri1 = uri1
  uri2 = uri2
  v1 = v1
  Code <- OneCode
  Request <- TwoRequests
  Client <- TwoClients
  Uri <- TwoUris
  Verifier <- OneVerifier
  PkceRequired <- MobileOnly
  NoVerifier = NoVerifier
  Nobody = Nobody
  NotIssued = NotIssued
  NoParams = NoParams
  CodeLifetime = 1
  MaxTime = 2
INVARIANTS TypeOK AtMostOneDelivery EntitledToken NothingSpentForNothing LateGetsNothing
PROPERTIES CodeSettles ImplementsOneShot
\* Every request is answered and the clock is bounded: the instance may stop.
CHECK_DEADLOCK FALSE
