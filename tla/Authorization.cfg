SPECIFICATION Spec
CONSTANTS
  ann = ann
  bob = bob
  r1 = r1
  r2 = r2
  cli = cli
  RedirectScheme = {"http", "https"}
  OriginScheme = {"https"}
  Wildcards = TRUE
  Under <- Hosts
  OddWildcard = {"a.*.com"}
  SigningKey = TRUE
  Application <- OneApplication
  Registration <- Registrations
  First <- Site
  URI <- URIs
  AskedURI <- Requested
  User <- TwoUsers
  Scope = {"read", "write"}
  Available = {"read", "write"}
  Default = {"read"}
  PKCERequired = TRUE
  Request <- TwoRequests
  NoURI = NoURI
  NoRow = NoRow
  Nobody = Nobody
  NoClient = NoClient
  Lifetime = 1
  MaxTime = 1
  MaxEdits = 1
  MaxTokens = 1
SYMMETRY Alike
INVARIANTS TypeOK RedirectsAreRegistered SavedApplicationsSuffice ConsentIsGrounded SilenceNeedsALiveToken
\* The journeys are finitely many and the clock is bounded: the instance may stop.
CHECK_DEADLOCK FALSE
