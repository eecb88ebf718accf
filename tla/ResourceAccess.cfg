SPECIFICATION Spec
CONSTANTS
  tok = tok
  ann = ann
  read = read
  write = write
  r1 = r1
  r2 = r2
  server = server
  Application <- OneServer
  Public <- NoneRequired
  NoClient = NoClient
  NoSecret = NoSecret
  Token <- OneToken
  User <- OneUser
  Scope <- TwoScopes
  Read = read
  Write = write
  View <- FiveViews
  ViewScopes <- NoneRequired
  Alternates <- ReadOrNothing
  Request <- TwoRequests
  Nobody = Nobody
  NoToken = NoToken
  Way <- Either
  Server = server
  OldSecret = OldSecret
  NewSecret = NewSecret
  BearerExpires = 1
  Cache = 1
  Life = 2
  MaxTime = 2
SYMMETRY Alike
INVARIANTS TypeOK AcceptedInTime AcceptedAsGranted ErrorHasAReason
\* The requests are finitely many and the clock is bounded: the instance may stop.
CHECK_DEADLOCK FALSE
