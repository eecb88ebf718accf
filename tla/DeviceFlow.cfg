SPECIFICATION Spec
CONSTANTS
  tv = tv
  watch = watch
  k1 = k1
  k2 = k2
  ann = ann
  bob = bob
  t1 = t1
  t2 = t2
  t3 = t3
  p1 = p1
  p2 = p2
  read = read
  write = write
  cli = cli
  srv = srv
  old = old
  Application <- ThreeApplications
  Public <- PublicClient
  BlankSecret <- BlankClient
  NoClient = NoClient
  NoSecret = NoSecret
  Device <- TwoDevices
  UserCode <- TwoCodes
  User <- TwoUsers
  Scope <- TwoScopes
  DefaultScope = read
  Tab <- ThreeTabs
  Poll <- TwoPolls
  Nobody = Nobody
  NoScope = NoScope
  NoDevice = NoDevice
  NoRow = NoRow
  Lifetime = 1
  MaxTime = 1
SYMMETRY Alike
INVARIANTS TypeOK TokenIsEntitled DenialHolds
PROPERTIES DecisionStands OwnerStands
\* The requests are finitely many and the clock is bounded: the instance may stop.
CHECK_DEADLOCK FALSE
