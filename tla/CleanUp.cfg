SPECIFICATION FairSpec
CONSTANTS
  i1 = i1
  i2 = i2
  ann = ann
  bob = bob
  web = web
  device = device
  home = home
  l1 = l1
  l2 = l2
  browser = browser
  Anonymous = Anonymous
  None = None
  Issue <- TwoIssues
  Session <- OneBrowser
  Deletable <- WebOnly
  AlwaysPrompt = FALSE
  DeleteTokens = TRUE
  AcceptExpired = TRUE
  AccessLife = 0
  IdLife = 1
  RefreshExpire = 1
  BatchSize = 1
  User <- OneUser
  App <- WebOnly
  Uri <- NoUri
  Registered <- NoneRegistered
  Logout <- NoLogout
  Sweeping = TRUE
  Clock <- FourInstants
INVARIANTS SweepIsComplete
PROPERTIES SweepSparesTheLiving SweepEnds
\* The job is done and the issues are used up: the instance may stop.
CHECK_DEADLOCK FALSE
