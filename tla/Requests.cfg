SPECIFICATION RequestSpec
CONSTANTS
  \* BlueGreen
  Revs = {k1, k2, k3, k4}
  NoRev = NoRev
  Bad = {k4}
  DeployFaults = {"inspect", "deploy", "down", "expire", "crash"}
  \* Drift
  Clones <- PlainCommits
  FirstClone <- OneFile
  OsEnv <- ProcessEnv
  Prune = TRUE
  MaxTampers = 3
  \* HostStream
  Streams = {c1}
  ChanCap = 2
  MaxTurns = 4
  \* LocalAuth
  LoginRequests = {r1, r2}
  Buckets = {b1}
  MaxSessions = 1
  LockoutAfterFailures = 2
  LockoutDuration = 2
  SessionTTL = 2
  LoginFlowTTL = 3
  MaxClock = 3
  \* Presentation
  ann = ann
  ben = ben
  shop = shop
  blog = blog
  Users = {ann, ben}
  Names = {shop, blog}
  FirstRegistry <- ShopOnly
  Registries <- SomeRegistries
  RowValues <- SomeRows
  MaxRestarts = 2
INVARIANTS
  CleanSuccess
  NoFalseDiff
  TamperIsSeen
  NoSendOnClosed
  StreamIsFaithful
  AttemptsAreCounted
  NoCheckWhileLocked
  ScopedToSubject
  FreshnessIsPrimary
PROPERTIES
  HealthGated
  ZeroDowntimeRollout
CHECK_DEADLOCK FALSE
