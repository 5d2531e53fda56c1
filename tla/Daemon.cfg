SPECIFICATION DaemonSpec
CONSTANTS
  \* CircuitBreaker
  MaxFailures = 3
  MaxCount = 12
  \* HealthMonitor
  Services = {s1}
  Containers = {"absent", "created", "running"}
  MaxChanges = 3
  \* EventWatcher
  Hosts = {h1}
  Local = local
  MaxEvents = 2
  MaxDrops = 1
  \* ImagePoller
  TagLists <- TwoReleases
  FirstTag <- Tag100
  Pushed <- ByHand
  Policy = "minor"
  AtRoot = TRUE
  Polls = {p1, p2}
  Groups <- OneURL
  MaxFaults = 1
  \* ConfigSync
  Apps = {a1}
  Versions = {v1, v2}
  NoVersion = nothing
  Placed <- InConfigDir
  MaxEdits = 2
  \* ApiCaches
  Callers = {q1, q2, q3}
  Limit = 2
INVARIANTS
  GateIsEarned
  SingleFlight
  NoForeignCancellation
PROPERTIES
  NoRunaway
  OpenIsLeft
  NewestObservationWins
  WatchEnds
  HealthConverges
  EventIsFollowed
  LoopsExit
  PublishesWhatItWrote
  UpdateIsPublished
  KeptWhileReadable
  StoreFollowsSources
  SomebodyIsAnswered
CHECK_DEADLOCK FALSE
