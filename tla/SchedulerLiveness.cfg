CONSTANTS
  Apps = {a1, a2}
  Workers = {w1}
  Callers = {}
  Removable = {}
  NoApp = NoApp
  TriggerCap = 1
  ApiNames = {a2}
  MaxChanges = 1
  MaxRemovals = 0
  MayStop = TRUE
SPECIFICATION FairSpec
INVARIANT NoBusyLoop
PROPERTIES
  PolledAgain
  ShutdownCompletes
