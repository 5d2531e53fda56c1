CONSTANTS
  Apps = {a1}
  Workers = {w1}
  Callers = {c1}
  Removable = {}
  NoApp = NoApp
  TriggerCap = 1
  ApiNames = {}
  MaxChanges = 0
  MaxRemovals = 0
  MayStop = FALSE
SPECIFICATION FairSpec
PROPERTY SkippedIsRetried
