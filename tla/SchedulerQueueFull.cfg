CONSTANTS
  Apps = {a1, a2, a3}
  Workers = {w1}
  Callers = {}
  Removable = {}
  NoApp = NoApp
  TriggerCap = 0
  ApiNames = {}
  MaxChanges = 0
  MaxRemovals = 0
  MayStop = FALSE
SPECIFICATION FairSpec
 
PROPERTY OfferedAgain
