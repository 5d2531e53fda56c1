CONSTANTS
  Apps = {a1, a2}
  Workers = {w1, w2}
  Callers = {c1}
  Removable = {a1}
  NoApp = NoApp
  TriggerCap = 1
  ApiNames = {}
  MaxChanges = 1
  MaxRemovals = 1
  MayStop = FALSE
SPECIFICATION Spec
SYMMETRY Interchangeable
INVARIANTS
  AtMostOnceQueued
  QueuedIsCarried
  NoOverlap
