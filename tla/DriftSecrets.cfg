SPECIFICATION DriftSpec
CONSTANTS
  Clones <- WithSecrets
  FirstClone <- OneFile
  OsEnv <- ProcessEnv
  Prune = TRUE
  MaxTampers = 1
INVARIANT
  NoFalseDiff
CHECK_DEADLOCK FALSE
