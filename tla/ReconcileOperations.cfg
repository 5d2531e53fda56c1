SPECIFICATION Spec
CONSTANTS
    Waves <- TwoWaves
    Values = {v1, v2}
    MaxCommits = 2
    Automated = TRUE
    SelfHeal = FALSE
    Requests = {"poll", "rollback"}
    Others = {"sharedclone", "remove"}
    Faults = {"git", "parse", "inspect", "deploy", "drift", "crash"}
    MaxFaults = 1
INVARIANTS
    SyncedIsLive
    DeploysTheRevision
    NoOrphanRecords
