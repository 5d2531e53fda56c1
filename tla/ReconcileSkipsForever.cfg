SPECIFICATION FairSpec
CONSTANTS
    Waves <- OneWave
    Values = {v1, v2}
    MaxCommits = 2
    Automated = TRUE
    SelfHeal = FALSE
    Requests = {"poll"}
    Others = {"sharedclone"}
    Faults = {}
    MaxFaults = 0
PROPERTY
    Converges
