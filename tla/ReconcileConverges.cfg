SPECIFICATION FairSpec
CONSTANTS
    Waves <- TwoWaves
    Values = {v1, v2}
    MaxCommits = 2
    Automated = TRUE
    SelfHeal = TRUE
    Requests = {"poll", "manual"}
    Others = {"dryrun", "adopt"}
    Faults = {"git", "parse", "inspect", "deploy", "drift", "crash"}
    MaxFaults = 1
PROPERTIES
    Converges
    ErrorsClear
    HeadIsReported
