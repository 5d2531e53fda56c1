SPECIFICATION DeploySpec
CONSTANTS
    Revs = {r1, r2, r3}
    NoRev = NoRev
    Bad = {r3}
    DeployFaults = {"expireWaiting"}
INVARIANT
    AlwaysServed
