SPECIFICATION Spec
CONSTANTS
    d1 = d1
    d2 = d2
    Roots <- MCRoots
    Settings <- MCEdited
    Pooled = {d1}
    Leaving <- MCLeaving
    MaxRuns = 6
    MaxCrashes = 3
INVARIANTS NothingIsLost
