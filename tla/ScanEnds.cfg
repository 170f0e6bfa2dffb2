SPECIFICATION FairSpec
CONSTANTS
    top = top
    left = left
    f1 = f1
    f2 = f2
    f3 = f3
    Entries = {top, left}
    Top = top
    Children <- MCTree
    Files = {f1, f2}
    In <- MCPairIn
    Rank <- MCPairRank
    BatchSize = 2
    Agents = {a1}
    MaxJobs = 2
    MaxRuns = 1
    MaxFaults = 2
    Volatile = {f1}
    Unreadable = {}
    InTime = TRUE
    RootStays = FALSE
PROPERTIES ScanEnds
