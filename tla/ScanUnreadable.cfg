SPECIFICATION Spec
CONSTANTS
    top = top
    left = left
    f1 = f1
    f2 = f2
    f3 = f3
    Entries = {top, left}
    Top = top
    Children <- MCTree
    Files = {f1, f2}
    In <- MCPairIn
    Rank <- MCPairRank
    BatchSize = 2
    Agents = {a1, a2}
    MaxJobs = 2
    MaxRuns = 2
    MaxFaults = 0
    Volatile = {f2}
    Unreadable = {left}
    InTime = TRUE
    RootStays = TRUE
PROPERTIES NoFalseDeletion
