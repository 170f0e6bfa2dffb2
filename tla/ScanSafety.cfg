SPECIFICATION Spec
CONSTANTS
    top = top
    left = left
    f1 = f1
    f2 = f2
    f3 = f3
    Entries = {top, left}
    Top = top
    Children <- MCTree
    Files = {f1, f2, f3}
    In <- MCIn
    Rank <- MCRank
    BatchSize = 2
    Agents = {a1, a2}
    MaxJobs = 2
    MaxRuns = 2
    MaxFaults = 1
    Volatile = {f1}
    Unreadable = {}
    InTime = TRUE
    RootStays = TRUE
INVARIANTS TypeOK OneOutstandingJob CursorCovers
PROPERTIES NoFalseDeletion DeletionsAreFound
SYMMETRY AgentSymmetry
