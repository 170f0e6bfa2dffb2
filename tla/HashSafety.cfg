SPECIFICATION FairSpec
CONSTANTS
    f1 = f1
    f2 = f2
    Files = {f1, f2}
    Bytes = {b1, b2}
    Agents = {a1, a2}
    Volatile = {f1}
    MaxStamp = 2
    BatchSize = 2
    PostSize = 1
    MaxJobs = 2
    MaxFaults = 1
    FreshList = TRUE
INVARIANTS TypeOK NoFalseAlarm FindingsAreAlerted
PROPERTIES RotIsNeverAbsorbed HashesCatchUp HashRunEnds
