SPECIFICATION RunNowSpec
CONSTANTS
    scan = scan
    hash = hash
    perf = perf
    prune = prune
    Workflows <- MCWorkflows
    Group <- MCWorkflows
    Scheduled <- MCWorkflows
    Preempts = {perf}
    AutoStart = {perf}
    Order <- MCOrder
    Starters = {s1, s2}
    MaxRows = 2
    MaxFailures = 0
    PauseOutsideWindow = TRUE
    AutoResume = TRUE
    TickYields = FALSE
INVARIANTS NoRequestIsOrphaned

SYMMETRY StarterSymmetry
