SPECIFICATION Spec
CONSTANTS
    scan = scan
    hash = hash
    perf = perf
    prune = prune
    Workflows <- MCWithPrune
    Group = {hash, perf}
    Scheduled = {hash, perf}
    Preempts = {perf}
    AutoStart <- MCWithPrune
    Order <- MCOrderWithPrune
    Starters = {s1}
    MaxRows = 2
    MaxFailures = 1
    PauseOutsideWindow = TRUE
    AutoResume = TRUE
    TickYields = FALSE
INVARIANTS TypeOK OneRunPerGroup MapAgreesWithRows
PROPERTIES ForcedLeftAlone CursorSurvives BeginsInsideTheWindow KeepsPromise
