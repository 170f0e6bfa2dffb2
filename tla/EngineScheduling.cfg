SPECIFICATION FairSpec
CONSTANTS
    scan = scan
    hash = hash
    perf = perf
    prune = prune
    Workflows = {scan, perf}
    Group = {scan, perf}
    Scheduled = {scan, perf}
    Preempts = {perf}
    AutoStart = {scan, perf}
    Order <- MCOrderScanFirst
    Starters = {s1}
    MaxRows = 2
    MaxFailures = 1
    PauseOutsideWindow = TRUE
    AutoResume = TRUE
    TickYields = FALSE

PROPERTIES PreemptingGetsTheDisks HalfDoneIsTakenUp RunNowStarts WindowCloseIsObeyed
