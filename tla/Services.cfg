SPECIFICATION ServicesSpec
CHECK_DEADLOCK FALSE
CONSTANTS
    Observed <- MCObserved
    Watched <- MCWatched
    Missing = Missing
    Unreported = Unreported
    Gone = Gone
    Versions = {1, 2, 3, 4}
    Quality <- MCQuality
    MixedWorks = "throws"
    MaxProbation = 2
    MaxFaults = 2
    Destinations = {x1, x2}
    Retain = 1
    MaxMishaps = 2
    Expected = {f1, f2}
    OtherEntries = {o1, o2}
    SnapshotDirectories = {o2}
    MaxEntries = 3
    MaxChanges = 1
    MaxTroubles = 2
    Conditions = {k1}
    Severities = {1, 2, 3}
    MinSeverity = 2
    Batch = 2
    Embeds = 1
    MaxAttempts = 2
    Outage = 1
    MaxFlights = 2
    MaxRaises = 3
    MaxRows = 2
    MaxRestarts = 1
    Benches <- MCBenches
    MayMeasure <- MCMayMeasure
    BenchAgents = {a1, a2}
    MaxBenches = 2
    MaxUpsets = 1
    PoolParts <- MCPoolParts
    DeviceReported <- MCDeviceReported
    Unreported0 = {"r2"}
    FirstRows <- MCFirstRows
    CopiesAsked <- MCCopiesAsked
    Grace = 1
    LastDay = 3
    MaxWrites = 2
    Members = {"m1", "m2", "m3"}
    DiskOfMember <- MCDiskOfMember
    PoolFiles = {"p"}
    FirstHeld <- MCFirstHeld
    KeepRuns = 1
    MaxCatalogRuns = 3
    MaxEdits = 2
    FolderNames = {"a", "b", "c", "d"}
    Folders <- MCFolders
    FirstLevels <- MCFirstLevels
    PoolDisks = {1}
    CopyLevels = {0, 1, 2}
    DuplicationDepth = 2
    MaxPoolReports = 2
    MaxPoolEdits = 2
    Pages = {1, 2}
    PerfPages = {1, 2}
    Volumes = {1, 2}
    MaxSettingEdits = 2
    DaysPerWeek = 2
    HoursPerDay = 3
    MinutesPerHour = 2
    EndOfNight <- MCEndOfNight
    MaxPaints = 2
    MaxShifts = 1
    d1 = d1
    d2 = d2
    Roots <- MCRoots
    Settings <- MCSettled
    Pooled = {d1}
    Leaving <- MCLeaving
    MaxRuns = 4
    MaxCrashes = 2
INVARIANTS
    ServicesTypeOK
    PassLeavesNothingBehind
    AlertsFollowTheLastWord
    OutboxTellsTheTruth
    DestinationsAreHonest
    MeasurementsAreJudged
    FiguresMatchTheCatalog
    CatalogAnswersTruly
    PoolIsKnown
    SettingsAreAsMeant
    WindowTurnsWhenTold
PROPERTIES
    PassVisitsEveryRoot
    OutboxDrains
    RollbackIsSafe
    HostCatchesUp
    VerdictCatchesUp
