CONSTANTS
    ShortPauseMin = 1
    PauseThreshold = 3
    PauseMax = 4
    Xmls = {"x", "same", "rewrite", "big"}
    Playgrounds = {"p", "q"}
    EditDistance <- SomeDistance
    Oversized = {"big"}
    CacheMax = 2
    WheelSpinZeroRuns = 3
    ResilienceZeroRuns = 2
    ExplorerEditDistance = 4
    IterativeThreshold <- Thresholds
    InactiveTriggerSeconds = 2
    ReAlertSeconds = 4
    Blocks = {1, 2, 3, 4, 5, 6, 7, 8, 9}
    Names = {"f", "g"}
    Parse <- SomeParse
    Blank = Blank
    Broken = Broken
    NoProject = NoProject
    Workloads <- AllWorkloads
SPECIFICATION SessionSpec
INVARIANTS
    IncrementalAgreesWithBatch
    RunsJoinEpisodes
    DistancesAreTrue
    TriggersMeanWhatTheySay
    AlertsFollowIdleness
    ActiveIsWhatRuns
PROPERTIES FiresAreFinal EachBlockOnce
CHECK_DEADLOCK FALSE
