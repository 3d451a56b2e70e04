CONSTANTS
    N = 3
    Policy = "truncate_and_resume"
    Losers = {}
    Menu = {"drive_for", "drive", "turn", "wait", "stop", "wait_until", "set_variable", "broadcast", "loop", "break", "stop_project"}
    Signs <- Forward
    Lengths = {0, 3}
    Targets = {}
    Waits = {1}
    Conds <- GatingConds
    Values = {1}
    Keys = {"go", "both"}
    Receivers <- MixedReceivers
    ExecutionBudget = 5
    Budgeted = FALSE
    TimeBudget = 0
    LoopTick = 0
    Frame = 0
    FieldCap = 4
    Circle = 4
    Quarter = 1
SPECIFICATION HistorySpec
INVARIANTS BroadcastGuard NobodyLeftParked NoThreadPassedOver
PROPERTIES MotionReturnsWhenOver UnmetMotionIsHopeless WokenOnTime
CHECK_DEADLOCK FALSE
