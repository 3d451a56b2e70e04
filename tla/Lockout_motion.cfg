CONSTANTS
    N = 3
    Policy = "truncate_and_resume"
    Losers = {1, 3}
    Menu = {"drive_for", "drive", "turn", "stop", "wait", "wait_until", "broadcast"}
    Signs <- BothSigns
    Lengths = {3}
    Targets = {}
    Waits = {1}
    Conds <- SomeConds
    Values = {}
    Keys = {"go"}
    Receivers <- OneReceiver
    ExecutionBudget = 6
    Budgeted = TRUE
    TimeBudget = 6
    LoopTick = 2
    Frame = 1
    FieldCap = 4
    Circle = 4
    Quarter = 1
SPECIFICATION LockoutSpec
INVARIANT OnlyWinnersMotion
CHECK_DEADLOCK FALSE
