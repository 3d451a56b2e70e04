CONSTANTS
    N = 1
    Policy = "truncate_and_resume"
    Losers = {}
    Menu = {"drive_for", "drive", "turn_for", "turn", "turn_to_rotation", "wait", "loop", "stop", "set_heading", "set_variable", "reset_timer", "broadcast", "break", "stop_project", "instant", "wait_until"}
    Signs <- BothSigns
    Lengths = {0, 2}
    Targets <- Rotations
    Waits = {1, 2}
    Conds <- WaitConds
    Values = {1}
    Keys = {"k1", "k2"}
    Receivers <- TwoReceivers
    ExecutionBudget = 5
    Budgeted = FALSE
    TimeBudget = 0
    LoopTick = 0
    Frame = 0
    FieldCap = 4
    Circle = 4
    Quarter = 1
SPECIFICATION LockstepSpec
INVARIANTS SingleStackIdentity
CHECK_DEADLOCK FALSE
