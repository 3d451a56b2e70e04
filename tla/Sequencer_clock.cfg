CONSTANTS
    N = 3
    Policy = "resume_after"
    Losers = {}
    Menu = {"drive_for", "drive", "turn_for", "wait", "wait_until", "loop", "turn_to_rotation", "set_heading", "reset_timer", "turn", "stop", "broadcast", "break", "stop_project", "instant"}
    Signs <- BothSigns
    Lengths = {3}
    Targets = {1}
    Waits = {2}
    Conds <- NeverCond
    Values = {}
    Keys = {"go"}
    Receivers <- MixedReceivers
    ExecutionBudget = 4
    Budgeted = TRUE
    TimeBudget = 5
    LoopTick = 2
    Frame = 1
    FieldCap = 4
    Circle = 4
    Quarter = 1
SPECIFICATION FairSpec
INVARIANTS TypeOK ClockWithinBudget Ownership
PROPERTIES ImplementsDrivetrain Terminates
CHECK_DEADLOCK FALSE
