CONSTANTS
    N = 2
    Policy = "truncate_and_resume"
    Losers = {}
    Menu = {"broadcast", "wait", "wait_until"}
    Signs <- Forward
    Lengths = {}
    Targets = {}
    Waits = {1}
    Conds <- NeverCond
    Values = {}
    Keys = {"go"}
    Receivers <- MixedReceivers
    ExecutionBudget = 4
    Budgeted = FALSE
    TimeBudget = 0
    LoopTick = 0
    Frame = 0
    FieldCap = 4
    Circle = 4
    Quarter = 1
SPECIFICATION Spec
PROPERTIES GatedReceiverSparesBroadcaster
CHECK_DEADLOCK FALSE
