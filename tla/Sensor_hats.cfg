CONSTANTS
    Field = 5
    Deep = 20
    Reach = 2
    Mount = 1
    Radius = 1
    Pin = 2
    BodyReach = 2
    Ring = 1
    Bar = 1
    Margin = 1
    Displacement = 1
    Cards <- EveryCard
    Threshold = 2
    Menu = {"drive_for", "turn_for", "drive", "wait", "stop", "reset_timer"}
    HatMenu = {"drive_for", "turn_for", "drive", "wait", "stop", "reset_timer"}
    Lengths = {1, 3}
    Signs <- BothSigns
    Waits = {2}
    ExecutionBudget = 4
    Unroll = 2
    FieldCap = 8
SPECIFICATION Spec
INVARIANTS NoEdgeForgotten ContinuousTruthFiresOnce
PROPERTIES RetreatIsReal PieceIsNeverRunOver
CHECK_DEADLOCK FALSE
