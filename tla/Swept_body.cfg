CONSTANTS
    Field = 5
    Deep = 20
    Reach = 2
    Mount = 1
    Radius = 1
    Pin = 2
    BodyReach = 2
    Ring = 1
    Bar = 1
    Margin = 1
    Displacement = 1
    Cards <- PushedCards
    Threshold = 2
    Menu = {"drive_for"}
    HatMenu = {}
    Lengths = {2, 6}
    Signs = {1}
    Waits = {2}
    ExecutionBudget = 4
    Unroll = 2
    FieldCap = 8
SPECIFICATION Spec
INVARIANTS SweptBodyLatches
CHECK_DEADLOCK FALSE
