SPECIFICATION Spec
CONSTANTS
    Field = 5
    Deep = 50
    Arena = 60
    Reach = 2
    Mount = 1
    Radius = 1
    Pin = 1
    BodyReach = 1
    Ring = 1
    Bar = 1
    Margin = 1
    Displacement = 1
    Band = 2
    Retreat = 4
    Grace = 1
    ClearBar = 2
    Within = 4
    Batteries <- StaticBattery
    Codes <- OneCode
    Lengths <- DriveLengths
    MaxBlocks <- FourThenThree
PROPERTY CreditIsNeverLost
CHECK_DEADLOCK FALSE
