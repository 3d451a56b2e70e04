SPECIFICATION Spec
CONSTANTS
    Field = 5
    Deep = 50
    Arena = 60
    Reach = 2
    Mount = 1
    Radius = 1
    Pin = 1
    BodyReach = 1
    Ring = 1
    Bar = 1
    Margin = 1
    Displacement = 1
    Band = 2
    Retreat = 4
    Grace = 1
    ClearBar = 2
    Within = 4
    Batteries <- SomeBatteries
    Codes <- SomeCodes
    Lengths <- DriveLengths
    MaxBlocks <- ThreeThenThree
INVARIANTS
    CheckAndEvidenceAgree
    ScansAgree
    RecoveryIsEarned
    AbstentionLosesNothing
PROPERTIES
    VoidAfterFailure
    LevelsFallOnlyOnCounterEvidence
    AbstentionChangesNoBand
CHECK_DEADLOCK FALSE
