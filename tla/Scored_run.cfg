SPECIFICATION Spec
CONSTANTS
  Spawn = 3
  World <- MCWorld
  Piece = 5
  Reach = 0
  Region <- MCRegion
  Clipped <- MCClipped
  Grain = 2
  Lengths <- MCLengths
  MaxPath = 5
  Island <- MCIsland
  Plow = 7
  ReachEdges <- MCReach
  CoverEdges <- MCCover
  MovedEdge = 1
  AttachGap = 1
  Corroborates = 1
  EdgeSlip = 1
  SameSpot = 1
  Params <- MCParams
CHECK_DEADLOCK FALSE
INVARIANTS
  PathIsIndexed
  TimelineEndsAtProfile
  ExitHidesNothing
  PostExitEvidenceIsMarked
  OverrideIsAccountedFor
