----------------------------- MODULE MCScoredRun -----------------------------
EXTENDS ScoredRun

MCWorld   == 0..8
MCIsland  == 2..6
MCRegion  == 4..8
MCClipped == {5}
MCLengths == {1, 3}
MCReach   == <<0, 1>>
MCCover   == <<1, 2, 3>>
MCParams  == [gps : {None, 1, 2, 5}, stopped : BOOLEAN]
=============================================================================
