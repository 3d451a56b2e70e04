---------------------------- MODULE ProfileScore ----------------------------
(***************************************************************************)
(* Scoring one simulation: which part of it counts (prepare_execution),    *)
(* the indicators and rungs of the goal card, the profile's conditional    *)
(* flags, and the fidelity verdict.  A rung is its position in the card's  *)
(* list of labels; a value that is absent is None.                         *)
(***************************************************************************)
EXTENDS PathTrace

CONSTANTS Island,       \* the positions on the island, tolerance included
          Plow,         \* the plow's position
          ReachEdges,   \* of plow_approach_intent, ascending
          CoverEdges,   \* of debris_zone_coverage, ascending, in cells
          MovedEdge,    \* of robot_moved
          AttachGap,    \* the magnet attaches within this distance of the plow
          Corroborates, \* trajectory_corroboration_mm
          EdgeSlip,     \* off_island_edge_slip_mm
          SameSpot,     \* on_island_xy_mm
          Params        \* playground_params: [gps |-> position or None, stopped |-> BOOLEAN]

\* RungSpec refuses edges that do not ascend; no rung is named for covering nothing.
ASSUME CardAssumption ==
    /\ Plow \in Nat /\ AttachGap \in Int /\ MovedEdge \in Int
    /\ ReachEdges \in Seq(Int)
    /\ CoverEdges \in Seq(Nat \ {0})
    /\ \A i, j \in 1..Len(CoverEdges) : i < j => CoverEdges[i] <= CoverEdges[j]
    /\ Params \subseteq [gps : Nat \cup {None}, stopped : BOOLEAN]

VARIABLES params,       \* of the run that is profiled
          authored      \* which magnet states the code names: 0 none, 1 some, 2 boost

Best(S) == CHOOSE m \in S : \A n \in S : m <= n

(***************************************************************************)
(* RungSpec.evaluate: the shared edge goes to the better bin.              *)
(***************************************************************************)
LowerIsBetter(edges, v) == Best({i \in 1..Len(edges) : v <= edges[i]} \cup {Len(edges) + 1}) - 1
HigherIsBetter(edges, v) == Cardinality({i \in 1..Len(edges) : v >= edges[i]})

Gps == params.gps
OnIsland(p) == p \in Island

(***************************************************************************)
(* prepare_execution: the first recorded position off the island, the      *)
(* outcome override, and the truncated path otherwise.                     *)
(***************************************************************************)
\* _find_boundary_exit: an index into the path, 0 when it never leaves
ExitIndex(sim) == LET off == {i \in 1..Len(sim.path) : ~OnIsland(sim.path[i].x)}
                  IN  IF off = {} THEN 0 ELSE Best(off)

\* _polyline_min_distance, the spawn first
PolylineDistance(sim, p) ==
    Best({SegmentDistance(Spawn, Spawn, p)}
         \cup {SegmentDistance(Position(sim, i - 1), Position(sim, i), p) : i \in 1..Len(sim.path)})

Overridden(sim) ==
    /\ ExitIndex(sim) # 0
    /\ Gps # None /\ OnIsland(Gps)
    /\ PolylineDistance(sim, Gps) <= Corroborates
    /\ ~params.stopped

ScoredSim(sim) == IF ExitIndex(sim) # 0 /\ ~Overridden(sim)
                  THEN Slice(sim, ExitIndex(sim)) ELSE sim

(***************************************************************************)
(* The indicators: [channel, value, rung].  An abstention has no rung.     *)
(***************************************************************************)
Abstain(channel) == [channel |-> channel, value |-> None, rung |-> None, abstained |-> TRUE]
Evidence(channel, value, rung) ==
    [channel |-> channel, value |-> value, rung |-> rung, abstained |-> FALSE]

\* state_active_attachment_clearance: over the entries from the arming on
ArmedEntries(sim) == {i \in 1..Len(sim.path) : sim.path[i].step >= sim.magnet}
ArmedDistance(sim) ==
    LET first == Best(ArmedEntries(sim))
    IN  Best({SegmentDistance(sim.path[first].x, sim.path[first].x, Plow)}
             \cup {SegmentDistance(sim.path[i - 1].x, sim.path[i].x, Plow) : i \in ArmedEntries(sim) \ {first}})
Attachment(sim) ==
    IF sim.magnet = None \/ ArmedEntries(sim) = {}
    THEN Evidence("simulation", None, 2)                  \* absent_label: not_armed
    ELSE Evidence("simulation", ArmedDistance(sim), LowerIsBetter(<<AttachGap>>, ArmedDistance(sim)))

\* displacement_from_spawn: the outcome if there is one, the simulation at lower certainty
Displacement(sim) ==
    LET moved(channel, at) == LET d == SegmentDistance(Spawn, Spawn, at)
                              IN  Evidence(channel, d, HigherIsBetter(<<MovedEdge>>, d))
    IN  IF Gps # None THEN moved("outcome", Gps)
        ELSE moved("simulation", Position(sim, Len(sim.path)))

\* outcome_on_island and sim_on_island, labels unknown, off_island, on_island
Observed == IF Gps = None THEN Abstain("outcome")
            ELSE Evidence("outcome", Gps, IF OnIsland(Gps) THEN 2 ELSE 1)
Simulated(full) == LET rung == IF ExitIndex(full) # 0 THEN 1 ELSE 2
                   IN  Evidence("simulation", rung, rung)

Indicators == {"robot_moved", "magnet_activation_intent", "plow_approach_intent",
               "plow_proximity_execution", "debris_zone_coverage",
               "on_island_observed", "on_island_sim"}

\* REGISTRY[spec.indicator], on the scored simulation and the full one
Indicator(name, scored, full) ==
    CASE name = "robot_moved" -> Displacement(scored)
      [] name = "magnet_activation_intent" -> Evidence("code", authored, authored)
      [] name = "plow_approach_intent" ->
             LET d == PolylineDistance(scored, Plow)
             IN  Evidence("simulation", d, LowerIsBetter(ReachEdges, d))
      [] name = "plow_proximity_execution" -> Attachment(scored)
      [] name = "debris_zone_coverage" ->
             LET n == Cardinality(scored.cells)
             IN  Evidence("simulation", n, HigherIsBetter(CoverEdges, n))
      [] name = "on_island_observed" -> Observed
      [] name = "on_island_sim" -> Simulated(full)

Profile(sim) == [name \in Indicators |-> Indicator(name, ScoredSim(sim), sim)]

\* Mutant: the comparison keeps one entry after the exit.
OneEntryMore(sim) ==
    {name \in Indicators :
        LET whole == Profile(sim)[name]
            cut   == Indicator(name, Slice(sim, ExitIndex(sim) + 1), sim)
        IN  /\ Overridden(sim)
            /\ whole.channel = "simulation" /\ ~whole.abstained
            /\ <<whole.value, whole.rung>> # <<cut.value, cut.rung>>}

(***************************************************************************)
(* _profile: under an override, simulated evidence that the path after the *)
(* exit changed is marked evidence_post_sim_exit.                          *)
(***************************************************************************)
PostSimExit(sim) ==
    {name \in Indicators :
        LET whole == Profile(sim)[name]
            cut   == Indicator(name, Slice(sim, ExitIndex(sim)), sim)
        IN  /\ Overridden(sim)
            /\ whole.channel = "simulation" /\ ~whole.abstained
            /\ <<whole.value, whole.rung>> # <<cut.value, cut.rung>>}

(***************************************************************************)
(* _final_position_fidelity and assess: what the profile says of the       *)
(* simulation next to the robot's last GPS position.  `trouble` stands for *)
(* the execution flags: capped, stalled, sensor, edge_zone or none.        *)
(***************************************************************************)
\* Mutant: the exit counts although the outcome overrode it.
AnyExit(sim) == ExitIndex(sim) # 0

Comparable == Gps # None /\ ~params.stopped
SimOff(sim) == ExitIndex(sim) # 0 /\ ~Overridden(sim)
Agreement(sim) == SimOff(sim) = ~OnIsland(Gps)
PositionError(sim) ==
    IF SimOff(sim) \/ ~OnIsland(Gps) THEN None
    ELSE LET last == Position(sim, Len(sim.path)) IN SegmentDistance(last, last, Gps)

Verdict(sim, trouble) ==
    CASE params.stopped -> "early_stop"
      [] ~params.stopped /\ ~Comparable -> "not_applicable"
      [] Comparable /\ Agreement(sim) /\ PositionError(sim) <= SameSpot -> "agree"
      [] OTHER ->
           IF Overridden(sim) THEN "override"
           ELSE IF trouble \in {"capped", "stalled"} THEN trouble
           ELSE IF ~Agreement(sim) /\ PolylineDistance(sim, Gps) <= EdgeSlip THEN "edge_slip"
           ELSE IF trouble = "none" THEN "UNATTRIBUTED" ELSE trouble
=============================================================================
