------------------------------ MODULE Timeline ------------------------------
(***************************************************************************)
(* timeline(): the moments at which each indicator's rung changes, found   *)
(* by one scanner per indicator on the FULL path and split at the boundary *)
(* exit afterwards.  An event's step counts recorded moves: 0 is the       *)
(* origin pseudo-step, i the i-th entry of the path.                       *)
(***************************************************************************)
EXTENDS ProfileScore

\* _no_evidence_rung
StartRung(name) == CASE name = "plow_approach_intent" -> Len(ReachEdges)
                     [] name = "plow_proximity_execution" -> 2
                     [] OTHER -> 0

Event(at, name, from, to) == [at |-> at, name |-> name, from |-> from, to |-> to]

\* A running minimum, rung by rung: an event wherever the rung is another one.
RungChanges(name, rungs, last) ==
    {Event(i, name, IF i = 0 THEN StartRung(name) ELSE rungs[i - 1], rungs[i]) :
        i \in {j \in 0..last : rungs[j] # IF j = 0 THEN StartRung(name) ELSE rungs[j - 1]}}

\* The least of the distances so far, where None was not measured.
RunningMinimum(distance) ==
    LET running[i \in DOMAIN distance] ==
            IF i = 0 THEN distance[0]
            ELSE LET d == distance[i]
                     prev == running[i - 1]
                 IN  IF d # None /\ (prev = None \/ d < prev) THEN d ELSE prev
    IN  running

Reaches(running) == [i \in DOMAIN running |-> LowerIsBetter(ReachEdges, running[i])]

\* Mutant: only the recorded positions are measured.
ScanWaypoints(sim) ==
    LET n == Len(sim.path)
        distance == [i \in 0..n |-> SegmentDistance(Position(sim, i), Position(sim, i), Plow)]
    IN  RungChanges("plow_approach_intent", Reaches(RunningMinimum(distance)), n)

\* _scan_min_distance: origin-seeded
MoveDistance(sim, i) ==
    LET from == IF i = 0 THEN Spawn ELSE Position(sim, i - 1)
    IN  SegmentDistance(from, Position(sim, i), Plow)
ScanMinDistance(sim) ==
    LET n == Len(sim.path)
        distance == [i \in 0..n |-> MoveDistance(sim, i)]
    IN  RungChanges("plow_approach_intent", Reaches(RunningMinimum(distance)), n)

\* _scan_attachment_clearance: over the armed entries, the first of them by its own
\* position
IsArmed(sim, i) == sim.magnet # None /\ i > 0 /\ sim.path[i].step >= sim.magnet
ArmedMove(sim, i) ==
    LET from == IF IsArmed(sim, i - 1) THEN sim.path[i - 1].x ELSE sim.path[i].x
    IN  IF IsArmed(sim, i) THEN SegmentDistance(from, sim.path[i].x, Plow) ELSE None
Attaches(running) ==
    [i \in DOMAIN running |-> IF running[i] = None THEN 2
                              ELSE LowerIsBetter(<<AttachGap>>, running[i])]
ScanAttachment(sim) ==
    LET n == Len(sim.path)
        distance == [i \in 0..n |-> ArmedMove(sim, i)]
    IN  RungChanges("plow_proximity_execution", Attaches(RunningMinimum(distance)), n)

(***************************************************************************)
(* _scan_region_coverage: for each edge the final coverage reaches, binary *)
(* search for the first prefix that reaches it.                            *)
(***************************************************************************)
\* Mutant: every prefix is asked for the final coverage.
FinalCoverage(sim, k) == Cardinality(sim.cells)

\* cov_at: the final coverage comes from the simulator, the others from _prefix_coverage
CoverageAt(sim, k) == IF k = Len(sim.path) THEN Cardinality(sim.cells)
                      ELSE Cardinality(PrefixCells(sim, k))

FirstPrefix(sim, edge) ==
    LET n == Len(sim.path)
        search[range \in (1..n) \X (1..n)] ==
            LET lo == range[1]
                hi == range[2]
                mid == (lo + hi) \div 2
            IN  IF lo >= hi THEN lo
                ELSE IF CoverageAt(sim, mid) >= edge THEN search[<<lo, mid>>]
                                                     ELSE search[<<mid + 1, hi>>]
    IN  search[<<1, n>>]

ScanRegionCoverage(sim) ==
    {Event(FirstPrefix(sim, CoverEdges[e]), "debris_zone_coverage", e - 1, e) :
        e \in {f \in 1..Len(CoverEdges) :
                  sim.path # <<>> /\ Cardinality(sim.cells) >= CoverEdges[f]}}

\* _scan_constant: at the origin for code, at the last scored move otherwise
ScoredLast(sim) == Len(ScoredSim(sim).path)
ScanConstant(name, sim) ==
    LET i == Profile(sim)[name]
    IN  IF i.abstained \/ i.rung = StartRung(name) THEN {}
        ELSE {Event(IF i.channel = "code" THEN 0 ELSE ScoredLast(sim), name, StartRung(name), i.rung)}

\* _SCANNERS
Scanned == {"plow_approach_intent", "plow_proximity_execution", "debris_zone_coverage"}
Events(name, sim) ==
    CASE name = "plow_approach_intent" -> ScanMinDistance(sim)
      [] name = "plow_proximity_execution" -> ScanAttachment(sim)
      [] name = "debris_zone_coverage" -> ScanRegionCoverage(sim)
      [] OTHER -> ScanConstant(name, sim)

\* timeline_result: events after the exit are fiction, unless the outcome overrides it
MainEvents(name, sim) == {e \in Events(name, sim) : e.at <= ScoredLast(sim)}
=============================================================================
