----------------------------- MODULE PathTrace -----------------------------
(***************************************************************************)
(* What the simulator records while the robot moves: the path, whose       *)
(* entries are numbered by `step`, and the facts that name a step (a first *)
(* contact, the magnet).  Under the loop clock a continuous motion is      *)
(* integrated in slices too short for an entry each: a slice within the    *)
(* grain of the last one is merged into it.                                *)
(*                                                                         *)
(* The robot lives on a line, so that distances, crossings and coverage    *)
(* are integers; a turn points it the other way.                           *)
(***************************************************************************)
EXTENDS Integers, Sequences, FiniteSets

CONSTANTS Spawn,      \* where the robot starts, heading to the right
          World,      \* the positions a run may reach: bounds the moves
          Piece,      \* a movable target
          Reach,      \* how near the body touches it
          Region,     \* the cells of the region whose coverage is scored
          Clipped,    \* those a move only clips: sampled if it starts or ends there
          Grain,      \* _MARCH_STEP_MM
          Lengths,    \* what one motion or slice travels
          MaxPath     \* bounds the path

None == -1            \* of a step, an anchor, a value: not there

\* The spawn lies outside the scored region (configs/playgrounds/castle_crashers.yaml).
ASSUME SceneAssumption ==
    /\ World \subseteq Nat /\ Spawn \in World \ Region
    /\ Piece \in Nat /\ Lengths \subseteq Nat
    /\ IsFiniteSet(Region)

VARIABLES x, heading, path, step, anchor, cells, contact, magnet

trace == <<x, heading, path, step, anchor, cells, contact, magnet>>

Between(a, b) == IF a <= b THEN a..b ELSE b..a

\* _coverage_cells_for_move: the samples of one move, its two ends among them
SampledCells(a, b) == (Between(a, b) \cap Region) \ (Clipped \ {a, b})

\* _point_segment_dist and _segment_closest: the robot occupies every point of a move.
SegmentDistance(a, b, p) ==
    IF p \in Between(a, b) THEN 0
    ELSE LET Abs(n) == IF n < 0 THEN -n ELSE n
         IN  IF Abs(p - a) < Abs(p - b) THEN Abs(p - a) ELSE Abs(p - b)

TraceInit ==
    /\ x = Spawn /\ heading = 1
    /\ path = <<>> /\ step = 0 /\ anchor = None
    /\ cells = {} /\ contact = None /\ magnet = None

\* _should_coalesce, asked once the slice has been travelled
Coalesces(block, at) ==
    /\ path # <<>>
    /\ anchor # None
    /\ path[Len(path)].block = block
    /\ SegmentDistance(anchor, anchor, at) < Grain

Entry(block, at) == [step |-> step, x |-> at, block |-> block]

\* _record_step of a new entry, and the step counter with it
Record(block, at) == /\ path' = Append(path, Entry(block, at))
                     /\ step' = step + 1

\* _move up to the recording: contact and coverage see every slice.
Travel(n) ==
    LET to == x + heading * n
    IN  /\ to \in World
        /\ x' = to
        /\ cells' = cells \cup SampledCells(x, to)
        /\ contact' = IF contact = None /\ SegmentDistance(x, to, Piece) <= Reach
                      THEN step ELSE contact

\* a blocking drive_for, or the displacement of one of its intervals
Drive(n) ==
    /\ Travel(n)
    /\ Record("drive_for", x')
    /\ anchor' = None
    /\ UNCHANGED <<heading, magnet>>

\* Mutant: the step advances on every slice.
EverySliceCounts(n) ==
    /\ Travel(n)
    /\ step' = step + 1
    /\ IF Coalesces("drive", x')
       THEN path' = [path EXCEPT ![Len(path)].x = x'] /\ UNCHANGED anchor
       ELSE path' = Append(path, Entry("drive", x')) /\ anchor' = x'
    /\ UNCHANGED <<heading, magnet>>

\* one slice of a continuous drive: _emit_marched_step
March(n) ==
    /\ Travel(n)
    /\ IF Coalesces("drive", x')
       THEN /\ path' = [path EXCEPT ![Len(path)].x = x']
            /\ UNCHANGED <<step, anchor>>
       ELSE /\ Record("drive", x')
            /\ anchor' = x'
    /\ UNCHANGED <<heading, magnet>>

\* a turn is recorded where it happens and leaves the anchor alone
Turn ==
    /\ heading' = -heading
    /\ Record("turn", x)
    /\ UNCHANGED <<x, anchor, cells, contact, magnet>>

\* the magnet block: boost arms it once, a second boost does nothing
Boost ==
    /\ magnet = None
    /\ magnet' = step
    /\ Record("magnet", x)
    /\ UNCHANGED <<x, heading, anchor, cells, contact>>

TraceNext ==
    /\ Len(path) < MaxPath
    /\ \/ \E n \in Lengths : Drive(n) \/ March(n)
       \/ Turn
       \/ Boost

(***************************************************************************)
(* A simulation result, and slice_sim_result from the start of the path.   *)
(***************************************************************************)
FullSim == [path |-> path, cells |-> cells, magnet |-> magnet, contact |-> contact]

\* the positions of a result, the spawn first
Position(sim, i) == IF i = 0 THEN Spawn ELSE sim.path[i].x

\* cells covered by the first k moves, measured between the recorded positions (and with the
\* recorded headings: on the plane a turn's entry is sampled at its new heading, where the
\* robot itself samples nothing; on this line a turn covers no cell of its own)
PrefixCells(sim, k) ==
    UNION {SampledCells(Position(sim, i - 1), Position(sim, i)) : i \in 1..k}

InSlice(s, k) == IF s # None /\ s < k THEN s ELSE None

Slice(sim, k) == [path |-> SubSeq(sim.path, 1, k), cells |-> PrefixCells(sim, k),
                  magnet |-> InSlice(sim.magnet, k), contact |-> InSlice(sim.contact, k)]

(***************************************************************************)
(* Merging replaces entries but never shifts them: entry i is the one      *)
(* recorded as step i - 1, and the step that armed the magnet is the       *)
(* magnet's entry.  slice_sim_result compares step numbers with path       *)
(* indices and the indicators select entries by their step; both rest on   *)
(* this.                                                                   *)
(***************************************************************************)
PathIsIndexed ==
    /\ \A i \in 1..Len(path) : path[i].step = i - 1
    /\ step = Len(path)
    /\ magnet # None => path[magnet + 1].block = "magnet"

(***************************************************************************)
(* The recorded positions tell what was covered, or more was: the slices   *)
(* of a merged entry are sampled one by one, the entry as one move.        *)
(***************************************************************************)
Finer == cells # PrefixCells(FullSim, Len(path))

(***************************************************************************)
(* "Every recorded step index stays a valid path index" (_emit_marched_    *)
(* step).  The code breaks it: a contact during a merged slice is recorded *)
(* under the step that has not been emitted.                               *)
(***************************************************************************)
ContactsAreOnThePath == contact # None => contact < Len(path)
=============================================================================
