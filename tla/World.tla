-------------------------------- MODULE World --------------------------------
(***************************************************************************)
(* The world a simulated robot drives in, as pure operators on a record:   *)
(* the pose, one movable piece (named in the card, materialized late or    *)
(* placed by an event), the island, and the scheduled world events of a    *)
(* test case (_advance_world, _move, the sensor predicates of _Simulator). *)
(* The robot stays on a line and faces one of its two directions; a        *)
(* distance is a number of detection samples.  The default "extension",    *)
(* the "slip_band" and the "displacement" clear rules are modelled; the    *)
(* graze push, a prototype no card enables, is not.                        *)
(***************************************************************************)
EXTENDS Integers, Sequences, SequencesExt

CONSTANTS
    Field,          \* the card's island is -Field..Field
    Deep,           \* how far behind the robot a placed island extends
    Reach,          \* how far the front eye sees
    Mount,          \* the bumper and the down eye are this far ahead of the centre
    Radius,         \* body radius of the piece
    Pin,            \* Radius plus half the robot's width: where a pushed piece rests
    BodyReach,      \* contact distance of a main-simulation run
    Ring,           \* width of the red ring inside a placed edge
    Bar, Margin, Displacement   \* the thresholds of the three clear rules

ASSUME WorldAssumption ==
    /\ {Field, Deep, Reach, Mount, Radius, BodyReach, Ring, Bar, Margin, Displacement} \subseteq Nat
    /\ Pin \in Nat \ {0}

Never == -1                      \* of a step that has not come
Nowhere == -1000                 \* of an edge or a placement that is not there

Sign(d) == IF d < 0 THEN -1 ELSE 1
Apart(x, y) == IF x < y THEN y - x ELSE x - y

\* How far x is from the stretch between a and b.
OffSegment(a, b, x) ==
    CASE x < Min({a, b}) -> Min({a, b}) - x
      [] x > Max({a, b}) -> x - Max({a, b})
      [] OTHER -> 0

Outside(w, x) == OffSegment(w.lo, w.hi, x)
DepthInside(w, x) == Min({Apart(x, w.lo), Apart(x, w.hi)})

\* A card: [push, rule, late, at, events], `late` the step from which the piece
\* is there and `at` where: a position, or so far ahead of the robot if it is late.
NewWorld(c) ==
    [pos |-> 0, hd |-> 1, step |-> 0, lo |-> -Field, hi |-> Field, exits |-> FALSE,
     edge |-> Nowhere, out |-> 1,
     piece |-> IF c.at = Nowhere THEN "none" ELSE IF c.late > 0 THEN "pending" ELSE "live",
     px |-> IF c.at = Nowhere \/ c.late > 0 THEN 0 ELSE c.at,
     start |-> IF c.at = Nowhere \/ c.late > 0 THEN 0 ELSE c.at,
     contact |-> Never, cleared |-> Never,
     waiting |-> c.events, placed |-> <<>>]

-----------------------------------------------------------------------------
\* _advance_world, once per executed block: late pieces, then world events.

MaterializedAt(w, x) == [w EXCEPT !.piece = "live", !.px = x, !.start = x]
ActivatePieces(c, w) ==
    IF w.piece = "pending" /\ w.step >= c.late THEN MaterializedAt(w, w.pos + w.hd * c.at) ELSE w

\* Each fired edge remembers how close the robot has been to it, at the grain of
\* executed blocks; `placed` holds [id, edge, near] in the order of firing.
Closer(p, x) ==
    IF p.edge = Nowhere THEN p ELSE [p EXCEPT !.near = Min({@, Apart(x, p.edge)})]
Approached(w) == [w EXCEPT !.placed = [i \in DOMAIN @ |-> Closer(@[i], w.pos)]]

\* Mutant: the distance to the edge is taken for the retreat from it.
FarFromEdge(w, e, p) ==
    \/ e.retreat = Never
    \/ p.edge # Nowhere /\ Apart(w.pos, p.edge) >= e.retreat

\* Never and Nowhere stand for what an event does not say.  `at: activation` is a step by
\* now: the harness resolves it.
EventType ==
    {e \in [id : STRING, at : Int, after : STRING, retreat : {Never} \cup (Nat \ {0}),
            ahead : {Nowhere} \cup Nat, piece : Int] : e.retreat # Never => e.after # ""}
Retreated(w, e, p) ==
    \/ e.retreat = Never
    \/ p.edge # Nowhere /\ Apart(w.pos, p.edge) - p.near >= e.retreat
EventReady(w, e) ==
    /\ e.after # "" => \E p \in Range(w.placed) : p.id = e.after /\ Retreated(w, e, p)
    /\ IF e.at = Never THEN e.after # "" ELSE w.step >= e.at

\* The new island has its edge `ahead` of the robot and the robot inside.
PlaceBoundary(w, ahead) ==
    LET edge == w.pos + w.hd * ahead
        back == w.pos - w.hd * Deep
    IN  [w EXCEPT !.lo = Min({edge, back}), !.hi = Max({edge, back}),
                  !.edge = edge, !.out = w.hd]
FireEvent(w, e) ==
    LET island == IF e.ahead = Nowhere THEN w ELSE PlaceBoundary(w, e.ahead)
        pieces == IF e.piece = Nowhere THEN island
                  ELSE MaterializedAt(island, w.pos + w.hd * e.piece)
    IN  [pieces EXCEPT !.placed =
            Append(@, IF e.ahead = Nowhere THEN [id |-> e.id, edge |-> Nowhere, near |-> 0]
                      ELSE [id |-> e.id, edge |-> island.edge, near |-> e.ahead])]

\* The events in card order; each sees the world the one before it left.
FireOrWait(w, e) ==
    IF EventReady(w, e) THEN FireEvent(w, e) ELSE [w EXCEPT !.waiting = Append(@, e)]
FireEvents(w) ==
    LET fired[i \in 0..Len(w.waiting)] ==
            IF i = 0 THEN [Approached(w) EXCEPT !.waiting = <<>>]
            ELSE FireOrWait(fired[i - 1], w.waiting[i])
    IN  fired[Len(w.waiting)]
AdvanceWorld(c, w) ==
    LET v == ActivatePieces(c, w) IN IF v.waiting = <<>> THEN v ELSE FireEvents(v)

-----------------------------------------------------------------------------
\* What the sensors say.  A cleared or pending piece is seen by none.

EyeSees(w) == w.piece = "live" /\ w.hd * (w.px - w.pos) \in 1..Reach
BumperPressed(w) == w.piece = "live" /\ Apart(w.px, w.pos + w.hd * Mount) <= Radius
RingSeen(w) ==
    LET eye == w.pos + w.hd * Mount
    IN  \/ w.piece = "live" /\ Apart(w.px, eye) <= Radius
        \/ w.edge # Nowhere /\ w.out * (w.edge - eye) \in 0..Ring

-----------------------------------------------------------------------------
\* _move without the hats: the displacement and what it does to the world.

ClearRules == {"extension", "slip_band", "displacement"}
IsCleared(c, w, x) ==
    CASE c.rule = "extension" -> Outside(w, x) >= Bar
      [] c.rule = "slip_band" -> Outside(w, x) > 0 \/ DepthInside(w, x) <= Margin
      [] c.rule = "displacement" -> Apart(x, w.start) >= Displacement

\* Mutant: the piece is pinned to the front of a robot that backs into it.
PinnedToFront(w, sign) == w.pos + w.hd * Pin

\* The kinematic push: a piece the advancing body reaches stays pinned in the
\* direction of travel, and is gone for good once the clear rule says so.
PinnedAt(w, sign) == w.pos + sign * w.hd * Pin
Pushes(c, w, from) ==
    /\ c.push /\ w.piece = "live"
    /\ OffSegment(from, w.pos, w.px) <= Pin
    /\ (w.pos - from) * (w.px - from) > 0
Push(c, w, from, sign) ==
    LET x == PinnedAt(w, sign)
    IN  IF ~Pushes(c, w, from) THEN w
        ELSE [w EXCEPT !.px = x,
                       !.contact = IF @ = Never THEN w.step ELSE @,
                       !.piece = IF IsCleared(c, w, x) THEN "cleared" ELSE @,
                       !.cleared = IF IsCleared(c, w, x) THEN w.step ELSE @]

\* Any part of the drive within reach of the body is its first contact.
Contact(c, w, from) ==
    IF /\ w.piece = "live" /\ w.contact = Never
       /\ OffSegment(from, w.pos, w.px) <= (IF c.push THEN Pin ELSE BodyReach)
    THEN [w EXCEPT !.contact = w.step] ELSE w

Driven(c, w, d) ==
    LET moved == [w EXCEPT !.pos = @ + w.hd * d]
        left == [moved EXCEPT !.exits = @ \/ Outside(w, moved.pos) > 0]
        after == Contact(c, Push(c, left, w.pos, Sign(d)), w.pos)
    IN  [after EXCEPT !.step = @ + 1]

Turned(w) == [w EXCEPT !.hd = -@, !.step = @ + 1]
Stopped(w) == [w EXCEPT !.step = @ + 1]
=============================================================================
