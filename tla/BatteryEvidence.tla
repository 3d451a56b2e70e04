-------------------------- MODULE BatteryEvidence --------------------------
(***************************************************************************)
(* What one scenario of the battery says of a program, read from the run   *)
(* the simulator recorded: the edge encounters of the stays_on_island      *)
(* check, and the rubric evidence (scenario_evidence): when the robot      *)
(* failed, its entries into the band along the edge, its retreats, and the *)
(* seams of its behaviour in their order.                                  *)
(*                                                                         *)
(* A run is a record [w, path, log, shown, detect]: the world it ended in, *)
(* its rows [step, x, hd], the world events [step, id, edge] that fired,   *)
(* the first step of piece_position_trace and the step at which a sensor   *)
(* first saw the piece.  Rows are block endpoints, so every scan walks the *)
(* densified path; the robot's line is cut into samples already.           *)
(***************************************************************************)
EXTENDS World, TLC

CONSTANTS
    Band,       \* band_mm + eye_reach_mm: this near an edge is an encounter
    Retreat,    \* this far from it again, on the island, ends one
    Grace,      \* how far over the edge is not a fall yet
    ClearBar,   \* post_clear_bar_mm
    Within      \* encounter_within_mm

ASSUME RulesAssumption ==
    /\ {Band, Retreat, Grace, ClearBar, Within} \subseteq Nat
    /\ Grace < Band /\ Band < Retreat /\ Band <= Within

-----------------------------------------------------------------------------
\* The densified walk, from the pose before the first block.  A sample has the
\* step of the row its segment starts at, the origin that of the first row.
Segment(a, b) == [k \in 1..Max({1, Apart(a.x, b.x)}) |->
                    [step |-> a.step, x |-> a.x + Sign(b.x - a.x) * (k - 1)]]
WalkFrom(points) ==
    FlattenSeq([i \in 1..Len(points) - 1 |-> Segment(points[i], points[i + 1])])
    \o <<points[Len(points)]>>
DenseSamples(run) ==
    WalkFrom(<<[step |-> 0, x |-> 0]>> \o
             [i \in DOMAIN run.path |-> [step |-> run.path[i].step, x |-> run.path[i].x]])

\* A fold along a sequence, by its index.
Scan(Step(_, _), base, seq) ==
    LET after[i \in 0..Len(seq)] == IF i = 0 THEN base ELSE Step(after[i - 1], seq[i])
    IN  after[Len(seq)]

\* _edges: the placed ones, or else the island's own
Edges(run) ==
    LET placed == {e.edge : e \in Range(run.log)} \ {Nowhere}
    IN  IF placed # {} THEN placed ELSE {run.w.lo, run.w.hi}
\* What a scan reads at a sample: the distance to the edges, and is it on the island?
Measured(run, walk) ==
    LET edges == Edges(run)
        distance(x) == Apart(x, CHOOSE e \in edges : \A f \in edges : Apart(x, e) <= Apart(x, f))
    IN  [i \in DOMAIN walk |->
            [step |-> walk[i].step, d |-> distance(walk[i].x), inside |-> Outside(run.w, walk[i].x) = 0]]

-----------------------------------------------------------------------------
(***************************************************************************)
(* The check: episodes [entry, over, survived] of the whole walk.          *)
(***************************************************************************)
\* The walk without its first segment.
WalkOfRows(run) ==
    IF run.path = <<>> THEN <<>> ELSE
    WalkFrom([i \in DOMAIN run.path |-> [step |-> run.path[i].step, x |-> run.path[i].x]])

NoEpisode == [in |-> FALSE, fresh |-> TRUE, entry |-> Never, over |-> 0, done |-> <<>>]
Episode(st) == [entry |-> st.entry, over |-> st.over, survived |-> st.over <= Grace]

\* Mutant: every time the robot comes near counts.
ComesNear(st, s) == ~st.in /\ s.d <= Band
\* Into the band, and not since a full retreat.
Enters(st, s) == ~st.in /\ s.d <= Band /\ st.fresh

EpisodeStep(st, s) ==
    LET over == IF s.inside THEN 0 ELSE s.d
        now == IF Enters(st, s)
               THEN [st EXCEPT !.in = TRUE, !.fresh = FALSE, !.entry = s.step, !.over = over]
               ELSE [st EXCEPT !.over = IF over > @ THEN over ELSE @]
    IN  IF ~now.in THEN st
        ELSE IF s.inside /\ s.d >= Retreat
             THEN [now EXCEPT !.in = FALSE, !.fresh = TRUE, !.done = Append(@, Episode(now))]
             ELSE now

EpisodesOf(run, walk) ==
    LET end == Scan(EpisodeStep, NoEpisode, Measured(run, walk))
    IN  IF end.in THEN Append(end.done, Episode(end)) ELSE end.done

\* Mutant: the walk starts at the end of the first block.
EpisodesFromRows(run) == EpisodesOf(run, WalkOfRows(run))
EdgeEncounterEpisodes(run) == EpisodesOf(run, DenseSamples(run))

-----------------------------------------------------------------------------
(***************************************************************************)
(* The failure, and the window before it.                                  *)
(***************************************************************************)
ExitStep(run) ==
    LET walk == DenseSamples(run)
        out == {i \in DOMAIN walk : Outside(run.w, walk[i].x) > Grace}
    IN  IF run.path = <<>> \/ out = {} THEN Never ELSE walk[Min(out)].step

\* Mutant: nothing is cut off.
EveryStep(run, step) == TRUE
InWindow(run, step) == ExitStep(run) = Never \/ step <= ExitStep(run)

\* The first path index past the window; the window holds one row at least.
WindowEnd(run) ==
    LET past == {i \in DOMAIN run.path : ~InWindow(run, run.path[i].step)}
    IN  IF past = {} THEN Len(run.path) + 1 ELSE Max({2, Min(past)})

\* From here on the program is tested: the first world event, or the first entry of
\* the trace of piece positions, or the start.
Onset(run) == IF run.log # <<>> THEN run.log[1].step
              ELSE IF run.shown # Never THEN run.shown ELSE 0

\* The samples that count.  A run without a row is not looked at.
Watched(run) ==
    IF run.path = <<>> THEN <<>>
    ELSE LET onset == Onset(run)
             exit == ExitStep(run)
         IN  Scan(LAMBDA kept, s : IF s.step >= onset /\ (exit = Never \/ s.step <= exit)
                                   THEN Append(kept, s) ELSE kept,
                  <<>>, Measured(run, DenseSamples(run)))

-----------------------------------------------------------------------------
(***************************************************************************)
(* Entries into the band, separated by full retreats, and whether there    *)
(* was one.  A retreat counts only on the island.                          *)
(***************************************************************************)
BackInside(s) == s.d >= Retreat /\ s.inside

EntryStep(st, s) ==
    LET enters == Enters(st, s)
        in == enters \/ (st.in /\ s.d <= Band)
        count == IF enters THEN st.entries + 1 ELSE st.entries
        back == ~in /\ count > 0 /\ BackInside(s)
    IN  [in |-> in, entries |-> count, fresh |-> ~enters /\ (st.fresh \/ back),
         corrective |-> st.corrective \/ back]
EntryScan(run) ==
    Scan(EntryStep, [in |-> FALSE, entries |-> 0, fresh |-> TRUE, corrective |-> FALSE], Watched(run))

Entries(run) == EntryScan(run).entries
\* corrective_response_present: not evaluated without an entry
Corrective(run) ==
    LET scan == EntryScan(run)
    IN  CASE scan.entries = 0 -> ""
          [] scan.entries # 0 /\ scan.corrective -> "True"
          [] OTHER -> "False"

-----------------------------------------------------------------------------
(***************************************************************************)
(* The seams [step, kind], sorted by step and then by the kind's name.     *)
(***************************************************************************)
Names == <<"acquire", "boundary", "clear", "engage", "loss", "recovery", "retreat">>
Rank(kind) == CHOOSE i \in DOMAIN Names : Names[i] = kind
TaskKinds == {"acquire", "engage", "clear", "loss", "recovery"}

\* Boundary and retreat seams come from a walk of their own.
EdgeSeamStep(st, s) ==
    IF ~st.in /\ s.d <= Band
    THEN [in |-> TRUE, seams |-> Append(st.seams, [step |-> s.step, kind |-> "boundary"])]
    ELSE IF st.in /\ BackInside(s)
         THEN [in |-> FALSE, seams |-> Append(st.seams, [step |-> s.step, kind |-> "retreat"])]
         ELSE st
EdgeSeams(run) == Scan(EdgeSeamStep, [in |-> FALSE, seams |-> <<>>], Watched(run)).seams

Seam(run, kind, step) ==
    IF step # Never /\ InWindow(run, step) THEN <<[step |-> step, kind |-> kind]>> ELSE <<>>
SinceOnset(run, kind, step) == IF step >= Onset(run) THEN Seam(run, kind, step) ELSE <<>>
RecoverySeams(run) ==
    FlattenSeq([i \in DOMAIN run.log |->
                  IF run.log[i].edge = Nowhere THEN Seam(run, "recovery", run.log[i].step) ELSE <<>>])

\* The place of the i-th seam in a stable sort.
Before(a, b) == a.step < b.step \/ (a.step = b.step /\ Rank(a.kind) < Rank(b.kind))
Place(s, i) ==
    Cardinality({j \in DOMAIN s : Before(s[j], s[i]) \/ (~Before(s[i], s[j]) /\ j <= i)})
Ordered(s) == [k \in DOMAIN s |-> s[CHOOSE i \in DOMAIN s : Place(s, i) = k]]

Seams(run) ==
    IF run.path = <<>> THEN <<>> ELSE
    Ordered(SinceOnset(run, "acquire", run.detect) \o SinceOnset(run, "engage", run.w.contact)
            \o Seam(run, "clear", run.w.cleared)
            \o (IF run.w.contact # Never THEN Seam(run, "loss", run.w.cleared) ELSE <<>>)
            \o RecoverySeams(run) \o EdgeSeams(run))

\* changes of kind into a task event
TaskTransitions(seams) ==
    Cardinality({i \in 1..Len(seams) - 1 : /\ seams[i].kind # seams[i + 1].kind
                                           /\ seams[i + 1].kind \in TaskKinds})

\* pursuit resumed after a boundary and a retreat
ReturnStep(st, s) ==
    CASE s.kind = "boundary" -> [seen |-> TRUE, pending |-> FALSE, returns |-> st.returns]
      [] s.kind = "retreat" /\ st.seen -> [st EXCEPT !.pending = TRUE]
      [] s.kind \in {"engage", "acquire"} /\ st.pending ->
            [seen |-> st.seen, pending |-> FALSE, returns |-> st.returns + 1]
      [] OTHER -> st
TaskReturns(seams) ==
    Scan(ReturnStep, [seen |-> FALSE, pending |-> FALSE, returns |-> 0], seams).returns

\* correction, reassessment, and a further correction or a task seam
CycleStep(st, s) ==
    CASE s.kind = "retreat" -> [cycles |-> IF st.open THEN st.cycles + 1 ELSE st.cycles,
                                open |-> TRUE]
      [] st.open /\ s.kind \in {"acquire", "engage", "clear", "boundary"} ->
            [cycles |-> st.cycles + 1, open |-> FALSE]
      [] OTHER -> st
ReassessmentCycles(seams) == Scan(CycleStep, [cycles |-> 0, open |-> FALSE], seams).cycles

-----------------------------------------------------------------------------
(***************************************************************************)
(* What the program did once it had cleared the piece: the travel from     *)
(* there to its next turn or reversal, within the card's bar?              *)
(***************************************************************************)
IndexAt(path, step) == LET at == {i \in DOMAIN path : path[i].step >= step}
                       IN  IF at = {} THEN Never ELSE Min(at)
Travel(path, from, to) ==
    Scan(LAMBDA sum, i : sum + Apart(path[i].x, path[i - 1].x), 0,
         [k \in 1..(to - from) |-> from + k])
Changes(path, i) ==
    \/ path[i].hd # path[i - 1].hd
    \/ i < Len(path) /\ (path[i].x - path[i - 1].x) * (path[i + 1].x - path[i].x) < 0
CompletionTriggered(run) ==
    LET from == IF run.w.cleared # Never /\ InWindow(run, run.w.cleared)
                THEN IndexAt(run.path, run.w.cleared) ELSE Never
        changes == {i \in Max({from, 2})..WindowEnd(run) - 1 : Changes(run.path, i)}
    IN  IF from = Never \/ changes = {} THEN ""
        ELSE IF Travel(run.path, from, Min(changes)) <= ClearBar THEN "True" ELSE "False"

-----------------------------------------------------------------------------
(***************************************************************************)
(* The harness around it: whether the run reached what the scenario tests. *)
(***************************************************************************)
PlacedEdges(run) == SelectSeq(run.log, LAMBDA e : e.edge # Nowhere)

\* Mutant: only from the end of the first block after the event.
ApproachOfRows(run) ==
    LET xs == SelectSeq(run.path, LAMBDA p : p.step >= run.log[1].step)
    IN  {OffSegment(xs[i].x, xs[i + 1].x, PlacedEdges(run)[1].edge) : i \in 1..Len(xs) - 1}
\* How close it came to the edge placed first, from the row before the event on.
Approach(run) ==
    LET edge == PlacedEdges(run)[1].edge
        fired == run.log[1].step
        before == SelectSeq(run.path, LAMBDA p : p.step < fired)
        seed == IF before = <<>> THEN 0 ELSE before[Len(before)].x
        xs == <<seed>> \o [i \in 1..Len(run.path) - Len(before) |-> run.path[Len(before) + i].x]
    IN  {OffSegment(xs[i], xs[i + 1], edge) : i \in 1..Len(xs) - 1}
EncounterReached(run) == PlacedEdges(run) # <<>> => \E d \in Approach(run) : d <= Within

\* Why the whole scenario abstains, or "".
Abstention(run, act) ==
    CASE act = Never -> "test_not_activated"
      [] act # Never /\ ~EncounterReached(run) -> "encounter_not_reached"
      [] OTHER -> ""

Proportion(k, n) == [abstained |-> FALSE, reason |-> "", of |-> k, out |-> n]
Abstained(reason) == [abstained |-> TRUE, reason |-> reason, of |-> 0, out |-> 1]

\* edge_encounters_survived: a proportion, or no evidence
StaysOnIsland(run) ==
    LET all == EdgeEncounterEpisodes(run)
    IN  IF all = <<>> THEN Abstained("encounter_not_reached")
        ELSE Proportion(Len(SelectSeq(all, LAMBDA e : e.survived)), Len(all))

\* proportion_cleared of the one piece, behind its event if the card asks for one
ProportionCleared(run, requires) ==
    IF requires # "" /\ ~\E e \in Range(run.log) : e.id = requires
    THEN Abstained("repeat_not_activated")
    ELSE Proportion(IF run.w.cleared = Never THEN 0 ELSE 1, 1)
=============================================================================
