------------------------------ MODULE Battery ------------------------------
(***************************************************************************)
(* The scenario battery of one program: each scenario is run in its own    *)
(* small world, checked, and turned into a row of rubric evidence, and the *)
(* rows so far give the levels of the rubric and the bands of the goals    *)
(* (run_battery, _battery_rows, rubric_dimensions, banded_rollup).  The    *)
(* program is any sequence of drives, turns and looks; what its code shows *)
(* on its own (its arm alternations, ...) is a choice among Codes.         *)
(***************************************************************************)
EXTENDS BatteryEvidence, RubricCombiner, BatteryRollup

CONSTANTS
    Batteries,      \* [tests, row, caps]: the scenarios, and what the production run
                    \* and the census say of the program
    Codes,          \* [alternations, responds, terminates]
    Lengths,        \* of a drive, forward or back
    MaxBlocks       \* run in a scenario, by its place in the battery
CONSTANT Arena      \* half the width of a featureless arena

CardType ==
    [id : STRING, family : STRING, push : BOOLEAN, rule : ClearRules, late : Nat, at : Int,
     events : Seq(EventType), requires : STRING]
ProductionType ==
    [present : {TRUE}, alternations : Nat, relations : Nat, loops : Nat, controlled : Nat,
     gatedMotion : Nat, calibrated : Nat, specificity : {Blank} \cup Nat, procedures : Nat,
     variables : Nat, reused : Nat]
ASSUME BatteryAssumption ==
    /\ Lengths \subseteq Int /\ Arena \in Nat
    /\ Codes \subseteq [alternations : Nat, responds : BOOLEAN, terminates : BOOLEAN]
    /\ \A b \in Batteries :
          /\ b.tests \in Seq(CardType) /\ b.tests # <<>>
          /\ b.row = NoRow \/ b.row \in ProductionType
          /\ b.caps \in [Dimensions -> Nat]

\* A world has one piece: the card puts it somewhere, or one of its events does
\* (in the cards of the castle only encounter_1 places one, and only where none
\* stood before).
OnePiece(c) ==
    \A i \in DOMAIN c.events : c.events[i].piece # Nowhere =>
        /\ c.at = Nowhere
        /\ \A j \in DOMAIN c.events : c.events[j].piece # Nowhere => j = i
ASSUME OnePieceAssumption ==
    \A b \in Batteries : \A i \in DOMAIN b.tests : OnePiece(b.tests[i])

VARIABLES
    todo,           \* the scenarios left, the present one first
    battery,     \* the battery
    act,            \* the step of the first sensor evaluation, or Never
    sim,            \* the run of the present scenario
    rows,           \* _battery_rows
    results,        \* the results of every check, in order
    survived,       \* `stays`: the proportion of encounters survived, by scenario
    story           \* history: per row, was the robot ever in the band along an edge
                    \* [near], and back from it on the island [back], before it failed
vars == <<todo, battery, act, sim, rows, results, survived, story>>

scenario == Head(todo)
HasEvents(c) == c.events # <<>>

-----------------------------------------------------------------------------
\* _scenario_card: an event card is run in the open arena, and its events that
\* wait for the activation get the step of it.
Resolved(c, step) ==
    [c EXCEPT !.events = [i \in DOMAIN @ |->
        IF @[i].after = "" THEN [@[i] EXCEPT !.at = step] ELSE @[i]]]
ScenarioWorld(c) ==
    IF HasEvents(c) THEN [NewWorld(c) EXCEPT !.lo = -Arena, !.hi = Arena] ELSE NewWorld(c)
Started(c, step) ==
    [w |-> ScenarioWorld(Resolved(c, step)), path |-> <<>>, log |-> <<>>,
     shown |-> Never, detect |-> Never]

\* The scenario is next; only the activation is left to the program.
Begins(c) ==
    /\ act' \in IF HasEvents(c) THEN {0, 1, Never} ELSE {0}
    /\ sim' = Started(c, act')

Init ==
    /\ battery \in Batteries
    /\ todo = battery.tests
    /\ act \in IF HasEvents(todo[1]) THEN {0, 1, Never} ELSE {0}
    /\ sim = Started(todo[1], act)
    /\ rows = <<>>
    /\ results = [check \in {"proportion_cleared", "stays_on_island"} |-> <<>>]
    /\ survived = [s \in {} |-> 0]
    /\ story = <<>>

\* What the world has done by the next block: the events that fire are logged, a
\* piece that comes with them opens the trace of piece positions.
Advanced ==
    LET w == AdvanceWorld(scenario, sim.w)
        fired == SubSeq(w.placed, Len(sim.w.placed) + 1, Len(w.placed))
    IN  [sim EXCEPT !.w = w,
            !.log = @ \o [i \in DOMAIN fired |->
                            [step |-> w.step, id |-> fired[i].id, edge |-> fired[i].edge]],
            !.shown = IF @ = Never /\ w.piece = "live" /\ sim.w.piece # "live" THEN w.step ELSE @]

Shown(run, pushed) == IF run.shown = Never /\ pushed THEN run.w.step ELSE run.shown
Ran(run, w, pushed) ==
    [run EXCEPT !.w = w, !.shown = Shown(run, pushed),
                !.path = Append(@, [step |-> run.w.step, x |-> w.pos, hd |-> w.hd])]

Running == todo # <<>> /\ act # Never /\ Len(sim.path) < MaxBlocks[Len(results["stays_on_island"]) + 1]
Keeps == UNCHANGED <<todo, battery, act, rows, results, survived, story>>

DriveFor(d) ==
    /\ Running
    /\ LET run == Advanced
           w == Driven(scenario, run.w, d)
       IN  sim' = Ran(run, w, Pushes(scenario, [run.w EXCEPT !.pos = w.pos], run.w.pos))
    /\ Keeps

TurnAround ==
    /\ Running
    /\ LET run == Advanced IN sim' = Ran(run, Turned(run.w), FALSE)
    /\ Keeps

\* _note_target_detect, in the world of the block that looks
Sense ==
    /\ Running
    /\ EyeSees(Advanced.w) /\ sim.detect = Never
    /\ sim' = [Advanced EXCEPT !.detect = Advanced.w.step]
    /\ Keeps

-----------------------------------------------------------------------------
\* The end of a scenario: its checks, its row, and the next one.

Activated == HasEvents(scenario) /\ act # Never => sim.log # <<>>
Row(code) ==
    LET seams == Seams(sim)
        traced == IF sim.path = <<>> THEN [alternations |-> 0, responds |-> FALSE, terminates |-> FALSE]
                  ELSE code
    IN  [scenario |-> scenario.id, family |-> scenario.family,
         entries |-> Entries(sim), corrective |-> Corrective(sim),
         transitions |-> TaskTransitions(seams), returns |-> TaskReturns(seams),
         completion |-> CompletionTriggered(sim), cycles |-> ReassessmentCycles(seams),
         alternations |-> traced.alternations, responds |-> traced.responds,
         terminates |-> traced.terminates]

Whole == Abstention(sim, IF HasEvents(scenario) THEN act ELSE 0)
Checked(check) ==
    CASE Whole # "" -> Abstained(Whole)
      [] Whole = "" /\ check = "stays_on_island" -> StaysOnIsland(sim)
      [] Whole = "" /\ check = "proportion_cleared" -> ProportionCleared(sim, scenario.requires)

\* The robot's own story, in the order of its course.
NearThenBack(run) ==
    LET course == DenseSamples(run)
        walk == Measured(run, course)
        failed == {i \in DOMAIN walk : Outside(run.w, course[i].x) > Grace}
        alive == IF failed = {} THEN DOMAIN walk ELSE 1..Min(failed) - 1
        near == {i \in alive : walk[i].d <= Band}
    IN  [near |-> near # {},
         back |-> \E i \in near, j \in alive : i < j /\ BackInside(walk[j])]

\* A scenario whose checks all abstain leaves no row.
EndScenario(code) ==
    /\ todo # <<>> /\ Activated
    /\ results' = [check \in DOMAIN results |-> Append(results[check], Checked(check))]
    /\ IF \A check \in DOMAIN results : Checked(check).abstained THEN UNCHANGED <<rows, survived, story>>
       ELSE /\ rows' = Append(rows, Row(code))
            /\ story' = Append(story, NearThenBack(sim))
            /\ survived' = IF StaysOnIsland(sim).abstained THEN survived
                           ELSE survived @@ (scenario.id :> StaysOnIsland(sim))
    /\ todo' = Tail(todo)
    /\ IF todo' = <<>> THEN act' = Never /\ sim' = sim ELSE Begins(Head(todo'))
    /\ UNCHANGED battery

Next ==
    \/ \E d \in Lengths : DriveFor(d)
    \/ TurnAround \/ Sense
    \/ \E code \in Codes : EndScenario(code)

Spec == Init /\ [][Next]_vars

-----------------------------------------------------------------------------
Levels(rs, stays) == [dim \in Dimensions |-> Level(rs, battery.row, battery.caps, stays, dim)]
CheckOf(goal) == IF goal = "remain_on_island" THEN "stays_on_island" ELSE "proportion_cleared"
Evidence(run) ==
    [entries |-> Entries(run), corrective |-> Corrective(run), seams |-> Seams(run),
     completion |-> CompletionTriggered(run)]
Scored == todo # <<>> /\ Activated /\ Whole = "" /\ sim.path # <<>>

\* "Same encounter definition as the check rule": the check has a fall among its episodes
\* exactly when the evidence has a failure, and a run that was under test from its start and
\* did not fail has as many entries as the check has encounters.
CheckAndEvidenceAgree ==
    Scored =>
        LET episodes == EdgeEncounterEpisodes(sim)
        IN  /\ ExitStep(sim) # Never <=> \E i \in DOMAIN episodes : ~episodes[i].survived
            /\ ExitStep(sim) = Never /\ Onset(sim) = 0 => Len(episodes) = Entries(sim)

\* The seams of the edge are found by a scan of their own that "mirrors the entries scan": as
\* many boundary seams as entries, and a retreat seam exactly when there was a correction.
ScansAgree ==
    Scored =>
        LET seams == EdgeSeams(sim)
            of(kind) == Cardinality({i \in DOMAIN seams : seams[i].kind = kind})
        IN  /\ of("boundary") = Entries(sim)
            /\ Corrective(sim) = "True" <=> of("retreat") > 0
            /\ Corrective(sim) = "False" <=> Entries(sim) > 0 /\ of("retreat") = 0

\* "post-exit events are not creditable behavior": once a block has been run after the one the
\* robot failed in, nothing it does changes the evidence, as long as no event or piece
\* comes to move the onset.
VoidAfterFailure ==
    [][(/\ todo' = todo /\ Scored /\ sim'.log = sim.log /\ sim'.shown = sim.shown
        /\ ExitStep(sim) # Never /\ sim.path[Len(sim.path)].step > ExitStep(sim))
       => Evidence(sim') = Evidence(sim)]_vars

\* A recovery level is earned by what the robot did: above zero only if in some scenario it came
\* back from an edge before it failed, and zero (not U) only if in two scenarios it was at
\* an edge at all, or the census closed the dimension.
RecoveryIsEarned ==
    LET level == Level(rows, battery.row, battery.caps, survived, "recovery")
    IN  /\ level >= 1 => \E i \in DOMAIN story : story[i].back
        /\ level = 0 /\ battery.caps["recovery"] # 0 =>
              Cardinality({i \in DOMAIN story : story[i].near}) >= 2

\* One more scenario never takes a level away, except with counter-evidence: a cue that was not
\* used, or a condition family that was not survived.  No dimension becomes U again.
LevelsFallOnlyOnCounterEvidence ==
    [][rows' # rows =>
         LET grew(f) == BatteryFeatures(rows', survived')[f] > BatteryFeatures(rows, survived)[f]
             was == Levels(rows, survived)
             now == Levels(rows', survived')
         IN  \A dim \in Dimensions :
                now[dim] < was[dim] =>
                   /\ now[dim] # U
                   /\ \/ dim = "task_state_regulation" /\ grew("unchanged")
                      \/ dim = "recovery" /\ grew("unsurvived")]_vars

\* A scenario set aside because the encounter was not reached had none to show.
AbstentionLosesNothing ==
    todo # <<>> /\ Activated /\ Whole = "encounter_not_reached" => Entries(sim) = 0

\* "abstention shrinks the denominator, never zeroes": a test that abstains leaves every band
\* and its certainty as they were.
AbstentionChangesNoBand ==
    [][results' # results =>
         \A goal \in {"clear_debris_zone", "remain_on_island"} :
            LET was == results[CheckOf(goal)]
                now == results'[CheckOf(goal)]
            IN  Last(now).abstained =>
                  GoalBand(goal, now) = [GoalBand(goal, was) EXCEPT !.abstained = @ + 1]]_vars

\* Evidence of an encounter is not lost by what comes after it: in a world that was there from
\* the start, entries into the band and a retreat from it stay what they are.
CreditIsNeverLost ==
    [][Scored /\ ~HasEvents(scenario) /\ todo' = todo =>
          /\ Entries(sim') >= Entries(sim)
          /\ Corrective(sim) = "True" => Corrective(sim') = "True"]_vars
=============================================================================
